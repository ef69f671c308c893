-------------------------- MODULE RegisterProject --------------------------
(***************************************************************************)
(* deploy/register-project.sh: root takes a signed bundle from the staging *)
(* area, moves its payload under the projects root, merges its block into  *)
(* config.yaml, runs install.sh and restarts the bridge.                   *)
(*                                                                         *)
(* The script takes no lock: runs interleave command by command, on the    *)
(* same bundle or on others.  It runs under set -e, with no rollback: a    *)
(* command that fails, or a reboot, ends a run where it is, and the        *)
(* operator starts another.                                                *)
(***************************************************************************)
EXTENDS Naturals

CONSTANTS
    Runs,       \* the executions of the script
    Bundles,    \* the staged bundles, by manifest_id
    Names,      \* the project names
    NameOf,     \* the name in each manifest
    Rejected,   \* bundles whose block passes the script and not config.py
    None,       \* no bundle
    Window,     \* REPLAY_WINDOW_MIN
    Horizon,    \* bound: the clock
    MaxFaults   \* bound: commands that fail, runs that are killed

ASSUME RegisterAssumption ==
    /\ NameOf \in [Bundles -> Names] /\ Rejected \subseteq Bundles /\ None \notin Bundles
    /\ Window \in Nat /\ Horizon \in Nat /\ MaxFaults \in Nat

VARIABLES
    staging,    \* each bundle: staged, moved (no payload/ any more), consumed
    dir,        \* each project directory: its owner, the payloads in it
    config,     \* config.yaml: the bundle whose block each project has
    acl,        \* the projects install.sh has opened to the service
    service,    \* the bridge: its state, the config it loaded
    run,        \* each run: its next command and its shell variables
    adminLog,   \* admin-audit.log: how many outcomes each bundle has
    clock,      \* minutes since the bundles were signed
    faults,
    overlap     \* auxiliary: a config was replaced under a run that was merging

vars == <<staging, dir, config, acl, service, run, adminLog, clock, faults, overlap>>

--------------------------------------------------------------------------

At(p, pc) == run[p].pc = pc
BundleOf(p) == run[p].bundle
Target(p) == NameOf[BundleOf(p)]
Goto(p, pc) == run' = [run EXCEPT ![p].pc = pc]

Emit(b, outcome) == adminLog' = [adminLog EXCEPT ![b][outcome] = @ + 1]

\* fail(): audited, then exit 1.
Fail(p) == Goto(p, "failed") /\ Emit(BundleOf(p), "error")

\* What no command of a run touches.
Quiet == UNCHANGED <<clock, faults>>

\* Pre-flight and verification: the bundle and its payload are there, signed (every
\* bundle here is), for this manifest_id, and not older than the replay window.
Verifiable(b) == staging[b] = "staged" /\ clock <= Window

\* Mutant: a refusal does not say which bundle it is about.
StartUnnamed(p, b) ==
    /\ At(p, "idle")
    /\ IF Verifiable(b)
       THEN /\ run' = [run EXCEPT ![p] = [@ EXCEPT !.pc = "target", !.bundle = b]]
            /\ UNCHANGED adminLog
       ELSE Goto(p, "failed") /\ Emit(b, "error")
    /\ UNCHANGED <<staging, dir, config, acl, service, overlap>> /\ Quiet

Start(p, b) ==
    /\ At(p, "idle")
    /\ IF Verifiable(b)
       THEN /\ run' = [run EXCEPT ![p] = [@ EXCEPT !.pc = "target", !.bundle = b]]
            /\ UNCHANGED adminLog
       ELSE /\ run' = [run EXCEPT ![p] = [@ EXCEPT !.pc = "failed", !.bundle = b]]
            /\ Emit(b, "error")
    /\ UNCHANGED <<staging, dir, config, acl, service, overlap>> /\ Quiet

\* Mutant: whoever owns the directory, the move is skipped.
CheckTargetAnyOwner(p) ==
    /\ At(p, "target")
    /\ run' = [run EXCEPT ![p].skipMv = dir[Target(p)].owner # "absent", ![p].pc = "config"]
    /\ UNCHANGED <<staging, dir, config, acl, service, adminLog, overlap>> /\ Quiet

\* Is the project directory there?  One the developer owns counts as moved already.
CheckTarget(p) ==
    /\ At(p, "target")
    /\ IF dir[Target(p)].owner = "bridge"
       THEN Fail(p)
       ELSE /\ run' = [run EXCEPT ![p].skipMv = dir[Target(p)].owner = "hypn0",
                                  ![p].pc = "config"]
            /\ UNCHANGED adminLog
    /\ UNCHANGED <<staging, dir, config, acl, service, overlap>> /\ Quiet

\* Mutant: a project in the config is taken to be moved as well.
CheckConfigForBoth(p) ==
    /\ At(p, "config")
    /\ LET skipMerge == config[Target(p)] # None
           merge == IF skipMerge THEN "install" ELSE "merge"
       IN  run' = [run EXCEPT ![p].skipMerge = skipMerge,
                              ![p].pc = IF run[p].skipMv \/ skipMerge THEN merge ELSE "move"]
    /\ UNCHANGED <<staging, dir, config, acl, service, adminLog, overlap>> /\ Quiet

\* Is the project in the config?  Its path follows from its name, and only that is compared.
CheckConfig(p) ==
    /\ At(p, "config")
    /\ LET skipMerge == config[Target(p)] # None
           merge == IF skipMerge THEN "install" ELSE "merge"
       IN  run' = [run EXCEPT ![p].skipMerge = skipMerge,
                              ![p].pc = IF run[p].skipMv THEN merge ELSE "move"]
    /\ UNCHANGED <<staging, dir, config, acl, service, adminLog, overlap>> /\ Quiet

\* mv payload/ target: into the directory, when another run has made it by now.
Move(p) ==
    /\ At(p, "move") /\ staging[BundleOf(p)] = "staged"
    /\ staging' = [staging EXCEPT ![BundleOf(p)] = "moved"]
    /\ dir' = [dir EXCEPT ![Target(p)] =
                  [owner |-> IF @.owner = "absent" THEN "bridge" ELSE @.owner,
                   holds |-> @.holds \cup {BundleOf(p)}]]
    /\ Goto(p, "chown")
    /\ UNCHANGED <<config, acl, service, adminLog, overlap>> /\ Quiet

Chown(p) ==
    /\ At(p, "chown")
    /\ dir' = [dir EXCEPT ![Target(p)].owner = "hypn0"]
    /\ Goto(p, IF run[p].skipMerge THEN "install" ELSE "merge")
    /\ UNCHANGED <<staging, config, acl, service, adminLog, overlap>> /\ Quiet

--------------------------------------------------------------------------
(* The merge: the config is read, and replaced by a rename.                *)

\* A config without projects; also: no temporary config.
Empty == [n \in Names |-> None]

\* Mutant: a block of the same name is overwritten.
ReadConfigAnyBlock(p) ==
    /\ At(p, "merge")
    /\ run' = [run EXCEPT ![p].tmp = [config EXCEPT ![Target(p)] = BundleOf(p)],
                          ![p].pc = "swap"]
    /\ UNCHANGED <<staging, dir, config, acl, service, adminLog, overlap>> /\ Quiet

\* The new config goes to a temporary file, unless the name has another block by now.
ReadConfig(p) ==
    /\ At(p, "merge")
    /\ config[Target(p)] \in {None, BundleOf(p)}
    /\ run' = [run EXCEPT ![p].tmp = [config EXCEPT ![Target(p)] = BundleOf(p)],
                          ![p].pc = "swap"]
    /\ UNCHANGED <<staging, dir, config, acl, service, adminLog, overlap>> /\ Quiet

SwapConfig(p) ==
    /\ At(p, "swap")
    /\ config' = run[p].tmp
    /\ run' = [run EXCEPT ![p].tmp = Empty, ![p].pc = "install"]
    /\ overlap' = (overlap \/ \E q \in Runs \ {p} : At(q, "swap"))
    /\ UNCHANGED <<staging, dir, acl, service, adminLog>> /\ Quiet

--------------------------------------------------------------------------
(* install.sh, the restart, the cleanup and the report.                    *)

Configured == {n \in Names : config[n] # None}

\* install.sh opens every configured project to the service, if they are all there.
Install(p) ==
    /\ At(p, "install")
    /\ \A n \in Configured : dir[n].owner # "absent"
    /\ acl' = acl \cup Configured
    /\ Goto(p, "restart")
    /\ UNCHANGED <<staging, dir, config, service, adminLog, overlap>> /\ Quiet

\* Mutant: the service is restarted only for a new block.
RestartIfMerged(p) ==
    /\ At(p, "restart")
    /\ service' = IF run[p].skipMerge THEN service ELSE [service EXCEPT !.state = "starting"]
    /\ Goto(p, "poll")
    /\ UNCHANGED <<staging, dir, config, acl, adminLog, overlap>> /\ Quiet

Restart(p) ==
    /\ At(p, "restart")
    /\ service' = [service EXCEPT !.state = "starting"]
    /\ Goto(p, "poll")
    /\ UNCHANGED <<staging, dir, config, acl, adminLog, overlap>> /\ Quiet

\* is-active: a Type=simple unit is active as soon as it is forked, before it has read
\* its config.  Only a unit that stays down for all ten looks fails the run.
Poll(p) ==
    /\ At(p, "poll")
    /\ \/ service.state # "down" /\ Goto(p, "cleanup") /\ UNCHANGED adminLog
       \/ service.state = "down" /\ Fail(p)
    /\ UNCHANGED <<staging, dir, config, acl, service, overlap>> /\ Quiet

\* Mutant: the bundle may be gone already.
ConsumeAnyway(p) ==
    /\ At(p, "cleanup")
    /\ staging' = [staging EXCEPT ![BundleOf(p)] = "consumed"]
    /\ Goto(p, "report")
    /\ UNCHANGED <<dir, config, acl, service, adminLog, overlap>> /\ Quiet

\* The bundle is renamed and deleted, with whatever is left in it.
Consume(p) ==
    /\ At(p, "cleanup") /\ staging[BundleOf(p)] # "consumed"
    /\ staging' = [staging EXCEPT ![BundleOf(p)] = "consumed"]
    /\ Goto(p, "report")
    /\ UNCHANGED <<dir, config, acl, service, adminLog, overlap>> /\ Quiet

Report(p) ==
    /\ At(p, "report")
    /\ Emit(BundleOf(p), "success")
    /\ Goto(p, "done")
    /\ UNCHANGED <<staging, dir, config, acl, service, overlap>> /\ Quiet

--------------------------------------------------------------------------
(* What ends a run without a word, the service, and time.                  *)

Over == {"idle", "failed", "died", "done"}

\* A command cannot do its work: set -e ends the script, and nothing is audited; the
\* trap removes the temporary config.
Stuck(p) ==
    \/ At(p, "move") /\ staging[BundleOf(p)] # "staged"
    \/ At(p, "merge") /\ config[Target(p)] \notin {None, BundleOf(p)}
    \/ At(p, "cleanup") /\ staging[BundleOf(p)] = "consumed"

Dies(p) ==
    /\ run[p].pc \notin Over
    /\ \/ Stuck(p) /\ UNCHANGED faults
       \/ ~Stuck(p) /\ faults < MaxFaults /\ faults' = faults + 1
    /\ run' = [run EXCEPT ![p].tmp = Empty, ![p].pc = "died"]
    /\ UNCHANGED <<staging, dir, config, acl, service, adminLog, clock, overlap>>

\* main(): the config is validated as a whole; one bad block and there is no bridge.
Boot ==
    /\ service.state = "starting"
    /\ service' = IF \A n \in Configured : config[n] \notin Rejected
                  THEN [state |-> "up", loaded |-> config]
                  ELSE [service EXCEPT !.state = "down"]
    /\ UNCHANGED <<staging, dir, config, acl, run, adminLog, overlap>> /\ Quiet

\* Restart=on-failure.
AutoRestart ==
    /\ service.state = "down"
    /\ service' = [service EXCEPT !.state = "starting"]
    /\ UNCHANGED <<staging, dir, config, acl, run, adminLog, overlap>> /\ Quiet

Tick ==
    /\ clock < Horizon
    /\ clock' = clock + 1
    /\ UNCHANGED <<staging, dir, config, acl, service, run, adminLog, faults, overlap>>

--------------------------------------------------------------------------

\* The developer may already have a directory of one of the names.
Init ==
    /\ staging = [b \in Bundles |-> "staged"]
    /\ dir \in [Names -> {[owner |-> o, holds |-> {}] : o \in {"absent", "hypn0"}}]
    /\ config = Empty /\ acl = {} /\ service = [state |-> "up", loaded |-> Empty]
    /\ run = [p \in Runs |-> [pc |-> "idle", bundle |-> None, skipMv |-> FALSE,
                              skipMerge |-> FALSE, tmp |-> Empty]]
    /\ adminLog = [b \in Bundles |-> [success |-> 0, error |-> 0]]
    /\ clock = 0 /\ faults = 0 /\ overlap = FALSE

Command(p) ==
    \/ \E b \in Bundles : Start(p, b)
    \/ CheckTarget(p) \/ CheckConfig(p) \/ Move(p) \/ Chown(p)
    \/ ReadConfig(p) \/ SwapConfig(p)
    \/ Install(p) \/ Restart(p) \/ Poll(p) \/ Consume(p) \/ Report(p)

Next == (\E p \in Runs : Command(p) \/ Dies(p)) \/ Boot \/ AutoRestart \/ Tick

Spec == Init /\ [][Next]_vars

--------------------------------------------------------------------------
(* Properties.                                                             *)

Blocks == [Names -> Bundles \cup {None}]

PC == Over \cup {"target", "config", "move", "chown", "merge", "swap", "install",
                 "restart", "poll", "cleanup", "report"}

\* The type invariant; a run past the pre-flight has a bundle.
TypeOK ==
    /\ staging \in [Bundles -> {"staged", "moved", "consumed"}]
    /\ dir \in [Names -> [owner : {"absent", "bridge", "hypn0"}, holds : SUBSET Bundles]]
    /\ config \in Blocks
    /\ acl \subseteq Names
    /\ service \in [state : {"up", "starting", "down"}, loaded : Blocks]
    /\ run \in [Runs -> [pc : PC, bundle : Bundles \cup {None}, skipMv : BOOLEAN,
                         skipMerge : BOOLEAN, tmp : Blocks]]
    /\ \A p \in Runs : BundleOf(p) = None <=> At(p, "idle")
    /\ adminLog \in [Bundles -> [success : Nat, error : Nat]]
    /\ clock \in Nat /\ faults \in Nat /\ overlap \in BOOLEAN

\* A project in the config has a directory, and it is the developer's: the bridge never
\* serves a path that is not there, wherever a run died and whoever ran beside it.
ConfiguredIsInstalled ==
    \A n \in Names : config[n] # None => dir[n].owner = "hypn0"

\* A bundle is registered at most once, and then it cannot be replayed: two runs of the
\* same bundle may both get past the verification, only one reports.
RegisteredOnce ==
    \A b \in Bundles : /\ adminLog[b].success <= 1
                       /\ adminLog[b].success = 1 => staging[b] = "consumed"

\* A merge never takes away or replaces the block of another project, also when the
\* config changed after the idempotency check - unless it was replaced between the
\* read and the rename of a merge (there is no lock).
BlocksKept ==
    [][~overlap' => \A n \in Names : config[n] # None => config'[n] = config[n]]_vars

\* What was reported as registered is there to use: directory, block and ACL are in
\* place, and a running bridge has loaded it.
SuccessIsServed ==
    \A b \in Bundles : adminLog[b].success > 0 /\ ~overlap =>
        LET n == NameOf[b]
        IN  /\ dir[n].owner = "hypn0" /\ config[n] # None /\ n \in acl
            /\ service.state = "up" => service.loaded[n] # None

\* The payload of a consumed bundle is in the project directory - nested in it, when two
\* runs raced - or the run that deleted it had found the directory there.
PayloadNotDropped ==
    \A b \in Bundles : staging[b] = "consumed" /\ b \notin dir[NameOf[b]].holds =>
        \E p \in Runs : BundleOf(p) = b /\ run[p].skipMv /\ run[p].pc \in {"report", "done", "died"}

\* "rieseguibile con lo stesso manifest_id. Se siamo a meta' flow [...] ogni step rileva
\* il proprio gia' fatto e skippa, fino a completare" (register-project.sh:46-48): a run
\* of a bundle that is not registered yet, and that no other run works on, is not
\* refused within the replay window.
RerunResumes ==
    [][\A p \in Runs : run[p].pc = "idle" /\ run'[p].pc = "failed" =>
           \/ clock > Window \/ staging[run'[p].bundle] = "consumed"
           \/ \E q \in Runs : BundleOf(q) = run'[p].bundle /\ run[q].pc \notin Over]_vars

--------------------------------------------------------------------------
(* The inductive invariant: what a run knows of the directories and of the *)
(* config when it is about to write the config, and why only one reports.  *)

OwnedBeforeMerge ==
    \A p \in Runs :
        /\ At(p, "merge") \/ (At(p, "config") /\ run[p].skipMv) =>
              dir[Target(p)].owner = "hypn0"
        /\ At(p, "swap") => \A n \in Names : run[p].tmp[n] # None => dir[n].owner = "hypn0"

OneReporter ==
    \A p \in Runs : At(p, "report") =>
        /\ staging[BundleOf(p)] = "consumed" /\ adminLog[BundleOf(p)].success = 0
        /\ \A q \in Runs : At(q, "report") /\ BundleOf(q) = BundleOf(p) => q = p

MergeIsCurrent ==
    ~overlap => \A p \in Runs : At(p, "swap") =>
        \A n \in Names : config[n] # None => run[p].tmp[n] = config[n]

RegisterInv ==
    /\ TypeOK /\ ConfiguredIsInstalled /\ OwnedBeforeMerge
    /\ RegisteredOnce /\ OneReporter /\ MergeIsCurrent

\* What a run that is past a step has seen done, for its own project: the block, the ACL,
\* the bridge that loaded it.  None of it is taken back while no config is replaced
\* under a merge.
Loaded(n) == service.state = "up" => service.loaded[n] # None

ProgressMade(p) ==
    LET n == Target(p)
        pc == run[p].pc
    IN  /\ pc = "swap" => run[p].tmp[n] # None
        /\ pc \in {"move", "chown"} /\ run[p].skipMerge => config[n] # None
        /\ pc \in {"install", "restart", "poll", "cleanup", "report"} => config[n] # None
        /\ pc \in {"restart", "poll", "cleanup", "report"} => n \in acl
        /\ pc \in {"poll", "cleanup", "report"} => Loaded(n)

ServedInv ==
    ~overlap =>
        /\ \A p \in Runs : ProgressMade(p)
        /\ \A b \in Bundles : adminLog[b].success > 0 =>
              config[NameOf[b]] # None /\ NameOf[b] \in acl /\ Loaded(NameOf[b])

\* A payload that has left the staging area is in its directory, and a run past the move
\* that did not skip it leaves none behind.
PayloadInv ==
    /\ \A b \in Bundles : staging[b] = "moved" => b \in dir[NameOf[b]].holds
    /\ \A p \in Runs : ~run[p].skipMv /\
          run[p].pc \in {"chown", "merge", "swap", "install", "restart", "poll", "cleanup"} =>
              staging[BundleOf(p)] # "staged"
    /\ PayloadNotDropped

=============================================================================
