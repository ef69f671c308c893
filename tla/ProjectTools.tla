---------------------------- MODULE ProjectTools ----------------------------
(***************************************************************************)
(* The tools that change a project: write_file and apply_patch             *)
(* (tools/filesystem.py), git_create_branch, git_commit and git_push       *)
(* (tools/git.py), and the four that run a command (tools/execution.py).   *)
(* They work in the developer's own checkout: between any two commands of  *)
(* a tool the developer may save, stage, commit and switch branches, and   *)
(* processes that an earlier command left behind may write files.  Tools   *)
(* never overlap with one another (see BridgeServer).                      *)
(*                                                                         *)
(* The text of a file is the set of pieces written to it; the empty text   *)
(* stands for a file that is not there.  A commit carries the whole tree,  *)
(* and a branch is the sequence of its commits.                            *)
(***************************************************************************)
EXTENDS Naturals, Sequences, FiniteSets

CONSTANTS
    Files,       \* the paths of the project
    Tracked,     \* those in the first commit
    Branches,    \* the names of branches
    Main,        \* the branch there is at first
    Detached,    \* HEAD, when it is on no branch
    MaxCalls,    \* bound: tool calls
    MaxOthers,   \* bound: steps of the developer, the processes, other clones
    MaxFaults    \* bound: git killed or stopped half way, failed writes, crashes

ASSUME ProjectAssumption ==
    /\ Tracked \subseteq Files /\ Main \in Branches /\ Detached \notin Branches
    /\ MaxCalls \in Nat /\ MaxOthers \in Nat /\ MaxFaults \in Nat

VARIABLES
    tree,      \* the working tree
    index,     \* the staged tree
    log,       \* the commits of each branch, none if it does not exist
    head,      \* the branch that is checked out
    remote,    \* the branches of the remote
    procs,     \* processes: the command, a child on its pipes, one left behind
    policy,    \* write_enabled and allow_push of the project
    call,      \* the tool in progress, and its local variables
    answers,   \* what the calls were answered
    used       \* the budgets spent

repo == <<tree, index, log, head, remote>>
vars == <<repo, procs, policy, call, answers, used>>

Piece == [by : {"bridge", "dev", "proc", "torn"}, k : Nat]
Text == SUBSET Piece
Tree == [Files -> Text]
Commit == [by : {"bridge", "dev"}, k : Nat, paths : SUBSET Files, tree : Tree]
Refs == Branches \cup {Detached}

\* What a file holds when its write was cut short.
Torn == {[by |-> "torn", k |-> 0]}

HeadLog == log[head]
TipTree(l) == l[Len(l)].tree
HeadTree == TipTree(HeadLog)

IsPrefixOf(g, h) == Len(g) <= Len(h) /\ \A i \in 1..Len(g) : h[i] = g[i]

--------------------------------------------------------------------------
(* A call begins, and is answered.                                         *)

Idle == call.pc = "idle"
At(pc) == call.pc = pc

\* The local variables: the paths of the call, the text read, the text it is told to
\* replace, the text to write, and the branch.
NoCall == [pc |-> "idle", op |-> "none", paths |-> {}, read |-> {}, old |-> {},
           text |-> {}, name |-> Main]
NewPiece == {[by |-> "bridge", k |-> used.calls]}

\* An answer names the command the tool was at; `late` ones come after a timeout.
Answer(outcome, late) ==
    /\ call' = NoCall
    /\ answers' = answers \cup
          {[k |-> used.calls, op |-> call.op, at |-> call.pc, outcome |-> outcome,
            late |-> late, name |-> call.name,
            hist |-> IF call.op = "push" THEN HeadLog ELSE <<>>]}

\* How arguments that are not valid are refused: a path that leaves the project is denied,
\* one of no text file is an error; so is a name that git does not take; a command of the
\* deny list, or not of the whitelist, is denied, and one that is not found is an error.
PathRefusals == {"denied", "error"}
NameRefusals == {"error"}
CommandRefusals == {"denied", "error"}

\* A tool starts on a project where it is `allowed`, or its arguments are refused; on any
\* other project it is denied.
Begin(allowed, refusals, pc, op, paths, name) ==
    /\ Idle /\ used.calls < MaxCalls
    /\ used' = [used EXCEPT !.calls = @ + 1]
    /\ \/ /\ allowed
          /\ call' = [NoCall EXCEPT !.pc = pc, !.op = op, !.paths = paths, !.name = name,
                                    !.text = NewPiece']
          /\ UNCHANGED answers
       \/ /\ \E outcome \in IF allowed THEN refusals ELSE {"denied"} :
                answers' = answers \cup
                   {[k |-> used'.calls, op |-> op, at |-> call.pc, outcome |-> outcome,
                     late |-> FALSE, name |-> name, hist |-> <<>>]}
          /\ UNCHANGED call
    /\ UNCHANGED policy

Goto(pc) == call' = [call EXCEPT !.pc = pc] /\ UNCHANGED answers

\* What the steps of a tool leave alone.
Same == UNCHANGED <<procs, policy, used>>

Fault == used.faults < MaxFaults /\ used' = [used EXCEPT !.faults = @ + 1]

\* Any command of a tool may refuse, for reasons of its own.
Refused(pc) == At(pc) /\ Answer("error", FALSE) /\ UNCHANGED repo /\ Same

--------------------------------------------------------------------------
(* write_file and apply_patch.                                             *)

\* A file that is not there is an error, unless the client said create=True.
StartWrite ==
    /\ \E f \in Files : Begin(policy.write, PathRefusals, "write", "write", {f}, Main)
    /\ UNCHANGED <<repo, procs>>

StartPatch ==
    /\ \E f \in Files : Begin(policy.write, PathRefusals, "read", "patch", {f}, Main)
    /\ UNCHANGED <<repo, procs>>

\* Mutant: the new text takes the place of the whole file.
ReadFileForPiece ==
    /\ At("read")
    /\ \E f \in call.paths : \E p \in tree[f] :
          call' = [call EXCEPT !.pc = "write", !.read = tree[f], !.old = {p}]
    /\ UNCHANGED <<repo, answers>> /\ Same

\* The file is read, and `old` replaced in what was read.
ReadFile ==
    /\ At("read")
    /\ \E f \in call.paths : \E p \in tree[f] :
          call' = [call EXCEPT !.pc = "write", !.read = tree[f], !.old = {p},
                               !.text = (tree[f] \ {p}) \cup @]
    /\ UNCHANGED <<repo, answers>> /\ Same

Overwritten(text) == [f \in Files |-> IF f \in call.paths THEN text ELSE tree[f]]

\* write_bytes: the file is truncated and written, without a temporary file.
WriteBytes ==
    /\ At("write")
    /\ tree' = Overwritten(call.text)
    /\ Answer("ok", FALSE)
    /\ UNCHANGED <<index, log, head, remote>> /\ Same

\* The disk is full: the file stays truncated.
WriteFails ==
    /\ At("write") /\ Fault
    /\ tree' = Overwritten(Torn)
    /\ Answer("error", FALSE)
    /\ UNCHANGED <<index, log, head, remote, procs, policy>>

--------------------------------------------------------------------------
(* The git commands the tools run, by their effect.  Git is not part of    *)
(* the repository: these are modelled from the arguments git.py gives it.  *)

Picked(base, paths) == [f \in Files |-> IF f \in paths THEN tree[f] ELSE base[f]]

\* For a mutant: add -A
GitAddAll ==
    /\ index' = tree
    /\ UNCHANGED <<tree, log, head, remote>>

\* add -- paths
GitAdd(paths) ==
    /\ \A f \in paths : tree[f] # {} \/ index[f] # {}
    /\ index' = Picked(index, paths)
    /\ UNCHANGED <<tree, log, head, remote>>

Append1(b, c) == log' = [log EXCEPT ![b] = Append(@, c)]

\* For a mutant: commit -m msg, of all that is staged
GitCommitIndex(paths) ==
    /\ index # HeadTree
    /\ Append1(head, [by |-> "bridge", k |-> used.calls, paths |-> paths, tree |-> index])
    /\ UNCHANGED <<tree, index, head, remote>>

\* commit -m msg -- paths: of the paths, what the working tree has now; of the others,
\* what HEAD has.
GitCommit(paths) ==
    /\ \A f \in paths : index[f] # {} \/ HeadTree[f] # {}
    /\ Picked(HeadTree, paths) # HeadTree
    /\ Append1(head, [by |-> "bridge", k |-> used.calls, paths |-> paths,
                      tree |-> Picked(HeadTree, paths)])
    /\ index' = Picked(index, paths)
    /\ UNCHANGED <<tree, head, remote>>

\* The branch is made, or reset, and checked out.
GitCheckoutReset(b) ==
    /\ log' = [log EXCEPT ![b] = HeadLog]
    /\ head' = b
    /\ UNCHANGED <<tree, index, remote>>

\* checkout -b name
GitCheckoutNew(b) == log[b] = <<>> /\ GitCheckoutReset(b)

\* The branch of the remote is replaced.
GitPushForced(b) ==
    /\ remote' = [remote EXCEPT ![b] = HeadLog]
    /\ UNCHANGED <<tree, index, log, head>>

\* push origin HEAD:b
GitPush(b) == IsPrefixOf(remote[b], HeadLog) /\ GitPushForced(b)

--------------------------------------------------------------------------
(* git_create_branch, git_commit, git_push.                                *)

StartBranch ==
    /\ \E b \in Branches : Begin(policy.write, NameRefusals, "verify", "branch", {}, b)
    /\ UNCHANGED <<repo, procs>>

\* rev-parse --verify, and then HEAD
CheckBranch ==
    /\ At("verify")
    /\ IF log[call.name] # <<>> THEN Answer("error", FALSE) ELSE Goto("checkout")
    /\ UNCHANGED repo /\ Same

Checkout == At("checkout") /\ GitCheckoutNew(call.name) /\ Answer("ok", FALSE) /\ Same

StartCommit ==
    /\ \E paths \in SUBSET Files \ {{}} :
          Begin(policy.write, PathRefusals, "add", "commit", paths, Main)
    /\ UNCHANGED <<repo, procs>>

\* Mutant: add -A.
AddAll == At("add") /\ GitAddAll /\ Goto("commit") /\ Same

\* Mutant: the commit is not given the paths.
CommitAll == At("commit") /\ GitCommitIndex(call.paths) /\ Goto("report") /\ Same

\* Mutant: the exit code of git commit is not looked at.
CommitUnchecked ==
    /\ At("commit")
    /\ GitCommit(call.paths) \/ UNCHANGED repo
    /\ Goto("report") /\ Same

Add == At("add") /\ GitAdd(call.paths) /\ Goto("commit") /\ Same

MakeCommit == At("commit") /\ GitCommit(call.paths) /\ Goto("report") /\ Same

\* rev-parse HEAD, rev-parse --short HEAD, symbolic-ref: each of them may be refused, too
Report == At("report") /\ Answer("ok", FALSE) /\ UNCHANGED repo /\ Same

StartPush ==
    /\ Begin(policy.write /\ policy.push, NameRefusals, "symbolic", "push", {}, Main)
    /\ UNCHANGED <<repo, procs>>

\* Mutant: a detached HEAD is not noticed.
ReadHead ==
    /\ At("symbolic")
    /\ call' = [call EXCEPT !.pc = "push", !.name = head]
    /\ UNCHANGED <<repo, answers>> /\ Same

\* symbolic-ref: a detached HEAD is refused
ReadBranch ==
    /\ At("symbolic")
    /\ IF head = Detached THEN Answer("error", FALSE)
       ELSE call' = [call EXCEPT !.pc = "push", !.name = head] /\ UNCHANGED answers
    /\ UNCHANGED repo /\ Same

\* Mutant: push --force.
PushForced == At("push") /\ GitPushForced(call.name) /\ Answer("ok", FALSE) /\ Same

Push == At("push") /\ GitPush(call.name) /\ Answer("ok", FALSE) /\ Same

\* A git command whose answer does not arrive may have done its work.
GitPoints == {"verify", "checkout", "add", "commit", "report", "symbolic", "push"}
Interrupted ==
    \/ UNCHANGED repo
    \/ At("checkout") /\ GitCheckoutNew(call.name)
    \/ At("add") /\ GitAdd(call.paths)
    \/ At("commit") /\ GitCommit(call.paths)
    \/ At("push") /\ GitPush(call.name)

\* What git prints cannot be decoded (text=True): the tool raises, whatever git did.
Undecodable ==
    /\ call.pc \in GitPoints
    /\ Interrupted
    /\ Answer("raised", FALSE)
    /\ Same

\* Every git command has a timeout, and may stop half way, on a full disk.
GitTimesOut ==
    /\ call.pc \in GitPoints /\ Fault
    /\ Interrupted
    /\ Answer("error", TRUE)
    /\ UNCHANGED <<procs, policy>>

--------------------------------------------------------------------------
(* run_command, run_tests, run_lint, run_build.                            *)

\* Mutant: the configured commands are run on any project.
StartRunAnywhere ==
    /\ Begin(TRUE, CommandRefusals, "run", "run", {}, Main)
    /\ procs' = IF call' = call THEN procs ELSE procs \cup {"command"}
    /\ UNCHANGED repo

StartRun ==
    /\ Begin(policy.write, CommandRefusals, "run", "run", {}, Main)
    /\ procs' = IF call' = call THEN procs ELSE procs \cup {"command"}
    /\ UNCHANGED repo

\* Whoever is left when the tool returns is no longer on its pipes.
LeftBehind(ps) == IF ps = {} THEN {} ELSE {"background"}

\* communicate() returns when the pipes are closed: the command has ended, and so has
\* every child that inherited its output.
RunEnds ==
    /\ At("run") /\ procs \subseteq {"background"}
    /\ Answer("ok", FALSE)
    /\ UNCHANGED <<repo, procs, policy, used>>

\* Mutant: after the kill, the rest of the output is waited for.
RunTimesOutReading ==
    /\ At("run") /\ "child" \notin procs
    /\ procs' = LeftBehind(procs \ {"command"})
    /\ Answer("ok", TRUE)
    /\ UNCHANGED <<repo, policy, used>>

\* The command is killed, its children are not.
RunTimesOut ==
    /\ At("run")
    /\ procs' = LeftBehind(procs \ {"command"})
    /\ Answer("ok", TRUE)
    /\ UNCHANGED <<repo, policy, used>>

--------------------------------------------------------------------------
(* The environment.                                                        *)

Other == used.others < MaxOthers /\ used' = [used EXCEPT !.others = @ + 1]
NotTheBridge == UNCHANGED <<policy, call, answers>>

Adds(f, by) ==
    /\ Other
    /\ tree' = [tree EXCEPT ![f] = @ \cup {[by |-> by, k |-> used'.others]}]

\* The command starts children: on its pipes, or with an output of their own.
Spawn ==
    /\ "command" \in procs /\ Other
    /\ \E p \in {"child", "background"} : procs' = procs \cup {p}
    /\ UNCHANGED repo /\ NotTheBridge

ProcessEnds ==
    /\ \E p \in procs : procs' = procs \ {p}
    /\ UNCHANGED <<repo, used>> /\ NotTheBridge

ProcessWrites ==
    /\ procs # {} /\ \E f \in Files : Adds(f, "proc")
    /\ UNCHANGED <<index, log, head, remote, procs>> /\ NotTheBridge

DevEdits ==
    /\ \E f \in Files : Adds(f, "dev")
    /\ UNCHANGED <<index, log, head, remote, procs>> /\ NotTheBridge

DevStages ==
    /\ \E f \in Files : index[f] # tree[f] /\ index' = [index EXCEPT ![f] = tree[f]]
    /\ Other
    /\ UNCHANGED <<tree, log, head, remote, procs>> /\ NotTheBridge

DevCommits ==
    /\ index # HeadTree /\ Other
    /\ Append1(head, [by |-> "dev", k |-> used'.others, paths |-> Files, tree |-> index])
    /\ UNCHANGED <<tree, index, head, remote, procs>> /\ NotTheBridge

\* switch b, switch -c b, switch --detach: edits are carried over, or git refuses.
DevSwitches ==
    \E b \in Refs \ {head} :
        LET to == IF b = Detached \/ log[b] = <<>> THEN HeadLog ELSE log[b]
            differ == {f \in Files : HeadTree[f] # TipTree(to)[f]}
            Switched(t) == [f \in Files |-> IF f \in differ THEN TipTree(to)[f] ELSE t[f]]
        IN  /\ \A f \in differ : tree[f] = HeadTree[f] /\ index[f] = HeadTree[f]
            /\ Other
            /\ log' = [log EXCEPT ![b] = to]
            /\ head' = b
            /\ tree' = Switched(tree) /\ index' = Switched(index)
            /\ UNCHANGED <<remote, procs>> /\ NotTheBridge

\* Somebody pushes from another clone.
OthersPush ==
    /\ Other
    /\ \E b \in Branches :
          /\ remote[b] # <<>>
          /\ remote' = [remote EXCEPT ![b] = Append(@, [by |-> "dev", k |-> used'.others,
                                          paths |-> {}, tree |-> TipTree(remote[b])])]
    /\ UNCHANGED <<tree, index, log, head, procs>> /\ NotTheBridge

\* The bridge dies, perhaps in the middle of a write or of a git command; systemd kills
\* what its commands left behind.
Crash ==
    /\ ~Idle \/ procs # {}
    /\ Fault
    /\ call' = NoCall /\ procs' = {}
    /\ \/ Interrupted
       \/ /\ At("write") /\ \E text \in {Torn, call.text} : tree' = Overwritten(text)
          /\ UNCHANGED <<index, log, head, remote>>
    /\ UNCHANGED <<policy, answers>>

--------------------------------------------------------------------------

\* allow_push requires write_enabled (config.py).
Policies == {p \in [write : BOOLEAN, push : BOOLEAN] : p.push => p.write}

Init ==
    /\ tree = [f \in Files |-> IF f \in Tracked THEN {[by |-> "dev", k |-> 0]} ELSE {}]
    /\ index = tree
    /\ LET first == <<[by |-> "dev", k |-> 0, paths |-> Files, tree |-> tree]>>
       IN  /\ log = [b \in Refs |-> IF b = Main THEN first ELSE <<>>]
           /\ remote = [b \in Branches |-> IF b = Main THEN first ELSE <<>>]
    /\ head = Main
    /\ procs = {}
    /\ policy \in Policies
    /\ call = NoCall
    /\ answers = {}
    /\ used = [calls |-> 0, others |-> 0, faults |-> 0]

ToolStep ==
    \/ ReadFile \/ WriteBytes
    \/ CheckBranch \/ Checkout
    \/ Add \/ MakeCommit \/ Report
    \/ ReadBranch \/ Push
    \/ RunEnds \/ RunTimesOut
    \/ \E pc \in {"read", "write"} \cup GitPoints : Refused(pc)
    \/ Undecodable

Client == StartWrite \/ StartPatch \/ StartBranch \/ StartCommit \/ StartPush \/ StartRun

Faults == WriteFails \/ GitTimesOut \/ Crash

Environment ==
    \/ Spawn \/ ProcessEnds \/ ProcessWrites
    \/ DevEdits \/ DevStages \/ DevCommits \/ DevSwitches \/ OthersPush

Next == ToolStep \/ Client \/ Faults \/ Environment

Spec == Init /\ [][Next]_vars

\* Every git command and every run has a timeout, so a tool in progress goes on.
\* Commands need not end, and nobody else needs to act.
FairSpec == Spec /\ WF_vars(ToolStep)
--------------------------------------------------------------------------
(* Properties.                                                             *)

PCs == {"idle", "read", "write", "run"} \cup GitPoints
Ops == {"none", "write", "patch", "branch", "commit", "push", "run"}
History == Seq(Commit)

\* The type invariant; the branch that is checked out has commits.
TypeOK ==
    /\ tree \in Tree /\ index \in Tree
    /\ log \in [Refs -> History] /\ remote \in [Branches -> History]
    /\ head \in Refs /\ HeadLog # <<>>
    /\ procs \subseteq {"command", "child", "background"}
    /\ policy \in Policies
    /\ call \in [pc : PCs, op : Ops, paths : SUBSET Files, read : Text, old : Text,
                 text : Text, name : Branches]
    /\ answers \subseteq [k : Nat, op : Ops, at : PCs,
                          outcome : {"ok", "denied", "error", "raised"},
                          late : BOOLEAN, name : Branches, hist : History]
    /\ used \in [calls : Nat, others : Nat, faults : Nat]

\* A commit of the tool changes its own paths only, also when the developer has staged
\* something else, or switches between the add and the commit ("commit ... -- paths").
TouchesItsPaths(l) ==
    \A i \in 2..Len(l) : l[i].by = "bridge" =>
        \A f \in Files \ l[i].paths : l[i].tree[f] = l[i-1].tree[f]
CommitsOnlyItsPaths ==
    /\ \A b \in Refs : TouchesItsPaths(log[b])
    /\ \A b \in Branches : TouchesItsPaths(remote[b])

\* What a tool stages are the paths of a git_commit: what the developer has staged, or
\* not staged, of other files stays so - also after a commit that failed or timed out.
StagingKept ==
    [][used'.others = used.others /\ head' = head =>
          \A f \in Files : index'[f] # index[f] => call.op = "commit" /\ f \in call.paths]_vars

\* What others wrote to a file is lost only to a write_file of it, to a patch that asked
\* for it, to a patch that had read the file before ("best effort", TOOLS.md), or to a
\* write that was cut short; and nothing is lost that a commit does not have when git
\* switches branches.
EditsSurvive ==
    [][\A f \in Files : \A p \in tree[f] \ tree'[f] :
          \/ p.by = "bridge" \/ p \in HeadTree[f]
          \/ f \in call.paths /\ \/ call.op = "write"
                                 \/ call.op = "patch" /\ p \notin call.read \ call.old
                                 \/ used'.faults > used.faults]_vars

\* No branch is ever reset, here or on the remote: not by git_create_branch, when the
\* developer has created the branch since it looked, and not by git_push, when others
\* have pushed ("mai forzato", TOOLS.md).
HistoryOnlyGrows ==
    [][\A b \in Branches : IsPrefixOf(log[b], log'[b]) /\ IsPrefixOf(remote[b], remote'[b])]_vars

\* A project that is not write_enabled has nothing of the bridge in it: no text, no
\* commit, no process; and nothing of it is pushed without allow_push.
Made(l) == {c \in {l[i] : i \in DOMAIN l} : c.by = "bridge"}
PolicyKept ==
    /\ ~policy.write => /\ procs = {}
                        /\ \A f \in Files : \A p \in tree[f] : p.by = "dev"
                        /\ \A b \in Refs : Made(log[b]) = {}
    /\ ~policy.push => \A b \in Branches : Made(remote[b]) = {}

\* The answers tell what is there.  A commit that is answered with its hash, or with an
\* error of the commands that read the hash, is on a branch (on none, if HEAD has been
\* detached); one that is denied, or that git add or git commit refused, was not made -
\* an exception of another kind, or a timeout, says nothing.  What was reported as pushed
\* is on the remote, and stays there.
Committed(k) == \E b \in Refs : \E c \in Made(log[b]) : c.k = k
AnswersAreTrue ==
    \A a \in answers :
        /\ a.op = "commit" /\ (a.outcome = "ok" \/ a.at = "report") =>
              Committed(a.k) \/ log[Detached] # <<>>
        /\ a.op = "commit" /\ a.at # "report" /\ a.outcome \in {"denied", "error"} /\ ~a.late =>
              ~Committed(a.k)
        /\ a.op = "push" /\ a.outcome = "ok" => IsPrefixOf(a.hist, remote[a.name])

\* "Push del branch corrente" (TOOLS.md:274): a push publishes, under the name of a
\* branch, commits of that branch.
PushesCurrentBranch ==
    [][\A b \in Branches : At("push") /\ remote'[b] # remote[b] /\ used'.others = used.others =>
          remote'[b] = log[b]]_vars

\* Every tool returns: a command that does not end, or whose children keep its output
\* open, is killed or left behind ("un subprocess non deve poter occupare il bridge").
ToolsReturn == ~Idle ~> Idle

--------------------------------------------------------------------------
(* The inductive invariant behind StagingKept, EditsSurvive and            *)
(* AnswersAreTrue.                                                         *)

\* A tool is only ever at its own commands, and a patch writes what it read but for `old`.
CallInv ==
    /\ call.pc = "read" => call.op = "patch"
    /\ call.pc = "write" => \/ call.op = "write"
                            \/ call.op = "patch" /\ call.read \ call.old \subseteq call.text
    /\ call.pc \in {"verify", "checkout"} => call.op = "branch"
    /\ call.pc \in {"add", "commit", "report"} => call.op = "commit"
    /\ call.pc \in {"symbolic", "push"} => call.op = "push"
    /\ call.pc = "run" => call.op = "run"

\* Commits and answers carry the number of their call: a call in progress has not been
\* answered, nor has it committed before it gets there, and it has once it reports.
NumberInv ==
    /\ call.pc = "report" => Committed(used.calls) \/ log[Detached] # <<>>
    /\ \A b \in Refs : \A c \in Made(log[b]) :
          c.k \in 0..used.calls /\ (call.pc \in {"add", "commit"} => c.k # used.calls)
    /\ \A a \in answers : a.k \in 0..used.calls /\ (~Idle => a.k # used.calls)

=============================================================================
