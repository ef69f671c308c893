----------------------- MODULE RegisterProjectProofs -----------------------
(***************************************************************************)
(* Proofs about RegisterProject, for any number of runs, bundles and names *)
(* and any faults.                                                         *)
(***************************************************************************)
EXTENDS RegisterProject, TLAPS

RunRec == [pc : PC, bundle : Bundles \cup {None}, skipMv : BOOLEAN,
           skipMerge : BOOLEAN, tmp : Blocks]
DirRec == [owner : {"absent", "bridge", "hypn0"}, holds : SUBSET Bundles]

--------------------------------------------------------------------------
(* Types.                                                                  *)

\* An entry of the admin log is a pair of counters, and stays one.
LEMMA EmitType ==
    ASSUME adminLog \in [Bundles -> [success : Nat, error : Nat]],
           NEW b \in Bundles, NEW o \in {"success", "error"}, Emit(b, o)
    PROVE  adminLog' \in [Bundles -> [success : Nat, error : Nat]]
<1>1. adminLog[b] \in [success : Nat, error : Nat]  OBVIOUS
<1>2. [adminLog[b] EXCEPT ![o] = @ + 1] \in [success : Nat, error : Nat]
  <2>1. CASE o = "success"  BY <1>1, <2>1
  <2>2. CASE o = "error"  BY <1>1, <2>2
  <2> QED  BY <2>1, <2>2
<1> QED  BY <1>2 DEF Emit

\* A run that moves on keeps its bundle and its flags.
LEMMA GotoType ==
    ASSUME run \in [Runs -> RunRec], NEW p \in Runs, NEW pc \in PC, Goto(p, pc)
    PROVE  /\ run' \in [Runs -> RunRec]
           /\ run'[p].pc = pc /\ run'[p].bundle = run[p].bundle
           /\ run'[p].tmp = run[p].tmp /\ run'[p].skipMv = run[p].skipMv
           /\ \A q \in Runs \ {p} : run'[q] = run[q]
BY DEF Goto, RunRec

\* A run that starts has a bundle, and is at its target or refused.
LEMMA StartForm ==
    ASSUME run \in [Runs -> RunRec], NEW p \in Runs, NEW b \in Bundles, Start(p, b)
    PROVE  \E pc \in {"target", "failed"} :
              LET new == [run[p] EXCEPT !.pc = pc, !.bundle = b]
              IN  run' = [run EXCEPT ![p] = new] /\ new.pc = pc /\ new.bundle = b
<1>f. \A pc : LET new == [run[p] EXCEPT !.pc = pc, !.bundle = b]
              IN  new.pc = pc /\ new.bundle = b
  BY DEF RunRec
<1>1. CASE Verifiable(b)
  <2>1. run' = [run EXCEPT ![p] = [run[p] EXCEPT !.pc = "target", !.bundle = b]]
    BY <1>1 DEF Start
  <2> QED  BY <1>f, <2>1
<1>2. CASE ~Verifiable(b)
  <2>1. run' = [run EXCEPT ![p] = [run[p] EXCEPT !.pc = "failed", !.bundle = b]]
    BY <1>2 DEF Start
  <2> QED  BY <1>f, <2>1
<1> QED  BY <1>1, <1>2

LEMMA InitType == Init => TypeOK
<1> SUFFICES ASSUME Init PROVE TypeOK
  OBVIOUS
<1>e. Empty \in Blocks  BY DEF Empty, Blocks
<1>1. run \in [Runs -> RunRec]
  BY <1>e DEF Init, RunRec, PC, Over
<1>2. dir \in [Names -> DirRec]
  BY DEF Init, DirRec
<1>3. \A p \in Runs : BundleOf(p) = None <=> At(p, "idle")
  BY DEF Init, At, BundleOf
<1>4. service \in [state : {"up", "starting", "down"}, loaded : Blocks]
  BY <1>e DEF Init
<1> QED  BY <1>1, <1>2, <1>3, <1>4, <1>e DEF Init, TypeOK, RunRec, DirRec

LEMMA StepType == TypeOK /\ [Next]_vars => TypeOK'
<1> SUFFICES ASSUME TypeOK, [Next]_vars PROVE TypeOK'
  OBVIOUS
<1> USE RegisterAssumption
<1>r. run \in [Runs -> RunRec]  BY DEF TypeOK, RunRec
<1>1. ASSUME NEW p \in Runs, NEW b \in Bundles, Start(p, b) PROVE TypeOK'
  <2>p. PICK pc \in {"target", "failed"} :
           LET n == [run[p] EXCEPT !.pc = pc, !.bundle = b]
           IN  run' = [run EXCEPT ![p] = n] /\ n.pc = pc /\ n.bundle = b
    BY <1>1, <1>r, StartForm
  <2> DEFINE new == [run[p] EXCEPT !.pc = pc, !.bundle = b]
  <2>a. run' = [run EXCEPT ![p] = new] /\ new.pc = pc /\ new.bundle = b
    BY <2>p
  <2>b. new \in RunRec  BY <1>r DEF RunRec, PC, Over
  <2> HIDE DEF new
  <2>1. run' \in [Runs -> RunRec] /\ \A q \in Runs : run'[q].bundle = None <=> run'[q].pc = "idle"
    BY <2>a, <2>b, <1>r DEF TypeOK, At, BundleOf
  <2>2. adminLog' \in [Bundles -> [success : Nat, error : Nat]]
    BY <1>1, EmitType DEF Start, TypeOK
  <2> QED  BY <1>1, <2>1, <2>2 DEF Start, Quiet, TypeOK, RunRec, At, BundleOf
<1>q. ASSUME NEW p \in Runs, run[p].pc # "idle"
      PROVE  BundleOf(p) \in Bundles /\ Target(p) \in Names
  BY <1>q DEF TypeOK, At, BundleOf, Target
<1>g. ASSUME NEW p \in Runs, NEW pc \in PC \ {"idle"}, Goto(p, pc), run[p].pc # "idle"
      PROVE  /\ run' \in [Runs -> RunRec]
             /\ \A q \in Runs : run'[q].bundle = None <=> run'[q].pc = "idle"
  BY <1>g, <1>r, GotoType DEF TypeOK, At, BundleOf
<1>2. ASSUME NEW p \in Runs, CheckTarget(p) PROVE TypeOK'
  <2>1. BundleOf(p) \in Bundles  BY <1>2, <1>q DEF CheckTarget, At
  <2>2. run' \in [Runs -> RunRec] /\ \A q \in Runs : run'[q].bundle = None <=> run'[q].pc = "idle"
    <3>1. CASE Fail(p)
      BY <1>2, <1>g, <3>1 DEF CheckTarget, Fail, At, PC, Over
    <3>2. CASE ~Fail(p)
      <4> DEFINE new == [run[p] EXCEPT !.skipMv = (dir[Target(p)].owner = "hypn0"), !.pc = "config"]
      <4>1. run' = [run EXCEPT ![p] = new]
        BY <1>2, <3>2, <1>r DEF CheckTarget, RunRec
      <4>2. new \in RunRec /\ new.bundle = run[p].bundle /\ new.pc = "config"
        BY <1>r DEF RunRec, PC
      <4> HIDE DEF new
      <4> QED  BY <4>1, <4>2, <1>r, <2>1 DEF TypeOK, At, BundleOf
    <3> QED  BY <3>1, <3>2
  <2>3. adminLog' \in [Bundles -> [success : Nat, error : Nat]]
    BY <1>2, <2>1, EmitType DEF CheckTarget, Fail, TypeOK
  <2> QED  BY <1>2, <2>2, <2>3 DEF CheckTarget, Quiet, TypeOK, RunRec, At, BundleOf
<1>3. ASSUME NEW p \in Runs, CheckConfig(p) PROVE TypeOK'
  <2>1. run' \in [Runs -> RunRec] /\ \A q \in Runs : run'[q].bundle = None <=> run'[q].pc = "idle"
    BY <1>3, <1>r, <1>q DEF CheckConfig, RunRec, PC, Over, TypeOK, At, BundleOf
  <2> QED  BY <1>3, <2>1 DEF CheckConfig, Quiet, TypeOK, RunRec, At, BundleOf
<1>4. ASSUME NEW p \in Runs, Move(p) PROVE TypeOK'
  <2>1. BundleOf(p) \in Bundles /\ Target(p) \in Names  BY <1>4, <1>q DEF Move, At
  <2>2. dir' \in [Names -> DirRec]
    BY <1>4, <2>1 DEF Move, TypeOK, DirRec
  <2>3. /\ run' \in [Runs -> RunRec]
        /\ \A q \in Runs : run'[q].bundle = None <=> run'[q].pc = "idle"
    BY <1>4, <1>g DEF Move, At, PC
  <2> QED  BY <1>4, <2>1, <2>2, <2>3 DEF Move, Quiet, TypeOK, RunRec, DirRec, At, BundleOf
<1>5. ASSUME NEW p \in Runs, Chown(p) PROVE TypeOK'
  <2>1. Target(p) \in Names  BY <1>5, <1>q DEF Chown, At
  <2>2. dir' \in [Names -> DirRec]
    BY <1>5, <2>1 DEF Chown, TypeOK, DirRec
  <2>3. /\ run' \in [Runs -> RunRec]
        /\ \A q \in Runs : run'[q].bundle = None <=> run'[q].pc = "idle"
    <3>1. (IF run[p].skipMerge THEN "install" ELSE "merge") \in PC \ {"idle"}  BY DEF PC
    <3> QED  BY <1>5, <1>g, <3>1 DEF Chown, At
  <2> QED  BY <1>5, <2>2, <2>3 DEF Chown, Quiet, TypeOK, RunRec, DirRec, At, BundleOf
<1>6. ASSUME NEW p \in Runs, ReadConfig(p) PROVE TypeOK'
  <2>1. BundleOf(p) \in Bundles /\ Target(p) \in Names  BY <1>6, <1>q DEF ReadConfig, At
  <2>2. [config EXCEPT ![Target(p)] = BundleOf(p)] \in Blocks
    BY <2>1 DEF TypeOK, Blocks
  <2>3. run' \in [Runs -> RunRec] /\ \A q \in Runs : run'[q].bundle = None <=> run'[q].pc = "idle"
    <3> DEFINE t == [config EXCEPT ![Target(p)] = BundleOf(p)]
               new == [run[p] EXCEPT !.tmp = t, !.pc = "swap"]
    <3>0. t \in Blocks  BY <2>2
    <3>1. run' = [run EXCEPT ![p] = new]
      BY <1>6, <1>r DEF ReadConfig, RunRec
    <3> HIDE DEF t
    <3>2. new \in RunRec /\ new.bundle = run[p].bundle /\ new.pc = "swap"
      BY <1>r, <3>0 DEF RunRec, PC
    <3> HIDE DEF new
    <3> QED  BY <3>1, <3>2, <1>r, <2>1 DEF TypeOK, At, BundleOf
  <2> QED  BY <1>6, <2>3 DEF ReadConfig, Quiet, TypeOK, RunRec, At, BundleOf
<1>e. Empty \in Blocks  BY DEF Empty, Blocks
<1>7. ASSUME NEW p \in Runs, SwapConfig(p) PROVE TypeOK'
  <2>1. config' \in Blocks  BY <1>7, <1>r DEF SwapConfig, RunRec
  <2>2. run' \in [Runs -> RunRec] /\ \A q \in Runs : run'[q].bundle = None <=> run'[q].pc = "idle"
    BY <1>7, <1>r, <1>e DEF SwapConfig, RunRec, PC, TypeOK, At, BundleOf
  <2>3. overlap' \in BOOLEAN  BY <1>7, Zenon DEF SwapConfig, TypeOK
  <2> QED  BY <1>7, <2>1, <2>2, <2>3 DEF SwapConfig, Quiet, TypeOK, RunRec, At, BundleOf
<1>8. ASSUME NEW p \in Runs, Install(p) PROVE TypeOK'
  <2>1. /\ run' \in [Runs -> RunRec]
        /\ \A q \in Runs : run'[q].bundle = None <=> run'[q].pc = "idle"
    BY <1>8, <1>g DEF Install, At, PC
  <2> QED  BY <1>8, <2>1 DEF Install, Configured, Quiet, TypeOK, RunRec, At, BundleOf
<1>9. ASSUME NEW p \in Runs, Restart(p) PROVE TypeOK'
  <2>1. /\ run' \in [Runs -> RunRec]
        /\ \A q \in Runs : run'[q].bundle = None <=> run'[q].pc = "idle"
    BY <1>9, <1>g DEF Restart, At, PC
  <2> QED  BY <1>9, <2>1 DEF Restart, Quiet, TypeOK, RunRec, At, BundleOf
<1>10. ASSUME NEW p \in Runs, Poll(p) PROVE TypeOK'
  <2>0. BundleOf(p) \in Bundles  BY <1>10, <1>q DEF Poll, At
  <2>1. /\ run' \in [Runs -> RunRec]
        /\ \A q \in Runs : run'[q].bundle = None <=> run'[q].pc = "idle"
    BY <1>10, <1>g DEF Poll, Fail, At, PC, Over
  <2>2. adminLog' \in [Bundles -> [success : Nat, error : Nat]]
    BY <1>10, <2>0, EmitType DEF Poll, Fail, TypeOK
  <2> QED  BY <1>10, <2>1, <2>2 DEF Poll, Quiet, TypeOK, RunRec, At, BundleOf
<1>11. ASSUME NEW p \in Runs, Consume(p) PROVE TypeOK'
  <2>1. /\ run' \in [Runs -> RunRec]
        /\ \A q \in Runs : run'[q].bundle = None <=> run'[q].pc = "idle"
    BY <1>11, <1>g DEF Consume, At, PC
  <2> QED  BY <1>11, <2>1 DEF Consume, Quiet, TypeOK, RunRec, At, BundleOf
<1>12. ASSUME NEW p \in Runs, Report(p) PROVE TypeOK'
  <2>0. BundleOf(p) \in Bundles  BY <1>12, <1>q DEF Report, At
  <2>1. /\ run' \in [Runs -> RunRec]
        /\ \A q \in Runs : run'[q].bundle = None <=> run'[q].pc = "idle"
    BY <1>12, <1>g DEF Report, At, PC, Over
  <2>2. adminLog' \in [Bundles -> [success : Nat, error : Nat]]
    BY <1>12, <2>0, EmitType DEF Report, TypeOK
  <2> QED  BY <1>12, <2>1, <2>2 DEF Report, Quiet, TypeOK, RunRec, At, BundleOf
<1>13. ASSUME NEW p \in Runs, Dies(p) PROVE TypeOK'
  <2>1. run' \in [Runs -> RunRec] /\ \A q \in Runs : run'[q].bundle = None <=> run'[q].pc = "idle"
    BY <1>13, <1>r, <1>e DEF Dies, RunRec, PC, Over, TypeOK, At, BundleOf
  <2>2. faults' \in Nat  BY <1>13 DEF Dies, TypeOK
  <2> QED  BY <1>13, <2>1, <2>2 DEF Dies, TypeOK, RunRec, At, BundleOf
<1>14. CASE Boot
  BY <1>14 DEF Boot, Quiet, TypeOK, At, BundleOf
<1>15. CASE AutoRestart
  BY <1>15 DEF AutoRestart, Quiet, TypeOK, At, BundleOf
<1>16. CASE Tick
  BY <1>16 DEF Tick, TypeOK, At, BundleOf
<1>17. CASE UNCHANGED vars
  BY <1>17 DEF vars, TypeOK, At, BundleOf
<1> QED
  BY <1>1, <1>2, <1>3, <1>4, <1>5, <1>6, <1>7, <1>8, <1>9, <1>10, <1>11, <1>12, <1>13,
     <1>14, <1>15, <1>16, <1>17 DEF Next, Command

--------------------------------------------------------------------------
(* The invariants.                                                         *)

\* A step of a run leaves the other runs alone.
LEMMA OthersStay ==
    ASSUME TypeOK, NEW p \in Runs, Command(p) \/ Dies(p)
    PROVE  \A q \in Runs \ {p} : run'[q] = run[q]
BY DEF Command, Dies, Start, CheckTarget, CheckConfig, Move, Chown, ReadConfig, SwapConfig,
       Install, Restart, Poll, Consume, Report, Fail, Goto, TypeOK

\* A directory that is the developer's stays the developer's.
LEMMA OwnerStays ==
    ASSUME TypeOK, [Next]_vars, NEW n \in Names, dir[n].owner = "hypn0"
    PROVE  dir'[n].owner = "hypn0"
<1>1. CASE UNCHANGED dir
  BY <1>1
<1>2. ASSUME NEW p \in Runs, Move(p) PROVE dir'[n].owner = "hypn0"
  BY <1>2 DEF Move, TypeOK
<1>3. ASSUME NEW p \in Runs, Chown(p) PROVE dir'[n].owner = "hypn0"
  BY <1>3 DEF Chown, TypeOK
<1> QED
  BY <1>1, <1>2, <1>3 DEF Next, Command, Dies, Start, CheckTarget, CheckConfig, ReadConfig,
     SwapConfig, Install, Restart, Poll, Consume, Report, Boot, AutoRestart, Tick, vars

\* How a run gets to the places the invariants speak about.
LEMMA Arrivals ==
    ASSUME TypeOK, NEW p \in Runs, Command(p) \/ Dies(p)
    PROVE  /\ run'[p].pc = "config" => CheckTarget(p)
           /\ run'[p].pc = "merge" => CheckConfig(p) \/ Chown(p)
           /\ run'[p].pc = "swap" => ReadConfig(p)
           /\ run'[p].pc = "report" => Consume(p)
<1> run[p] = run[p] /\ run \in [Runs -> RunRec]
  BY DEF TypeOK, RunRec
<1>1. ASSUME NEW b \in Bundles, Start(p, b) PROVE run'[p].pc \in {"target", "failed"}
  BY <1>1 DEF Start, RunRec
<1>2. CASE CheckTarget(p)
  BY <1>2 DEF CheckTarget, Fail, Goto, RunRec
<1>3. CASE CheckConfig(p)
  BY <1>3 DEF CheckConfig, RunRec
<1>4. CASE Move(p) \/ Chown(p) \/ Install(p) \/ Restart(p) \/ Poll(p) \/ Consume(p) \/ Report(p)
  BY <1>4 DEF Move, Chown, Install, Restart, Poll, Consume, Report, Fail, Goto, RunRec
<1>5. CASE ReadConfig(p)
  BY <1>5 DEF ReadConfig, RunRec
<1>6. CASE SwapConfig(p) \/ Dies(p)
  BY <1>6 DEF SwapConfig, Dies, RunRec
<1> QED  BY <1>1, <1>2, <1>3, <1>4, <1>5, <1>6 DEF Command

\* A step is one of a run, or it leaves the runs, the staging area, the directories, the
\* config and the admin log alone.
LEMMA RunOrRest ==
    ASSUME [Next]_vars
    PROVE  \/ \E p \in Runs : Command(p) \/ Dies(p)
           \/ UNCHANGED <<staging, dir, config, run, adminLog, overlap>>
BY DEF Next, Boot, AutoRestart, Tick, vars

\* Ownership: what is about to be merged is the developer's already.
LEMMA StepOwned ==
    ASSUME TypeOK, ConfiguredIsInstalled, OwnedBeforeMerge, [Next]_vars
    PROVE  OwnedBeforeMerge'
<1>r. run \in [Runs -> RunRec] /\ \A p \in Runs : At(p, "idle") <=> BundleOf(p) = None
  BY DEF TypeOK, RunRec
<1>1. CASE UNCHANGED <<staging, dir, config, run, adminLog, overlap>>
  BY <1>1 DEF OwnedBeforeMerge, At, Target, BundleOf
<1>2. ASSUME NEW p \in Runs, Command(p) \/ Dies(p) PROVE OwnedBeforeMerge'
  <2>1. ASSUME NEW q \in Runs, q # p
        PROVE  /\ run'[q].pc = "merge" \/ (run'[q].pc = "config" /\ run'[q].skipMv) =>
                     dir'[NameOf[run'[q].bundle]].owner = "hypn0"
               /\ run'[q].pc = "swap" =>
                     \A n \in Names : run'[q].tmp[n] # None => dir'[n].owner = "hypn0"
    <3>1. run'[q] = run[q]  BY <1>2, <2>1, OthersStay
    <3>2. run[q].pc # "idle" => NameOf[run[q].bundle] \in Names
      BY <1>r, RegisterAssumption DEF At, BundleOf, RunRec
    <3> QED  BY <3>1, <3>2, <2>1, OwnerStays DEF OwnedBeforeMerge, At, Target, BundleOf
  <2>2. run'[p].pc = "merge" => dir'[NameOf[run'[p].bundle]].owner = "hypn0"
    <3> SUFFICES ASSUME run'[p].pc = "merge"
                 PROVE  dir'[NameOf[run'[p].bundle]].owner = "hypn0"
      OBVIOUS
    <3>t. run[p].pc # "idle" => Target(p) \in Names
      BY <1>r, RegisterAssumption DEF At, BundleOf, Target, RunRec
    <3>1. CASE CheckConfig(p)
      BY <3>1, <1>r DEF CheckConfig, RunRec, OwnedBeforeMerge, At, Target, BundleOf
    <3>2. CASE Chown(p)
      <4>1. run'[p].bundle = run[p].bundle  BY <3>2, <1>r DEF Chown, Goto, RunRec
      <4> QED  BY <3>2, <3>t, <4>1 DEF Chown, At, Target, BundleOf, TypeOK
    <3> QED  BY <3>1, <3>2, <1>2, Arrivals
  <2>3. run'[p].pc = "config" /\ run'[p].skipMv => dir'[NameOf[run'[p].bundle]].owner = "hypn0"
    <3> SUFFICES ASSUME run'[p].pc = "config", run'[p].skipMv
                 PROVE  dir'[NameOf[run'[p].bundle]].owner = "hypn0"
      OBVIOUS
    <3>1. CheckTarget(p)  BY <1>2, Arrivals
    <3>2. ~Fail(p)  BY <1>r DEF Fail, Goto, RunRec
    <3>3. run'[p].skipMv = (dir[Target(p)].owner = "hypn0") /\ run'[p].bundle = run[p].bundle
      <4> DEFINE owned == dir[Target(p)].owner = "hypn0"
      <4>1. run' = [run EXCEPT ![p].skipMv = owned, ![p].pc = "config"]
        BY <3>1, <3>2, Zenon DEF CheckTarget
      <4> HIDE DEF owned
      <4>2. run'[p].skipMv = owned /\ run'[p].bundle = run[p].bundle
        BY <4>1, <1>r DEF RunRec
      <4> QED  BY <4>2 DEF owned
    <3> QED  BY <3>1, <3>3 DEF CheckTarget, Target, BundleOf
  <2>4. run'[p].pc = "swap" =>
            \A n \in Names : run'[p].tmp[n] # None => dir'[n].owner = "hypn0"
    <3> SUFFICES ASSUME run'[p].pc = "swap", NEW n \in Names, run'[p].tmp[n] # None
                 PROVE  dir'[n].owner = "hypn0"
      OBVIOUS
    <3>1. ReadConfig(p)  BY <1>2, Arrivals
    <3>2. run'[p].tmp = [config EXCEPT ![Target(p)] = BundleOf(p)]
      BY <3>1, <1>r DEF ReadConfig, RunRec
    <3>3. dir[n].owner = "hypn0"
      <4>1. CASE n = Target(p)  BY <3>1, <4>1 DEF ReadConfig, OwnedBeforeMerge
      <4>2. CASE n # Target(p)
        BY <3>2, <4>2 DEF ConfiguredIsInstalled, TypeOK, Blocks
      <4> QED  BY <4>1, <4>2
    <3> QED  BY <3>3, OwnerStays
  <2> QED  BY <2>1, <2>2, <2>3, <2>4 DEF OwnedBeforeMerge, At, Target, BundleOf
<1> QED  BY <1>1, <1>2, RunOrRest

LEMMA StepConfigured ==
    ASSUME TypeOK, ConfiguredIsInstalled, OwnedBeforeMerge, [Next]_vars
    PROVE  ConfiguredIsInstalled'
<1> SUFFICES ASSUME NEW n \in Names, config'[n] # None PROVE dir'[n].owner = "hypn0"
  BY DEF ConfiguredIsInstalled
<1>1. CASE UNCHANGED config
  BY <1>1, OwnerStays DEF ConfiguredIsInstalled
<1>2. ASSUME NEW p \in Runs, SwapConfig(p) PROVE dir'[n].owner = "hypn0"
  BY <1>2 DEF SwapConfig, OwnedBeforeMerge
<1> QED
  BY <1>1, <1>2 DEF Next, Command, Dies, Start, CheckTarget, CheckConfig, Move, Chown,
     ReadConfig, Install, Restart, Poll, Consume, Report, Boot, AutoRestart, Tick, vars

\* A config that a run is about to install differs from the one in place by one new block.
LEMMA StepCurrent ==
    ASSUME TypeOK, MergeIsCurrent, [Next]_vars
    PROVE  MergeIsCurrent'
<1>r. run \in [Runs -> RunRec]
  BY DEF TypeOK, RunRec
<1>1. CASE UNCHANGED <<staging, dir, config, run, adminLog, overlap>>
  BY <1>1 DEF MergeIsCurrent, At
<1>2. ASSUME NEW p \in Runs, Command(p) \/ Dies(p) PROVE MergeIsCurrent'
  <2>1. CASE SwapConfig(p)
    <3>1. run'[p].pc = "install"  BY <2>1, <1>r DEF SwapConfig, RunRec
    <3>2. ~overlap' => \A q \in Runs \ {p} : ~At(q, "swap")
      BY <2>1, Zenon DEF SwapConfig
    <3> QED  BY <3>1, <3>2, <1>2, OthersStay DEF MergeIsCurrent, At
  <2>2. CASE ~SwapConfig(p)
    <3>1. UNCHANGED <<config, overlap>>
      BY <1>2, <2>2 DEF Command, Dies, Start, CheckTarget, CheckConfig, Move, Chown,
         ReadConfig, Install, Restart, Poll, Consume, Report
    <3>2. ASSUME run'[p].pc = "swap", NEW n \in Names, config[n] # None
          PROVE  run'[p].tmp[n] = config[n]
      <4>1. ReadConfig(p)  BY <1>2, <3>2, Arrivals
      <4>2. run'[p].tmp = [config EXCEPT ![Target(p)] = BundleOf(p)]
        BY <4>1, <1>r DEF ReadConfig, RunRec
      <4> QED  BY <4>1, <4>2, <3>2 DEF ReadConfig, TypeOK, Blocks
    <3> QED  BY <3>1, <3>2, <1>2, OthersStay DEF MergeIsCurrent, At
  <2> QED  BY <2>1, <2>2
<1> QED  BY <1>1, <1>2, RunOrRest

\* Only Report counts a success, and nothing brings a consumed bundle back.
LEMMA SuccessStays ==
    ASSUME TypeOK, NEW p \in Runs, Command(p) \/ Dies(p), ~Report(p), NEW b \in Bundles
    PROVE  adminLog'[b].success = adminLog[b].success
<1>1. CASE UNCHANGED adminLog
  BY <1>1
<1>2. ASSUME NEW c \in Bundles, Emit(c, "error") PROVE adminLog'[b].success = adminLog[b].success
  BY <1>2 DEF Emit, TypeOK
<1>3. run[p].pc # "idle" => BundleOf(p) \in Bundles
  BY DEF TypeOK, At, BundleOf
<1> QED
  BY <1>1, <1>2, <1>3 DEF Command, Dies, Start, CheckTarget, CheckConfig, Move, Chown, ReadConfig,
     SwapConfig, Install, Restart, Poll, Consume, Fail, At

LEMMA ConsumedStays ==
    ASSUME TypeOK, NEW p \in Runs, Command(p) \/ Dies(p), NEW b \in Bundles, staging[b] = "consumed"
    PROVE  staging'[b] = "consumed"
BY DEF Command, Dies, Start, CheckTarget, CheckConfig, Move, Chown, ReadConfig, SwapConfig,
       Install, Restart, Poll, Consume, Report, TypeOK

\* The rename of the bundle elects the one run that reports.
LEMMA StepOnce ==
    ASSUME TypeOK, RegisteredOnce, OneReporter, [Next]_vars
    PROVE  RegisteredOnce' /\ OneReporter'
<1>r. run \in [Runs -> RunRec]
  BY DEF TypeOK, RunRec
<1>1. CASE UNCHANGED <<staging, dir, config, run, adminLog, overlap>>
  BY <1>1 DEF RegisteredOnce, OneReporter, At, BundleOf
<1>2. ASSUME NEW p \in Runs, Command(p) \/ Dies(p) PROVE RegisteredOnce' /\ OneReporter'
  <2>o. \A q \in Runs \ {p} : run'[q] = run[q]  BY <1>2, OthersStay
  <2>b. \A q \in Runs : run[q].pc # "idle" => run[q].bundle \in Bundles
    BY DEF TypeOK, At, BundleOf
  <2>1. CASE Report(p)
    <3>1. /\ run'[p].pc = "done" /\ run[p].pc = "report" /\ run[p].bundle \in Bundles
          /\ staging' = staging
      BY <2>1, <1>r, <2>b DEF Report, Goto, At, RunRec
    <3>2. /\ staging[run[p].bundle] = "consumed"
          /\ adminLog[run[p].bundle].success = 0
          /\ \A q \in Runs : run[q].pc = "report" /\ run[q].bundle = run[p].bundle => q = p
      BY <3>1 DEF OneReporter, At, BundleOf
    <3>3. /\ adminLog'[run[p].bundle].success = 1
          /\ \A b \in Bundles \ {run[p].bundle} : adminLog'[b] = adminLog[b]
      BY <2>1, <3>1, <3>2 DEF Report, Emit, TypeOK, BundleOf
    <3>4. RegisteredOnce'
      BY <3>1, <3>2, <3>3 DEF RegisteredOnce
    <3>5. OneReporter'
      BY <3>1, <3>2, <3>3, <2>o, <2>b DEF OneReporter, At, BundleOf
    <3> QED  BY <3>4, <3>5
  <2>2. CASE ~Report(p)
    <3>1. \A b \in Bundles : /\ adminLog'[b].success = adminLog[b].success
                             /\ staging[b] = "consumed" => staging'[b] = "consumed"
      BY <1>2, <2>2, SuccessStays, ConsumedStays
    <3>2. RegisteredOnce'
      BY <3>1 DEF RegisteredOnce
    <3>3. CASE Consume(p)
      <4>1. /\ run[p].bundle \in Bundles /\ run'[p].bundle = run[p].bundle
            /\ staging[run[p].bundle] # "consumed" /\ staging'[run[p].bundle] = "consumed"
        BY <3>3, <1>r, <2>b DEF Consume, Goto, At, BundleOf, RunRec, TypeOK
      <4>2. adminLog[run[p].bundle].success = 0
        <5>1. adminLog[run[p].bundle].success \in Nat  BY <4>1 DEF TypeOK
        <5> QED  BY <4>1, <5>1 DEF RegisteredOnce
      <4>3. \A q \in Runs \ {p} : run[q].pc = "report" => run[q].bundle # run[p].bundle
        BY <4>1 DEF OneReporter, At, BundleOf
      <4> QED  BY <3>1, <3>2, <4>1, <4>2, <4>3, <2>o, <2>b DEF OneReporter, At, BundleOf
    <3>4. CASE ~Consume(p)
      <4>1. run'[p].pc # "report"  BY <1>2, <3>4, Arrivals
      <4> QED  BY <3>1, <3>2, <4>1, <2>o, <2>b DEF OneReporter, At, BundleOf
    <3> QED  BY <3>3, <3>4
  <2> QED  BY <2>1, <2>2
<1> QED  BY <1>1, <1>2, RunOrRest

\* All of it together is inductive.
LEMMA InitInv == Init => RegisterInv
<1> SUFFICES ASSUME Init PROVE RegisterInv
  OBVIOUS
<1>1. TypeOK  BY InitType
<1>2. ConfiguredIsInstalled  BY DEF Init, Empty, ConfiguredIsInstalled
<1>3. OwnedBeforeMerge /\ OneReporter /\ MergeIsCurrent
  BY DEF Init, At, OwnedBeforeMerge, OneReporter, MergeIsCurrent
<1>4. RegisteredOnce  BY DEF Init, RegisteredOnce
<1> QED  BY <1>1, <1>2, <1>3, <1>4 DEF RegisterInv

LEMMA StepInv == RegisterInv /\ [Next]_vars => RegisterInv'
BY StepType, StepOwned, StepConfigured, StepOnce, StepCurrent DEF RegisterInv

LEMMA AlwaysInv == Spec => []RegisterInv
BY InitInv, StepInv, PTL DEF Spec

--------------------------------------------------------------------------

\* The variables keep their types: in particular every run in flight has a bundle.
THEOREM RegisterTypeOK == Spec => []TypeOK
BY InitType, StepType, PTL DEF Spec

\* Wherever runs die and however they interleave, config.yaml names no project without a
\* directory of the developer's.
THEOREM ConfiguredAlwaysInstalled == Spec => []ConfiguredIsInstalled
<1>1. RegisterInv => ConfiguredIsInstalled  BY DEF RegisterInv
<1> QED  BY <1>1, AlwaysInv, PTL

\* However many runs of a bundle are verified, one registers it, and it is gone then.
THEOREM BundleRegisteredOnce == Spec => []RegisteredOnce
<1>1. RegisterInv => RegisteredOnce  BY DEF RegisterInv
<1> QED  BY <1>1, AlwaysInv, PTL

\* As long as no config is replaced under a merge, no block is lost or replaced.
LEMMA BlockStays ==
    ASSUME RegisterInv, [Next]_vars, ~overlap', NEW n \in Names, config[n] # None
    PROVE  config'[n] = config[n]
<1>1. CASE UNCHANGED config  BY <1>1
<1>2. ASSUME NEW p \in Runs, SwapConfig(p) PROVE config'[n] = config[n]
  <2>1. ~overlap  BY <1>2 DEF SwapConfig
  <2> QED  BY <1>2, <2>1 DEF SwapConfig, RegisterInv, MergeIsCurrent
<1> QED
  BY <1>1, <1>2 DEF Next, Command, Dies, Start, CheckTarget, CheckConfig, Move, Chown,
     ReadConfig, Install, Restart, Poll, Consume, Report, Boot, AutoRestart, Tick, vars

\* No run takes away or replaces the block of another project, unless two merges overlap.
THEOREM BlocksAlwaysKept == Spec => BlocksKept
<1>1. RegisterInv /\ [Next]_vars =>
          [~overlap' => \A n \in Names : config[n] # None => config'[n] = config[n]]_vars
  BY BlockStays
<1> QED  BY <1>1, AlwaysInv, PTL DEF Spec, BlocksKept

--------------------------------------------------------------------------
(* A success is served.                                                    *)

\* What was done for a project is not undone.
LEMMA DoneStays ==
    ASSUME RegisterInv, [Next]_vars, ~overlap'
    PROVE  /\ ~overlap
           /\ acl \subseteq acl'
           /\ \A n \in Names : config[n] # None /\ Loaded(n) => Loaded(n)'
<1>1. ~overlap
  <2>1. CASE UNCHANGED overlap  BY <2>1
  <2>2. ASSUME NEW p \in Runs, SwapConfig(p) PROVE ~overlap  BY <2>2 DEF SwapConfig
  <2> QED
    BY <2>1, <2>2 DEF Next, Command, Dies, Start, CheckTarget, CheckConfig, Move, Chown,
       ReadConfig, Install, Restart, Poll, Consume, Report, Boot, AutoRestart, Tick, vars
<1>2. acl \subseteq acl'
  BY DEF Next, Command, Dies, Start, CheckTarget, CheckConfig, Move, Chown, ReadConfig,
     SwapConfig, Install, Restart, Poll, Consume, Report, Boot, AutoRestart, Tick, vars
<1>3. ASSUME NEW n \in Names, config[n] # None, Loaded(n) PROVE Loaded(n)'
  <2> service \in [state : {"up", "starting", "down"}, loaded : Blocks]
    BY DEF RegisterInv, TypeOK
  <2>1. CASE UNCHANGED service  BY <1>3, <2>1 DEF Loaded
  <2>2. ASSUME NEW p \in Runs, Restart(p) PROVE Loaded(n)'  BY <2>2 DEF Restart, Loaded
  <2>3. CASE Boot \/ AutoRestart  BY <1>3, <2>3 DEF Boot, AutoRestart, Loaded
  <2> QED
    BY <2>1, <2>2, <2>3 DEF Next, Command, Dies, Start, CheckTarget, CheckConfig, Move, Chown,
       ReadConfig, SwapConfig, Install, Poll, Consume, Report, Tick, vars
<1> QED  BY <1>1, <1>2, <1>3

\* A run that takes its next step has done what the steps before it are for.
LEMMA OwnProgress ==
    ASSUME RegisterInv, ServedInv, ~overlap, ~overlap', [Next]_vars,
           NEW p \in Runs, Command(p) \/ Dies(p)
    PROVE  ProgressMade(p)'
<1>r. run \in [Runs -> RunRec] /\ TypeOK  BY DEF RegisterInv, TypeOK, RunRec
<1>m. ProgressMade(p)  BY DEF ServedInv
<1>t. run[p].pc # "idle" => Target(p) \in Names
  BY <1>r, RegisterAssumption DEF TypeOK, At, BundleOf, Target
<1>c. \A n \in Names : config[n] # None => config'[n] # None  BY BlockStays
<1>d. acl \subseteq acl' /\ \A n \in Names : config[n] # None /\ Loaded(n) => Loaded(n)'
  BY DoneStays
<1> DEFINE at == run'[p].pc
           n == Target(p)
<1>1. CASE at \in {"target", "config", "merge", "idle", "failed", "died", "done"}
  BY <1>1 DEF ProgressMade
<1>2. CASE CheckConfig(p)
  <2>1. /\ run'[p].bundle = run[p].bundle
        /\ run'[p].skipMerge = (config[n] # None)
        /\ at = IF run[p].skipMv THEN IF config[n] # None THEN "install" ELSE "merge" ELSE "move"
        /\ config' = config
    <3> DEFINE skip == config[n] # None
               next == IF run[p].skipMv THEN IF skip THEN "install" ELSE "merge" ELSE "move"
    <3>1. run' = [run EXCEPT ![p].skipMerge = skip, ![p].pc = next] /\ config' = config
      BY <1>2 DEF CheckConfig
    <3> HIDE DEF skip, next
    <3>2. run'[p].bundle = run[p].bundle /\ run'[p].skipMerge = skip /\ at = next
      BY <3>1, <1>r DEF RunRec
    <3> QED  BY <3>1, <3>2 DEF skip, next
  <2> QED  BY <2>1 DEF ProgressMade, Target, BundleOf
<1>3. CASE Move(p) \/ Chown(p) \/ Install(p) \/ Restart(p) \/ Poll(p) \/ Consume(p)
  <2>1. run[p].pc # "idle" /\ run'[p].bundle = run[p].bundle /\ run'[p].skipMerge = run[p].skipMerge
    BY <1>3, <1>r DEF Move, Chown, Install, Restart, Poll, Consume, Fail, Goto, At, RunRec
  <2>n. Target(p)' = n /\ n \in Names  BY <2>1, <1>t DEF Target, BundleOf
  <2>2. CASE Move(p)
    <3>1. at = "chown" /\ run[p].pc = "move"  BY <2>2, <1>r DEF Move, Goto, At, RunRec
    <3> QED  BY <2>1, <2>n, <3>1, <1>m, <1>c DEF ProgressMade
  <2>3. CASE Chown(p)
    <3>1. at = (IF run[p].skipMerge THEN "install" ELSE "merge") /\ run[p].pc = "chown"
      BY <2>3, <1>r DEF Chown, Goto, At, RunRec
    <3> QED  BY <2>1, <2>n, <3>1, <1>m, <1>c DEF ProgressMade
  <2>4. CASE Install(p)
    <3>1. at = "restart" /\ run[p].pc = "install" /\ acl' = acl \cup Configured
      BY <2>4, <1>r DEF Install, Goto, At, RunRec
    <3>2. config[n] # None  BY <3>1, <1>m DEF ProgressMade
    <3>3. n \in acl'  BY <2>n, <3>1, <3>2 DEF Configured
    <3> QED  BY <2>n, <3>1, <3>2, <3>3, <1>c DEF ProgressMade
  <2>5. CASE Restart(p)
    <3>1. at = "poll" /\ run[p].pc = "restart" /\ service'.state = "starting"
      BY <2>5, <1>r DEF Restart, Goto, At, RunRec, TypeOK
    <3> QED  BY <2>n, <3>1, <1>m, <1>c, <1>d DEF ProgressMade, Loaded
  <2>6. CASE Poll(p) \/ Consume(p)
    <3>1. run[p].pc \in {"poll", "cleanup"} /\ at \in {"cleanup", "failed", "report"}
      BY <2>6, <1>r DEF Poll, Consume, Fail, Goto, At, RunRec
    <3> QED  BY <2>n, <3>1, <1>m, <1>c, <1>d DEF ProgressMade
  <2> QED  BY <1>3, <2>2, <2>3, <2>4, <2>5, <2>6
<1>4. CASE ReadConfig(p)
  <2>1. /\ run[p].pc = "merge" /\ at = "swap" /\ run'[p].bundle = run[p].bundle
        /\ run'[p].tmp = [config EXCEPT ![n] = BundleOf(p)]
    BY <1>4, <1>r DEF ReadConfig, At, RunRec
  <2>2. n \in Names /\ BundleOf(p) \in Bundles
    BY <2>1, <1>t, <1>r DEF TypeOK, At, BundleOf
  <2>3. run'[p].tmp[n] # None
    BY <2>1, <2>2, <1>r, RegisterAssumption DEF TypeOK, Blocks
  <2> QED  BY <2>1, <2>3 DEF ProgressMade, Target, BundleOf
<1>5. CASE SwapConfig(p)
  <2>1. /\ run[p].pc = "swap" /\ at = "install" /\ run'[p].bundle = run[p].bundle
        /\ config' = run[p].tmp
    BY <1>5, <1>r DEF SwapConfig, At, RunRec
  <2> QED  BY <2>1, <1>m DEF ProgressMade, Target, BundleOf
<1>6. CASE Dies(p) \/ Report(p) \/ CheckTarget(p) \/ \E b \in Bundles : Start(p, b)
  <2>1. at \in {"died", "done", "failed", "config", "target"}
    <3>1. CASE Dies(p)  BY <3>1, <1>r DEF Dies, RunRec
    <3>2. CASE Report(p)  BY <3>2, <1>r DEF Report, Goto, RunRec
    <3>3. CASE CheckTarget(p)  BY <3>3, <1>r DEF CheckTarget, Fail, Goto, RunRec
    <3>4. CASE \E b \in Bundles : Start(p, b)
      <4>1. PICK b \in Bundles : Start(p, b)  BY <3>4
      <4>2. PICK pc \in {"target", "failed"} :
               LET new == [run[p] EXCEPT !.pc = pc, !.bundle = b]
               IN  run' = [run EXCEPT ![p] = new] /\ new.pc = pc /\ new.bundle = b
        <5>1. run \in [Runs -> RunRec]  BY <1>r
        <5> QED  BY <4>1, <5>1, StartForm
      <4> DEFINE new == [run[p] EXCEPT !.pc = pc, !.bundle = b]
      <4>3. run' = [run EXCEPT ![p] = new] /\ new.pc = pc  BY <4>2
      <4> HIDE DEF new
      <4>4. run'[p] = new  BY <4>3, <1>r
      <4> QED  BY <4>3, <4>4
    <3> QED  BY <1>6, <3>1, <3>2, <3>3, <3>4
  <2> QED  BY <2>1, <1>1
<1> QED  BY <1>2, <1>3, <1>4, <1>5, <1>6 DEF Command

LEMMA StepServed == RegisterInv /\ ServedInv /\ [Next]_vars => ServedInv'
<1> SUFFICES ASSUME RegisterInv, ServedInv, [Next]_vars, ~overlap'
             PROVE  /\ \A p \in Runs : ProgressMade(p)'
                    /\ \A b \in Bundles : adminLog'[b].success > 0 =>
                          /\ config'[NameOf[b]] # None /\ NameOf[b] \in acl'
                          /\ Loaded(NameOf[b])'
  BY DEF ServedInv
<1>r. run \in [Runs -> RunRec] /\ TypeOK  BY DEF RegisterInv, TypeOK, RunRec
<1>o. ~overlap /\ acl \subseteq acl'  BY DoneStays
<1>k. \A n \in Names : config[n] # None =>
          config'[n] # None /\ (Loaded(n) => Loaded(n)')
  BY BlockStays, DoneStays
<1>s. ASSUME NEW q \in Runs, run'[q] = run[q] PROVE ProgressMade(q)'
  <2>1. ProgressMade(q)  BY <1>o DEF ServedInv
  <2>2. run[q].pc # "idle" => Target(q) \in Names
    BY <1>r, RegisterAssumption DEF TypeOK, At, BundleOf, Target
  <2>3. Target(q)' = Target(q)  BY <1>s DEF Target, BundleOf
  <2> QED  BY <1>s, <1>o, <1>k, <2>1, <2>2, <2>3 DEF ProgressMade
<1>b. ASSUME NEW b \in Bundles, config[NameOf[b]] # None, NameOf[b] \in acl, Loaded(NameOf[b])
      PROVE  config'[NameOf[b]] # None /\ NameOf[b] \in acl' /\ Loaded(NameOf[b])'
  <2>1. NameOf[b] \in Names  BY RegisterAssumption
  <2> QED  BY <1>b, <1>o, <1>k, <2>1
<1>1. CASE UNCHANGED <<staging, dir, config, run, adminLog, overlap>>
  <2>1. \A p \in Runs : ProgressMade(p)'  BY <1>1, <1>s
  <2>2. \A b \in Bundles : adminLog'[b].success > 0 =>
            config[NameOf[b]] # None /\ NameOf[b] \in acl /\ Loaded(NameOf[b])
    BY <1>1, <1>o DEF ServedInv
  <2> QED  BY <2>1, <2>2, <1>b
<1>2. ASSUME NEW p \in Runs, Command(p) \/ Dies(p)
      PROVE  /\ \A q \in Runs : ProgressMade(q)'
             /\ \A b \in Bundles : adminLog'[b].success > 0 =>
                   /\ config'[NameOf[b]] # None /\ NameOf[b] \in acl'
                   /\ Loaded(NameOf[b])'
  <2>1. \A q \in Runs : ProgressMade(q)'
    <3>1. ProgressMade(p)'  BY <1>2, <1>o, OwnProgress
    <3>2. \A q \in Runs \ {p} : run'[q] = run[q]  BY <1>2, <1>r, OthersStay
    <3> QED  BY <3>1, <3>2, <1>s
  <2>2. ASSUME NEW b \in Bundles, adminLog'[b].success > 0
        PROVE  config[NameOf[b]] # None /\ NameOf[b] \in acl /\ Loaded(NameOf[b])
    <3>1. CASE ~Report(p)
      BY <1>2, <1>r, <1>o, <2>2, <3>1, SuccessStays DEF ServedInv
    <3>2. CASE Report(p) /\ b = BundleOf(p)
      <4>1. ProgressMade(p) /\ run[p].pc = "report"
        BY <1>o, <3>2 DEF ServedInv, Report, At
      <4> QED  BY <3>2, <4>1 DEF ProgressMade, Target
    <3>3. CASE Report(p) /\ b # BundleOf(p)
      <4>1. adminLog'[b] = adminLog[b]
        BY <1>r, <3>3 DEF Report, Emit, TypeOK
      <4> QED  BY <1>o, <2>2, <4>1 DEF ServedInv
    <3> QED  BY <3>1, <3>2, <3>3
  <2> QED  BY <2>1, <2>2, <1>b
<1> QED  BY <1>1, <1>2, RunOrRest

\* A run that reported success left a project that can be used, and no later run, crash or
\* restart takes that back: directory, block, ACL, and a running bridge has loaded it.
THEOREM SuccessAlwaysServed == Spec => []SuccessIsServed
<1>1. Init => ServedInv
  <2> SUFFICES ASSUME Init PROVE ServedInv
    OBVIOUS
  <2>1. \A p \in Runs : ProgressMade(p)  BY DEF Init, ProgressMade
  <2>2. \A b \in Bundles : adminLog[b].success = 0  BY DEF Init
  <2> QED  BY <2>1, <2>2 DEF ServedInv
<1>2. RegisterInv /\ ServedInv => SuccessIsServed
  <2> SUFFICES ASSUME RegisterInv, ServedInv, NEW b \in Bundles, adminLog[b].success > 0, ~overlap
               PROVE  /\ dir[NameOf[b]].owner = "hypn0" /\ config[NameOf[b]] # None
                      /\ NameOf[b] \in acl
                      /\ service.state = "up" => service.loaded[NameOf[b]] # None
    BY DEF SuccessIsServed
  <2>1. NameOf[b] \in Names  BY RegisterAssumption
  <2> QED  BY <2>1 DEF RegisterInv, ConfiguredIsInstalled, ServedInv, Loaded
<1> QED  BY <1>1, <1>2, StepServed, AlwaysInv, PTL DEF Spec

--------------------------------------------------------------------------
(* No payload is dropped.                                                  *)

\* What is in a directory stays there; nothing is staged again.
LEMMA PayloadsStay ==
    ASSUME TypeOK, NEW p \in Runs, Command(p) \/ Dies(p), NEW b \in Bundles
    PROVE  /\ NameOf[b] \in Names
           /\ dir[NameOf[b]].holds \subseteq dir'[NameOf[b]].holds
           /\ staging'[b] = "staged" => staging[b] = "staged"
           /\ staging'[b] = "moved" => staging[b] = "moved" \/ (Move(p) /\ b = BundleOf(p))
           /\ staging'[b] = "consumed" => staging[b] = "consumed" \/ (Consume(p) /\ b = BundleOf(p))
<1>n. NameOf[b] \in Names  BY RegisterAssumption
<1>1. CASE UNCHANGED <<dir, staging>>
  BY <1>n, <1>1
<1>2. CASE Move(p)
  BY <1>n, <1>2 DEF Move, TypeOK
<1>3. CASE Chown(p)
  BY <1>n, <1>3 DEF Chown, TypeOK
<1>4. CASE Consume(p)
  BY <1>n, <1>4 DEF Consume, TypeOK
<1> QED
  BY <1>1, <1>2, <1>3, <1>4 DEF Command, Dies, Start, CheckTarget, CheckConfig, ReadConfig,
     SwapConfig, Install, Restart, Poll, Report

\* How a run gets past the move: by it, or because the check of the target skipped it.
LEMMA PastTheMove ==
    ASSUME TypeOK, NEW p \in Runs, Command(p) \/ Dies(p), ~run'[p].skipMv,
           run'[p].pc \in {"chown", "merge", "swap", "install", "restart", "poll", "cleanup"}
    PROVE  \/ Move(p)
           \/ /\ ~run[p].skipMv /\ run'[p].bundle = run[p].bundle
              /\ run[p].pc \in {"chown", "merge", "swap", "install", "restart", "poll", "cleanup"}
<1>r. run \in [Runs -> RunRec]  BY DEF TypeOK, RunRec
<1>1. CASE CheckConfig(p)
  <2> DEFINE skip == config[Target(p)] # None
             next == IF run[p].skipMv THEN IF skip THEN "install" ELSE "merge" ELSE "move"
  <2>1. run' = [run EXCEPT ![p].skipMerge = skip, ![p].pc = next]
    BY <1>1 DEF CheckConfig
  <2> HIDE DEF skip
  <2>2. run'[p].skipMv = run[p].skipMv /\ run'[p].pc = next
    BY <2>1, <1>r DEF RunRec
  <2> QED  BY <2>2
<1>2. CASE Chown(p) \/ Install(p) \/ Restart(p) \/ Poll(p) \/ Consume(p) \/ Report(p)
  BY <1>2, <1>r DEF Chown, Install, Restart, Poll, Consume, Report, Fail, Goto, At, RunRec
<1>3. CASE ReadConfig(p) \/ SwapConfig(p) \/ Dies(p)
  BY <1>3, <1>r DEF ReadConfig, SwapConfig, Dies, At, RunRec
<1>4. CASE CheckTarget(p)
  <2>1. run'[p].pc \in {"failed", "config"}
    BY <1>4, <1>r DEF CheckTarget, Fail, Goto, RunRec
  <2> QED  BY <2>1
<1>5. CASE \E b \in Bundles : Start(p, b)
  <2>1. run'[p].pc \in {"failed", "target"}
    BY <1>5, <1>r DEF Start, RunRec
  <2> QED  BY <2>1
<1> QED  BY <1>1, <1>2, <1>3, <1>4, <1>5 DEF Command

\* A run that found the directory there, and consumed its bundle, remembers both.
LEMMA WitnessStays ==
    ASSUME TypeOK, NEW p \in Runs, Command(p) \/ Dies(p), NEW q \in Runs,
           run[q].skipMv, run[q].pc \in {"report", "done", "died"}
    PROVE  /\ run'[q].bundle = run[q].bundle /\ run'[q].skipMv
           /\ run'[q].pc \in {"report", "done", "died"}
<1>r. run \in [Runs -> RunRec]  BY DEF TypeOK, RunRec
<1>1. CASE q # p  BY <1>1, OthersStay
<1>2. CASE q = p
  <2>1. Report(p) \/ Dies(p)
    BY <1>2 DEF Command, Start, CheckTarget, CheckConfig, Move, Chown, ReadConfig, SwapConfig,
       Install, Restart, Poll, Consume, At
  <2> QED  BY <1>2, <2>1, <1>r DEF Report, Dies, Goto, RunRec
<1> QED  BY <1>1, <1>2

LEMMA StepPayload == TypeOK /\ PayloadInv /\ [Next]_vars => PayloadInv'
<1> SUFFICES ASSUME TypeOK, PayloadInv, [Next]_vars PROVE PayloadInv'
  OBVIOUS
<1>r. run \in [Runs -> RunRec]  BY DEF TypeOK, RunRec
<1>1. CASE UNCHANGED <<staging, dir, config, run, adminLog, overlap>>
  BY <1>1 DEF PayloadInv, PayloadNotDropped, BundleOf
<1>2. ASSUME NEW p \in Runs, Command(p) \/ Dies(p) PROVE PayloadInv'
  <2>b. run[p].pc # "idle" => BundleOf(p) \in Bundles  BY DEF TypeOK, At, BundleOf
  <2>1. ASSUME NEW b \in Bundles, staging'[b] = "moved" PROVE b \in dir'[NameOf[b]].holds
    <3>1. CASE staging[b] = "moved"
      BY <1>2, <3>1, PayloadsStay DEF PayloadInv
    <3>2. CASE Move(p) /\ b = BundleOf(p)
      <4>1. NameOf[b] \in Names  BY RegisterAssumption
      <4> QED  BY <3>2, <4>1 DEF Move, Target, TypeOK
    <3> QED  BY <1>2, <2>1, <3>1, <3>2, PayloadsStay
  <2>2. ASSUME NEW q \in Runs, ~run'[q].skipMv,
               run'[q].pc \in {"chown", "merge", "swap", "install", "restart", "poll", "cleanup"}
        PROVE  staging'[run'[q].bundle] # "staged"
    <3>1. ASSUME ~run[q].skipMv, run'[q].bundle = run[q].bundle,
                 run[q].pc \in {"chown", "merge", "swap", "install", "restart", "poll", "cleanup"}
          PROVE  staging'[run'[q].bundle] # "staged"
      <4>1. run[q].bundle \in Bundles  BY <3>1 DEF TypeOK, At, BundleOf
      <4>2. staging[run[q].bundle] # "staged"  BY <3>1 DEF PayloadInv, BundleOf
      <4> QED  BY <1>2, <3>1, <4>1, <4>2, PayloadsStay
    <3>2. CASE q # p
      <4>1. run'[q] = run[q]  BY <1>2, <3>2, OthersStay
      <4> QED  BY <2>2, <3>1, <4>1
    <3>3. CASE q = p /\ Move(p)
      <4>1. run[p].pc # "idle" /\ run'[p].bundle = run[p].bundle
        BY <3>3, <1>r DEF Move, Goto, At, RunRec
      <4> QED  BY <3>3, <4>1, <2>b DEF Move, BundleOf, TypeOK
    <3> QED  BY <1>2, <2>2, <3>1, <3>2, <3>3, PastTheMove
  <2>3. ASSUME NEW b \in Bundles, staging'[b] = "consumed", b \notin dir'[NameOf[b]].holds
        PROVE  \E q \in Runs : /\ run'[q].bundle = b /\ run'[q].skipMv
                                /\ run'[q].pc \in {"report", "done", "died"}
    <3>1. b \notin dir[NameOf[b]].holds  BY <1>2, <2>3, PayloadsStay
    <3>2. CASE staging[b] = "consumed"
      <4>1. PICK q \in Runs : /\ run[q].bundle = b /\ run[q].skipMv
                              /\ run[q].pc \in {"report", "done", "died"}
        BY <3>1, <3>2 DEF PayloadInv, PayloadNotDropped, BundleOf
      <4> QED  BY <1>2, <4>1, WitnessStays
    <3>3. CASE Consume(p) /\ b = BundleOf(p) /\ staging[b] # "consumed"
      <4>1. staging[b] # "moved"  BY <3>1 DEF PayloadInv
      <4>2. staging[b] = "staged"  BY <3>3, <4>1 DEF TypeOK
      <4>3. run[p].skipMv  BY <3>3, <4>2 DEF PayloadInv, Consume, At
      <4>4. run'[p].pc = "report" /\ run'[p].bundle = b /\ run'[p].skipMv
        BY <3>3, <4>3, <1>r DEF Consume, Goto, BundleOf, RunRec
      <4> QED  BY <4>4
    <3> QED  BY <1>2, <2>3, <3>2, <3>3, PayloadsStay
  <2> QED  BY <2>1, <2>2, <2>3 DEF PayloadInv, PayloadNotDropped, BundleOf
<1> QED  BY <1>1, <1>2, RunOrRest

\* A bundle that is gone has left its payload in the project directory, unless the run that
\* deleted it had found that directory in place: no race of two runs loses one.
THEOREM PayloadNeverDropped == Spec => []PayloadNotDropped
<1>1. Init => PayloadInv
  BY DEF Init, PayloadInv, PayloadNotDropped
<1>2. PayloadInv => PayloadNotDropped
  BY DEF PayloadInv
<1> QED  BY <1>1, <1>2, StepPayload, RegisterTypeOK, PTL DEF Spec

=============================================================================
