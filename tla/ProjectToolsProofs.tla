------------------------- MODULE ProjectToolsProofs -------------------------
(***************************************************************************)
(* Proofs about ProjectTools: the types of its variables, that no step of  *)
(* a tool rewrites history, that its commits keep to their paths and to    *)
(* the policy, that staged files and the edits of others survive, and that *)
(* what the tools answer is so.                                            *)
(***************************************************************************)
EXTENDS ProjectTools, TLAPS

RepoOK ==
    /\ tree \in Tree /\ index \in Tree
    /\ log \in [Refs -> History] /\ remote \in [Branches -> History]
    /\ head \in Refs /\ log[head] # <<>>

CallOK ==
    call \in [pc : PCs, op : Ops, paths : SUBSET Files, read : Text, old : Text,
              text : Text, name : Branches]
Outcomes == {"ok", "denied", "error", "raised"}
AnAnswer == [k : Nat, op : Ops, at : PCs, outcome : Outcomes, late : BOOLEAN,
             name : Branches, hist : History]
AnswersOK == answers \subseteq AnAnswer
UsedOK == used \in [calls : Nat, others : Nat, faults : Nat]
RestOK == procs \subseteq {"command", "child", "background"} /\ policy \in Policies

\* The parts of the type invariant.
LEMMA TypeParts == TypeOK <=> RepoOK /\ CallOK /\ AnswersOK /\ UsedOK /\ RestOK
BY DEF TypeOK, RepoOK, CallOK, AnswersOK, AnAnswer, Outcomes, UsedOK, RestOK, HeadLog

LEMMA TypePartsNext == RepoOK' /\ CallOK' /\ AnswersOK' /\ UsedOK' /\ RestOK' => TypeOK'
BY DEF TypeOK, RepoOK, CallOK, AnswersOK, AnAnswer, Outcomes, UsedOK, RestOK, HeadLog

\* What is picked from the working tree is a tree.
LEMMA PickedType ==
    ASSUME RepoOK, NEW base \in Tree, NEW paths \in SUBSET Files
    PROVE  Picked(base, paths) \in Tree
BY DEF RepoOK, Picked, Tree

\* The tree of a branch's last commit is a tree.
LEMMA TipType ==
    ASSUME NEW l \in History, l # <<>>
    PROVE  TipTree(l) \in Tree /\ Len(l) \in Nat /\ Len(l) >= 1
<1>1. Len(l) \in Nat /\ Len(l) >= 1  BY DEF History
<1>2. l[Len(l)] \in Commit  BY <1>1 DEF History
<1> QED  BY <1>1, <1>2 DEF TipTree, Commit

\* A commit on top of a branch leaves well-typed branches.
LEMMA AppendType ==
    ASSUME RepoOK, NEW b \in Refs, NEW c \in Commit, Append1(b, c)
    PROVE  log' \in [Refs -> History] /\ \A r \in Refs : log[r] # <<>> => log'[r] # <<>>
<1>1. Append(log[b], c) \in History /\ Append(log[b], c) # <<>>
  BY DEF RepoOK, History
<1> QED  BY <1>1 DEF RepoOK, Append1

\* Each git command a tool runs leaves a well-typed repository.
LEMMA GitTypes ==
    ASSUME RepoOK, UsedOK, NEW paths \in SUBSET Files, NEW b \in Branches,
           \/ GitAdd(paths) \/ GitCommit(paths) \/ GitCheckoutNew(b) \/ GitPush(b)
    PROVE  RepoOK'
<1>1. CASE GitAdd(paths)
  BY <1>1, PickedType DEF GitAdd, RepoOK
<1>2. CASE GitCommit(paths)
  <2> DEFINE c == [by |-> "bridge", k |-> used.calls, paths |-> paths,
                   tree |-> Picked(HeadTree, paths)]
  <2>1. HeadTree \in Tree  BY TipType DEF RepoOK, HeadTree, HeadLog
  <2>2. Picked(HeadTree, paths) \in Tree /\ Picked(index, paths) \in Tree
    BY <2>1, PickedType DEF RepoOK
  <2>3. c \in Commit  BY <2>2 DEF Commit, UsedOK
  <2>4. Append1(head, c)  BY <1>2 DEF GitCommit
  <2> HIDE DEF c
  <2>5. log' \in [Refs -> History] /\ \A r \in Refs : log[r] # <<>> => log'[r] # <<>>
    BY <2>3, <2>4, AppendType DEF RepoOK
  <2> QED  BY <1>2, <2>2, <2>5 DEF GitCommit, RepoOK
<1>3. CASE GitCheckoutNew(b)
  BY <1>3 DEF GitCheckoutNew, GitCheckoutReset, RepoOK, HeadLog, Refs
<1>4. CASE GitPush(b)
  BY <1>4 DEF GitPush, GitPushForced, RepoOK, HeadLog
<1> QED  BY <1>1, <1>2, <1>3, <1>4

\* A tool that starts, is answered or goes on keeps the types of the calls.
LEMMA CallTypes ==
    ASSUME TypeOK
    PROVE  /\ \A allowed \in BOOLEAN, refusals \in {PathRefusals, NameRefusals, CommandRefusals},
                 pc \in PCs, op \in Ops, paths \in SUBSET Files, name \in Branches :
                 Begin(allowed, refusals, pc, op, paths, name) => CallOK' /\ AnswersOK' /\ UsedOK'
           /\ \A outcome \in Outcomes, late \in BOOLEAN :
                 Answer(outcome, late) => CallOK' /\ AnswersOK'
           /\ \A pc \in PCs : Goto(pc) => CallOK' /\ AnswersOK'
<1>n. NoCall \in [pc : PCs, op : Ops, paths : SUBSET Files, read : Text, old : Text,
                  text : Text, name : Branches]
  BY ProjectAssumption DEF NoCall, PCs, Ops, Text
<1>1. ASSUME NEW allowed \in BOOLEAN,
             NEW refusals \in {PathRefusals, NameRefusals, CommandRefusals},
             NEW pc \in PCs, NEW op \in Ops, NEW paths \in SUBSET Files, NEW name \in Branches,
             Begin(allowed, refusals, pc, op, paths, name)
      PROVE  CallOK' /\ AnswersOK' /\ UsedOK'
  <2>1. UsedOK'  BY <1>1 DEF Begin, TypeOK, UsedOK
  <2>2. NewPiece' \in Text  BY <2>1 DEF NewPiece, Text, Piece, UsedOK
  <2>3. CASE call' = [NoCall EXCEPT !.pc = pc, !.op = op, !.paths = paths, !.name = name,
                                    !.text = NewPiece'] /\ UNCHANGED answers
    BY <2>1, <2>2, <2>3, <1>n, TypeParts DEF CallOK, AnswersOK
  <2>4. CASE /\ UNCHANGED call
             /\ \E outcome \in IF allowed THEN refusals ELSE {"denied"} :
                   answers' = answers \cup
                      {[k |-> used'.calls, op |-> op, at |-> call.pc, outcome |-> outcome, late |-> FALSE,
                        name |-> name, hist |-> <<>>]}
    <3>1. PICK outcome \in {"denied", "error"} : answers' = answers \cup
             {[k |-> used'.calls, op |-> op, at |-> call.pc, outcome |-> outcome, late |-> FALSE,
               name |-> name, hist |-> <<>>]}
      BY <2>4 DEF PathRefusals, NameRefusals, CommandRefusals
    <3>2. <<>> \in History /\ used'.calls \in Nat /\ call.pc \in PCs
      BY <2>1 DEF History, UsedOK, TypeOK
    <3>3. [k |-> used'.calls, op |-> op, at |-> call.pc, outcome |-> outcome, late |-> FALSE,
           name |-> name, hist |-> <<>>] \in AnAnswer
      BY <3>2 DEF AnAnswer, Outcomes
    <3>4. AnswersOK'  BY <3>1, <3>3, TypeParts DEF AnswersOK
    <3> QED  BY <2>1, <2>4, <3>4 DEF CallOK, TypeOK
  <2> QED  BY <1>1, <2>3, <2>4 DEF Begin
<1>2. ASSUME NEW outcome \in Outcomes, NEW late \in BOOLEAN,
             Answer(outcome, late)
      PROVE  CallOK' /\ AnswersOK'
  <2>1. (IF call.op = "push" THEN HeadLog ELSE <<>>) \in History
    BY DEF TypeOK, HeadLog, History
  <2>2. call.op \in Ops /\ call.pc \in PCs /\ call.name \in Branches /\ used.calls \in Nat
    BY DEF TypeOK
  <2> DEFINE hist == IF call.op = "push" THEN HeadLog ELSE <<>>
  <2>3. answers' = answers \cup
           {[k |-> used.calls, op |-> call.op, at |-> call.pc, outcome |-> outcome, late |-> late,
             name |-> call.name, hist |-> hist]}
    BY <1>2 DEF Answer
  <2>4. hist \in History  BY <2>1
  <2> HIDE DEF hist
  <2>5. [k |-> used.calls, op |-> call.op, at |-> call.pc, outcome |-> outcome, late |-> late,
         name |-> call.name, hist |-> hist] \in AnAnswer
    BY <2>2, <2>4 DEF AnAnswer
  <2>6. AnswersOK'  BY <2>3, <2>5, TypeParts DEF AnswersOK
  <2> QED  BY <1>2, <1>n, <2>6 DEF Answer, CallOK
<1>3. ASSUME NEW pc \in PCs, Goto(pc) PROVE CallOK' /\ AnswersOK'
  BY <1>3, TypeParts DEF Goto, CallOK, AnswersOK
<1> QED  BY <1>1, <1>2, <1>3

\* An overwritten file leaves a tree.
LEMMA OverwrittenType ==
    ASSUME TypeOK, NEW text \in Text
    PROVE  Overwritten(text) \in Tree
BY DEF TypeOK, Overwritten, Tree

\* What stays when the repository does.
LEMMA RepoStays ==
    ASSUME TypeOK, UNCHANGED repo
    PROVE  RepoOK'
BY DEF TypeOK, RepoOK, repo, HeadLog

\* A write of the working tree alone.
LEMMA TreeWritten ==
    ASSUME TypeOK, tree' \in Tree, UNCHANGED <<index, log, head, remote>>
    PROVE  RepoOK'
BY DEF TypeOK, RepoOK, HeadLog

LEMMA SameTypes ==
    ASSUME TypeOK, UNCHANGED <<procs, policy>>
    PROVE  RestOK'
BY DEF TypeOK, RestOK

LEMMA UsedTypes ==
    ASSUME TypeOK
    PROVE  /\ UNCHANGED used => UsedOK'
           /\ Fault => UsedOK'
           /\ Other => UsedOK'
BY DEF TypeOK, UsedOK, Fault, Other

\* The steps of a tool in progress keep the types.
LEMMA ToolTypes ==
    ASSUME TypeOK, ToolStep
    PROVE  TypeOK'
<1>r. RepoOK /\ UsedOK /\ CallOK /\ AnswersOK /\ RestOK  BY TypeParts
<1>c. call.paths \in SUBSET Files /\ call.name \in Branches /\ call.text \in Text
  BY DEF TypeOK
<1>b. {"ok", "error", "raised"} \subseteq Outcomes
      /\ TRUE \in BOOLEAN /\ FALSE \in BOOLEAN
  BY DEF Outcomes
<1>p. {"write", "commit", "checkout", "report", "push"} \subseteq PCs
  BY DEF PCs, GitPoints
<1>s. Same => RestOK' /\ UsedOK'  BY SameTypes, UsedTypes DEF Same
<1>1. CASE ReadFile
  <2>1. PICK f \in call.paths : \E p \in tree[f] :
           call' = [call EXCEPT !.pc = "write", !.read = tree[f], !.old = {p},
                                !.text = (tree[f] \ {p}) \cup @]
    BY <1>1 DEF ReadFile
  <2>a. PICK p \in tree[f] :
           call' = [call EXCEPT !.pc = "write", !.read = tree[f], !.old = {p},
                                !.text = (tree[f] \ {p}) \cup @]
    BY <2>1
  <2>2. tree[f] \in Text /\ {p} \in Text
    BY <1>c, <2>1, <2>a DEF TypeOK, Tree, Text
  <2>3. ((tree[f] \ {p}) \cup call.text) \in Text  BY <1>c, <2>2 DEF Text
  <2>4. CallOK'  BY <1>r, <1>p, <2>a, <2>2, <2>3 DEF CallOK
  <2>5. AnswersOK' /\ RepoOK' /\ RestOK' /\ UsedOK'
    BY <1>1, <1>r, <1>s, RepoStays DEF ReadFile, AnswersOK
  <2> QED  BY <2>4, <2>5, TypePartsNext
<1>2. CASE WriteBytes
  <2>1. RepoOK'  BY <1>2, <1>c, OverwrittenType, TreeWritten DEF WriteBytes
  <2> QED  BY <1>2, <2>1, <1>b, <1>s, CallTypes, TypePartsNext DEF WriteBytes
<1>3. CASE CheckBranch
  <2>1. CallOK' /\ AnswersOK'  BY <1>3, <1>b, <1>p, CallTypes DEF CheckBranch
  <2> QED  BY <1>3, <2>1, <1>s, RepoStays, TypePartsNext DEF CheckBranch
<1>4. CASE Checkout
  <2>1. RepoOK'  BY <1>4, <1>c, <1>r, GitTypes DEF Checkout
  <2> QED  BY <1>4, <2>1, <1>b, <1>s, CallTypes, TypePartsNext DEF Checkout
<1>5. CASE Add
  <2>1. RepoOK'  BY <1>5, <1>c, <1>r, GitTypes DEF Add
  <2> QED  BY <1>5, <2>1, <1>p, <1>s, CallTypes, TypePartsNext DEF Add
<1>6. CASE MakeCommit
  <2>1. RepoOK'  BY <1>6, <1>c, <1>r, GitTypes DEF MakeCommit
  <2> QED  BY <1>6, <2>1, <1>p, <1>s, CallTypes, TypePartsNext DEF MakeCommit
<1>7. CASE Report
  BY <1>7, <1>b, <1>s, CallTypes, RepoStays, TypePartsNext DEF Report
<1>8. CASE ReadBranch
  <2>1. CASE head = Detached
    BY <1>8, <2>1, <1>b, <1>s, CallTypes, RepoStays, TypePartsNext DEF ReadBranch
  <2>2. CASE head # Detached
    <3>1. head \in Branches  BY <2>2 DEF TypeOK, Refs
    <3>2. call' = [call EXCEPT !.pc = "push", !.name = head] /\ UNCHANGED answers
      BY <1>8, <2>2 DEF ReadBranch
    <3>3. CallOK'  BY <1>r, <1>p, <3>1, <3>2 DEF CallOK
    <3>4. AnswersOK'  BY <1>r, <3>2 DEF AnswersOK
    <3> QED  BY <1>8, <3>3, <3>4, <1>s, RepoStays, TypePartsNext DEF ReadBranch
  <2> QED  BY <2>1, <2>2
<1>9. CASE Push
  <2>1. RepoOK'  BY <1>9, <1>c, <1>r, GitTypes DEF Push
  <2> QED  BY <1>9, <2>1, <1>b, <1>s, CallTypes, TypePartsNext DEF Push
<1>10. CASE RunEnds
  <2>1. CallOK' /\ AnswersOK'  BY <1>10, <1>b, CallTypes DEF RunEnds
  <2> QED  BY <1>10, <2>1, SameTypes, UsedTypes, RepoStays, TypePartsNext DEF RunEnds
<1>11. CASE RunTimesOut
  <2>1. CallOK' /\ AnswersOK'  BY <1>11, <1>b, CallTypes DEF RunTimesOut
  <2>2. RestOK'  BY <1>11, <1>r DEF RunTimesOut, LeftBehind, RestOK
  <2> QED  BY <1>11, <2>1, <2>2, UsedTypes, RepoStays, TypePartsNext DEF RunTimesOut
<1>12. ASSUME NEW pc \in {"read", "write"} \cup GitPoints, Refused(pc)
       PROVE  TypeOK'
  BY <1>12, <1>b, <1>s, CallTypes, RepoStays, TypePartsNext DEF Refused
<1>13. CASE Undecodable
  <2>1. RepoOK'  BY <1>13, <1>c, <1>r, RepoStays, GitTypes DEF Undecodable, Interrupted
  <2> QED  BY <1>13, <2>1, <1>b, <1>s, CallTypes, TypePartsNext DEF Undecodable
<1> QED
  BY <1>1, <1>2, <1>3, <1>4, <1>5, <1>6, <1>7, <1>8, <1>9, <1>10, <1>11, <1>12, <1>13
     DEF ToolStep

\* The client keeps the types.
LEMMA ClientTypes ==
    ASSUME TypeOK, Client
    PROVE  TypeOK'
<1>p. /\ {"write", "read", "verify", "add", "symbolic", "run"} \subseteq PCs
      /\ {"write", "patch", "branch", "commit", "push", "run"} \subseteq Ops
      /\ {} \in SUBSET Files /\ Main \in Branches
  BY ProjectAssumption DEF PCs, GitPoints, Ops
<1>w. policy.write \in BOOLEAN /\ policy.push \in BOOLEAN
  BY DEF TypeOK, Policies
<1>1. ASSUME UNCHANGED <<repo, procs, policy>>, CallOK', AnswersOK', UsedOK' PROVE TypeOK'
  BY <1>1, RepoStays, SameTypes, TypePartsNext
<1>2. CASE StartWrite
  <2>1. PICK f \in Files : Begin(policy.write, PathRefusals, "write", "write", {f}, Main)
    BY <1>2 DEF StartWrite
  <2>2. {f} \in SUBSET Files  OBVIOUS
  <2>3. CallOK' /\ AnswersOK' /\ UsedOK'  BY <2>1, <2>2, <1>p, <1>w, CallTypes
  <2> QED  BY <1>1, <1>2, <2>1, <2>3 DEF StartWrite, Begin
<1>3. CASE StartPatch
  <2>1. PICK f \in Files : Begin(policy.write, PathRefusals, "read", "patch", {f}, Main)
    BY <1>3 DEF StartPatch
  <2>2. {f} \in SUBSET Files  OBVIOUS
  <2>3. CallOK' /\ AnswersOK' /\ UsedOK'  BY <2>1, <2>2, <1>p, <1>w, CallTypes
  <2> QED  BY <1>1, <1>3, <2>1, <2>3 DEF StartPatch, Begin
<1>4. CASE StartBranch
  <2>1. PICK b \in Branches : Begin(policy.write, NameRefusals, "verify", "branch", {}, b)
    BY <1>4 DEF StartBranch
  <2>2. CallOK' /\ AnswersOK' /\ UsedOK'  BY <2>1, <1>p, <1>w, CallTypes
  <2> QED  BY <1>1, <1>4, <2>1, <2>2 DEF StartBranch, Begin
<1>5. CASE StartCommit
  <2>1. PICK paths \in SUBSET Files : Begin(policy.write, PathRefusals, "add", "commit", paths, Main)
    BY <1>5 DEF StartCommit
  <2>2. CallOK' /\ AnswersOK' /\ UsedOK'  BY <2>1, <1>p, <1>w, CallTypes
  <2> QED  BY <1>1, <1>5, <2>1, <2>2 DEF StartCommit, Begin
<1>6. CASE StartPush
  <2>1. (policy.write /\ policy.push) \in BOOLEAN  BY <1>w
  <2>2. CallOK' /\ AnswersOK' /\ UsedOK'  BY <1>6, <2>1, <1>p, CallTypes DEF StartPush
  <2> QED  BY <1>1, <1>6, <2>2 DEF StartPush, Begin
<1>7. CASE StartRun
  <2>1. CallOK' /\ AnswersOK' /\ UsedOK'  BY <1>7, <1>p, <1>w, CallTypes DEF StartRun
  <2>2. RestOK'  BY <1>7, TypeParts DEF StartRun, Begin, RestOK
  <2>3. RepoOK'  BY <1>7, RepoStays DEF StartRun
  <2> QED  BY <2>1, <2>2, <2>3, TypePartsNext
<1> QED  BY <1>2, <1>3, <1>4, <1>5, <1>6, <1>7 DEF Client

\* So do the faults.
LEMMA FaultTypes ==
    ASSUME TypeOK, Faults
    PROVE  TypeOK'
<1>r. RepoOK /\ UsedOK /\ CallOK /\ AnswersOK /\ RestOK  BY TypeParts
<1>c. call.paths \in SUBSET Files /\ call.name \in Branches  BY DEF TypeOK
<1>b. "error" \in Outcomes /\ TRUE \in BOOLEAN /\ FALSE \in BOOLEAN
  BY DEF Outcomes
<1>t. Overwritten(Torn) \in Tree  BY OverwrittenType DEF Torn, Text, Piece
<1>1. CASE WriteFails
  <2>1. RepoOK'  BY <1>1, <1>t, TreeWritten DEF WriteFails
  <2>2. CallOK' /\ AnswersOK'  BY <1>1, <1>b, CallTypes DEF WriteFails
  <2> QED  BY <1>1, <2>1, <2>2, SameTypes, UsedTypes, TypePartsNext DEF WriteFails
<1>2. CASE GitTimesOut
  <2>1. RepoOK'  BY <1>2, <1>c, <1>r, RepoStays, GitTypes DEF GitTimesOut, Interrupted
  <2>2. CallOK' /\ AnswersOK'  BY <1>2, <1>b, CallTypes DEF GitTimesOut
  <2> QED  BY <1>2, <2>1, <2>2, SameTypes, UsedTypes, TypePartsNext DEF GitTimesOut
<1>3. CASE Crash
  <2>1. RepoOK'
    <3>1. CASE Interrupted
      BY <3>1, <1>c, <1>r, RepoStays, GitTypes DEF Interrupted
    <3>2. CASE /\ \E text \in {Torn, call.text} : tree' = Overwritten(text)
               /\ UNCHANGED <<index, log, head, remote>>
      <4>1. tree' \in Tree
        BY <3>2, <1>t, OverwrittenType DEF TypeOK
      <4> QED  BY <3>2, <4>1, TreeWritten
    <3> QED  BY <1>3, <3>1, <3>2 DEF Crash
  <2>2. CallOK'
    BY <1>3, ProjectAssumption DEF Crash, CallOK, NoCall, PCs, Ops, Text
  <2>3. AnswersOK' /\ RestOK'  BY <1>3, <1>r DEF Crash, AnswersOK, RestOK
  <2>4. UsedOK'  BY <1>3, UsedTypes DEF Crash
  <2> QED  BY <2>1, <2>2, <2>3, <2>4, TypePartsNext
<1> QED  BY <1>1, <1>2, <1>3 DEF Faults

\* What the environment writes is text.
LEMMA AddsType ==
    ASSUME TypeOK, NEW f \in Files, NEW by \in {"dev", "proc"}, Adds(f, by)
    PROVE  tree' \in Tree /\ UsedOK'
<1>1. UsedOK'  BY UsedTypes DEF Adds
<1>2. [by |-> by, k |-> used'.others] \in Piece  BY <1>1 DEF Piece, UsedOK
<1> DEFINE piece == [by |-> by, k |-> used'.others]
<1>3. tree' = [tree EXCEPT ![f] = @ \cup {piece}] /\ piece \in Piece  BY <1>2 DEF Adds
<1> HIDE DEF piece
<1>4. tree[f] \in Text  BY DEF TypeOK, Tree
<1>5. (tree[f] \cup {piece}) \in Text  BY <1>3, <1>4 DEF Text
<1> QED  BY <1>1, <1>3, <1>5 DEF TypeOK, Tree

\* Where the developer switches to, and what a switch makes of a tree.
SwitchedTo(b) == IF b = Detached \/ log[b] = <<>> THEN HeadLog ELSE log[b]
SwitchedTree(t, b) ==
    [f \in Files |-> IF f \in {g \in Files : HeadTree[g] # TipTree(SwitchedTo(b))[g]}
                     THEN TipTree(SwitchedTo(b))[f] ELSE t[f]]

\* A switch of the developer in terms of these.
LEMMA SwitchForm ==
    ASSUME DevSwitches
    PROVE  \E b \in Refs \ {head} :
              /\ log' = [log EXCEPT ![b] = SwitchedTo(b)]
              /\ head' = b
              /\ tree' = SwitchedTree(tree, b) /\ index' = SwitchedTree(index, b)
              /\ Other
              /\ UNCHANGED <<remote, procs, policy, call, answers>>
BY DEF DevSwitches, SwitchedTo, SwitchedTree, NotTheBridge

\* The developer, the processes and the other clones keep the types.
LEMMA EnvironmentTypes ==
    ASSUME TypeOK, Environment
    PROVE  TypeOK'
<1>r. RepoOK /\ UsedOK /\ CallOK /\ AnswersOK /\ RestOK  BY TypeParts
<1>n. UNCHANGED <<call, answers>> => CallOK' /\ AnswersOK'
  BY <1>r DEF CallOK, AnswersOK
<1>1. CASE Spawn
  <2>1. RestOK'  BY <1>1, <1>r DEF Spawn, NotTheBridge, RestOK
  <2> QED
    BY <1>1, <2>1, <1>n, RepoStays, UsedTypes, TypePartsNext DEF Spawn, NotTheBridge
<1>2. CASE ProcessEnds
  <2>1. RestOK'  BY <1>2, <1>r DEF ProcessEnds, NotTheBridge, RestOK
  <2> QED
    BY <1>2, <2>1, <1>n, RepoStays, UsedTypes, TypePartsNext DEF ProcessEnds, NotTheBridge
<1>3. CASE ProcessWrites
  <2>1. PICK f \in Files : Adds(f, "proc")  BY <1>3 DEF ProcessWrites
  <2>2. tree' \in Tree /\ UsedOK'  BY <2>1, AddsType
  <2> QED
    BY <1>3, <2>2, <1>n, TreeWritten, SameTypes, TypePartsNext DEF ProcessWrites, NotTheBridge
<1>4. CASE DevEdits
  <2>1. PICK f \in Files : Adds(f, "dev")  BY <1>4 DEF DevEdits
  <2>2. tree' \in Tree /\ UsedOK'  BY <2>1, AddsType
  <2> QED
    BY <1>4, <2>2, <1>n, TreeWritten, SameTypes, TypePartsNext DEF DevEdits, NotTheBridge
<1>5. CASE DevStages
  <2>1. index' \in Tree  BY <1>5 DEF DevStages, TypeOK, Tree
  <2>2. RepoOK'  BY <1>5, <1>r, <2>1 DEF DevStages, RepoOK
  <2> QED
    BY <1>5, <2>2, <1>n, SameTypes, UsedTypes, TypePartsNext DEF DevStages, NotTheBridge
<1>6. CASE DevCommits
  <2> DEFINE c == [by |-> "dev", k |-> used'.others, paths |-> Files, tree |-> index]
  <2>1. UsedOK'  BY <1>6, UsedTypes DEF DevCommits
  <2>2. c \in Commit  BY <2>1 DEF Commit, UsedOK, TypeOK
  <2>3. Append1(head, c)  BY <1>6 DEF DevCommits
  <2> HIDE DEF c
  <2>4. log' \in [Refs -> History] /\ \A r \in Refs : log[r] # <<>> => log'[r] # <<>>
    BY <1>r, <2>2, <2>3, AppendType DEF RepoOK
  <2>5. RepoOK'  BY <1>6, <1>r, <2>4 DEF DevCommits, RepoOK
  <2> QED
    BY <1>6, <2>1, <2>5, <1>n, SameTypes, TypePartsNext DEF DevCommits, NotTheBridge
<1>7. CASE DevSwitches
  <2>1. PICK b \in Refs \ {head} :
           /\ log' = [log EXCEPT ![b] = SwitchedTo(b)]
           /\ head' = b
           /\ tree' = SwitchedTree(tree, b) /\ index' = SwitchedTree(index, b)
           /\ Other
           /\ UNCHANGED <<remote, procs, policy, call, answers>>
    BY <1>7, SwitchForm
  <2>2. SwitchedTo(b) \in History /\ SwitchedTo(b) # <<>>
    BY <1>r DEF RepoOK, SwitchedTo, HeadLog
  <2>3. TipTree(SwitchedTo(b)) \in Tree  BY <2>2, TipType
  <2>4. tree' \in Tree /\ index' \in Tree
    BY <2>1, <2>3, <1>r DEF RepoOK, SwitchedTree, Tree
  <2>5. log' \in [Refs -> History] /\ log'[head'] # <<>> /\ head' \in Refs
    BY <2>1, <2>2, <1>r DEF RepoOK
  <2>6. RepoOK'  BY <2>1, <2>4, <2>5, <1>r DEF RepoOK
  <2> QED  BY <2>1, <2>6, <1>n, SameTypes, UsedTypes, TypePartsNext
<1>8. CASE OthersPush
  <2>1. PICK b \in Branches :
          /\ remote[b] # <<>>
          /\ remote' = [remote EXCEPT ![b] = Append(@, [by |-> "dev", k |-> used'.others,
                                          paths |-> {}, tree |-> TipTree(remote[b])])]
    BY <1>8 DEF OthersPush
  <2> DEFINE c == [by |-> "dev", k |-> used'.others, paths |-> {},
                   tree |-> TipTree(remote[b])]
  <2>2. UsedOK'  BY <1>8, UsedTypes DEF OthersPush
  <2>3. remote[b] \in History  BY <1>r DEF RepoOK
  <2>4. c \in Commit  BY <2>1, <2>2, <2>3, TipType DEF Commit, UsedOK
  <2>5. remote' = [remote EXCEPT ![b] = Append(@, c)]  BY <2>1
  <2> HIDE DEF c
  <2>6. Append(remote[b], c) \in History  BY <2>3, <2>4 DEF History
  <2>7. remote' \in [Branches -> History]  BY <2>5, <2>6, <1>r DEF RepoOK
  <2>8. RepoOK'  BY <1>8, <2>7, <1>r DEF OthersPush, RepoOK
  <2> QED
    BY <1>8, <2>2, <2>8, <1>n, SameTypes, TypePartsNext DEF OthersPush, NotTheBridge
<1> QED  BY <1>1, <1>2, <1>3, <1>4, <1>5, <1>6, <1>7, <1>8 DEF Environment

\* The first state is well typed.
LEMMA InitTypes == Init => TypeOK
<1> SUFFICES ASSUME Init PROVE TypeOK  OBVIOUS
<1> DEFINE first == <<[by |-> "dev", k |-> 0, paths |-> Files, tree |-> tree]>>
<1>1. tree \in Tree /\ index \in Tree
  <2>1. [by |-> "dev", k |-> 0] \in Piece  BY DEF Piece
  <2>2. {[by |-> "dev", k |-> 0]} \in Text /\ {} \in Text  BY <2>1 DEF Text
  <2>3. tree = [f \in Files |-> IF f \in Tracked THEN {[by |-> "dev", k |-> 0]} ELSE {}]
    BY DEF Init
  <2>4. tree \in Tree  BY <2>2, <2>3 DEF Tree
  <2> QED  BY <2>4 DEF Init
<1>2. [by |-> "dev", k |-> 0, paths |-> Files, tree |-> tree] \in Commit
  BY <1>1 DEF Commit
<1>3. first \in History /\ first # <<>> /\ <<>> \in History  BY <1>2 DEF History
<1>4. /\ log = [b \in Refs |-> IF b = Main THEN first ELSE <<>>]
      /\ remote = [b \in Branches |-> IF b = Main THEN first ELSE <<>>]
      /\ head = Main
  BY DEF Init
<1> HIDE DEF first
<1>5. RepoOK  BY <1>1, <1>3, <1>4, ProjectAssumption DEF RepoOK, Refs
<1>6. CallOK  BY ProjectAssumption DEF Init, CallOK, NoCall, PCs, Ops, Text
<1>7. AnswersOK /\ UsedOK /\ RestOK  BY DEF Init, AnswersOK, UsedOK, RestOK
<1> QED  BY <1>5, <1>6, <1>7, TypeParts

\* Every step keeps the types.
LEMMA ProjectStepTypes == TypeOK /\ [Next]_vars => TypeOK'
<1>1. ASSUME TypeOK, UNCHANGED vars PROVE TypeOK'
  BY <1>1 DEF vars, repo, TypeOK, HeadLog
<1>2. ASSUME TypeOK, Next PROVE TypeOK'
  BY <1>2, ToolTypes, ClientTypes, FaultTypes, EnvironmentTypes DEF Next
<1> QED  BY <1>1, <1>2

\* No step of the bridge, the developer or anybody else leaves the types; in particular
\* HEAD is always on a commit, so every git command has a tree to compare with.
THEOREM ProjectTypeOK == Spec => []TypeOK
BY InitTypes, ProjectStepTypes, PTL DEF Spec

--------------------------------------------------------------------------

\* How a step changes the branches: not at all, by a commit on top of the one that is
\* checked out, or by making a branch that was not there.
OwnCommit(c) ==
    /\ c.tree = Picked(HeadTree, c.paths) /\ c.k = used.calls
    /\ At("commit") /\ call'.pc \notin {"add", "commit"}
LogStep ==
    \/ UNCHANGED log
    \/ \E c \in Commit : Append1(head, c) /\ (c.by = "bridge" => OwnCommit(c))
    \/ \E b \in Refs \ {head} : /\ b = Detached \/ log[b] = <<>>
                               /\ log' = [log EXCEPT ![b] = HeadLog]

\* How it changes the remote: not at all, or by a push that git takes, of the bridge or of
\* another clone.
RemoteStep ==
    \/ UNCHANGED remote
    \/ \E b \in Branches : GitPush(b)
    \/ \E b \in Branches, c \in Commit :
          c.by = "dev" /\ remote' = [remote EXCEPT ![b] = Append(@, c)]

\* A commit of git_commit is a step of the first kind.
LEMMA CommitStep ==
    ASSUME TypeOK, NEW paths \in SUBSET Files, GitCommit(paths),
           At("commit"), call'.pc \notin {"add", "commit"}
    PROVE  LogStep
<1> DEFINE c == [by |-> "bridge", k |-> used.calls, paths |-> paths,
                 tree |-> Picked(HeadTree, paths)]
<1>1. HeadTree \in Tree  BY TipType, TypeParts DEF RepoOK, HeadTree, HeadLog
<1>2. Picked(HeadTree, paths) \in Tree  BY <1>1, PickedType, TypeParts
<1>3. c \in Commit  BY <1>2 DEF Commit, TypeOK
<1>4. Append1(head, c)  BY DEF GitCommit
<1>5. OwnCommit(c)  BY DEF OwnCommit
<1> HIDE DEF c
<1> QED  BY <1>3, <1>4, <1>5 DEF LogStep

\* So is one of the developer.
LEMMA DevCommitStep ==
    ASSUME TypeOK, DevCommits
    PROVE  LogStep
<1> DEFINE c == [by |-> "dev", k |-> used'.others, paths |-> Files, tree |-> index]
<1>1. UsedOK'  BY UsedTypes DEF DevCommits
<1>2. c \in Commit  BY <1>1 DEF Commit, UsedOK, TypeOK
<1>3. Append1(head, c) /\ c.by = "dev"  BY DEF DevCommits
<1> HIDE DEF c
<1> QED  BY <1>2, <1>3 DEF LogStep

\* Making a branch is one of the second kind: the branch that is checked out exists.
LEMMA CheckoutStep ==
    ASSUME TypeOK, NEW b \in Branches, GitCheckoutNew(b)
    PROVE  LogStep
BY DEF GitCheckoutNew, GitCheckoutReset, LogStep, TypeOK, HeadLog, Refs

\* A switch makes a branch, or leaves the branches as they are.
LEMMA SwitchStep ==
    ASSUME TypeOK, DevSwitches
    PROVE  LogStep
<1>1. PICK b \in Refs \ {head} : log' = [log EXCEPT ![b] = SwitchedTo(b)]
  BY SwitchForm
<1>2. CASE b = Detached \/ log[b] = <<>>
  BY <1>1, <1>2 DEF SwitchedTo, LogStep
<1>3. CASE ~(b = Detached \/ log[b] = <<>>)
  BY <1>1, <1>3 DEF SwitchedTo, LogStep, TypeOK
<1> QED  BY <1>2, <1>3

\* A push from another clone is a step of the remote.
LEMMA OthersPushStep ==
    ASSUME TypeOK, OthersPush
    PROVE  RemoteStep
<1>1. PICK b \in Branches :
         /\ remote[b] # <<>>
         /\ remote' = [remote EXCEPT ![b] = Append(@, [by |-> "dev", k |-> used'.others,
                                         paths |-> {}, tree |-> TipTree(remote[b])])]
  BY DEF OthersPush
<1> DEFINE c == [by |-> "dev", k |-> used'.others, paths |-> {},
                 tree |-> TipTree(remote[b])]
<1>2. UsedOK'  BY UsedTypes DEF OthersPush
<1>3. remote[b] \in History  BY DEF TypeOK
<1>4. c \in Commit  BY <1>1, <1>2, <1>3, TipType DEF Commit, UsedOK
<1>5. remote' = [remote EXCEPT ![b] = Append(@, c)] /\ c.by = "dev"  BY <1>1
<1> HIDE DEF c
<1> QED  BY <1>4, <1>5 DEF RemoteStep

\* Every step of the system is of these kinds.
LEMMA HistorySteps ==
    ASSUME TypeOK, [Next]_vars
    PROVE  LogStep /\ RemoteStep
<1>c. call.paths \in SUBSET Files /\ call.name \in Branches  BY DEF TypeOK
<1>u. UNCHANGED repo => LogStep /\ RemoteStep  BY DEF repo, LogStep, RemoteStep
<1>v. UNCHANGED <<log, remote>> => LogStep /\ RemoteStep  BY DEF LogStep, RemoteStep
<1>n. ASSUME \/ \E o, late : Answer(o, late)
             \/ Goto("report")
             \/ call' = NoCall
      PROVE  call'.pc \notin {"add", "commit"}
  BY <1>n DEF Answer, NoCall, Goto, TypeOK
<1>g. ASSUME NEW paths \in SUBSET Files, NEW b \in Branches,
             \/ GitAdd(paths) \/ GitCheckoutNew(b) \/ GitPush(b)
             \/ At("commit") /\ call'.pc \notin {"add", "commit"} /\ GitCommit(paths)
      PROVE  LogStep /\ RemoteStep
  <2>1. CASE GitAdd(paths)  BY <1>v, <2>1 DEF GitAdd
  <2>2. CASE At("commit") /\ call'.pc \notin {"add", "commit"} /\ GitCommit(paths)
    BY <2>2, CommitStep DEF GitCommit, RemoteStep
  <2>3. CASE GitCheckoutNew(b)
    BY <2>3, CheckoutStep DEF GitCheckoutNew, GitCheckoutReset, RemoteStep
  <2>4. CASE GitPush(b)
    BY <2>4 DEF GitPush, GitPushForced, LogStep, RemoteStep
  <2> QED  BY <1>g, <2>1, <2>2, <2>3, <2>4
<1>1. CASE ToolStep
  <2>1. CASE Checkout \/ Add \/ MakeCommit \/ Push
    BY <2>1, <1>c, <1>g, <1>n DEF Checkout, Add, MakeCommit, Push
  <2>2. CASE WriteBytes  BY <2>2, <1>v DEF WriteBytes
  <2>3. CASE Undecodable  BY <2>3, <1>c, <1>u, <1>g, <1>n DEF Undecodable, Interrupted
  <2>4. CASE \/ ReadFile \/ CheckBranch \/ Report \/ ReadBranch \/ RunEnds \/ RunTimesOut
             \/ \E pc \in {"read", "write"} \cup GitPoints : Refused(pc)
    BY <2>4, <1>u
       DEF ReadFile, CheckBranch, Report, ReadBranch, RunEnds, RunTimesOut, Refused
  <2> QED  BY <1>1, <2>1, <2>2, <2>3, <2>4 DEF ToolStep
<1>2. CASE Client
  BY <1>2, <1>u
     DEF Client, StartWrite, StartPatch, StartBranch, StartCommit, StartPush, StartRun
<1>3. CASE Faults
  <2>1. CASE WriteFails  BY <2>1, <1>v DEF WriteFails
  <2>2. CASE GitTimesOut  BY <2>2, <1>c, <1>u, <1>g, <1>n DEF GitTimesOut, Interrupted
  <2>3. CASE Crash  BY <2>3, <1>c, <1>u, <1>v, <1>g, <1>n DEF Crash, Interrupted
  <2> QED  BY <1>3, <2>1, <2>2, <2>3 DEF Faults
<1>4. CASE Environment
  <2>1. CASE Spawn \/ ProcessEnds  BY <2>1, <1>u DEF Spawn, ProcessEnds
  <2>2. CASE ProcessWrites \/ DevEdits \/ DevStages
    BY <2>2, <1>v DEF ProcessWrites, DevEdits, DevStages
  <2>3. CASE DevCommits  BY <2>3, DevCommitStep DEF DevCommits, RemoteStep
  <2>4. CASE DevSwitches  BY <2>4, SwitchStep, SwitchForm DEF RemoteStep
  <2>5. CASE OthersPush  BY <2>5, OthersPushStep DEF OthersPush, LogStep
  <2> QED  BY <1>4, <2>1, <2>2, <2>3, <2>4, <2>5 DEF Environment
<1>5. CASE UNCHANGED vars  BY <1>5, <1>u DEF vars
<1> QED  BY <1>1, <1>2, <1>3, <1>4, <1>5 DEF Next

\* A history is a prefix of itself, and of itself with a commit on top; none of every one.
LEMMA PrefixFacts ==
    ASSUME NEW l \in History
    PROVE  /\ IsPrefixOf(l, l)
           /\ IsPrefixOf(<<>>, l)
           /\ \A c \in Commit : IsPrefixOf(l, Append(l, c))
BY DEF IsPrefixOf, History

\* Each step lets the branches, and those of the remote, grow at their end.
LEMMA HistoriesGrow ==
    ASSUME TypeOK, [Next]_vars, NEW b \in Branches
    PROVE  IsPrefixOf(log[b], log'[b]) /\ IsPrefixOf(remote[b], remote'[b])
<1>t. /\ log \in [Refs -> History] /\ remote \in [Branches -> History]
      /\ head \in Refs /\ HeadLog \in History /\ b \in Refs
  BY DEF TypeOK, HeadLog, Refs
<1>b. log[b] \in History /\ remote[b] \in History  BY <1>t
<1>s. LogStep /\ RemoteStep  BY HistorySteps
<1>1. IsPrefixOf(log[b], log'[b])
  <2>1. CASE UNCHANGED log  BY <2>1, <1>b, PrefixFacts
  <2>2. CASE \E c \in Commit : Append1(head, c)
    BY <2>2, <1>t, <1>b, PrefixFacts DEF Append1
  <2>3. CASE \E r \in Refs \ {head} : /\ r = Detached \/ log[r] = <<>>
                                      /\ log' = [log EXCEPT ![r] = HeadLog]
    BY <2>3, <1>t, <1>b, PrefixFacts, ProjectAssumption
  <2> QED  BY <1>s, <2>1, <2>2, <2>3 DEF LogStep
<1>2. IsPrefixOf(remote[b], remote'[b])
  <2>1. CASE UNCHANGED remote  BY <2>1, <1>b, PrefixFacts
  <2>2. CASE \E r \in Branches : GitPush(r)
    BY <2>2, <1>t, <1>b, PrefixFacts DEF GitPush, GitPushForced
  <2>3. CASE \E r \in Branches, c \in Commit : remote' = [remote EXCEPT ![r] = Append(@, c)]
    BY <2>3, <1>t, <1>b, PrefixFacts
  <2> QED  BY <1>s, <2>1, <2>2, <2>3 DEF RemoteStep
<1> QED  BY <1>1, <1>2

\* git_create_branch never resets a branch, though the developer may create it after the
\* tool has looked; git_push never takes a commit off the remote; and nobody else does.
THEOREM HistoryNeverRewritten == Spec => HistoryOnlyGrows
<1>1. TypeOK /\ [Next]_vars =>
        [\A b \in Branches : IsPrefixOf(log[b], log'[b]) /\ IsPrefixOf(remote[b], remote'[b])]_vars
  BY HistoriesGrow
<1> QED  BY <1>1, ProjectTypeOK, PTL DEF Spec, HistoryOnlyGrows

--------------------------------------------------------------------------

\* A commit on top keeps to its paths if it is not of the bridge, or is what git makes of
\* the paths it was given.
LEMMA AppendTouches ==
    ASSUME NEW l \in History, l # <<>>, TouchesItsPaths(l), NEW c \in Commit,
           c.by = "bridge" => c.tree = Picked(TipTree(l), c.paths)
    PROVE  TouchesItsPaths(Append(l, c))
<1>1. Len(l) \in Nat /\ Len(l) >= 1 /\ l \in Seq(Commit)  BY TipType DEF History
<1> DEFINE m == Append(l, c)
<1>2. /\ Len(m) = Len(l) + 1 /\ m[Len(l) + 1] = c
      /\ \A i \in 1..Len(l) : m[i] = l[i]
  BY <1>1
<1> HIDE DEF m
<1>3. ASSUME NEW i \in 2..Len(m), m[i].by = "bridge", NEW f \in Files \ m[i].paths
      PROVE  m[i].tree[f] = m[i-1].tree[f]
  <2>1. CASE i \in 2..Len(l)
    <3>1. m[i] = l[i] /\ m[i-1] = l[i-1]  BY <1>1, <1>2, <2>1
    <3> QED  BY <1>3, <2>1, <3>1 DEF TouchesItsPaths
  <2>2. CASE i = Len(l) + 1
    <3>1. m[i] = c /\ m[i-1] = l[Len(l)]  BY <1>1, <1>2, <2>2
    <3>2. c.tree = Picked(TipTree(l), c.paths)  BY <1>3, <3>1
    <3> QED  BY <1>3, <3>1, <3>2 DEF Picked, TipTree
  <2> QED  BY <1>1, <1>2, <2>1, <2>2
<1>4. TouchesItsPaths(m)  BY <1>3 DEF TouchesItsPaths
<1> QED  BY <1>4 DEF m

\* A commit of git_commit changes its paths and nothing else, whatever the developer has
\* staged, and whichever branch he has switched to between the add and the commit.
THEOREM CommitsKeepToPaths == Spec => []CommitsOnlyItsPaths
<1>1. Init => CommitsOnlyItsPaths
  BY DEF Init, CommitsOnlyItsPaths, TouchesItsPaths
<1>2. ASSUME TypeOK, CommitsOnlyItsPaths, [Next]_vars PROVE CommitsOnlyItsPaths'
  <2>t. /\ log \in [Refs -> History] /\ remote \in [Branches -> History]
        /\ head \in Refs /\ HeadLog \in History /\ HeadLog # <<>>
    BY <1>2 DEF TypeOK, HeadLog
  <2>i. /\ \A r \in Refs : TouchesItsPaths(log[r])
        /\ \A r \in Branches : TouchesItsPaths(remote[r])
        /\ TouchesItsPaths(HeadLog)
    BY <1>2, <2>t DEF CommitsOnlyItsPaths, HeadLog
  <2>s. LogStep /\ RemoteStep  BY <1>2, HistorySteps
  <2>1. ASSUME NEW b \in Refs PROVE TouchesItsPaths(log'[b])
    <3>1. CASE UNCHANGED log  BY <3>1, <2>i
    <3>2. CASE \E c \in Commit : Append1(head, c) /\ (c.by = "bridge" => OwnCommit(c))
      <4>1. PICK c \in Commit : /\ log' = [log EXCEPT ![head] = Append(@, c)]
                                /\ c.by = "bridge" => c.tree = Picked(HeadTree, c.paths)
        BY <3>2 DEF Append1, OwnCommit
      <4>2. TouchesItsPaths(Append(HeadLog, c))
        BY <4>1, <2>t, <2>i, AppendTouches DEF HeadTree
      <4> QED  BY <4>1, <4>2, <2>t, <2>i DEF HeadLog
    <3>3. CASE \E r \in Refs \ {head} : log' = [log EXCEPT ![r] = HeadLog]
      BY <3>3, <2>t, <2>i
    <3> QED  BY <2>s, <3>1, <3>2, <3>3 DEF LogStep
  <2>2. ASSUME NEW b \in Branches PROVE TouchesItsPaths(remote'[b])
    <3>1. CASE UNCHANGED remote  BY <3>1, <2>i
    <3>2. CASE \E r \in Branches : GitPush(r)
      BY <3>2, <2>t, <2>i DEF GitPush, GitPushForced
    <3>3. CASE \E r \in Branches, c \in Commit :
                  c.by = "dev" /\ remote' = [remote EXCEPT ![r] = Append(@, c)]
      <4>1. PICK r \in Branches, c \in Commit :
               c.by = "dev" /\ remote' = [remote EXCEPT ![r] = Append(@, c)]
        BY <3>3
      <4>2. TouchesItsPaths(Append(remote[r], c))
        <5>1. CASE remote[r] = <<>>
          BY <5>1 DEF TouchesItsPaths
        <5>2. CASE remote[r] # <<>>
          BY <4>1, <5>2, <2>t, <2>i, AppendTouches
        <5> QED  BY <5>1, <5>2
      <4> QED  BY <4>1, <4>2, <2>t, <2>i
    <3> QED  BY <2>s, <3>1, <3>2, <3>3 DEF RemoteStep
  <2> QED  BY <2>1, <2>2 DEF CommitsOnlyItsPaths
<1>3. TypeOK /\ CommitsOnlyItsPaths /\ [Next]_vars => CommitsOnlyItsPaths'
  BY <1>2
<1> QED  BY <1>1, <1>3, ProjectTypeOK, PTL DEF Spec

--------------------------------------------------------------------------

DevTree(t) == \A f \in Files : \A p \in t[f] : p.by = "dev"
DevLog(l) == \A i \in 1..Len(l) : l[i].by = "dev" /\ DevTree(l[i].tree)

\* A project that is not writable: no tool is past its first line in it, and everything in
\* it, the staged files and the trees of its commits too, is the developer's.
ReadOnly ==
    /\ Idle /\ procs = {}
    /\ DevTree(tree) /\ DevTree(index)
    /\ \A b \in Refs : DevLog(log[b])

\* One that may not be pushed: no push is past its first lines, and none was.
NotPushed ==
    /\ call.pc \notin {"symbolic", "push"}
    /\ \A b \in Branches : \A i \in 1..Len(remote[b]) : remote[b][i].by = "dev"

PolicyInv == (~policy.write => ReadOnly) /\ (~policy.push => NotPushed)

\* The policy of a project is read once, and every tool that changes it asks.
LEMMA PolicyFixed ==
    ASSUME [Next]_vars
    PROVE  policy' = policy
BY DEF Next, vars, ToolStep, ReadFile, WriteBytes, CheckBranch, Checkout, Add, MakeCommit,
       Report, ReadBranch, Push, RunEnds, RunTimesOut, Refused, Undecodable, Same, Client, StartWrite,
       StartPatch, StartBranch, StartCommit, StartPush, StartRun, Begin, Faults, WriteFails,
       GitTimesOut, Crash, Environment, Spawn, ProcessEnds, ProcessWrites, DevEdits,
       DevStages, DevCommits, DevSwitches, OthersPush, NotTheBridge

\* In a project that is not writable only the developer and the other clones act.
LEMMA ReadOnlySteps ==
    ASSUME TypeOK, ~policy.write, ReadOnly, [Next]_vars
    PROVE  \/ UNCHANGED <<call, procs, tree, index, log, head>>
           \/ DevEdits \/ DevStages \/ DevCommits \/ DevSwitches
<1> DEFINE Rest == UNCHANGED <<call, procs, tree, index, log, head>>
<1>p. ~policy.push  BY DEF TypeOK, Policies
<1>1. ~ToolStep
  BY DEF ReadOnly, Idle, ToolStep, ReadFile, WriteBytes, CheckBranch, Checkout, Add,
         MakeCommit, Report, ReadBranch, Push, RunEnds, RunTimesOut, Refused, Undecodable,
         At, GitPoints
<1>2. CASE Client
  <2>1. \A refusals, pc, op, paths, name :
           Begin(FALSE, refusals, pc, op, paths, name) => UNCHANGED call
    BY DEF Begin
  <2>2. policy.write = FALSE /\ (policy.write /\ policy.push) = FALSE
    BY DEF TypeOK, Policies
  <2>3. CASE \/ \E f \in Files : Begin(FALSE, PathRefusals, "write", "write", {f}, Main)
             \/ \E f \in Files : Begin(FALSE, PathRefusals, "read", "patch", {f}, Main)
             \/ \E b \in Branches : Begin(FALSE, NameRefusals, "verify", "branch", {}, b)
             \/ \E paths \in SUBSET Files \ {{}} :
                   Begin(FALSE, PathRefusals, "add", "commit", paths, Main)
             \/ Begin(FALSE, NameRefusals, "symbolic", "push", {}, Main)
             \/ Begin(FALSE, CommandRefusals, "run", "run", {}, Main)
    <3>1. UNCHANGED call  BY <2>1, <2>3
    <3> QED
      BY <1>2, <3>1 DEF Client, StartWrite, StartPatch, StartBranch, StartCommit, StartPush,
                        StartRun, repo
  <2> QED
    BY <1>2, <2>2, <2>3
       DEF Client, StartWrite, StartPatch, StartBranch, StartCommit, StartPush, StartRun
<1>3. ~Faults
  BY DEF ReadOnly, Idle, Faults, WriteFails, GitTimesOut, Crash, At, GitPoints
<1>4. CASE Environment
  <2>1. ~Spawn /\ ~ProcessEnds /\ ~ProcessWrites
    BY DEF ReadOnly, Spawn, ProcessEnds, ProcessWrites
  <2>2. OthersPush => Rest  BY DEF OthersPush, NotTheBridge
  <2> QED  BY <1>4, <2>1, <2>2 DEF Environment
<1>5. UNCHANGED vars => Rest  BY DEF vars, repo
<1> QED  BY <1>1, <1>2, <1>3, <1>4, <1>5 DEF Next

\* The last tree of a branch that is the developer's is his.
LEMMA DevTip ==
    ASSUME NEW l \in History, l # <<>>, DevLog(l)
    PROVE  DevTree(TipTree(l))
<1>1. Len(l) \in 1..Len(l)  BY TipType
<1> QED  BY <1>1 DEF DevLog, TipTree

\* They keep it the developer's.
LEMMA ReadOnlyKept ==
    ASSUME TypeOK, ~policy.write, ReadOnly, [Next]_vars
    PROVE  ReadOnly'
<1>r. RepoOK /\ UsedOK  BY TypeParts
<1>1. CASE UNCHANGED <<call, procs, tree, index, log, head>>
  BY <1>1 DEF ReadOnly, Idle, DevTree, DevLog
<1>2. CASE DevEdits
  <2>1. PICK f \in Files :
           tree' = [tree EXCEPT ![f] = @ \cup {[by |-> "dev", k |-> used'.others]}]
    BY <1>2 DEF DevEdits, Adds
  <2>2. DevTree(tree')  BY <2>1, <1>r DEF ReadOnly, DevTree, RepoOK, Tree
  <2> QED
    BY <1>2, <2>2 DEF DevEdits, NotTheBridge, ReadOnly, Idle, DevTree, DevLog
<1>3. CASE DevStages
  <2>1. PICK f \in Files : index' = [index EXCEPT ![f] = tree[f]]
    BY <1>3 DEF DevStages
  <2>2. DevTree(index')  BY <2>1, <1>r DEF ReadOnly, DevTree, RepoOK, Tree
  <2> QED
    BY <1>3, <2>2 DEF DevStages, NotTheBridge, ReadOnly, Idle, DevTree, DevLog
<1>4. CASE DevCommits
  <2> DEFINE c == [by |-> "dev", k |-> used'.others, paths |-> Files, tree |-> index]
  <2>1. log' = [log EXCEPT ![head] = Append(@, c)]  BY <1>4 DEF DevCommits, Append1
  <2>2. c.by = "dev" /\ DevTree(c.tree)  BY DEF ReadOnly
  <2> HIDE DEF c
  <2>3. log[head] \in History /\ DevLog(log[head])  BY <1>r DEF RepoOK, ReadOnly
  <2>4. DevLog(Append(log[head], c))  BY <2>2, <2>3 DEF DevLog, History
  <2>5. \A b \in Refs : DevLog(log'[b])  BY <2>1, <2>4, <1>r DEF RepoOK, ReadOnly
  <2> QED
    BY <1>4, <2>5 DEF DevCommits, NotTheBridge, ReadOnly, Idle, DevTree, DevLog
<1>5. CASE DevSwitches
  <2>1. PICK b \in Refs \ {head} :
           /\ log' = [log EXCEPT ![b] = SwitchedTo(b)]
           /\ tree' = SwitchedTree(tree, b) /\ index' = SwitchedTree(index, b)
           /\ UNCHANGED <<procs, call>>
    BY <1>5, SwitchForm
  <2>2. /\ SwitchedTo(b) \in History /\ SwitchedTo(b) # <<>>
        /\ DevLog(SwitchedTo(b))
    BY <1>r DEF RepoOK, SwitchedTo, HeadLog, ReadOnly
  <2>3. DevTree(TipTree(SwitchedTo(b)))  BY <2>2, DevTip
  <2>4. DevTree(tree') /\ DevTree(index')
    BY <2>1, <2>3 DEF SwitchedTree, DevTree, ReadOnly
  <2>5. \A r \in Refs : DevLog(log'[r])  BY <2>1, <2>2, <1>r DEF RepoOK, ReadOnly
  <2> QED  BY <2>1, <2>4, <2>5 DEF ReadOnly, Idle, DevTree, DevLog
<1> QED  BY <1>1, <1>2, <1>3, <1>4, <1>5, ReadOnlySteps

\* Without allow_push no step leads to a push, and the remote gets what others push.
LEMMA NotPushedKept ==
    ASSUME TypeOK, ~policy.push, NotPushed, [Next]_vars
    PROVE  NotPushed'
<1> DEFINE Points == {"symbolic", "push"}
<1>n. NoCall.pc \notin Points  BY DEF NoCall
<1>a. \A o, late : Answer(o, late) => call'.pc \notin Points
  BY <1>n DEF Answer
<1>b. ASSUME NEW allowed, NEW refusals, NEW pc \in PCs \ Points, NEW op \in Ops,
             NEW paths \in SUBSET Files, NEW name \in Branches,
             Begin(allowed, refusals, pc, op, paths, name)
      PROVE  call'.pc \notin Points
  BY <1>b DEF Begin, NotPushed, NoCall
<1>1. call'.pc \notin Points
  <2>c. call.pc \notin Points /\ ~At("symbolic")  BY DEF NotPushed, At
  <2>u. UNCHANGED call => call'.pc \notin Points  BY <2>c
  <2>1. CASE ToolStep
    <3>1. CASE ReadFile  BY <3>1 DEF ReadFile, TypeOK
    <3>2. CASE \/ WriteBytes \/ Checkout \/ Report \/ Push \/ RunEnds \/ RunTimesOut
               \/ \E pc \in {"read", "write"} \cup GitPoints : Refused(pc)
               \/ Undecodable
      BY <3>2, <1>a DEF WriteBytes, Checkout, Report, Push, RunEnds, RunTimesOut, Refused,
           Undecodable
    <3>3. CASE CheckBranch \/ Add \/ MakeCommit
      BY <3>3, <1>a DEF CheckBranch, Add, MakeCommit, Goto, TypeOK
    <3>4. ~ReadBranch  BY <2>c DEF ReadBranch
    <3> QED  BY <2>1, <3>1, <3>2, <3>3, <3>4 DEF ToolStep
  <2>2. CASE Client
    <3>p. /\ {"write", "read", "verify", "add", "run"} \subseteq PCs \ Points
          /\ {"write", "patch", "branch", "commit", "run"} \subseteq Ops
          /\ {} \in SUBSET Files /\ Main \in Branches
      BY ProjectAssumption DEF PCs, GitPoints, Ops
    <3>1. CASE StartWrite  BY <3>1, <3>p, <1>b DEF StartWrite
    <3>2. CASE StartPatch  BY <3>2, <3>p, <1>b DEF StartPatch
    <3>3. CASE StartBranch  BY <3>3, <3>p, <1>b DEF StartBranch
    <3>4. CASE StartCommit  BY <3>4, <3>p, <1>b DEF StartCommit
    <3>5. CASE StartPush  BY <3>5, <2>u DEF StartPush, Begin
    <3>6. CASE StartRun  BY <3>6, <3>p, <1>b DEF StartRun
    <3> QED  BY <2>2, <3>1, <3>2, <3>3, <3>4, <3>5, <3>6 DEF Client
  <2>3. CASE Faults
    BY <2>3, <1>a, <1>n DEF Faults, WriteFails, GitTimesOut, Crash
  <2>4. CASE Environment
    BY <2>4, <2>u DEF Environment, Spawn, ProcessEnds, ProcessWrites, DevEdits, DevStages,
                      DevCommits, DevSwitches, OthersPush, NotTheBridge
  <2>5. CASE UNCHANGED vars  BY <2>5, <2>u DEF vars
  <2> QED  BY <2>1, <2>2, <2>3, <2>4, <2>5 DEF Next
<1>2. UNCHANGED remote \/ OthersPush
  BY DEF NotPushed, At, Next, vars, repo, ToolStep, ReadFile, WriteBytes, CheckBranch,
         Checkout, Add, MakeCommit, Report, ReadBranch, Push, RunEnds, RunTimesOut, Refused,
         Undecodable, Client, StartWrite, StartPatch, StartBranch, StartCommit, StartPush, StartRun,
         Faults, WriteFails, GitTimesOut, Crash, Interrupted, Environment, Spawn,
         ProcessEnds, ProcessWrites, DevEdits, DevStages, DevCommits, DevSwitches,
         GitCheckoutNew, GitCheckoutReset, GitAdd, GitCommit
<1>3. ASSUME NEW b \in Branches, NEW i \in 1..Len(remote'[b])
      PROVE  remote'[b][i].by = "dev"
  <2>1. CASE UNCHANGED remote  BY <1>3, <2>1 DEF NotPushed
  <2>2. CASE OthersPush
    <3>1. PICK r \in Branches : remote' = [remote EXCEPT ![r] = Append(@,
             [by |-> "dev", k |-> used'.others, paths |-> {}, tree |-> TipTree(remote[r])])]
      BY <2>2 DEF OthersPush
    <3> DEFINE c == [by |-> "dev", k |-> used'.others, paths |-> {},
                     tree |-> TipTree(remote[r])]
    <3>2. remote' = [remote EXCEPT ![r] = Append(@, c)] /\ c.by = "dev"  BY <3>1
    <3> HIDE DEF c
    <3>3. remote \in [Branches -> History]  BY DEF TypeOK
    <3>4. CASE b # r  BY <1>3, <3>2, <3>3, <3>4 DEF NotPushed
    <3>5. CASE b = r
      <4>1. remote'[b] = Append(remote[b], c) /\ remote[b] \in Seq(Commit)
        BY <3>2, <3>3, <3>5 DEF History
      <4> QED  BY <1>3, <3>2, <4>1 DEF NotPushed
    <3> QED  BY <3>4, <3>5
  <2> QED  BY <1>2, <2>1, <2>2
<1> QED  BY <1>1, <1>3 DEF NotPushed

\* A project without write_enabled has nothing of the bridge in it, and one without
\* allow_push nothing of it on its remote, after any sequence of calls.
THEOREM PolicyAlwaysKept == Spec => []PolicyKept
<1>1. Init => PolicyInv
  BY DEF Init, PolicyInv, ReadOnly, NotPushed, Idle, NoCall, DevTree, DevLog
<1>2. TypeOK /\ PolicyInv /\ [Next]_vars => PolicyInv'
  BY PolicyFixed, ReadOnlyKept, NotPushedKept DEF PolicyInv
<1>3. TypeOK /\ PolicyInv => PolicyKept
  <2>1. ASSUME NEW l \in History, \A i \in 1..Len(l) : l[i].by = "dev" PROVE Made(l) = {}
    <3>1. DOMAIN l = 1..Len(l)  BY DEF History
    <3> QED  BY <2>1, <3>1 DEF Made
  <2>2. ASSUME TypeOK, ReadOnly
        PROVE  /\ procs = {}
               /\ \A f \in Files : \A p \in tree[f] : p.by = "dev"
               /\ \A b \in Refs : Made(log[b]) = {}
    BY <2>1, <2>2 DEF TypeOK, ReadOnly, DevTree, DevLog
  <2>3. ASSUME TypeOK, NotPushed PROVE \A b \in Branches : Made(remote[b]) = {}
    BY <2>1, <2>3 DEF TypeOK, NotPushed
  <2> QED  BY <2>2, <2>3 DEF PolicyInv, PolicyKept
<1> QED  BY <1>1, <1>2, <1>3, ProjectTypeOK, PTL DEF Spec

--------------------------------------------------------------------------

\* A tool goes from one of its commands to the next, and to no other tool's.
LEMMA CallInvStep ==
    ASSUME TypeOK, CallInv, [Next]_vars
    PROVE  CallInv'
<1>a. ASSUME (\E o, late : Answer(o, late)) \/ call' = NoCall PROVE CallInv'
  <2>1. call' = NoCall  BY <1>a DEF Answer
  <2> QED  BY <2>1 DEF CallInv, NoCall
<1>u. ASSUME UNCHANGED call PROVE CallInv'  BY <1>u DEF CallInv
<1>b. ASSUME NEW allowed, NEW refusals, NEW pc, NEW op, NEW paths, NEW name,
             Begin(allowed, refusals, pc, op, paths, name)
      PROVE  UNCHANGED call \/ (call'.pc = pc /\ call'.op = op)
  BY <1>b DEF Begin, NoCall
<1>g. ASSUME NEW pc, Goto(pc) PROVE call'.pc = pc /\ call'.op = call.op
  BY <1>g DEF Goto, TypeOK
<1>1. CASE ToolStep
  <2>1. CASE ReadFile
    <3>1. PICK f \in call.paths : \E p \in tree[f] :
             call' = [call EXCEPT !.pc = "write", !.read = tree[f], !.old = {p},
                                  !.text = (tree[f] \ {p}) \cup @]
      BY <2>1 DEF ReadFile
    <3>2. PICK p \in tree[f] :
             call' = [call EXCEPT !.pc = "write", !.read = tree[f], !.old = {p},
                                  !.text = (tree[f] \ {p}) \cup @]
      BY <3>1
    <3>3. /\ call'.pc = "write" /\ call'.op = call.op
          /\ call'.read = tree[f] /\ call'.old = {p}
          /\ call'.text = (tree[f] \ {p}) \cup call.text
      BY <3>2 DEF TypeOK
    <3>4. call.op = "patch"  BY <2>1 DEF ReadFile, At, CallInv
    <3> QED  BY <3>3, <3>4 DEF CallInv
  <2>2. CASE \/ WriteBytes \/ Checkout \/ Report \/ Push \/ RunEnds \/ RunTimesOut
             \/ \E pc \in {"read", "write"} \cup GitPoints : Refused(pc)
             \/ Undecodable
    BY <2>2, <1>a DEF WriteBytes, Checkout, Report, Push, RunEnds, RunTimesOut, Refused,
         Undecodable
  <2>3. CASE CheckBranch
    <3>1. CASE Goto("checkout")
      BY <2>3, <3>1, <1>g DEF CheckBranch, At, CallInv
    <3> QED  BY <2>3, <3>1, <1>a DEF CheckBranch
  <2>4. CASE Add  BY <2>4, <1>g DEF Add, At, CallInv
  <2>5. CASE MakeCommit  BY <2>5, <1>g DEF MakeCommit, At, CallInv
  <2>6. CASE ReadBranch
    <3>1. CASE head = Detached  BY <2>6, <3>1, <1>a DEF ReadBranch
    <3>2. CASE head # Detached
      <4>1. call'.pc = "push" /\ call'.op = call.op
        BY <2>6, <3>2 DEF ReadBranch, TypeOK
      <4> QED  BY <2>6, <4>1 DEF ReadBranch, At, CallInv
    <3> QED  BY <3>1, <3>2
  <2> QED  BY <1>1, <2>1, <2>2, <2>3, <2>4, <2>5, <2>6 DEF ToolStep
<1>2. CASE Client
  <2>1. \/ UNCHANGED call
        \/ call'.pc = "write" /\ call'.op = "write"
        \/ call'.pc = "read" /\ call'.op = "patch"
        \/ call'.pc = "verify" /\ call'.op = "branch"
        \/ call'.pc = "add" /\ call'.op = "commit"
        \/ call'.pc = "symbolic" /\ call'.op = "push"
        \/ call'.pc = "run" /\ call'.op = "run"
    BY <1>2, <1>b
       DEF Client, StartWrite, StartPatch, StartBranch, StartCommit, StartPush, StartRun
  <2> QED  BY <2>1, <1>u DEF CallInv
<1>3. CASE Faults
  BY <1>3, <1>a DEF Faults, WriteFails, GitTimesOut, Crash
<1>4. CASE Environment
  BY <1>4, <1>u DEF Environment, Spawn, ProcessEnds, ProcessWrites, DevEdits, DevStages,
                    DevCommits, DevSwitches, OthersPush, NotTheBridge
<1>5. CASE UNCHANGED vars  BY <1>5, <1>u DEF vars
<1> QED  BY <1>1, <1>2, <1>3, <1>4, <1>5 DEF Next

LEMMA InitCallInv == Init => CallInv /\ NumberInv
<1>1. Init => CallInv  BY DEF Init, CallInv, NoCall
<1>2. ASSUME Init PROVE NumberInv
  <2> DEFINE first == <<[by |-> "dev", k |-> 0, paths |-> Files, tree |-> tree]>>
  <2>f. /\ log = [b \in Refs |-> IF b = Main THEN first ELSE <<>>]
        /\ DOMAIN first = {1} /\ first[1].by = "dev"
    BY <1>2 DEF Init
  <2> HIDE DEF first
  <2>1. ASSUME NEW b \in Refs PROVE Made(log[b]) = {}
    <3>1. CASE log[b] = first  BY <2>f, <3>1 DEF Made
    <3>2. CASE log[b] = <<>>  BY <3>2 DEF Made
    <3> QED  BY <2>f, <3>1, <3>2
  <2>2. call.pc # "report"  BY <1>2 DEF Init, NoCall
  <2> QED  BY <1>2, <2>1, <2>2 DEF Init, NumberInv
<1> QED  BY <1>1, <1>2

\* What a step does to the index: a git_commit's own paths, or the developer.
LEMMA IndexSteps ==
    ASSUME TypeOK, CallInv, [Next]_vars, used'.others = used.others,
           NEW f \in Files, index'[f] # index[f]
    PROVE  call.op = "commit" /\ f \in call.paths
<1>g. ASSUME \/ At("add") /\ GitAdd(call.paths)
             \/ At("commit") /\ GitCommit(call.paths)
      PROVE  call.op = "commit" /\ f \in call.paths
  BY <1>g DEF GitAdd, GitCommit, Picked, At, CallInv
<1>u. ~UNCHANGED index  OBVIOUS
<1>c. \A b : ~GitCheckoutNew(b) /\ ~GitPush(b)
  BY <1>u DEF GitCheckoutNew, GitCheckoutReset, GitPush, GitPushForced
<1>i. Interrupted => call.op = "commit" /\ f \in call.paths
  BY <1>u, <1>g, <1>c DEF Interrupted, repo
<1>o. ~Other  BY DEF Other, TypeOK
<1>1. CASE ToolStep
  BY <1>1, <1>u, <1>g, <1>c, <1>i
     DEF ToolStep, ReadFile, WriteBytes, CheckBranch, Checkout, Add, MakeCommit, Report,
         ReadBranch, Push, RunEnds, RunTimesOut, Refused, Undecodable, repo
<1>2. CASE Client
  BY <1>2, <1>u
     DEF Client, StartWrite, StartPatch, StartBranch, StartCommit, StartPush, StartRun, repo
<1>3. CASE Faults
  BY <1>3, <1>u, <1>i DEF Faults, WriteFails, GitTimesOut, Crash
<1>4. CASE Environment
  BY <1>4, <1>u, <1>o DEF Environment, Spawn, ProcessEnds, ProcessWrites, Adds, DevEdits,
                          DevStages, DevCommits, DevSwitches, OthersPush, repo
<1>5. CASE UNCHANGED vars  BY <1>5, <1>u DEF vars, repo
<1> QED  BY <1>1, <1>2, <1>3, <1>4, <1>5 DEF Next

\* git_commit stages its own paths: the developer's staging of any other file is as he
\* left it after every call, also one that failed, timed out or died half-way.
THEOREM StagingAlwaysKept == Spec => StagingKept
<1>1. TypeOK /\ CallInv /\ [Next]_vars => CallInv'  BY CallInvStep
<1>2. TypeOK /\ CallInv /\ [Next]_vars =>
        [used'.others = used.others /\ head' = head =>
            \A f \in Files : index'[f] # index[f] => call.op = "commit" /\ f \in call.paths]_vars
  BY IndexSteps
<1> QED  BY <1>1, <1>2, InitCallInv, ProjectTypeOK, PTL DEF Spec, StagingKept

\* What a step takes out of a file.
LEMMA LossSteps ==
    ASSUME TypeOK, CallInv, [Next]_vars, NEW f \in Files, NEW p \in tree[f] \ tree'[f]
    PROVE  \/ p \in HeadTree[f]
           \/ f \in call.paths /\ \/ call.op = "write"
                                  \/ call.op = "patch" /\ p \notin call.read \ call.old
                                  \/ used'.faults > used.faults
<1>u. ~UNCHANGED tree  OBVIOUS
<1>w. ASSUME NEW text, tree' = Overwritten(text)
      PROVE  f \in call.paths /\ p \notin text
  BY <1>w DEF Overwritten
<1>f. Fault => used'.faults > used.faults  BY DEF Fault, TypeOK
<1>c. \A b : ~GitCheckoutNew(b) /\ ~GitPush(b)
  BY <1>u DEF GitCheckoutNew, GitCheckoutReset, GitPush, GitPushForced
<1>g. ~GitAdd(call.paths) /\ ~GitCommit(call.paths)  BY <1>u DEF GitAdd, GitCommit
<1>1. CASE ToolStep
  <2>1. WriteBytes
    BY <1>1, <1>u, <1>g, <1>c
       DEF ToolStep, ReadFile, CheckBranch, Checkout, Add, MakeCommit, Report,
           ReadBranch, Push, RunEnds, RunTimesOut, Refused, Undecodable, Interrupted, repo
  <2>2. f \in call.paths /\ p \notin call.text  BY <2>1, <1>w DEF WriteBytes
  <2> QED  BY <2>1, <2>2 DEF WriteBytes, At, CallInv
<1>2. CASE Client
  BY <1>2, <1>u
     DEF Client, StartWrite, StartPatch, StartBranch, StartCommit, StartPush, StartRun, repo
<1>3. CASE Faults
  BY <1>3, <1>u, <1>g, <1>c, <1>w, <1>f
     DEF Faults, WriteFails, GitTimesOut, Crash, Interrupted, repo
<1>4. CASE Environment
  <2>1. CASE \E g \in Files, by \in {"dev", "proc"} : Adds(g, by)
    BY <2>1 DEF Adds, TypeOK, Tree
  <2>2. CASE DevSwitches
    <3>1. PICK b \in Refs \ {head} : /\ tree' = SwitchedTree(tree, b)
                                     /\ \A g \in Files : HeadTree[g] # TipTree(SwitchedTo(b))[g] =>
                                           tree[g] = HeadTree[g]
      BY <2>2 DEF DevSwitches, SwitchedTo, SwitchedTree
    <3>2. HeadTree[f] # TipTree(SwitchedTo(b))[f]  BY <3>1 DEF SwitchedTree
    <3> QED  BY <3>1, <3>2
  <2> QED
    BY <1>4, <1>u, <2>1, <2>2
       DEF Environment, Spawn, ProcessEnds, ProcessWrites, DevEdits, DevStages, DevCommits,
           OthersPush, repo
<1>5. CASE UNCHANGED vars  BY <1>5, <1>u DEF vars, repo
<1> QED  BY <1>1, <1>2, <1>3, <1>4, <1>5 DEF Next

\* No edit of the developer or of a process is lost to the bridge but in the file a call
\* names, and there only to a write_file, to what a patch replaced or could not know of,
\* or to a write cut short; all else that leaves a file is in the branch's last commit.
THEOREM EditsAlwaysSurvive == Spec => EditsSurvive
<1>1. TypeOK /\ CallInv /\ [Next]_vars => CallInv'  BY CallInvStep
<1>2. TypeOK /\ CallInv /\ [Next]_vars =>
        [\A f \in Files : \A p \in tree[f] \ tree'[f] :
            \/ p.by = "bridge" \/ p \in HeadTree[f]
            \/ f \in call.paths /\ \/ call.op = "write"
                                   \/ call.op = "patch" /\ p \notin call.read \ call.old
                                   \/ used'.faults > used.faults]_vars
  BY LossSteps
<1> QED  BY <1>1, <1>2, InitCallInv, ProjectTypeOK, PTL DEF Spec, EditsSurvive

--------------------------------------------------------------------------

\* The number of calls: it is the same while a call goes on, which never goes back to the
\* commands before its commit, and one more when a call begins.
LEMMA CountSteps ==
    ASSUME TypeOK, [Next]_vars
    PROVE  \/ /\ used'.calls = used.calls
              /\ call'.pc # "idle" => call.pc # "idle"
              /\ call'.pc \in {"add", "commit"} => call.pc \in {"add", "commit"}
           \/ used'.calls = used.calls + 1
<1> DEFINE Goal == \/ /\ used'.calls = used.calls
                      /\ call'.pc # "idle" => call.pc # "idle"
                      /\ call'.pc \in {"add", "commit"} => call.pc \in {"add", "commit"}
                   \/ used'.calls = used.calls + 1
<1>a. ASSUME (\E o, late : Answer(o, late)) \/ call' = NoCall PROVE call'.pc = "idle"
  <2>1. call' = NoCall  BY <1>a DEF Answer
  <2> QED  BY <2>1 DEF NoCall
<1>f. Fault \/ Other => used'.calls = used.calls  BY DEF Fault, Other, TypeOK
<1>s. Same => used'.calls = used.calls  BY DEF Same
<1>g. ASSUME NEW pc, Goto(pc) PROVE call'.pc = pc
  BY <1>g DEF Goto, TypeOK
<1>b. ASSUME NEW allowed, NEW refusals, NEW pc, NEW op, NEW paths, NEW name,
             Begin(allowed, refusals, pc, op, paths, name)
      PROVE  used'.calls = used.calls + 1
  BY <1>b DEF Begin, TypeOK
<1>1. CASE ToolStep
  <2>1. CASE ReadFile
    <3>1. call.pc # "idle"  BY <2>1 DEF ReadFile, At
    <3>2. call'.pc = "write"  BY <2>1 DEF ReadFile, TypeOK
    <3> QED  BY <2>1, <3>1, <3>2, <1>s DEF ReadFile
  <2>2. CASE \/ WriteBytes \/ Checkout \/ Report \/ Push \/ RunEnds \/ RunTimesOut
             \/ \E pc \in {"read", "write"} \cup GitPoints : Refused(pc)
             \/ Undecodable
    <3>1. call'.pc = "idle"
      BY <2>2, <1>a DEF WriteBytes, Checkout, Report, Push, RunEnds, RunTimesOut, Refused,
                        Undecodable
    <3>2. used'.calls = used.calls
      BY <2>2, <1>s DEF WriteBytes, Checkout, Report, Push, RunEnds, RunTimesOut, Refused,
                        Undecodable
    <3> QED  BY <3>1, <3>2
  <2>3. CASE CheckBranch
    <3>1. CASE Goto("checkout")
      BY <2>3, <3>1, <1>g, <1>s DEF CheckBranch, At
    <3> QED  BY <2>3, <3>1, <1>a, <1>s DEF CheckBranch
  <2>4. CASE Add  BY <2>4, <1>g, <1>s DEF Add, At
  <2>5. CASE MakeCommit  BY <2>5, <1>g, <1>s DEF MakeCommit, At
  <2>6. CASE ReadBranch
    <3>1. CASE head = Detached  BY <2>6, <3>1, <1>a, <1>s DEF ReadBranch
    <3>2. CASE head # Detached
      <4>1. call'.pc = "push"  BY <2>6, <3>2 DEF ReadBranch, TypeOK
      <4> QED  BY <2>6, <4>1, <1>s DEF ReadBranch, At
    <3> QED  BY <3>1, <3>2
  <2> QED  BY <1>1, <2>1, <2>2, <2>3, <2>4, <2>5, <2>6 DEF ToolStep
<1>2. CASE Client
  BY <1>2, <1>b
     DEF Client, StartWrite, StartPatch, StartBranch, StartCommit, StartPush, StartRun
<1>3. CASE Faults
  <2>1. call'.pc = "idle"
    BY <1>3, <1>a DEF Faults, WriteFails, GitTimesOut, Crash
  <2>2. used'.calls = used.calls
    BY <1>3, <1>f DEF Faults, WriteFails, GitTimesOut, Crash
  <2> QED  BY <2>1, <2>2
<1>4. CASE Environment
  <2>1. UNCHANGED call
    BY <1>4 DEF Environment, Spawn, ProcessEnds, ProcessWrites, DevEdits, DevStages,
                DevCommits, DevSwitches, OthersPush, NotTheBridge
  <2>2. used'.calls = used.calls
    BY <1>4, <1>f DEF Environment, Spawn, ProcessEnds, ProcessWrites, Adds, DevEdits,
                      DevStages, DevCommits, DevSwitches, OthersPush
  <2> QED  BY <2>1, <2>2
<1>5. CASE UNCHANGED vars  BY <1>5 DEF vars
<1> QED  BY <1>1, <1>2, <1>3, <1>4, <1>5 DEF Next

\* A commit of the bridge is there before the step, or is the one that call makes.
LEMMA MadeStep ==
    ASSUME TypeOK, [Next]_vars, NEW b \in Refs, NEW c \in Made(log'[b])
    PROVE  \/ \E r \in Refs : c \in Made(log[r])
           \/ c.k = used.calls /\ At("commit") /\ call'.pc \notin {"add", "commit"}
<1>t. /\ log \in [Refs -> History] /\ head \in Refs /\ HeadLog = log[head]
  BY DEF TypeOK, HeadLog
<1>s. LogStep  BY HistorySteps
<1>1. CASE UNCHANGED log  BY <1>1
<1>2. CASE \E n \in Commit : Append1(head, n) /\ (n.by = "bridge" => OwnCommit(n))
  <2>1. PICK n \in Commit : /\ log' = [log EXCEPT ![head] = Append(@, n)]
                            /\ n.by = "bridge" => OwnCommit(n)
    BY <1>2 DEF Append1
  <2>2. CASE b # head  BY <1>t, <2>1, <2>2
  <2>3. CASE b = head
    <3>1. log'[b] = Append(log[b], n) /\ log[b] \in Seq(Commit)
      BY <1>t, <2>1, <2>3 DEF History
    <3>2. PICK i \in DOMAIN Append(log[b], n) : c = Append(log[b], n)[i]
      BY <3>1 DEF Made
    <3>3. c.by = "bridge"  BY DEF Made
    <3>4. CASE i \in DOMAIN log[b]
      <4>1. c = log[b][i]  BY <3>1, <3>2, <3>4
      <4> QED  BY <3>3, <3>4, <4>1 DEF Made
    <3>5. CASE i \notin DOMAIN log[b]
      <4>1. c = n  BY <3>1, <3>2, <3>5
      <4> QED  BY <2>1, <3>3, <4>1 DEF OwnCommit
    <3> QED  BY <3>4, <3>5
  <2> QED  BY <2>2, <2>3
<1>3. CASE \E r \in Refs \ {head} : log' = [log EXCEPT ![r] = HeadLog]
  BY <1>3, <1>t
<1> QED  BY <1>s, <1>1, <1>2, <1>3 DEF LogStep

\* A commit stays on a branch, but for one that was made on none.
OnBranch(l, k) == (\E b \in Refs : \E c \in Made(l[b]) : c.k = k) \/ l[Detached] # <<>>

LEMMA CommittedStays ==
    ASSUME TypeOK, [Next]_vars, NEW k, OnBranch(log, k)
    PROVE  OnBranch(log', k)
<1>t. /\ log \in [Refs -> History] /\ head \in Refs /\ HeadLog = log[head] /\ HeadLog # <<>>
      /\ Detached \in Refs
  BY DEF TypeOK, HeadLog, Refs
<1>s. LogStep  BY HistorySteps
<1>1. CASE UNCHANGED log
  BY <1>1 DEF OnBranch
<1>2. CASE \E n \in Commit : Append1(head, n)
  <2>1. PICK n \in Commit : log' = [log EXCEPT ![head] = Append(@, n)]
    BY <1>2 DEF Append1
  <2>2. ASSUME NEW r \in Refs PROVE Made(log[r]) \subseteq Made(log'[r])
    <3>1. CASE r # head  BY <1>t, <2>1, <3>1
    <3>2. CASE r = head
      <4>1. log'[r] = Append(log[r], n) /\ log[r] \in Seq(Commit)
        BY <1>t, <2>1, <3>2 DEF History
      <4>2. \A i \in DOMAIN log[r] : i \in DOMAIN log'[r] /\ log'[r][i] = log[r][i]
        BY <4>1
      <4> QED  BY <4>2 DEF Made
    <3> QED  BY <3>1, <3>2
  <2>3. \A b \in Refs : \A c \in Made(log[b]) : c \in Made(log'[b])  BY <2>2
  <2>4. log[Detached] # <<>> => log'[Detached] # <<>>
    BY <1>t, <2>1 DEF History
  <2> QED  BY <2>3, <2>4 DEF OnBranch
<1>3. CASE \E r \in Refs \ {head} : /\ r = Detached \/ log[r] = <<>>
                                    /\ log' = [log EXCEPT ![r] = HeadLog]
  <2>1. PICK r \in Refs \ {head} : /\ r = Detached \/ log[r] = <<>>
                                   /\ log' = [log EXCEPT ![r] = HeadLog]
    BY <1>3
  <2>2. CASE r = Detached
    <3>1. log'[Detached] # <<>>  BY <1>t, <2>1, <2>2
    <3> QED  BY <3>1 DEF OnBranch
  <2>3. CASE r # Detached
    <3>1. Made(log[r]) = {} /\ log'[Detached] = log[Detached]
      BY <1>t, <2>1, <2>3 DEF Made
    <3>2. \A b \in Refs : b # r => log'[b] = log[b]  BY <1>t, <2>1
    <3> QED  BY <3>1, <3>2 DEF OnBranch
  <2> QED  BY <2>2, <2>3
<1> QED  BY <1>s, <1>1, <1>2, <1>3 DEF LogStep

\* A git_commit reports once it has committed.
LEMMA ReportSteps ==
    ASSUME TypeOK, CallInv, [Next]_vars, call'.pc = "report"
    PROVE  MakeCommit \/ (call.pc = "report" /\ used'.calls = used.calls)
<1>a. ASSUME (\E o, late : Answer(o, late)) \/ call' = NoCall PROVE FALSE
  <2>1. call' = NoCall  BY <1>a DEF Answer
  <2> QED  BY <2>1 DEF NoCall
<1>b. ASSUME NEW allowed, NEW refusals, NEW op, NEW paths, NEW name,
             NEW pc \in {"write", "read", "verify", "add", "symbolic", "run"},
             Begin(allowed, refusals, pc, op, paths, name)
      PROVE  FALSE
  <2>1. call' = call \/ call'.pc = pc  BY <1>b DEF Begin, NoCall
  <2> QED  BY <1>b, <2>1 DEF Begin, Idle
<1>1. CASE ToolStep
  <2>1. ~ReadFile  BY DEF ReadFile, TypeOK
  <2>2. ~CheckBranch
    BY <1>a DEF CheckBranch, Goto, TypeOK
  <2>3. ~Add  BY DEF Add, Goto, TypeOK
  <2>4. ~ReadBranch
    <3>1. ASSUME call' = [call EXCEPT !.pc = "push", !.name = head] PROVE FALSE
      BY <3>1 DEF TypeOK
    <3> QED  BY <3>1, <1>a DEF ReadBranch
  <2>5. ~(WriteBytes \/ Checkout \/ Report \/ Push \/ RunEnds \/ RunTimesOut \/ Undecodable)
    BY <1>a DEF WriteBytes, Checkout, Report, Push, RunEnds, RunTimesOut, Undecodable
  <2>6. \A pc : ~Refused(pc)  BY <1>a DEF Refused
  <2> QED  BY <1>1, <2>1, <2>2, <2>3, <2>4, <2>5, <2>6 DEF ToolStep
<1>2. ~Client
  BY <1>b DEF Client, StartWrite, StartPatch, StartBranch, StartCommit, StartPush, StartRun
<1>3. ~Faults  BY <1>a DEF Faults, WriteFails, GitTimesOut, Crash
<1>4. CASE Environment
  <2>1. UNCHANGED call
    BY <1>4 DEF Environment, Spawn, ProcessEnds, ProcessWrites, DevEdits, DevStages,
                DevCommits, DevSwitches, OthersPush, NotTheBridge
  <2>2. used' = used \/ Other
    BY <1>4 DEF Environment, Spawn, ProcessEnds, ProcessWrites, Adds, DevEdits, DevStages,
                DevCommits, DevSwitches, OthersPush
  <2> QED  BY <2>1, <2>2 DEF Other, TypeOK
<1>5. CASE UNCHANGED vars  BY <1>5 DEF vars
<1> QED  BY <1>1, <1>2, <1>3, <1>4, <1>5 DEF Next

LEMMA MakeCommitCommits ==
    ASSUME TypeOK, MakeCommit
    PROVE  OnBranch(log', used.calls) /\ used'.calls = used.calls
<1> DEFINE c == [by |-> "bridge", k |-> used.calls, paths |-> call.paths,
                 tree |-> Picked(HeadTree, call.paths)]
<1>1. Append1(head, c) /\ c.by = "bridge" /\ c.k = used.calls /\ used' = used
  BY DEF MakeCommit, GitCommit, Same
<1> HIDE DEF c
<1>2. log'[head] = Append(log[head], c) /\ log[head] \in Seq(Commit) /\ head \in Refs
  BY <1>1 DEF Append1, TypeOK, History
<1>3. Len(log[head]) + 1 \in DOMAIN log'[head] /\ log'[head][Len(log[head]) + 1] = c
  BY <1>2
<1>4. c \in Made(log'[head])  BY <1>1, <1>3 DEF Made
<1> QED  BY <1>1, <1>2, <1>4 DEF OnBranch

\* What a new answer says: the arguments of a call are refused before it begins, or a call
\* is answered; a commit that is answered with its hash, or with an error of the commands
\* after it, has been made, and one that git add or git commit refused has not; a push is
\* answered with what git did.
RefusedAtOnce(a) ==
    /\ a.k = used.calls + 1 /\ used'.calls = used.calls + 1
    /\ a.outcome # "ok" /\ a.at # "report"
    /\ Idle /\ UNCHANGED <<call, log>>
Answered(a) ==
    /\ a.k = used.calls /\ used'.calls = used.calls /\ Idle'
    /\ a.op = "commit" /\ (a.outcome = "ok" \/ a.at = "report") => call.pc = "report"
    /\ a.op = "commit" /\ a.at # "report" /\ a.outcome \in {"denied", "error"} /\ ~a.late =>
          call.pc \in {"add", "commit"} /\ UNCHANGED log
    /\ a.op = "push" /\ a.outcome = "ok" => GitPush(a.name) /\ a.hist = HeadLog

LEMMA AnswerSteps ==
    ASSUME TypeOK, CallInv, [Next]_vars, NEW a \in answers' \ answers
    PROVE  RefusedAtOnce(a) \/ Answered(a)
<1>u. ~UNCHANGED answers  OBVIOUS
<1>f. Fault => used'.calls = used.calls  BY DEF Fault, TypeOK
<1>a. ASSUME NEW outcome, NEW late, Answer(outcome, late)
      PROVE  /\ a.k = used.calls /\ a.op = call.op /\ a.outcome = outcome /\ a.late = late
             /\ a.name = call.name /\ (call.op = "push" => a.hist = HeadLog) /\ Idle'
             /\ a.at = call.pc
  <2>1. a = [k |-> used.calls, op |-> call.op, at |-> call.pc, outcome |-> outcome, late |-> late,
             name |-> call.name, hist |-> IF call.op = "push" THEN HeadLog ELSE <<>>]
    BY <1>a DEF Answer
  <2>2. Idle'  BY <1>a DEF Answer, NoCall, Idle
  <2> QED  BY <2>1, <2>2
<1>g. ASSUME NEW pc, Goto(pc) PROVE FALSE  BY <1>g, <1>u DEF Goto
<1>b. ASSUME NEW allowed, NEW refusals, NEW pc, NEW op, NEW paths, NEW name,
             Begin(allowed, refusals, pc, op, paths, name),
             refusals \subseteq {"denied", "error"}, UNCHANGED repo
      PROVE  RefusedAtOnce(a)
  <2>1. /\ Idle /\ used'.calls = used.calls + 1 /\ UNCHANGED call
        /\ \E outcome \in IF allowed THEN refusals ELSE {"denied"} :
              a = [k |-> used'.calls, op |-> op, at |-> call.pc, outcome |-> outcome, late |-> FALSE,
                   name |-> name, hist |-> <<>>]
    BY <1>b, <1>u DEF Begin, TypeOK
  <2>2. a.k = used'.calls /\ a.outcome # "ok" /\ a.at # "report"  BY <1>b, <2>1 DEF Idle
  <2> QED  BY <1>b, <2>1, <2>2 DEF RefusedAtOnce, repo
<1>1. CASE ToolStep
  <2>1. CASE WriteBytes \/ Checkout \/ Report \/ RunEnds \/ RunTimesOut
    <3>1. (\E late : Answer("ok", late)) /\ used' = used
      BY <2>1 DEF WriteBytes, Checkout, Report, RunEnds, RunTimesOut, Same
    <3>2. call.op # "push" /\ (call.op = "commit" => call.pc = "report")
      BY <2>1 DEF WriteBytes, Checkout, Report, RunEnds, RunTimesOut, At, CallInv
    <3> QED  BY <3>1, <3>2, <1>a DEF Answered
  <2>2. CASE Push
    <3>1. Answer("ok", FALSE) /\ used' = used /\ GitPush(call.name) /\ call.op = "push"
      BY <2>2 DEF Push, Same, At, CallInv
    <3> QED  BY <3>1, <1>a DEF Answered
  <2>3. CASE \/ CheckBranch \/ ReadBranch
             \/ \E pc \in {"read", "write"} \cup GitPoints : Refused(pc)
    <3>1. Answer("error", FALSE) /\ used' = used /\ UNCHANGED log
      BY <2>3, <1>u, <1>g DEF CheckBranch, ReadBranch, Refused, Same, repo
    <3>2. call.op = "commit" => call.pc \in {"add", "commit", "report"}
      BY <2>3 DEF CheckBranch, ReadBranch, Refused, At, CallInv, GitPoints
    <3>3. a.k = used.calls /\ a.op = call.op /\ a.outcome = "error" /\ a.at = call.pc /\ Idle'
      BY <3>1, <1>a
    <3> QED  BY <3>1, <3>2, <3>3 DEF Answered
  <2>4. CASE Undecodable
    <3>1. Answer("raised", FALSE) /\ used' = used  BY <2>4 DEF Undecodable, Same
    <3>2. a.outcome = "raised" /\ a.at = call.pc /\ a.k = used.calls /\ Idle'
      BY <3>1, <1>a
    <3> QED  BY <3>1, <3>2 DEF Answered
  <2>5. ~ReadFile /\ ~Add /\ ~MakeCommit
    BY <1>u, <1>g DEF ReadFile, Add, MakeCommit
  <2> QED  BY <1>1, <2>1, <2>2, <2>3, <2>4, <2>5 DEF ToolStep
<1>2. CASE Client
  <2>1. /\ PathRefusals \subseteq {"denied", "error"}
        /\ NameRefusals \subseteq {"denied", "error"}
        /\ CommandRefusals \subseteq {"denied", "error"}
    BY DEF PathRefusals, NameRefusals, CommandRefusals
  <2> QED
    BY <1>2, <2>1, <1>b
       DEF Client, StartWrite, StartPatch, StartBranch, StartCommit, StartPush, StartRun
<1>3. CASE Faults
  <2>1. CASE WriteFails
    <3>1. Answer("error", FALSE) /\ used'.calls = used.calls  BY <2>1, <1>f DEF WriteFails
    <3>2. call.op # "commit"  BY <2>1 DEF WriteFails, At, CallInv
    <3>3. a.k = used.calls /\ a.op = call.op /\ a.outcome = "error" /\ Idle'
      BY <3>1, <1>a
    <3> QED  BY <3>1, <3>2, <3>3 DEF Answered
  <2>2. CASE GitTimesOut
    <3>1. Answer("error", TRUE) /\ used'.calls = used.calls  BY <2>2, <1>f DEF GitTimesOut
    <3>2. a.k = used.calls /\ a.outcome = "error" /\ a.late /\ a.at = call.pc /\ Idle'
      BY <3>1, <1>a
    <3> QED  BY <3>1, <3>2 DEF Answered
  <2>3. ~Crash  BY <1>u DEF Crash
  <2> QED  BY <1>3, <2>1, <2>2, <2>3 DEF Faults
<1>4. ~Environment
  BY <1>u DEF Environment, Spawn, ProcessEnds, ProcessWrites, DevEdits, DevStages,
              DevCommits, DevSwitches, OthersPush, NotTheBridge
<1>5. ~UNCHANGED vars  BY <1>u DEF vars
<1> QED  BY <1>1, <1>2, <1>3, <1>4, <1>5 DEF Next

\* Commits and answers keep the numbers of their calls.
LEMMA NumberInvStep ==
    ASSUME TypeOK, CallInv, NumberInv, [Next]_vars
    PROVE  NumberInv'
<1>t. used.calls \in Nat  BY DEF TypeOK
<1>n. \/ /\ used'.calls = used.calls
         /\ call'.pc # "idle" => call.pc # "idle"
         /\ call'.pc \in {"add", "commit"} => call.pc \in {"add", "commit"}
      \/ used'.calls = used.calls + 1
  BY CountSteps
<1>1. ASSUME NEW b \in Refs, NEW c \in Made(log'[b])
      PROVE  /\ c.k \in 0..used'.calls
             /\ call'.pc \in {"add", "commit"} => c.k # used'.calls
  <2>1. CASE \E r \in Refs : c \in Made(log[r])
    <3>1. /\ c.k \in 0..used.calls
          /\ call.pc \in {"add", "commit"} => c.k # used.calls
      BY <2>1 DEF NumberInv
    <3> QED  BY <3>1, <1>t, <1>n
  <2>2. CASE c.k = used.calls /\ call'.pc \notin {"add", "commit"}
    BY <2>2, <1>t, <1>n
  <2> QED  BY <1>1, <2>1, <2>2, MadeStep
<1>2. ASSUME NEW a \in answers'
      PROVE  a.k \in 0..used'.calls /\ (~Idle' => a.k # used'.calls)
  <2>1. CASE a \in answers
    <3>1. a.k \in 0..used.calls /\ (~Idle => a.k # used.calls)
      BY <2>1 DEF NumberInv
    <3> QED  BY <3>1, <1>t, <1>n DEF Idle
  <2>2. CASE a \notin answers
    <3>1. RefusedAtOnce(a) \/ Answered(a)  BY <2>2, <1>2, AnswerSteps
    <3> QED  BY <3>1, <1>t DEF RefusedAtOnce, Answered, Idle
  <2> QED  BY <2>1, <2>2
<1>3. ASSUME call'.pc = "report" PROVE OnBranch(log', used'.calls)
  <2>1. CASE MakeCommit  BY <2>1, MakeCommitCommits
  <2>2. CASE call.pc = "report" /\ used'.calls = used.calls
    <3>1. OnBranch(log, used.calls)  BY <2>2 DEF NumberInv, Committed, OnBranch
    <3> QED  BY <2>2, <3>1, CommittedStays
  <2> QED  BY <1>3, <2>1, <2>2, ReportSteps
<1> QED  BY <1>1, <1>2, <1>3 DEF NumberInv, Committed, OnBranch

\* A prefix of a prefix is a prefix.
LEMMA PrefixTransitive ==
    ASSUME NEW g \in History, NEW h \in History, NEW l \in History,
           IsPrefixOf(g, h), IsPrefixOf(h, l)
    PROVE  IsPrefixOf(g, l)
<1>1. Len(g) \in Nat /\ Len(h) \in Nat /\ Len(l) \in Nat  BY DEF History
<1> QED  BY <1>1 DEF IsPrefixOf

\* A git_commit that answers with a hash, or with an error of the commands that read it, has
\* made its commit; one that is denied, or that git add or git commit refused, has not, on
\* any branch; and what git_push answered as pushed is on the remote, and no later step of
\* the bridge or of another clone takes it off again.
THEOREM AnswersAlwaysTrue == Spec => []AnswersAreTrue
<1>1. Init => AnswersAreTrue  BY DEF Init, AnswersAreTrue
<1>2. ASSUME TypeOK, CallInv, NumberInv, AnswersAreTrue, [Next]_vars
      PROVE  AnswersAreTrue'
  <2>t. /\ used.calls \in Nat /\ answers \subseteq AnAnswer
        /\ remote \in [Branches -> History] /\ remote' \in [Branches -> History]
    <3>1. TypeOK'  BY <1>2, ProjectStepTypes
    <3> QED  BY <1>2, <3>1 DEF TypeOK, AnAnswer, Outcomes
  <2>n. /\ \A b \in Refs : \A c \in Made(log[b]) :
              c.k \in 0..used.calls /\ (call.pc \in {"add", "commit"} => c.k # used.calls)
        /\ \A a \in answers : ~Idle => a.k # used.calls
    BY <1>2 DEF NumberInv
  <2>0. ASSUME NEW a \in answers', a.op = "commit", a.outcome = "ok" \/ a.at = "report"
        PROVE  OnBranch(log', a.k)
    <3>1. OnBranch(log, a.k)
      <4>1. CASE a \in answers
        BY <1>2, <2>0, <4>1 DEF AnswersAreTrue, Committed, OnBranch
      <4>2. CASE a \notin answers
        <5>1. Answered(a)  BY <1>2, <2>0, <4>2, AnswerSteps DEF RefusedAtOnce
        <5> QED  BY <1>2, <2>0, <5>1 DEF Answered, NumberInv, Committed, OnBranch
      <4> QED  BY <4>1, <4>2
    <3> QED  BY <1>2, <3>1, CommittedStays
  <2>1. ASSUME NEW a \in answers', a.op = "commit", a.at # "report",
               a.outcome \in {"denied", "error"}, ~a.late,
               NEW b \in Refs, NEW c \in Made(log'[b])
        PROVE  c.k # a.k
    <3>1. CASE a \in answers
      <4>1. \A r \in Refs : \A m \in Made(log[r]) : m.k # a.k
        BY <1>2, <2>1, <3>1 DEF AnswersAreTrue, Committed
      <4>2. c.k = used.calls /\ At("commit") => c.k # a.k
        BY <2>n, <3>1 DEF At, Idle
      <4> QED  BY <1>2, <2>1, <4>1, <4>2, MadeStep
    <3>2. CASE RefusedAtOnce(a)
      BY <2>1, <2>n, <2>t, <3>2 DEF RefusedAtOnce
    <3>3. CASE Answered(a)
      BY <2>1, <2>n, <3>3 DEF Answered
    <3> QED  BY <1>2, <2>1, <3>1, <3>2, <3>3, AnswerSteps
  <2>2. ASSUME NEW a \in answers', a.op = "push", a.outcome = "ok"
        PROVE  IsPrefixOf(a.hist, remote'[a.name])
    <3>1. CASE a \in answers
      <4>1. a.hist \in History /\ a.name \in Branches  BY <2>t, <3>1 DEF AnAnswer
      <4>2. IsPrefixOf(a.hist, remote[a.name])
        BY <1>2, <2>2, <3>1 DEF AnswersAreTrue
      <4>3. IsPrefixOf(remote[a.name], remote'[a.name])  BY <1>2, <4>1, HistoriesGrow
      <4> QED  BY <2>t, <4>1, <4>2, <4>3, PrefixTransitive
    <3>2. CASE a \notin answers
      <4>1. Answered(a)  BY <1>2, <2>2, <3>2, AnswerSteps DEF RefusedAtOnce
      <4>2. GitPush(a.name) /\ a.hist = HeadLog  BY <2>2, <4>1 DEF Answered
      <4>3. a.name \in Branches /\ HeadLog \in History
        <5>1. TypeOK'  BY <1>2, ProjectStepTypes
        <5> QED  BY <1>2, <2>2, <5>1 DEF TypeOK, HeadLog
      <4>4. remote'[a.name] = HeadLog
        BY <2>t, <4>2, <4>3 DEF GitPush, GitPushForced
      <4> QED  BY <4>2, <4>3, <4>4, PrefixFacts
    <3> QED  BY <3>1, <3>2
  <2> QED  BY <2>0, <2>1, <2>2 DEF AnswersAreTrue, OnBranch, Committed
<1>3. TypeOK /\ CallInv /\ [Next]_vars => CallInv'  BY CallInvStep
<1>4. TypeOK /\ CallInv /\ NumberInv /\ [Next]_vars => NumberInv'  BY NumberInvStep
<1>5. TypeOK /\ CallInv /\ NumberInv /\ AnswersAreTrue /\ [Next]_vars => AnswersAreTrue'
  BY <1>2
<1> QED  BY <1>1, <1>3, <1>4, <1>5, InitCallInv, ProjectTypeOK, PTL DEF Spec
====
