-------------------------- MODULE NotesVaultProofs --------------------------
(***************************************************************************)
(* Proofs about NotesVault for every set of notes, contents and bounds:    *)
(* type correctness, that the vault implements PublishedLog, and that no   *)
(* commit is dropped, mixed with another note or with another write, and   *)
(* no refused write leaves a trace.                                        *)
(***************************************************************************)
EXTENDS NotesVault, FiniteSetTheorems, SequenceTheorems, TLAPS

\* Texts are closed under what the model does with them.
LEMMA TextClosed ==
    /\ {} \in Text
    /\ \A p \in Piece : {p} \in Text
    /\ \A s, t \in Text : s \cup t \in Text
    /\ \A s \in Text, p \in Piece : s \cup {p} \in Text /\ s \ {p} \in Text
    /\ Marker \in Piece
    /\ \A k \in Nat : PcPiece(k) \in Piece
<1>1. {} \in Text
  BY FS_EmptySet DEF Text
<1>2. \A p \in Piece : {p} \in Text
  BY FS_Singleton DEF Text
<1>3. \A s, t \in Text : s \cup t \in Text
  BY FS_Union DEF Text
<1>4. \A s \in Text, p \in Piece : s \cup {p} \in Text /\ s \ {p} \in Text
  BY FS_AddElement, FS_RemoveElement DEF Text
<1>5. Marker \in Piece /\ \A k \in Nat : PcPiece(k) \in Piece
  BY DEF Marker, PcPiece, Piece
<1> QED BY <1>1, <1>2, <1>3, <1>4, <1>5

\* The trees the refs point to are trees.
LEMMA TreeTypes ==
    ASSUME origin \in Seq(Commit), GitOK
    PROVE  /\ OriginTree \in Tree /\ BaseTree \in Tree /\ HeadTree \in Tree
           /\ origin # <<>>
<1>1. Len(origin) \in 1..Len(origin) /\ base \in 1..Len(origin)
  BY LenProperties DEF GitOK
<1>2. OriginTree \in Tree /\ BaseTree \in Tree
  <2>1. origin[Len(origin)] \in Commit /\ origin[base] \in Commit
    BY <1>1, ElementOfSeq
  <2> QED BY <2>1 DEF OriginTree, BaseTree, Commit
<1>3. HeadTree \in Tree
  <2>1. CASE ahead = <<>>
    BY <2>1, <1>2 DEF HeadTree
  <2>2. CASE ahead # <<>>
    <3>1. Len(ahead) \in 1..Len(ahead)
      BY <2>2, EmptySeq DEF GitOK
    <3>2. ahead[Len(ahead)] \in Commit
      BY <3>1, ElementOfSeq DEF GitOK
    <3> QED BY <3>2, <2>2 DEF HeadTree, Commit
  <2> QED BY <2>1, <2>2
<1> QED BY <1>1, <1>2, <1>3

\* Replaying keeps trees trees, and commits commits.
LEMMA ReplayTypes ==
    ASSUME origin \in Seq(Commit), GitOK
    PROVE  /\ \A t \in Tree : Replay(t) \in Tree
           /\ Replayed \in Seq(Commit)
           /\ Len(Replayed) = Len(ahead)
           /\ \A i \in 1..Len(ahead) :
                 Replayed[i] = [ahead[i] EXCEPT !.tree = Replay(ahead[i].tree)]
<1>1. \A t \in Tree : Replay(t) \in Tree
  BY TreeTypes, TextClosed DEF Replay, Tree
<1>2. DOMAIN ahead = 1..Len(ahead) /\ Len(ahead) \in Nat
  BY LenProperties DEF GitOK
<1>3. \A i \in 1..Len(ahead) : [ahead[i] EXCEPT !.tree = Replay(ahead[i].tree)] \in Commit
  <2> TAKE i \in 1..Len(ahead)
  <2>1. ahead[i] \in Commit
    BY ElementOfSeq DEF GitOK
  <2>2. Replay(ahead[i].tree) \in Tree
    BY <2>1, <1>1 DEF Commit
  <2> QED BY <2>1, <2>2 DEF Commit
<1>4. Replayed = [i \in 1..Len(ahead) |-> [ahead[i] EXCEPT !.tree = Replay(ahead[i].tree)]]
  BY <1>2 DEF Replayed
<1>5. Replayed \in Seq(Commit) /\ Len(Replayed) = Len(ahead)
  BY <1>2, <1>3, <1>4
<1> QED BY <1>1, <1>4, <1>5

\* So does carrying edits over to another tree.
LEMMA ReapplyType ==
    ASSUME origin \in Seq(Commit), GitOK, NEW files \in Tree, NEW t \in Tree, NEW C
    PROVE  Reapply(files, t, C) \in Tree
<1> SUFFICES ASSUME NEW n \in Notes
             PROVE  Reapply(files, t, C)[n] \in Text
  BY DEF Reapply, Tree
<1>1. files[n] \in Text /\ t[n] \in Text /\ files[n] \cup t[n] \in Text
  BY TextClosed DEF Tree
<1>2. files[n] \cup t[n] \cup {Marker} \in Text /\ files[n] \cup t[n] \cup {} \in Text
  BY <1>1, TextClosed
<1> QED BY <1>1, <1>2 DEF Reapply

\* Every git command leaves the vault well-formed.
LEMMA GitTypes ==
    ASSUME TypeOK, UNCHANGED origin,
           UNCHANGED gitVars \/ GitPull \/ GitPullStops \/ GitRebaseAbort \/ LockLeft
           \/ \E n \in Notes : GitAdd(n)
    PROVE  GitOK'
<1> USE DEF TypeOK
<1>0. Replay(HeadTree) \in Tree /\ Len(origin) \in 1..Len(origin)
  BY TreeTypes, ReplayTypes, LenProperties, EmptySeq
<1>1. CASE UNCHANGED gitVars
  BY <1>1 DEF GitOK, gitVars
<1>2. CASE GitPull
  <2>1. CASE UNCHANGED gitVars
    BY <2>1 DEF GitOK, gitVars
  <2>2. CASE Pullable /\ ~UNCHANGED gitVars
    <3>1. wt' \in Tree /\ unmerged' \subseteq Notes
      BY <1>0, <1>2, <2>2, ReapplyType DEF GitPull, GitOK, MayClash, Edited
    <3>2. base' = Len(origin) /\ ahead' = Replayed /\ added' \subseteq Notes
          /\ UNCHANGED <<rebase, saved, lock>>
      BY <1>2, <2>2 DEF GitPull, GitOK
    <3> QED BY <1>0, <3>1, <3>2, ReplayTypes DEF GitOK
  <2> QED BY <1>2, <2>1, <2>2 DEF GitPull
<1>3. CASE GitPullStops
  <2>1. PICK n \in Diverged : wt' = [Replay(HeadTree) EXCEPT ![n] = @ \cup {Marker}]
                              /\ unmerged' = {n}
    BY <1>3 DEF GitPullStops
  <2>2. n \in Notes
    BY DEF Diverged
  <2>3. wt' \in Tree
    BY <1>0, <2>1, <2>2, TextClosed DEF Tree
  <2> QED BY <1>3, <2>1, <2>2, <2>3 DEF GitPullStops, GitOK, RebaseStates
<1>4. CASE GitRebaseAbort
  <2>1. [n \in Notes |-> {}] \in Tree
    BY TextClosed DEF Tree
  <2> QED BY <1>4, <2>1 DEF GitRebaseAbort, GitOK, RebaseStates, gitVars
<1>5. CASE LockLeft
  BY <1>5 DEF LockLeft, GitOK
<1>6. ASSUME NEW n \in Notes, GitAdd(n) PROVE GitOK'
  BY <1>6 DEF GitAdd, GitOK
<1> QED BY <1>1, <1>2, <1>3, <1>4, <1>5, <1>6

\* A commit of the running write is a commit, put after the others.
LEMMA CommitTypes ==
    ASSUME TypeOK, UNCHANGED origin, call \in RunningWrite, GitCommit(call.note)
    PROVE  /\ GitOK'
           /\ Len(ahead') = Len(ahead) + 1
           /\ \A i \in 1..Len(ahead) : ahead'[i] = ahead[i]
           /\ ahead'[Len(ahead) + 1] =
                 [by |-> "bridge", note |-> call.note, mode |-> call.mode,
                  piece |-> call.piece, tree |-> [HeadTree EXCEPT ![call.note] = wt[call.note]]]
<1> DEFINE c == [by |-> "bridge", note |-> call.note, mode |-> call.mode,
                 piece |-> call.piece, tree |-> [HeadTree EXCEPT ![call.note] = wt[call.note]]]
<1>1. call.note \in Notes /\ call.mode \in Modes /\ call.piece \in Piece
  BY VaultAssumption DEF RunningWrite, Piece
<1>2. [HeadTree EXCEPT ![call.note] = wt[call.note]] \in Tree
  BY <1>1, TreeTypes DEF TypeOK, GitOK, Tree
<1>3. c \in Commit
  BY <1>1, <1>2 DEF Commit
<1>4. ahead' = Append(ahead, c) /\ ahead \in Seq(Commit)
  BY DEF GitCommit, TypeOK, GitOK
<1> HIDE DEF c
<1>5. /\ ahead' \in Seq(Commit)
      /\ Len(ahead') = Len(ahead) + 1
      /\ \A i \in 1..Len(ahead) : ahead'[i] = ahead[i]
      /\ ahead'[Len(ahead) + 1] = c
  BY <1>3, <1>4, AppendProperties
<1>6. GitOK'
  BY <1>5 DEF GitCommit, TypeOK, GitOK
<1> QED BY <1>5, <1>6 DEF c

\* An accepted push moves the local commits to the end of the origin.
LEMMA PushTypes ==
    ASSUME TypeOK, GitPush
    PROVE  /\ origin' \in Seq(Commit)
           /\ GitOK'
           /\ ahead' = <<>>
           /\ base = Len(origin)
           /\ Len(origin') = Len(origin) + Len(ahead)
           /\ \A i \in 1..Len(origin) : origin'[i] = origin[i]
           /\ \A i \in 1..Len(ahead) : origin'[Len(origin) + i] = ahead[i]
<1>1. /\ origin \in Seq(Commit) /\ ahead \in Seq(Commit)
      /\ Len(origin) \in Nat /\ Len(ahead) \in Nat /\ base \in 1..Len(origin)
  BY LenProperties DEF TypeOK, GitOK
<1>2. origin' = origin \o ahead
  BY DEF GitPush
<1>3. /\ origin' \in Seq(Commit)
      /\ Len(origin') = Len(origin) + Len(ahead)
      /\ \A i \in 1..Len(origin) + Len(ahead) :
            origin'[i] = IF i <= Len(origin) THEN origin[i] ELSE ahead[i - Len(origin)]
  BY <1>1, <1>2, ConcatProperties
<1>4. \A i \in 1..Len(ahead) : origin'[Len(origin) + i] = ahead[i]
  <2> TAKE i \in 1..Len(ahead)
  <2>1. Len(origin) + i \in 1..Len(origin) + Len(ahead) /\ ~(Len(origin) + i <= Len(origin))
        /\ (Len(origin) + i) - Len(origin) = i
    BY <1>1
  <2> QED BY <2>1, <1>3
<1>5. \A i \in 1..Len(origin) : origin'[i] = origin[i]
  BY <1>1, <1>3
<1>6. base = Len(origin) /\ ahead' = <<>>
  BY <1>1 DEF GitPush, Behind
<1>7. GitOK'
  BY <1>1, <1>3 DEF GitPush, GitOK, TypeOK
<1> QED BY <1>3, <1>4, <1>5, <1>6, <1>7

--------------------------------------------------------------------------
(* Type correctness.                                                       *)

\* Where the running call can be, by its phase.
LEMMA CallCases ==
    ASSUME TypeOK, ~Idle
    PROVE  /\ call.phase \in {"check", "write", "add", "commit", "push"} => call \in RunningWrite
           /\ call \in RunningWrite \cup RunningSyncPull
           /\ call.op = "write" => call \in RunningWrite
           /\ call.op # "write" => call \in RunningSyncPull
BY DEF TypeOK, Idle, Answer, RunningWrite, RunningSyncPull

\* A running call keeps its type when it is sent to a phase it can be in.
LEMMA GotoTypes ==
    /\ \A o \in Outcomes : [phase |-> "idle", outcome |-> o] \in Answer
    /\ \A c \in RunningWrite, p \in Phases : [c EXCEPT !.phase = p] \in RunningWrite
    /\ \A c \in RunningSyncPull : [c EXCEPT !.phase = "abort"] \in RunningSyncPull
BY DEF Answer, RunningWrite, RunningSyncPull, Outcomes

\* What a pull remembers of the vault.
LEMMA SnapshotTypes ==
    ASSUME TypeOK
    PROVE  Before \in Snapshot /\ NoPre \in Snapshot
<1>1. KeptEdits \in SUBSET (Notes \X Text)
  BY DEF KeptEdits, Files, TypeOK, GitOK, Tree
<1>2. Before \in Snapshot
  BY <1>1 DEF Before, Snapshot, TypeOK, GitOK
<1>3. <<>> \in Seq(Commit)
  BY EmptySeq
<1> QED BY <1>2, <1>3 DEF NoPre, Snapshot

\* The owner's repairs leave the vault well-formed.
LEMMA HumanTypes ==
    ASSUME TypeOK, HumanResolves \/ HumanFinishes \/ HumanCleans \/ CronPull
    PROVE  GitOK' /\ UNCHANGED <<origin, call, acked, used>>
<1> USE DEF TypeOK
<1>0. Replay(HeadTree) \in Tree /\ OriginTree \in Tree /\ Len(origin) \in 1..Len(origin)
  BY TreeTypes, ReplayTypes, LenProperties, EmptySeq
<1>1. Unmarked \in Tree
  BY TextClosed DEF Unmarked, Tree, GitOK
<1>2. CASE HumanResolves
  BY <1>1, <1>2 DEF HumanResolves, GitOK, RebaseStates
<1>3. CASE HumanCleans
  BY <1>1, <1>3 DEF HumanCleans, GitOK
<1>4. CASE HumanFinishes
  <2>1. wt' \in Tree /\ saved' \in Tree
    BY <1>0, <1>4, ReapplyType, TextClosed DEF HumanFinishes, GitOK, Tree
  <2>2. ahead' \in Seq(Commit) /\ base' \in 1..Len(origin')
    BY <1>0, <1>4, ReplayTypes DEF HumanFinishes
  <2> QED BY <1>4, <2>1, <2>2 DEF HumanFinishes, GitOK, RebaseStates
<1>5. CASE CronPull
  <2>1. wt' \in Tree
    BY <1>0, <1>5, ReapplyType DEF CronPull, GitOK
  <2> QED BY <1>0, <1>5, <2>1 DEF CronPull, GitOK
<1> QED BY <1>2, <1>3, <1>4, <1>5

\* A push from the PC appends one commit to the origin.
LEMMA PcPushTypes ==
    ASSUME TypeOK, PcPush
    PROVE  /\ TypeOK'
           /\ Len(origin') = Len(origin) + 1
           /\ \A i \in 1..Len(origin) : origin'[i] = origin[i]
           /\ origin'[Len(origin) + 1].by = "pc"
<1>0. PICK n \in Notes :
        \E t \in {OriginTree[n] \cup {PcPiece(used'.edits)}, {PcPiece(used'.edits)}, {}} :
           origin' = Append(origin, [by |-> "pc", note |-> n, mode |-> "overwrite",
                                     piece |-> PcPiece(used'.edits),
                                     tree |-> [OriginTree EXCEPT ![n] = t]])
  BY DEF PcPush
<1>1. PICK t \in {OriginTree[n] \cup {PcPiece(used'.edits)}, {PcPiece(used'.edits)}, {}} :
         origin' = Append(origin, [by |-> "pc", note |-> n, mode |-> "overwrite",
                                   piece |-> PcPiece(used'.edits),
                                   tree |-> [OriginTree EXCEPT ![n] = t]])
  BY <1>0
<1>2. used' \in [calls : Nat, edits : Nat, faults : Nat]
  BY DEF PcPush, TypeOK
<1>3. PcPiece(used'.edits) \in Piece
  BY <1>2, TextClosed
<1>4. OriginTree \in Tree
  BY TreeTypes DEF TypeOK
<1>5. t \in Text
  BY <1>3, <1>4, TextClosed DEF Tree
<1> DEFINE c == [by |-> "pc", note |-> n, mode |-> "overwrite", piece |-> PcPiece(used'.edits),
                 tree |-> [OriginTree EXCEPT ![n] = t]]
<1>6. c \in Commit /\ c.by = "pc"
  BY <1>3, <1>4, <1>5 DEF Commit, Modes, Tree
<1>7. origin \in Seq(Commit) /\ origin' = Append(origin, c)
  BY <1>1 DEF TypeOK
<1> HIDE DEF c
<1>8. /\ origin' \in Seq(Commit)
      /\ Len(origin') = Len(origin) + 1
      /\ \A i \in 1..Len(origin) : origin'[i] = origin[i]
      /\ origin'[Len(origin) + 1] = c
  BY <1>6, <1>7, AppendProperties
<1>9. GitOK'
  BY <1>8, LenProperties DEF PcPush, TypeOK, GitOK, gitVars
<1> QED BY <1>2, <1>6, <1>8, <1>9 DEF PcPush, TypeOK

\* Whatever a command did that failed or was killed, the origin and the vault stay
\* well-formed; so they do when a note was written in part.
LEMMA ErredTypes ==
    ASSUME TypeOK, ~Idle, ErredWork \/ (LockLeft /\ UNCHANGED origin)
    PROVE  origin' \in Seq(Commit) /\ GitOK'
<1>1. CASE UNCHANGED <<origin, gitVars>>
  BY <1>1, GitTypes DEF TypeOK
<1>2. CASE UNCHANGED origin /\ (GitPull \/ GitPullStops \/ GitRebaseAbort \/ LockLeft)
  BY <1>2, GitTypes DEF TypeOK
<1>3. CASE call.phase = "add" /\ GitAdd(call.note) /\ UNCHANGED origin
  <2>1. call.note \in Notes
    BY <1>3, CallCases, VaultAssumption DEF RunningWrite
  <2> QED BY <1>3, <2>1, GitTypes DEF TypeOK
<1>4. CASE call.phase = "commit" /\ GitCommit(call.note) /\ UNCHANGED origin
  BY <1>4, CallCases, CommitTypes DEF TypeOK
<1>5. CASE GitPush
  BY <1>5, PushTypes
<1> QED BY <1>1, <1>2, <1>3, <1>4, <1>5 DEF ErredWork

\* The part of a content that a write cut short leaves is a piece of its own.
LEMMA CutPiece ==
    ASSUME TypeOK, CutShort
    PROVE  /\ call \in RunningWrite /\ call.note \in Notes
           /\ \E piece \in [src : Ids, k : Nat] :
                 wt' = [wt EXCEPT ![call.note] =
                           IF call.mode = "append" THEN @ \cup {piece} ELSE {piece}]
<1>1. call \in RunningWrite
  BY CallCases DEF CutShort, Idle
<1>2. [call.piece EXCEPT !.k = 0] \in [src : Ids, k : Nat]
  BY <1>1 DEF RunningWrite
<1>3. wt' = [wt EXCEPT ![call.note] =
                IF call.mode = "append" THEN @ \cup {[call.piece EXCEPT !.k = 0]}
                ELSE {[call.piece EXCEPT !.k = 0]}]
  BY DEF CutShort
<1> QED BY <1>1, <1>2, <1>3, VaultAssumption DEF RunningWrite

LEMMA CutTypes ==
    ASSUME TypeOK, CutShort, UNCHANGED origin
    PROVE  GitOK'
<1>1. PICK piece \in [src : Ids, k : Nat] :
         wt' = [wt EXCEPT ![call.note] =
                   IF call.mode = "append" THEN @ \cup {piece} ELSE {piece}]
  BY CutPiece
<1>2. piece \in Piece
  BY DEF Piece
<1>3. {piece} \in Text /\ wt[call.note] \cup {piece} \in Text
  BY <1>2, TextClosed, CutPiece DEF TypeOK, GitOK, Tree
<1>4. wt' \in Tree
  BY <1>1, <1>3 DEF Tree, TypeOK, GitOK
<1> QED BY <1>4 DEF CutShort, TypeOK, GitOK

\* A command that fails does nothing that a command that is killed might not have done.
LEMMA ErrsLikeTimeout == CommandErrs => Timeout
BY DEF CommandErrs, Timeout

LEMMA InitTypeOK == Init => TypeOK
<1> SUFFICES ASSUME Init PROVE TypeOK
  OBVIOUS
<1>1. PICK tree \in [Notes -> {{}, {PcPiece(0)}}] :
         /\ origin = <<[by |-> "pc", note |-> CHOOSE n \in Notes : TRUE,
                        mode |-> "overwrite", piece |-> PcPiece(0), tree |-> tree]>>
         /\ wt = tree
  BY DEF Init
<1>2. tree \in Tree
  BY TextClosed DEF Tree
<1>3. (CHOOSE n \in Notes : TRUE) \in Notes
  BY VaultAssumption
<1>4. origin[1] \in Commit /\ origin \in Seq(Commit) /\ Len(origin) = 1
  BY <1>1, <1>2, <1>3, TextClosed DEF Commit, Modes
<1>5. [n \in Notes |-> {}] \in Tree
  BY TextClosed DEF Tree
<1>6. <<>> \in Seq(Commit)
  BY EmptySeq
<1>7. GitOK
  <2>1. base \in 1..Len(origin) /\ ahead \in Seq(Commit) /\ wt \in Tree
    BY <1>1, <1>2, <1>4, <1>6 DEF Init
  <2>2. saved \in Tree /\ added \subseteq Notes /\ unmerged \subseteq Notes
    BY <1>5 DEF Init
  <2>3. rebase \in RebaseStates /\ lock \in BOOLEAN
    BY DEF Init, RebaseStates
  <2> QED BY <2>1, <2>2, <2>3 DEF GitOK
<1>8. call \in Answer
  BY DEF Init, Answer, Outcomes
<1> QED BY <1>4, <1>7, <1>8 DEF Init, TypeOK

LEMMA NextTypeOK == TypeOK /\ [Next]_vars => TypeOK'
<1> SUFFICES ASSUME TypeOK, [Next]_vars PROVE TypeOK'
  OBVIOUS
<1> DEFINE Calls == Answer \cup RunningWrite \cup RunningSyncPull
<1>1. ASSUME StartWrite PROVE TypeOK'
  <2>1. GitOK'
    BY <1>1, GitTypes DEF StartWrite, NewCall
  <2>2. PICK n \in Notes, mode \in Modes, id \in Ids :
          IF n \in Writable
          THEN call' = [phase |-> "check", op |-> "write", note |-> n, mode |-> mode,
                        piece |-> [src |-> id, k |-> 1], pre |-> NoPre]
          ELSE Respond("denied")
    BY <1>1 DEF StartWrite
  <2>3. call' \in Calls
    BY <2>2, SnapshotTypes DEF Respond, Answer, Outcomes, RunningWrite, Phases
  <2> QED BY <1>1, <2>1, <2>3 DEF StartWrite, NewCall, TypeOK
<1>2. ASSUME StartSyncPull PROVE TypeOK'
  <2>1. GitOK'
    BY <1>2, GitTypes DEF StartSyncPull, NewCall
  <2>2. call' \in Calls
    BY <1>2, SnapshotTypes DEF StartSyncPull, RunningSyncPull
  <2> QED BY <1>2, <2>1, <2>2 DEF StartSyncPull, NewCall, TypeOK
<1>3. ASSUME CheckTree PROVE TypeOK'
  <2>1. GitOK'
    BY <1>3, GitTypes DEF CheckTree
  <2>2. call \in RunningWrite
    BY <1>3, CallCases DEF CheckTree, Idle
  <2>3. [call EXCEPT !.phase = "pull", !.pre = Before] \in RunningWrite
    BY <2>2, SnapshotTypes DEF RunningWrite, Phases
  <2>4. call' \in Calls
    BY <1>3, <2>3, GotoTypes DEF CheckTree, Respond, Outcomes
  <2> QED BY <1>3, <2>1, <2>4 DEF CheckTree, TypeOK
<1>4. ASSUME PullOk PROVE TypeOK'
  <2>1. GitOK'
    BY <1>4, GitTypes DEF PullOk
  <2>2. call' \in Calls
    BY <1>4, CallCases, GotoTypes DEF PullOk, Idle, Goto, Respond, Outcomes, Phases
  <2> QED BY <1>4, <2>1, <2>2 DEF PullOk, TypeOK
<1>5. ASSUME PullFails PROVE TypeOK'
  <2>1. GitOK'
    BY <1>5, GitTypes DEF PullFails
  <2>2. call' \in Calls
    BY <1>5, CallCases, GotoTypes DEF PullFails, Idle, Goto, Phases
  <2> QED BY <1>5, <2>1, <2>2 DEF PullFails, TypeOK
<1>6. ASSUME AbortRebase PROVE TypeOK'
  <2>1. GitOK'
    BY <1>6, GitTypes DEF AbortRebase
  <2>2. call' \in Calls
    BY <1>6, GotoTypes DEF AbortRebase, Respond, Outcomes
  <2> QED BY <1>6, <2>1, <2>2 DEF AbortRebase, TypeOK
<1>7. ASSUME WriteRefused \/ PushFails PROVE TypeOK'
  <2>1. GitOK'
    BY <1>7, GitTypes DEF WriteRefused, PushFails
  <2>2. call' \in Calls
    BY <1>7, GotoTypes DEF WriteRefused, PushFails, Respond, Outcomes
  <2> QED BY <1>7, <2>1, <2>2 DEF WriteRefused, PushFails, TypeOK
<1>8. ASSUME WriteFile PROVE TypeOK'
  <2>1. call \in RunningWrite
    BY <1>8, CallCases DEF WriteFile, Idle
  <2>2. call.note \in Notes /\ wt[call.note] \in Text /\ call.piece.src \in Ids
    BY <2>1, VaultAssumption DEF RunningWrite, TypeOK, GitOK, Tree
  <2>3. NextCopy(call.note, call.piece.src) \in Nat
    <3>1. IsFiniteSet({q \in wt[call.note] : q.src = call.piece.src})
      BY <2>2, FS_Subset DEF Text
    <3> QED BY <3>1, FS_CardinalityType DEF NextCopy
  <2>4. call' \in RunningWrite
    BY <1>8, <2>1, <2>3 DEF WriteFile, RunningWrite, Phases
  <2>5. call'.piece \in Piece
    BY <2>4 DEF RunningWrite, Piece
  <2>6. wt[call.note] \cup {call'.piece} \in Text /\ {call'.piece} \in Text
    BY <2>2, <2>5, TextClosed
  <2>7. wt' \in Tree
    BY <1>8, <2>2, <2>6 DEF WriteFile, TypeOK, GitOK, Tree
  <2>8. GitOK'
    BY <1>8, <2>7 DEF WriteFile, TypeOK, GitOK
  <2> QED BY <1>8, <2>4, <2>8 DEF WriteFile, TypeOK
<1>9. ASSUME AddFile PROVE TypeOK'
  <2>1. call \in RunningWrite /\ call.note \in Notes
    BY <1>9, CallCases, VaultAssumption DEF AddFile, Idle, RunningWrite
  <2>2. GitOK'
    BY <1>9, <2>1, GitTypes DEF AddFile
  <2>3. call' \in Calls
    BY <1>9, <2>1, GotoTypes DEF AddFile, Goto, Respond, Outcomes, Phases
  <2> QED BY <1>9, <2>2, <2>3 DEF AddFile, TypeOK
<1>10. ASSUME CommitFile PROVE TypeOK'
  <2>1. call \in RunningWrite
    BY <1>10, CallCases DEF CommitFile, Idle
  <2>2. GitOK'
    BY <1>10, <2>1, GitTypes, CommitTypes DEF CommitFile
  <2>3. call' \in Calls
    BY <1>10, <2>1, GotoTypes DEF CommitFile, Goto, Respond, Outcomes, Phases
  <2> QED BY <1>10, <2>2, <2>3 DEF CommitFile, TypeOK
<1>11. ASSUME PushOk PROVE TypeOK'
  <2>1. call \in RunningWrite
    BY <1>11, CallCases DEF PushOk, Idle
  <2>2. origin' \in Seq(Commit) /\ GitOK'
    BY <1>11, PushTypes DEF PushOk
  <2>3. call' \in Calls
    BY <1>11, GotoTypes DEF PushOk, Respond, Outcomes
  <2>4. acked' \subseteq [note : Writable, piece : [src : Ids, k : Nat]]
    BY <1>11, <2>1 DEF PushOk, TypeOK, RunningWrite
  <2> QED BY <1>11, <2>2, <2>3, <2>4 DEF PushOk, TypeOK
<1>12. ASSUME Timeout PROVE TypeOK'
  <2>1. ~Idle /\ (ErredWork \/ (LockLeft /\ UNCHANGED origin))
    BY <1>12 DEF Timeout, Idle
  <2>2. origin' \in Seq(Commit) /\ GitOK'
    BY <2>1, ErredTypes
  <2>3. call' \in Calls
    BY <1>12, GotoTypes DEF Timeout, Respond, Outcomes
  <2> QED BY <1>12, <2>2, <2>3 DEF Timeout, Fault, TypeOK
<1>13. ASSUME Crash PROVE TypeOK'
  <2>1. GitOK'
    BY <1>13, GitTypes, CutTypes DEF Crash
  <2>2. call' \in Calls
    BY <1>13, GotoTypes DEF Crash, Respond, Outcomes
  <2> QED BY <1>13, <2>1, <2>2 DEF Crash, Fault, TypeOK
<1>17. ASSUME WriteErrs PROVE TypeOK'
  <2>1. GitOK'
    BY <1>17, GitTypes, CutTypes DEF WriteErrs
  <2>2. call' \in Calls
    BY <1>17, GotoTypes DEF WriteErrs, Respond, Outcomes
  <2> QED BY <1>17, <2>1, <2>2 DEF WriteErrs, Fault, TypeOK
<1>14. ASSUME PcPush PROVE TypeOK'
  BY <1>14, PcPushTypes
<1>15. ASSUME CronPull \/ HumanResolves \/ HumanFinishes \/ HumanCleans PROVE TypeOK'
  BY <1>15, HumanTypes DEF TypeOK
<1>16. ASSUME UNCHANGED vars PROVE TypeOK'
  BY <1>16 DEF vars, gitVars, TypeOK, GitOK
<1> QED
  BY <1>1, <1>2, <1>3, <1>4, <1>5, <1>6, <1>7, <1>8, <1>9, <1>10, <1>11, <1>12, <1>13,
     <1>14, <1>15, <1>16, <1>17, ErrsLikeTimeout DEF Next, BridgeStep, Environment

\* In every reachable state the vault, its origin and the running call are well-formed:
\* only notes under the write dirs are being written (the whitelist of notes_write) or
\* have been acknowledged, and HEAD is always some part of the origin plus local commits.
THEOREM VaultTypeOK == Spec => []TypeOK
BY InitTypeOK, NextTypeOK, PTL DEF Spec

--------------------------------------------------------------------------
(* What a step may do to the two histories.                                *)

Rebased == UNCHANGED origin /\ base' = Len(origin) /\ ahead' = Replayed
Committed ==
    /\ call \in RunningWrite /\ call.phase = "commit"
    /\ GitCommit(call.note) /\ UNCHANGED <<origin, base>>

\* A step leaves both histories alone, rebases the local commits on the whole origin,
\* adds the commit of the running write, pushes, or is a push from the PC.
LEMMA HistorySteps ==
    ASSUME TypeOK, [Next]_vars
    PROVE  UNCHANGED <<origin, base, ahead>> \/ Rebased \/ Committed \/ GitPush \/ PcPush
<1>1. ASSUME UNCHANGED origin, GitPull \/ GitPullStops \/ GitRebaseAbort \/ LockLeft
             \/ UNCHANGED gitVars
      PROVE  UNCHANGED <<origin, base, ahead>> \/ Rebased
  BY <1>1 DEF GitPull, GitPullStops, GitRebaseAbort, LockLeft, gitVars, Rebased
<1>2. ASSUME NEW n, UNCHANGED origin, GitAdd(n) PROVE UNCHANGED <<origin, base, ahead>>
  BY <1>2 DEF GitAdd
<1>3. CASE StartWrite \/ StartSyncPull \/ CheckTree \/ WriteRefused \/ WriteFile \/ PushFails
  BY <1>3 DEF StartWrite, StartSyncPull, NewCall, CheckTree, WriteRefused, WriteFile,
              PushFails, gitVars
<1>4. CASE PullOk \/ PullFails \/ AbortRebase
  BY <1>1, <1>4 DEF PullOk, PullFails, AbortRebase
<1>5. CASE AddFile
  BY <1>1, <1>2, <1>5 DEF AddFile
<1>6. CASE CommitFile
  <2>1. call \in RunningWrite
    BY <1>6, CallCases DEF CommitFile, Idle
  <2> QED BY <1>6, <2>1 DEF CommitFile, Committed, GitCommit, gitVars
<1>7. CASE PushOk
  BY <1>7 DEF PushOk
<1>8. CASE Timeout
  <2>1. call.phase = "commit" => call \in RunningWrite
    BY <1>8, CallCases DEF Timeout, Idle
  <2> QED BY <1>1, <1>2, <1>8, <2>1 DEF Timeout, ErredWork, Committed, GitCommit, gitVars
<1>9. CASE WriteErrs \/ Crash
  BY <1>1, <1>9 DEF WriteErrs, Crash, CutShort
<1>10. CASE CronPull
  <2>1. Replayed = <<>>
    <3>1. Replayed \in Seq(Commit) /\ Len(Replayed) = Len(ahead) /\ Len(ahead) = 0
      BY <1>10, ReplayTypes, EmptySeq DEF CronPull, TypeOK
    <3> QED BY <3>1, EmptySeq
  <2> QED BY <1>10, <2>1 DEF CronPull, Rebased
<1>11. CASE HumanResolves \/ HumanFinishes \/ HumanCleans
  BY <1>11 DEF HumanResolves, HumanFinishes, HumanCleans, Rebased
<1>12. CASE UNCHANGED vars
  BY <1>12 DEF vars, gitVars
<1> QED
  BY <1>3, <1>4, <1>5, <1>6, <1>7, <1>8, <1>9, <1>10, <1>11, <1>12, ErrsLikeTimeout
     DEF Next, BridgeStep, Environment

--------------------------------------------------------------------------
(* The vault implements the published log.                                 *)

\* Strengthening: when a call is about to push, its commit is the last local one.
PushReady ==
    call.phase = "push" =>
        /\ ahead # <<>>
        /\ Abstract!Publishes(ahead[Len(ahead)], call)

LEMMA PushReadyInductive ==
    ASSUME TypeOK, PushReady, [Next]_vars
    PROVE  PushReady'
<1> SUFFICES ASSUME call'.phase = "push"
             PROVE  ahead' # <<>> /\ Abstract!Publishes(ahead'[Len(ahead')], call')
  BY DEF PushReady
<1>1. CASE CommitFile
  <2>1. call \in RunningWrite /\ UNCHANGED origin /\ GitCommit(call.note)
        /\ call' = [call EXCEPT !.phase = "push"]
    BY <1>1, CallCases DEF CommitFile, Idle, Respond, Goto
  <2>2. /\ Len(ahead') = Len(ahead) + 1
        /\ ahead'[Len(ahead) + 1] =
                 [by |-> "bridge", note |-> call.note, mode |-> call.mode,
                  piece |-> call.piece, tree |-> [HeadTree EXCEPT ![call.note] = wt[call.note]]]
        /\ ahead' \in Seq(Commit)
    BY <2>1, CommitTypes DEF GitOK
  <2>3. Len(ahead) \in Nat
    BY LenProperties DEF TypeOK, GitOK
  <2>4. ahead' # <<>>
    BY <2>2, <2>3, EmptySeq
  <2>5. call'.note = call.note /\ call'.piece = call.piece
    BY <2>1 DEF RunningWrite
  <2> QED BY <2>2, <2>4, <2>5 DEF Abstract!Publishes
<1>2. CASE PcPush \/ UNCHANGED vars
  BY <1>2 DEF PcPush, vars, gitVars, PushReady
<1>3. CASE CronPull \/ HumanResolves \/ HumanFinishes \/ HumanCleans
  <2>1. call' = call /\ (ahead = <<>> \/ call.phase = "idle")
    BY <1>3 DEF CronPull, HumanResolves, HumanFinishes, HumanCleans, Idle
  <2> QED BY <2>1 DEF PushReady
<1>4. CASE StartWrite \/ StartSyncPull
  BY <1>4 DEF StartWrite, StartSyncPull, Respond
<1>5. CASE WriteRefused \/ PushOk \/ PushFails \/ AbortRebase \/ Timeout \/ WriteErrs \/ Crash
  BY <1>5 DEF WriteRefused, PushOk, PushFails, AbortRebase, Timeout, WriteErrs, Crash, Respond
<1>6. CASE CheckTree \/ PullOk \/ PullFails \/ WriteFile \/ AddFile
  <2>1. call \in RunningWrite \cup RunningSyncPull
    BY <1>6, CallCases DEF CheckTree, PullOk, PullFails, WriteFile, AddFile, Idle
  <2>3. CASE CheckTree
    <3>2. call' = [phase |-> "idle", outcome |-> "sync_error"]
          \/ call' = [call EXCEPT !.phase = "pull", !.pre = Before]
      BY <2>3 DEF CheckTree, Respond
    <3>3. CASE call' = [call EXCEPT !.phase = "pull", !.pre = Before]
      <4>1. call'.phase = "pull"
        BY <2>1, <3>3 DEF RunningWrite, RunningSyncPull
      <4> QED BY <4>1
    <3> QED BY <3>2, <3>3
  <2>4. CASE WriteFile
    <3>1. call'.phase = "add"
      BY <2>1, <2>4 DEF WriteFile, RunningWrite, RunningSyncPull
    <3> QED BY <3>1
  <2>5. CASE PullOk \/ PullFails \/ AddFile
    <3>1. \/ \E o : call' = [phase |-> "idle", outcome |-> o]
          \/ \E q \in {"write", "abort", "commit"} : call' = [call EXCEPT !.phase = q]
      BY <2>5 DEF PullOk, PullFails, AddFile, Respond, Goto
    <3>2. ASSUME NEW q \in {"write", "abort", "commit"}, call' = [call EXCEPT !.phase = q]
          PROVE  FALSE
      <4>1. call'.phase = q
        BY <2>1, <3>2 DEF RunningWrite, RunningSyncPull
      <4> QED BY <4>1
    <3> QED BY <3>1, <3>2
  <2> QED BY <1>6, <2>3, <2>4, <2>5
<1> QED
  BY <1>1, <1>2, <1>3, <1>4, <1>5, <1>6, ErrsLikeTimeout DEF Next, BridgeStep, Environment

\* Only an accepted push acknowledges a write.
LEMMA AckedSteps ==
    ASSUME [Next]_vars
    PROVE  acked' = acked \/ PushOk
BY DEF Next, BridgeStep, Environment, StartWrite, StartSyncPull, NewCall, CheckTree, PullOk,
       PullFails, AbortRebase, WriteRefused, WriteFile, AddFile, CommitFile, PushFails,
       CommandErrs, Timeout, WriteErrs, Crash, PcPush, CronPull, HumanResolves,
       HumanFinishes, HumanCleans, vars

\* A step of the vault is a step of the published log: it appends to it, or not.
LEMMA StepImplements ==
    ASSUME TypeOK, PushReady, [Next]_vars
    PROVE  [Abstract!PubNext]_(Abstract!pubVars)
<1>1. /\ Len(origin') >= Len(origin)
      /\ \A i \in 1..Len(origin) : origin'[i] = origin[i]
  <2>1. Len(origin) \in Nat /\ Len(ahead) \in Nat
    BY LenProperties DEF TypeOK, GitOK
  <2>2. CASE UNCHANGED origin
    BY <2>1, <2>2
  <2>3. CASE GitPush
    BY <2>1, <2>3, PushTypes
  <2>4. CASE PcPush
    BY <2>1, <2>4, PcPushTypes
  <2> QED BY <2>2, <2>3, <2>4, HistorySteps DEF Rebased, Committed
<1>2. CASE acked' = acked
  BY <1>1, <1>2 DEF Abstract!PubNext, Abstract!Publish
<1>3. CASE PushOk
  <2> DEFINE w == [note |-> call.note, piece |-> call.piece]
  <2>1. acked' = acked \cup {w}
    BY <1>3 DEF PushOk
  <2>2. ahead \in Seq(Commit) /\ ahead # <<>> /\ Abstract!Publishes(ahead[Len(ahead)], call)
    BY <1>3 DEF PushOk, PushReady, TypeOK, GitOK
  <2>3. Len(ahead) \in 1..Len(ahead) /\ Len(origin) \in Nat
    BY <2>2, EmptySeq, LenProperties DEF TypeOK
  <2>4. origin'[Len(origin) + Len(ahead)] = ahead[Len(ahead)]
        /\ Len(origin') = Len(origin) + Len(ahead)
    BY <1>3, <2>3, PushTypes DEF PushOk
  <2>5. Abstract!Publishes(origin'[Len(origin) + Len(ahead)], w)
    BY <2>2, <2>4 DEF Abstract!Publishes
  <2>6. \E i \in 1..Len(origin') : Abstract!Publishes(origin'[i], w)
    BY <2>3, <2>4, <2>5
  <2> HIDE DEF w
  <2> QED BY <1>1, <2>1, <2>6 DEF Abstract!PubNext, Abstract!Acknowledge
<1> QED BY <1>2, <1>3, AckedSteps

\* notes_write never rewrites what is published, and reports success only for a commit
\* the origin has - whatever fails, times out, dies or is rejected on the way, for any number
\* of calls, notes and commits from the PC.
THEOREM VaultImplementsLog == Spec => Published
<1>1. Init => Abstract!PubInit /\ PushReady
  BY DEF Init, Abstract!PubInit, PushReady
<1>2. TypeOK /\ PushReady /\ [Next]_vars => PushReady'
  BY PushReadyInductive
<1>3. TypeOK /\ PushReady /\ [Next]_vars => [Abstract!PubNext]_(Abstract!pubVars)
  BY StepImplements
<1> QED BY <1>1, <1>2, <1>3, VaultTypeOK, PTL DEF Spec, Published, Abstract!PubSpec

--------------------------------------------------------------------------
(* Commits that a failed push kept.                                        *)

\* No step of anybody drops a local commit: it stays local, rebased or not, or goes to
\* the origin.
LEMMA CommitSurvivesStep ==
    ASSUME TypeOK, [Next]_vars, NEW i \in DOMAIN ahead
    PROVE  \/ \E j \in DOMAIN ahead' : SameWrite(ahead[i], ahead'[j])
           \/ \E j \in DOMAIN origin' : SameWrite(ahead[i], origin'[j])
<1>1. /\ ahead \in Seq(Commit) /\ Len(ahead) \in Nat /\ Len(origin) \in Nat
      /\ DOMAIN ahead = 1..Len(ahead) /\ i \in 1..Len(ahead)
  BY LenProperties DEF TypeOK, GitOK
<1>2. SameWrite(ahead[i], ahead[i])
  BY DEF SameWrite
<1>3. CASE UNCHANGED ahead
  BY <1>2, <1>3
<1>4. CASE Rebased
  <2>1. ahead[i] \in Commit
    BY <1>1, ElementOfSeq
  <2>2. ahead'[i] = [ahead[i] EXCEPT !.tree = Replay(ahead[i].tree)]
        /\ Len(ahead') = Len(ahead) /\ ahead' \in Seq(Commit)
    BY <1>1, <1>4, ReplayTypes DEF Rebased, TypeOK
  <2>3. SameWrite(ahead[i], ahead'[i])
    BY <2>1, <2>2 DEF SameWrite, Commit
  <2>4. i \in DOMAIN ahead'
    BY <1>1, <2>2, LenProperties
  <2> QED BY <2>3, <2>4
<1>5. CASE Committed
  <2>1. ahead'[i] = ahead[i] /\ Len(ahead') = Len(ahead) + 1 /\ ahead' \in Seq(Commit)
    BY <1>1, <1>5, CommitTypes DEF Committed, GitOK
  <2>2. i \in DOMAIN ahead'
    BY <1>1, <2>1, LenProperties
  <2> QED BY <1>2, <2>1, <2>2
<1>6. CASE GitPush
  <2>1. /\ origin'[Len(origin) + i] = ahead[i] /\ origin' \in Seq(Commit)
        /\ Len(origin') = Len(origin) + Len(ahead)
    BY <1>1, <1>6, PushTypes
  <2>2. Len(origin) + i \in DOMAIN origin'
    BY <1>1, <2>1, LenProperties
  <2> QED BY <1>2, <2>1, <2>2
<1>7. CASE PcPush
  BY <1>3, <1>7 DEF PcPush, gitVars
<1> QED BY <1>3, <1>4, <1>5, <1>6, <1>7, HistorySteps

\* "commit locale preservato": once notes_write has committed, no failed push, refused
\* pull, aborted rebase, failed command or write, timeout, crash or later call loses the commit.
THEOREM CommitsSurvive == Spec => PreservedCommitSurvives
<1>1. TypeOK /\ [Next]_vars =>
        [\A i \in DOMAIN ahead :
            \/ \E j \in DOMAIN ahead' : SameWrite(ahead[i], ahead'[j])
            \/ \E j \in DOMAIN origin' : SameWrite(ahead[i], origin'[j])]_vars
  BY CommitSurvivesStep
<1> QED BY <1>1, VaultTypeOK, PTL DEF Spec, PreservedCommitSurvives

--------------------------------------------------------------------------
(* One note per commit.                                                    *)

\* Replaying a commit keeps the notes it does not touch as its new parent has them.
LEMMA ReplayKeepsOthers ==
    ASSUME origin \in Seq(Commit), GitOK, NEW s \in Tree, NEW t \in Tree,
           NEW n \in Notes, s[n] = t[n]
    PROVE  Replay(s)[n] = Replay(t)[n]
BY DEF Replay

LEMMA ReplayBase ==
    ASSUME origin \in Seq(Commit), GitOK
    PROVE  Replay(BaseTree) = OriginTree
<1>1. Replay(BaseTree) \in Tree /\ OriginTree \in Tree
  BY ReplayTypes, TreeTypes
<1>2. \A n \in Notes : Replay(BaseTree)[n] = OriginTree[n]
  BY DEF Replay
<1> QED BY <1>1, <1>2 DEF Tree

LEMMA OneNoteStep ==
    ASSUME TypeOK, OneNotePerCommit, [Next]_vars
    PROVE  OneNotePerCommit'
<1>1. /\ ahead \in Seq(Commit) /\ Len(ahead) \in Nat
      /\ origin \in Seq(Commit) /\ Len(origin) \in Nat /\ base \in 1..Len(origin)
  BY LenProperties DEF TypeOK, GitOK
<1>2. \A i \in 1..Len(ahead) : ahead[i] \in Commit /\ Parent(i) \in Tree
  <2> TAKE i \in 1..Len(ahead)
  <2>1. ahead[i] \in Commit
    BY <1>1, ElementOfSeq
  <2>2. CASE i = 1
    BY <2>1, <2>2, TreeTypes DEF Parent, TypeOK
  <2>3. CASE i # 1
    <3>1. i - 1 \in 1..Len(ahead)
      BY <1>1, <2>3
    <3>2. ahead[i-1] \in Commit
      BY <1>1, <3>1, ElementOfSeq
    <3> QED BY <2>1, <2>3, <3>2 DEF Parent, Commit
  <2> QED BY <2>2, <2>3
<1>3. CASE UNCHANGED <<origin, base, ahead>>
  BY <1>3 DEF OneNotePerCommit, TouchesItsNote, BaseTree
<1>4. CASE Rebased
  <2>1. /\ Len(ahead') = Len(ahead) /\ origin' = origin /\ BaseTree' = OriginTree
        /\ \A i \in 1..Len(ahead) :
              ahead'[i] = [ahead[i] EXCEPT !.tree = Replay(ahead[i].tree)]
    BY <1>1, <1>4, ReplayTypes DEF Rebased, TypeOK, BaseTree, OriginTree
  <2>2. ASSUME NEW i \in 1..Len(ahead)
        PROVE  TouchesItsNote(IF i = 1 THEN OriginTree ELSE ahead'[i-1].tree, ahead'[i])
    <3>1. TouchesItsNote(Parent(i), ahead[i])
      BY DEF OneNotePerCommit, Parent
    <3>2. (IF i = 1 THEN OriginTree ELSE ahead'[i-1].tree) = Replay(Parent(i))
      <4>1. CASE i = 1
        BY <4>1, ReplayBase DEF Parent, TypeOK
      <4>2. CASE i # 1
        <5>1. i - 1 \in 1..Len(ahead)
          BY <1>1, <4>2
        <5>2. ahead[i-1] \in Commit
          BY <1>1, <5>1, ElementOfSeq
        <5>3. ahead'[i-1].tree = Replay(ahead[i-1].tree)
          BY <2>1, <5>1, <5>2 DEF Commit
        <5> QED BY <4>2, <5>3 DEF Parent
      <4> QED BY <4>1, <4>2
    <3>3. /\ ahead'[i].by = ahead[i].by /\ ahead'[i].note = ahead[i].note
          /\ ahead'[i].tree = Replay(ahead[i].tree)
          /\ ahead[i].tree \in Tree
      BY <1>2, <2>1 DEF Commit
    <3>4. ASSUME ahead[i].by = "bridge", NEW n \in Notes \ {ahead[i].note}
          PROVE  Replay(ahead[i].tree)[n] = Replay(Parent(i))[n]
      BY <1>2, <3>1, <3>3, <3>4, ReplayKeepsOthers DEF TouchesItsNote, TypeOK
    <3> QED BY <3>1, <3>2, <3>3, <3>4 DEF TouchesItsNote
  <2> QED BY <2>1, <2>2 DEF OneNotePerCommit
<1>5. CASE Committed
  <2>1. /\ Len(ahead') = Len(ahead) + 1 /\ UNCHANGED <<origin, base>>
        /\ \A i \in 1..Len(ahead) : ahead'[i] = ahead[i]
        /\ ahead'[Len(ahead) + 1] =
              [by |-> "bridge", note |-> call.note, mode |-> call.mode,
               piece |-> call.piece, tree |-> [HeadTree EXCEPT ![call.note] = wt[call.note]]]
    BY <1>5, CommitTypes DEF Committed
  <2>2. BaseTree' = BaseTree
    BY <2>1 DEF BaseTree
  <2>3. ASSUME NEW i \in 1..Len(ahead)
        PROVE  TouchesItsNote(IF i = 1 THEN BaseTree' ELSE ahead'[i-1].tree, ahead'[i])
    <3>1. i # 1 => i - 1 \in 1..Len(ahead)
      BY <1>1
    <3> QED BY <2>1, <2>2, <3>1 DEF OneNotePerCommit
  <2>4. (IF Len(ahead) + 1 = 1 THEN BaseTree' ELSE ahead'[Len(ahead)].tree) = HeadTree
    <3>1. CASE ahead = <<>>
      BY <3>1, <2>2, EmptySeq DEF HeadTree
    <3>2. CASE ahead # <<>>
      <4>1. Len(ahead) \in 1..Len(ahead)
        BY <1>1, <3>2, EmptySeq
      <4> QED BY <1>1, <2>1, <3>2, <4>1 DEF HeadTree
    <3> QED BY <3>1, <3>2
  <2>5. TouchesItsNote(HeadTree, ahead'[Len(ahead) + 1])
    <3>1. call.note \in Writable /\ HeadTree \in Tree
      BY <1>5, TreeTypes DEF Committed, RunningWrite, TypeOK
    <3> QED BY <2>1, <3>1 DEF TouchesItsNote, Tree
  <2>6. ASSUME NEW i \in 1..Len(ahead')
        PROVE  TouchesItsNote(IF i = 1 THEN BaseTree' ELSE ahead'[i-1].tree, ahead'[i])
    <3>1. i \in 1..Len(ahead) \/ (i = Len(ahead) + 1 /\ i - 1 = Len(ahead))
      BY <1>1, <2>1
    <3> QED BY <2>3, <2>4, <2>5, <3>1
  <2> QED BY <2>1, <2>6 DEF OneNotePerCommit
<1>6. CASE GitPush
  <2>1. /\ ahead' = <<>> /\ base = Len(origin) /\ Len(origin') = Len(origin) + Len(ahead)
        /\ \A i \in 1..Len(origin) : origin'[i] = origin[i]
        /\ \A i \in 1..Len(ahead) : origin'[Len(origin) + i] = ahead[i]
    BY <1>6, PushTypes
  <2>2. ASSUME NEW i \in 2..Len(origin')
        PROVE  TouchesItsNote(origin'[i-1].tree, origin'[i])
    <3>1. CASE i <= Len(origin)
      <4>1. i \in 2..Len(origin) /\ i \in 1..Len(origin) /\ i - 1 \in 1..Len(origin)
        BY <1>1, <3>1
      <4> QED BY <2>1, <4>1 DEF OneNotePerCommit
    <3>2. CASE i = Len(origin) + 1
      <4>1. 1 \in 1..Len(ahead) /\ i - 1 = Len(origin) /\ Len(origin) \in 1..Len(origin)
        BY <1>1, <2>1, <3>2
      <4>2. TouchesItsNote(BaseTree, ahead[1])
        BY <4>1 DEF OneNotePerCommit
      <4>3. origin'[i] = ahead[1] /\ origin'[i-1].tree = BaseTree
        BY <2>1, <3>2, <4>1 DEF BaseTree
      <4> QED BY <4>2, <4>3
    <3>3. CASE i > Len(origin) + 1
      <4> DEFINE k == i - Len(origin)
      <4>1. k \in 1..Len(ahead) /\ k - 1 \in 1..Len(ahead) /\ k # 1
            /\ i = Len(origin) + k /\ i - 1 = Len(origin) + (k - 1)
        BY <1>1, <2>1, <3>3
      <4>2. TouchesItsNote(ahead[k-1].tree, ahead[k])
        BY <4>1 DEF OneNotePerCommit
      <4> HIDE DEF k
      <4>3. origin'[i] = ahead[k] /\ origin'[i-1] = ahead[k-1]
        BY <2>1, <4>1
      <4> QED BY <4>2, <4>3
    <3> QED BY <1>1, <2>1, <3>1, <3>2, <3>3
  <2>3. Len(ahead') = 0
    BY <2>1, EmptySeq
  <2> QED BY <2>2, <2>3 DEF OneNotePerCommit
<1>7. CASE PcPush
  <2>1. /\ Len(origin') = Len(origin) + 1 /\ UNCHANGED <<ahead, base>>
        /\ \A i \in 1..Len(origin) : origin'[i] = origin[i]
        /\ origin'[Len(origin) + 1].by = "pc"
    BY <1>7, PcPushTypes DEF PcPush, gitVars
  <2>2. BaseTree' = BaseTree
    BY <1>1, <2>1 DEF BaseTree
  <2>3. ASSUME NEW i \in 2..Len(origin')
        PROVE  TouchesItsNote(origin'[i-1].tree, origin'[i])
    <3>1. CASE i <= Len(origin)
      <4>1. i \in 2..Len(origin) /\ i \in 1..Len(origin) /\ i - 1 \in 1..Len(origin)
        BY <1>1, <3>1
      <4> QED BY <2>1, <4>1 DEF OneNotePerCommit
    <3>2. CASE i = Len(origin) + 1
      BY <2>1, <3>2 DEF TouchesItsNote
    <3> QED BY <1>1, <2>1, <3>1, <3>2
  <2> QED BY <2>1, <2>2, <2>3 DEF OneNotePerCommit
<1> QED BY <1>3, <1>4, <1>5, <1>6, <1>7, HistorySteps

\* Every commit notes_write ever makes or publishes is under the write dirs and changes
\* its own note only, also after it was replayed on commits of the PC and although other
\* notes were left staged, conflicted or edited in the vault.
THEOREM CommitsTouchOneNote == Spec => []OneNotePerCommit
<1>1. Init => OneNotePerCommit
  <2> SUFFICES ASSUME Init PROVE OneNotePerCommit
    OBVIOUS
  <2>1. Len(origin) = 1 /\ Len(ahead) = 0
    BY EmptySeq DEF Init
  <2> QED BY <2>1 DEF OneNotePerCommit
<1>2. TypeOK /\ OneNotePerCommit /\ [Next]_vars => OneNotePerCommit'
  BY OneNoteStep
<1> QED BY <1>1, <1>2, VaultTypeOK, PTL DEF Spec
--------------------------------------------------------------------------
(* What a step may do to the files.                                        *)

Still == UNCHANGED <<origin, base, ahead, Files>>
Written ==
    /\ UNCHANGED <<origin, base, ahead, rebase>> /\ rebase = "none"
    /\ call \in RunningWrite
    /\ \E piece \in [src : Ids, k : Nat] :
          wt' = [wt EXCEPT ![call.note] =
                    IF call.mode = "append" THEN @ \cup {piece} ELSE {piece}]
Carried == Rebased /\ \E C : Files' = Reapply(Files, Replay(HeadTree), C)
Cleaned == UNCHANGED <<origin, base, ahead, rebase>> /\ rebase = "none" /\ wt' = Unmarked

\* The trees the vault knows, one by one.
LEMMA LocalTree ==
    /\ Files \in LocalTrees
    /\ \A i \in DOMAIN ahead : ahead[i].tree \in LocalTrees
    /\ \A t \in LocalTrees : t = Files \/ \E i \in DOMAIN ahead : t = ahead[i].tree
BY DEF LocalTrees

LEMMA LocalTreeNext ==
    \A t : t \in LocalTrees' <=> t = Files' \/ \E i \in DOMAIN ahead' : t = ahead'[i].tree
BY DEF LocalTrees

LEMMA LocalTypes ==
    ASSUME TypeOK
    PROVE  /\ Files \in Tree /\ LocalTrees \subseteq Tree /\ DOMAIN ahead = 1..Len(ahead)
           /\ Len(ahead) \in Nat /\ HeadTree \in LocalTrees \cup {BaseTree}
<1>1. Files \in Tree
  BY DEF Files, TypeOK, GitOK
<1>2. ahead \in Seq(Commit) /\ DOMAIN ahead = 1..Len(ahead) /\ Len(ahead) \in Nat
  BY LenProperties DEF TypeOK, GitOK
<1>3. \A i \in DOMAIN ahead : ahead[i].tree \in Tree
  <2> TAKE i \in DOMAIN ahead
  <2>1. ahead[i] \in Commit
    BY <1>2, ElementOfSeq
  <2> QED BY <2>1 DEF Commit
<1>4. HeadTree \in LocalTrees \cup {BaseTree}
  <2>1. CASE ahead = <<>>
    BY <2>1 DEF HeadTree
  <2>2. CASE ahead # <<>>
    <3>1. Len(ahead) \in DOMAIN ahead
      BY <1>2, <2>2, EmptySeq
    <3> QED BY <2>2, <3>1, LocalTree DEF HeadTree
  <2> QED BY <2>1, <2>2
<1> QED BY <1>1, <1>2, <1>3, <1>4, LocalTree

\* The heads of both histories after a step.
LEMMA SameRefs ==
    ASSUME TypeOK, UNCHANGED <<origin, base, ahead>>
    PROVE  BaseTree' = BaseTree /\ OriginTree' = OriginTree /\ HeadTree' = HeadTree
BY DEF BaseTree, OriginTree, HeadTree

LEMMA RebasedRefs ==
    ASSUME TypeOK, Rebased
    PROVE  /\ BaseTree' = OriginTree /\ OriginTree' = OriginTree
           /\ HeadTree' = Replay(HeadTree)
           /\ \A i \in DOMAIN ahead' : i \in DOMAIN ahead /\ ahead'[i].tree = Replay(ahead[i].tree)
<1>1. /\ ahead \in Seq(Commit) /\ DOMAIN ahead = 1..Len(ahead) /\ Len(ahead) \in Nat
  BY LenProperties DEF TypeOK, GitOK
<1>2. /\ ahead' \in Seq(Commit) /\ Len(ahead') = Len(ahead) /\ DOMAIN ahead' = 1..Len(ahead)
      /\ \A i \in 1..Len(ahead) : ahead'[i] = [ahead[i] EXCEPT !.tree = Replay(ahead[i].tree)]
  BY <1>1, ReplayTypes, LenProperties DEF Rebased, TypeOK
<1>3. \A i \in 1..Len(ahead) : ahead'[i].tree = Replay(ahead[i].tree)
  <2> TAKE i \in 1..Len(ahead)
  <2>1. ahead[i] \in Commit
    BY <1>1, ElementOfSeq
  <2> QED BY <2>1, <1>2 DEF Commit
<1>4. BaseTree' = OriginTree /\ OriginTree' = OriginTree
  BY DEF Rebased, BaseTree, OriginTree
<1>5. HeadTree' = Replay(HeadTree)
  <2>1. CASE ahead = <<>>
    <3>1. ahead' = <<>>
      BY <1>2, <2>1, EmptySeq
    <3> QED BY <2>1, <3>1, <1>4, ReplayBase DEF HeadTree, TypeOK
  <2>2. CASE ahead # <<>>
    <3>1. Len(ahead) \in 1..Len(ahead) /\ ahead' # <<>>
      BY <1>1, <1>2, <2>2, EmptySeq
    <3> QED BY <2>2, <3>1, <1>2, <1>3 DEF HeadTree
  <2> QED BY <2>1, <2>2
<1> QED BY <1>1, <1>2, <1>3, <1>4, <1>5

LEMMA CommittedRefs ==
    ASSUME TypeOK, Committed
    PROVE  /\ BaseTree' = BaseTree /\ OriginTree' = OriginTree
           /\ HeadTree' = [HeadTree EXCEPT ![call.note] = wt[call.note]]
           /\ \A i \in DOMAIN ahead' :
                 \/ i \in DOMAIN ahead /\ ahead'[i] = ahead[i]
                 \/ ahead'[i].tree = HeadTree'
<1>1. /\ ahead \in Seq(Commit) /\ DOMAIN ahead = 1..Len(ahead) /\ Len(ahead) \in Nat
  BY LenProperties DEF TypeOK, GitOK
<1>2. /\ ahead' \in Seq(Commit) /\ Len(ahead') = Len(ahead) + 1
      /\ \A i \in 1..Len(ahead) : ahead'[i] = ahead[i]
      /\ ahead'[Len(ahead) + 1].tree = [HeadTree EXCEPT ![call.note] = wt[call.note]]
  <2>1. /\ GitOK' /\ Len(ahead') = Len(ahead) + 1
        /\ \A i \in 1..Len(ahead) : ahead'[i] = ahead[i]
        /\ ahead'[Len(ahead) + 1] =
              [by |-> "bridge", note |-> call.note, mode |-> call.mode,
               piece |-> call.piece, tree |-> [HeadTree EXCEPT ![call.note] = wt[call.note]]]
    BY CommitTypes DEF Committed
  <2>2. ahead' \in Seq(Commit)
    BY <2>1 DEF GitOK
  <2> QED BY <2>1, <2>2
<1>3. DOMAIN ahead' = 1..Len(ahead) + 1 /\ ahead' # <<>>
  BY <1>1, <1>2, LenProperties, EmptySeq
<1>4. HeadTree' = [HeadTree EXCEPT ![call.note] = wt[call.note]]
  BY <1>2, <1>3 DEF HeadTree
<1>5. BaseTree' = BaseTree /\ OriginTree' = OriginTree
  BY DEF Committed, BaseTree, OriginTree
<1>6. \A i \in 1..Len(ahead) + 1 : i \in 1..Len(ahead) \/ i = Len(ahead) + 1
  BY <1>1
<1> QED BY <1>1, <1>2, <1>3, <1>4, <1>5, <1>6

LEMMA PushRefs ==
    ASSUME TypeOK, GitPush
    PROVE  /\ BaseTree' = HeadTree /\ OriginTree' = HeadTree /\ HeadTree' = HeadTree
           /\ DOMAIN ahead' = {} /\ OriginTree = BaseTree
           /\ \A i \in DOMAIN origin' :
                 \/ i \in DOMAIN origin /\ origin'[i] = origin[i]
                 \/ \E j \in DOMAIN ahead : origin'[i] = ahead[j]
<1>1. /\ DOMAIN ahead = 1..Len(ahead) /\ Len(ahead) \in Nat
      /\ DOMAIN origin = 1..Len(origin) /\ Len(origin) \in Nat
      /\ ahead \in Seq(Commit) /\ base \in 1..Len(origin)
  BY LenProperties DEF TypeOK, GitOK
<1>2. /\ ahead' = <<>> /\ base = Len(origin) /\ origin' \in Seq(Commit)
      /\ Len(origin') = Len(origin) + Len(ahead)
      /\ \A i \in 1..Len(origin) : origin'[i] = origin[i]
      /\ \A i \in 1..Len(ahead) : origin'[Len(origin) + i] = ahead[i]
  BY PushTypes
<1>3. base' = Len(origin') /\ DOMAIN origin' = 1..Len(origin) + Len(ahead)
  BY <1>2, LenProperties DEF GitPush
<1>4. OriginTree' = HeadTree
  <2>1. CASE ahead = <<>>
    <3>1. Len(ahead) = 0 /\ Len(origin) \in 1..Len(origin)
      BY <1>1, <1>2, <2>1, EmptySeq
    <3> QED BY <1>1, <1>2, <2>1, <3>1 DEF OriginTree, HeadTree, BaseTree
  <2>2. CASE ahead # <<>>
    <3>1. Len(ahead) \in 1..Len(ahead)
      BY <1>1, <2>2, EmptySeq
    <3> QED BY <1>1, <1>2, <2>2, <3>1 DEF OriginTree, HeadTree
  <2> QED BY <2>1, <2>2
<1>5. BaseTree' = OriginTree' /\ OriginTree = BaseTree
  BY <1>2, <1>3 DEF BaseTree, OriginTree
<1>6. HeadTree' = BaseTree'
  BY <1>2 DEF HeadTree
<1>7. DOMAIN ahead' = {}
  BY <1>2
<1>8. ASSUME NEW i \in DOMAIN origin'
      PROVE  \/ i \in DOMAIN origin /\ origin'[i] = origin[i]
             \/ \E j \in DOMAIN ahead : origin'[i] = ahead[j]
  <2>1. CASE i <= Len(origin)
    BY <1>1, <1>2, <1>3, <2>1
  <2>2. CASE ~(i <= Len(origin))
    <3>1. i - Len(origin) \in 1..Len(ahead) /\ Len(origin) + (i - Len(origin)) = i
      BY <1>1, <1>3, <2>2
    <3> QED BY <1>1, <1>2, <3>1
  <2> QED BY <2>1, <2>2
<1> QED BY <1>4, <1>5, <1>6, <1>7, <1>8

LEMMA PcRefs ==
    ASSUME TypeOK, PcPush
    PROVE  /\ BaseTree' = BaseTree /\ HeadTree' = HeadTree
           /\ used'.edits = used.edits + 1 /\ used'.faults = used.faults
           /\ \E n \in Notes :
                 \E t \in {OriginTree[n] \cup {PcPiece(used'.edits)}, {PcPiece(used'.edits)}, {}} :
                    OriginTree' = [OriginTree EXCEPT ![n] = t]
           /\ \A i \in DOMAIN origin' :
                 \/ i \in DOMAIN origin /\ origin'[i] = origin[i]
                 \/ origin'[i].tree = OriginTree'
<1>1. PICK n \in Notes :
        \E t \in {OriginTree[n] \cup {PcPiece(used'.edits)}, {PcPiece(used'.edits)}, {}} :
           origin' = Append(origin, [by |-> "pc", note |-> n, mode |-> "overwrite",
                                     piece |-> PcPiece(used'.edits),
                                     tree |-> [OriginTree EXCEPT ![n] = t]])
  BY DEF PcPush
<1>2. PICK t \in {OriginTree[n] \cup {PcPiece(used'.edits)}, {PcPiece(used'.edits)}, {}} :
         origin' = Append(origin, [by |-> "pc", note |-> n, mode |-> "overwrite",
                                   piece |-> PcPiece(used'.edits),
                                   tree |-> [OriginTree EXCEPT ![n] = t]])
  BY <1>1
<1>3. /\ Len(origin') = Len(origin) + 1 /\ origin' \in Seq(Commit)
      /\ \A i \in 1..Len(origin) : origin'[i] = origin[i]
  BY PcPushTypes DEF TypeOK
<1>4. /\ DOMAIN origin = 1..Len(origin) /\ Len(origin) \in Nat /\ base \in 1..Len(origin)
      /\ DOMAIN origin' = 1..Len(origin) + 1
  BY <1>3, LenProperties DEF TypeOK, GitOK
<1>5. origin'[Len(origin) + 1].tree = [OriginTree EXCEPT ![n] = t]
  BY <1>2, <1>4, AppendProperties DEF TypeOK
<1>6. OriginTree' = [OriginTree EXCEPT ![n] = t]
  BY <1>3, <1>5 DEF OriginTree
<1>7. BaseTree' = BaseTree /\ HeadTree' = HeadTree
  BY <1>3, <1>4 DEF PcPush, gitVars, BaseTree, HeadTree
<1>8. used'.edits = used.edits + 1 /\ used'.faults = used.faults
  BY DEF PcPush, TypeOK
<1>9. \A i \in DOMAIN origin' : i \in 1..Len(origin) \/ i = Len(origin) + 1
  BY <1>4
<1> QED BY <1>3, <1>4, <1>5, <1>6, <1>7, <1>8, <1>9

\* Every step does one of seven things to files and histories.
LEMMA FileSteps ==
    ASSUME TypeOK, WriteClear, [Next]_vars
    PROVE  \/ Still \/ Written \/ Carried \/ Cleaned
           \/ (Committed /\ Files' = Files /\ Files = wt)
           \/ (GitPush /\ Files' = Files)
           \/ (PcPush /\ Files' = Files)
<1>g. ASSUME UNCHANGED gitVars PROVE UNCHANGED <<base, ahead, Files>>
  BY <1>g DEF gitVars, Files
<1>p. ASSUME UNCHANGED origin, GitPull PROVE Still \/ Carried
  <2>1. CASE UNCHANGED gitVars
    BY <1>p, <1>g, <2>1 DEF Still
  <2>2. CASE ~UNCHANGED gitVars
    <3>1. rebase = "none" /\ rebase' = rebase /\ Rebased
      BY <1>p, <2>2 DEF GitPull, Pullable, Rebased
    <3>2. \E C : wt' = Reapply(wt, Replay(HeadTree), C)
      BY <1>p, <2>2 DEF GitPull
    <3> QED BY <3>1, <3>2 DEF Carried, Files
  <2> QED BY <2>1, <2>2
<1>s. ASSUME UNCHANGED origin, GitPullStops \/ GitRebaseAbort PROVE Still
  BY <1>s, <1>g DEF GitPullStops, Pullable, GitRebaseAbort, Still, Files
<1>l. ASSUME UNCHANGED origin, LockLeft \/ \E n : GitAdd(n) PROVE Still
  BY <1>l DEF LockLeft, GitAdd, Still, Files
<1>c. ASSUME call.phase = "commit", UNCHANGED origin, GitCommit(call.note)
      PROVE  Committed /\ Files' = Files /\ Files = wt
  <2>1. call \in RunningWrite
    BY <1>c, CallCases DEF Idle
  <2> QED BY <1>c, <2>1 DEF Committed, GitCommit, Files, WriteClear
<1>h. ASSUME GitPush PROVE Files' = Files
  BY <1>h DEF GitPush, Files
<1>1. CASE StartWrite \/ StartSyncPull \/ CheckTree \/ WriteRefused \/ PushFails
  BY <1>1, <1>g DEF StartWrite, StartSyncPull, NewCall, CheckTree, WriteRefused, PushFails, Still
<1>2. CASE PullOk \/ PullFails \/ AbortRebase
  BY <1>2, <1>g, <1>p, <1>s DEF PullOk, PullFails, AbortRebase, Still
<1>3. CASE WriteFile
  <2>1. call \in RunningWrite
    BY <1>3, CallCases DEF WriteFile, Idle
  <2>2. rebase = "none"
    BY <1>3 DEF WriteFile, WriteClear
  <2>3. call' \in RunningWrite /\ call'.phase = "add"
    <3>1. call'.phase = "add"
      BY <1>3, <2>1 DEF WriteFile, RunningWrite
    <3>2. TypeOK'
      BY NextTypeOK
    <3> QED BY <3>1, <3>2, CallCases DEF TypeOK, Answer, RunningSyncPull
  <2> QED BY <1>3, <2>1, <2>2, <2>3 DEF WriteFile, Written, RunningWrite
<1>4. CASE AddFile \/ CommitFile
  BY <1>4, <1>g, <1>l, <1>c DEF AddFile, CommitFile, Still
<1>5. CASE PushOk
  BY <1>5, <1>h DEF PushOk
<1>6. CASE Timeout
  BY <1>6, <1>g, <1>p, <1>s, <1>l, <1>c, <1>h DEF Timeout, ErredWork, Still
<1>w. ASSUME UNCHANGED origin, CutShort PROVE Written
  <2>1. UNCHANGED <<base, ahead, rebase>> /\ rebase = "none"
    BY <1>w DEF CutShort, WriteClear
  <2> QED BY <1>w, <2>1, CutPiece DEF Written
<1>7. CASE WriteErrs \/ Crash
  BY <1>7, <1>g, <1>l, <1>w DEF WriteErrs, Crash, Still
<1>8. CASE PcPush
  BY <1>8, <1>g DEF PcPush
<1>9. CASE CronPull
  <2>1. Rebased
    BY <1>9, HistorySteps, ReplayTypes, EmptySeq DEF CronPull, Rebased, TypeOK
  <2>2. OriginTree = Replay(HeadTree)
    BY <1>9, ReplayBase DEF CronPull, HeadTree, TypeOK
  <2>3. Files' = Reapply(Files, OriginTree, {})
    BY <1>9 DEF CronPull, Pullable, Files
  <2> QED BY <2>1, <2>2, <2>3 DEF Carried
<1>10. CASE HumanResolves
  BY <1>10 DEF HumanResolves, Still, Files
<1>11. CASE HumanFinishes
  <2>1. Rebased
    BY <1>11 DEF HumanFinishes, Rebased
  <2>2. Files' = Reapply(Files, Replay(HeadTree), {})
    BY <1>11 DEF HumanFinishes, Files
  <2> QED BY <2>1, <2>2 DEF Carried
<1>12. CASE HumanCleans
  BY <1>12 DEF HumanCleans, Cleaned
<1>13. CASE UNCHANGED vars
  BY <1>13, <1>g DEF vars, Still
<1> QED
  BY <1>1, <1>2, <1>3, <1>4, <1>5, <1>6, <1>7, <1>8, <1>9, <1>10, <1>11, <1>12, <1>13,
     ErrsLikeTimeout DEF Next, BridgeStep, Environment

--------------------------------------------------------------------------
(* A successful write leaves nothing behind.                               *)

\* A call past its pull meets no rebase, and has taken its note out of the conflicts
\* before the commit and out of the index before the push.
LEMMA WriteClearStep ==
    ASSUME TypeOK, WriteClear, [Next]_vars
    PROVE  WriteClear'
<1>a. ASSUME call'.phase = "idle" PROVE WriteClear'
  BY <1>a DEF WriteClear
<1>b. ASSUME call'.phase \in {"check", "pull", "abort"} PROVE WriteClear'
  BY <1>b DEF WriteClear
<1>c. ASSUME call \in RunningWrite \cup RunningSyncPull, NEW p, Goto(p)
      PROVE  call'.phase = p /\ (call \in RunningWrite => call'.note = call.note)
  BY <1>c DEF Goto, RunningWrite, RunningSyncPull
<1>1. CASE StartWrite \/ StartSyncPull
  BY <1>1, <1>a, <1>b DEF StartWrite, StartSyncPull, Respond
<1>2. CASE WriteRefused \/ PushFails \/ AbortRebase \/ PushOk \/ Timeout \/ WriteErrs \/ Crash
  BY <1>2, <1>a
     DEF WriteRefused, PushFails, AbortRebase, PushOk, Timeout, WriteErrs, Crash, Respond
<1>3. CASE CheckTree
  <2>1. call \in RunningWrite
    BY <1>3, CallCases DEF CheckTree, Idle
  <2>2. [call EXCEPT !.phase = "pull", !.pre = Before].phase = "pull"
    BY <2>1 DEF RunningWrite
  <2>3. \/ call' = [phase |-> "idle", outcome |-> "sync_error"]
        \/ call' = [call EXCEPT !.phase = "pull", !.pre = Before]
    BY <1>3 DEF CheckTree, Respond
  <2>4. CASE call' = [phase |-> "idle", outcome |-> "sync_error"]
    BY <2>4, <1>a
  <2>5. CASE call' = [call EXCEPT !.phase = "pull", !.pre = Before]
    <3>1. call'.phase = "pull"
      BY <2>2, <2>5
    <3> QED BY <3>1, <1>b
  <2> QED BY <2>3, <2>4, <2>5
<1>4. CASE PullFails
  BY <1>4, <1>b, <1>c, CallCases DEF PullFails, Idle
<1>5. CASE PullOk
  <2>1. CASE call.op # "write"
    BY <1>5, <2>1, <1>a DEF PullOk, Respond
  <2>2. CASE call.op = "write"
    <3>1. call'.phase = "write"
      BY <1>5, <2>2, <1>c, CallCases DEF PullOk, Idle
    <3>2. rebase' = "none"
      BY <1>5 DEF PullOk, GitPull, Pullable, gitVars
    <3> QED BY <3>1, <3>2 DEF WriteClear
  <2> QED BY <2>1, <2>2
<1>6. CASE WriteFile
  <2>1. call'.phase = "add"
    BY <1>6, CallCases DEF WriteFile, Idle, RunningWrite
  <2>2. rebase' = "none"
    BY <1>6 DEF WriteFile, WriteClear
  <2> QED BY <2>1, <2>2 DEF WriteClear
<1>7. CASE AddFile
  <2>1. call \in RunningWrite
    BY <1>7, CallCases DEF AddFile, Idle
  <2>2. CASE lock
    BY <1>7, <2>2, <1>a DEF AddFile, Respond
  <2>3. CASE ~lock
    <3>1. call'.phase = "commit" /\ call'.note = call.note
      BY <1>7, <2>1, <2>3, <1>c DEF AddFile
    <3>2. rebase' = "none" /\ call.note \notin unmerged'
      BY <1>7, <2>3 DEF AddFile, GitAdd, WriteClear
    <3> QED BY <3>1, <3>2 DEF WriteClear
  <2> QED BY <2>2, <2>3
<1>8. CASE CommitFile
  <2>1. call \in RunningWrite
    BY <1>8, CallCases DEF CommitFile, Idle
  <2>2. CASE lock \/ wt[call.note] = HeadTree[call.note]
    BY <1>8, <2>2, <1>a DEF CommitFile, Respond
  <2>3. CASE ~(lock \/ wt[call.note] = HeadTree[call.note])
    <3>1. call'.phase = "push" /\ call'.note = call.note
      BY <1>8, <2>1, <2>3, <1>c DEF CommitFile
    <3>2. rebase' = "none" /\ call.note \notin unmerged' /\ call.note \notin added'
      BY <1>8, <2>3 DEF CommitFile, GitCommit, WriteClear
    <3> QED BY <3>1, <3>2 DEF WriteClear
  <2> QED BY <2>2, <2>3
<1>9. CASE PcPush \/ UNCHANGED vars
  BY <1>9 DEF PcPush, vars, gitVars, WriteClear
<1>10. CASE CronPull
  BY <1>10 DEF CronPull, WriteClear
<1>11. CASE HumanResolves \/ HumanFinishes \/ HumanCleans
  BY <1>11, <1>a DEF HumanResolves, HumanFinishes, HumanCleans, Idle
<1> QED
  BY <1>1, <1>2, <1>3, <1>4, <1>5, <1>6, <1>7, <1>8, <1>9, <1>10, <1>11, ErrsLikeTimeout
     DEF Next, BridgeStep, Environment

\* When notes_write reports success, everything earlier calls kept local is published, and
\* its note is neither staged, nor conflicted, nor part of a rebase - for any number of
\* calls, notes, failed commands and writes, timeouts and crashes.
THEOREM SuccessLeavesNothing == Spec => SuccessPublishesAll
<1>1. Init => WriteClear
  BY DEF Init, WriteClear
<1>2. TypeOK /\ WriteClear /\ [Next]_vars => WriteClear'
  BY WriteClearStep
<1>3. TypeOK /\ WriteClear /\ [Next]_vars =>
        [(call.phase = "push" /\ Idle' /\ call'.outcome = "ok") =>
            /\ ahead' = <<>>
            /\ call.note \notin added' \cup unmerged'
            /\ rebase' = "none"]_vars
  <2> SUFFICES ASSUME TypeOK, WriteClear, Next,
                      call.phase = "push", Idle', call'.outcome = "ok"
               PROVE  ahead' = <<>> /\ call.note \notin added' \cup unmerged' /\ rebase' = "none"
    OBVIOUS
  <2>1. PushOk
    BY DEF Next, BridgeStep, Environment, StartWrite, StartSyncPull, NewCall, Idle, Respond,
           CheckTree, PullOk, PullFails, AbortRebase, WriteRefused, WriteFile, AddFile, CommitFile,
           PushFails, CommandErrs, Timeout, WriteErrs, Crash, PcPush, CronPull, HumanResolves,
           HumanFinishes, HumanCleans
  <2>2. ahead' = <<>> /\ UNCHANGED <<added, unmerged, rebase>>
    BY <2>1 DEF PushOk, GitPush
  <2> QED BY <2>2 DEF WriteClear
<1> QED BY <1>1, <1>2, <1>3, VaultTypeOK, PTL DEF Spec, SuccessPublishesAll

--------------------------------------------------------------------------
(* Texts, notes and news.                                                  *)

GoodText(t, k) == t # {Marker} /\ \A p \in t : p.src = Pc => p.k \in 0..k
GoodTree(tree, k) == \A n \in Notes : GoodText(tree[n], k)

LEMMA NumberedTrees == TextsNumbered <=> \A t \in AllTrees : GoodTree(t, used.edits)
BY DEF TextsNumbered, GoodTree, GoodText

\* Merging good texts, or taking the markers out of one, gives a good text.
LEMMA GoodTexts ==
    ASSUME NEW k \in Nat, NEW s, NEW t, GoodText(s, k), GoodText(t, k)
    PROVE  /\ GoodText(s \cup t, k) /\ GoodText(s \ {Marker}, k)
           /\ t # {} => GoodText(s \cup t \cup {Marker}, k)
           /\ \A l \in Nat : l >= k => GoodText(s, l)
<1>1. s \cup t # {Marker} /\ s \ {Marker} # {Marker}
  BY DEF GoodText
<1>2. t # {} => s \cup t \cup {Marker} # {Marker}
  BY DEF GoodText
<1>3. Marker.src # Pc
  BY VaultAssumption DEF Marker
<1>4. \A p \in s \cup t \cup {Marker} : p.src = Pc => p.k \in 0..k
  BY <1>3 DEF GoodText
<1>5. \A l \in Nat : l >= k => 0..k \subseteq 0..l
  OBVIOUS
<1>6. GoodText(s \cup t, k) /\ GoodText(s \ {Marker}, k)
  BY <1>1, <1>4 DEF GoodText
<1>7. t # {} => GoodText(s \cup t \cup {Marker}, k)
  BY <1>2, <1>4 DEF GoodText
<1>8. \A l \in Nat : l >= k => GoodText(s, l)
  BY <1>5 DEF GoodText
<1> QED BY <1>6, <1>7, <1>8

\* The pieces the bridge writes are no marker and not the PC's.
LEMMA GoodPiece ==
    ASSUME NEW p \in [src : Ids, k : Nat], NEW k
    PROVE  p # Marker /\ p.src # Pc /\ p.src # Mark /\ GoodText({p}, k)
<1>1. p.src \in Ids /\ Marker.src = Mark
  BY DEF Marker
<1> QED BY <1>1, VaultAssumption DEF GoodText

\* The budgets only grow, with every fault that of the faults.
Faulty == CommandErrs \/ Timeout \/ WriteErrs \/ Crash

LEMMA UsedSteps ==
    ASSUME TypeOK, [Next]_vars
    PROVE  /\ used.edits \in Nat /\ used'.edits \in Nat /\ used'.edits >= used.edits
           /\ used.faults \in Nat /\ used'.faults \in Nat /\ used'.faults >= used.faults
           /\ used'.faults = used.faults => ~Faulty
<1>1. used \in [calls : Nat, edits : Nat, faults : Nat]
  BY DEF TypeOK
<1>2. \/ used' = used \/ used' = [used EXCEPT !.calls = @ + 1]
      \/ used' = [used EXCEPT !.edits = @ + 1] \/ used' = [used EXCEPT !.faults = @ + 1]
  BY DEF Next, BridgeStep, Environment, StartWrite, StartSyncPull, NewCall, CheckTree, PullOk,
         PullFails, AbortRebase, WriteRefused, WriteFile, AddFile, CommitFile, PushOk, PushFails,
         CommandErrs, Timeout, WriteErrs, Crash, Fault, PcPush, CronPull, HumanResolves,
         HumanFinishes, HumanCleans, vars
<1>3. Faulty => used'.faults = used.faults + 1
  BY <1>1 DEF Faulty, CommandErrs, Timeout, WriteErrs, Crash, Fault
<1> QED BY <1>1, <1>2, <1>3

LEMMA KnownTrees ==
    ASSUME TypeOK
    PROVE  /\ {OriginTree, BaseTree, HeadTree} \cup LocalTrees \subseteq AllTrees
           /\ \A t : t \in AllTrees <=> t \in LocalTrees \/ \E i \in DOMAIN origin : t = origin[i].tree
<1>1. \A t : t \in AllTrees <=> t \in LocalTrees \/ \E i \in DOMAIN origin : t = origin[i].tree
  BY DEF AllTrees
<1>2. Len(origin) \in DOMAIN origin /\ base \in DOMAIN origin
  BY LenProperties DEF TypeOK, GitOK
<1> QED BY <1>1, <1>2, LocalTypes DEF OriginTree, BaseTree

\* Replaying good trees on a good origin, or carrying good edits over, gives good trees.
LEMMA GoodReplay ==
    ASSUME NEW k \in Nat, GoodTree(OriginTree, k), NEW t, GoodTree(t, k)
    PROVE  GoodTree(Replay(t), k)
<1> SUFFICES ASSUME NEW n \in Notes PROVE GoodText(Replay(t)[n], k)
  BY DEF GoodTree
<1>1. GoodText(t[n] \cup OriginTree[n], k)
  BY GoodTexts DEF GoodTree
<1> QED BY <1>1 DEF Replay, GoodTree

LEMMA GoodReapply ==
    ASSUME NEW k \in Nat, NEW files, NEW t, NEW C, GoodTree(files, k), GoodTree(t, k)
    PROVE  GoodTree(Reapply(files, t, C), k)
<1> SUFFICES ASSUME NEW n \in Notes PROVE GoodText(Reapply(files, t, C)[n], k)
  BY DEF GoodTree
<1>1. GoodText(files[n], k) /\ GoodText(t[n], k)
  BY DEF GoodTree
<1>2. GoodText(files[n] \cup t[n], k) /\ files[n] \cup t[n] \cup {} = files[n] \cup t[n]
  BY <1>1, GoodTexts
<1>3. t[n] # {} => GoodText(files[n] \cup t[n] \cup {Marker}, k)
  BY <1>1, GoodTexts
<1> QED BY <1>1, <1>2, <1>3 DEF Reapply

LEMMA TextsNumberedStep ==
    ASSUME TypeOK, WriteClear, TextsNumbered, [Next]_vars
    PROVE  TextsNumbered'
<1> DEFINE k == used.edits
<1>0. k \in Nat /\ \A t \in AllTrees : GoodTree(t, k)
  BY NumberedTrees, UsedSteps
<1>1. ASSUME \A t \in AllTrees' : GoodTree(t, k) PROVE TextsNumbered'
  <2>1. used'.edits \in Nat /\ used'.edits >= k
    BY UsedSteps
  <2>2. \A t \in AllTrees' : GoodTree(t, used'.edits)
    BY <1>0, <1>1, <2>1, GoodTexts DEF GoodTree
  <2> QED BY <2>2 DEF TextsNumbered, GoodTree, GoodText
<1>2. \A t : t \in AllTrees' <=>
         \/ t = Files' \/ \E i \in DOMAIN ahead' : t = ahead'[i].tree
         \/ \E i \in DOMAIN origin' : t = origin'[i].tree
  BY DEF AllTrees, LocalTrees
<1>3. \A t : t \in AllTrees <=>
         \/ t = Files \/ \E i \in DOMAIN ahead : t = ahead[i].tree
         \/ \E i \in DOMAIN origin : t = origin[i].tree
  BY DEF AllTrees, LocalTrees
<1>4. GoodTree(OriginTree, k) /\ GoodTree(HeadTree, k) /\ GoodTree(Files, k)
  BY <1>0, <1>3, KnownTrees
<1>5. CASE Still
  BY <1>0, <1>1, <1>2, <1>3, <1>5 DEF Still
<1>6. CASE Written
  <2>1. Files' = wt' /\ Files = wt /\ UNCHANGED <<origin, ahead>>
    BY <1>6 DEF Written, Files
  <2>2. GoodTree(wt', k)
    <3> SUFFICES ASSUME NEW n \in Notes PROVE GoodText(wt'[n], k)
      BY DEF GoodTree
    <3>p. PICK piece \in [src : Ids, k : Nat] :
             wt' = [wt EXCEPT ![call.note] =
                       IF call.mode = "append" THEN @ \cup {piece} ELSE {piece}]
      BY <1>6 DEF Written
    <3>1. GoodText(wt[n], k) /\ GoodText({piece}, k)
      BY <1>4, <2>1, GoodPiece DEF GoodTree
    <3>2. GoodText(wt[n] \cup {piece}, k)
      BY <1>0, <3>1, GoodTexts
    <3>3. wt'[n] \in {wt[n], wt[n] \cup {piece}, {piece}}
      BY <3>p DEF TypeOK, GitOK, Tree
    <3> QED BY <3>1, <3>2, <3>3
  <2> QED BY <1>0, <1>1, <1>2, <1>3, <2>1, <2>2
<1>7. CASE Carried
  <2>1. GoodTree(Replay(HeadTree), k)
    BY <1>0, <1>4, GoodReplay
  <2>2. GoodTree(Files', k)
    BY <1>0, <1>4, <1>7, <2>1, GoodReapply DEF Carried
  <2>3. \A i \in DOMAIN ahead' : GoodTree(ahead'[i].tree, k)
    BY <1>0, <1>3, <1>4, <1>7, RebasedRefs, GoodReplay DEF Carried
  <2>4. origin' = origin
    BY <1>7 DEF Carried, Rebased
  <2> QED BY <1>0, <1>1, <1>2, <1>3, <2>2, <2>3, <2>4
<1>8. CASE Cleaned
  <2>1. Files' = Unmarked /\ Files = wt /\ UNCHANGED <<origin, ahead>>
    BY <1>8 DEF Cleaned, Files
  <2>2. GoodTree(Unmarked, k)
    <3> SUFFICES ASSUME NEW n \in Notes PROVE GoodText(Unmarked[n], k)
      BY DEF GoodTree
    <3>1. GoodText(wt[n], k)
      BY <1>4, <2>1 DEF GoodTree
    <3>2. GoodText(wt[n] \ {Marker}, k)
      BY <1>0, <3>1, GoodTexts
    <3> QED BY <3>1, <3>2 DEF Unmarked
  <2> QED BY <1>0, <1>1, <1>2, <1>3, <2>1, <2>2
<1>9. CASE Committed /\ Files' = Files /\ Files = wt
  <2>1. GoodTree(HeadTree', k)
    <3>1. HeadTree' = [HeadTree EXCEPT ![call.note] = wt[call.note]]
      BY <1>9, CommittedRefs
    <3> QED BY <1>4, <1>9, <3>1, TreeTypes DEF GoodTree, TypeOK, Tree
  <2>2. \A i \in DOMAIN ahead' : GoodTree(ahead'[i].tree, k)
    BY <1>0, <1>3, <1>9, <2>1, CommittedRefs
  <2> QED BY <1>0, <1>1, <1>2, <1>3, <1>4, <1>9, <2>2 DEF Committed
<1>10. CASE GitPush /\ Files' = Files
  <2>1. /\ DOMAIN ahead' = {}
        /\ \A i \in DOMAIN origin' :
              \/ i \in DOMAIN origin /\ origin'[i] = origin[i]
              \/ \E j \in DOMAIN ahead : origin'[i] = ahead[j]
    BY <1>10, PushRefs
  <2>2. \A t \in AllTrees' : t \in AllTrees
    BY <1>2, <1>3, <1>10, <2>1
  <2> QED BY <1>0, <1>1, <2>2
<1>11. CASE PcPush /\ Files' = Files
  <2> DEFINE l == used'.edits
             P == PcPiece(used'.edits)
  <2>1. PICK n \in Notes : \E t \in {OriginTree[n] \cup {P}, {P}, {}} :
           OriginTree' = [OriginTree EXCEPT ![n] = t]
    BY <1>11, PcRefs
  <2>2. l = k + 1 /\ l \in Nat /\ l >= k
    BY <1>0, <1>11, PcRefs
  <2>3. \A t \in AllTrees : GoodTree(t, l)
    BY <1>0, <2>2, GoodTexts DEF GoodTree
  <2>4. GoodText({P}, l) /\ GoodText({}, l)
    <3>1. P.src = Pc /\ P.k = l /\ Marker.src # Pc
      BY VaultAssumption DEF PcPiece, Marker
    <3> QED BY <2>2, <3>1 DEF GoodText
  <2>5. GoodTree(OriginTree, l) /\ GoodText(OriginTree[n] \cup {P}, l)
    <3>1. GoodTree(OriginTree, l)
      BY <2>3, KnownTrees
    <3> QED BY <3>1, <2>2, <2>4, GoodTexts DEF GoodTree
  <2>6. GoodTree(OriginTree', l)
    BY <2>1, <2>4, <2>5, TreeTypes DEF GoodTree, TypeOK, Tree
  <2>7. ASSUME NEW t \in AllTrees' PROVE GoodTree(t, l)
    <3>1. UNCHANGED ahead
      BY <1>11 DEF PcPush, gitVars
    <3>2. \A i \in DOMAIN origin' : origin'[i].tree \in AllTrees \/ origin'[i].tree = OriginTree'
      BY <1>3, <1>11, PcRefs
    <3>3. t \in AllTrees \/ t = OriginTree'
      BY <1>2, <1>3, <1>11, <3>1, <3>2
    <3> QED BY <2>3, <2>6, <3>3
  <2> QED BY <2>7 DEF TextsNumbered, GoodTree, GoodText
<1> QED BY <1>5, <1>6, <1>7, <1>8, <1>9, <1>10, <1>11, FileSteps

LEMMA NeverEmptiedStep ==
    ASSUME TypeOK, WriteClear, TextsNumbered, NeverEmptied, [Next]_vars
    PROVE  NeverEmptied'
<1>0. /\ Files \in Tree /\ HeadTree \in Tree /\ BaseTree \in Tree /\ OriginTree \in Tree
      /\ \A n \in Notes : HeadTree[n] = {} => BaseTree[n] = {}
  <2>1. \A n \in Notes : HeadTree[n] = {} => BaseTree[n] = {}
    BY LocalTypes, EmptySeq DEF NeverEmptied, HeadTree, TypeOK, GitOK
  <2> QED BY <2>1, LocalTypes, TreeTypes DEF TypeOK
<1> SUFFICES ASSUME NEW n \in Notes
             PROVE  /\ \A i \in DOMAIN ahead' : ahead'[i].tree[n] = {} => BaseTree'[n] = {}
                    /\ Files'[n] = {} => HeadTree'[n] = {}
  BY DEF NeverEmptied
<1>1. /\ \A i \in DOMAIN ahead : ahead[i].tree[n] = {} => BaseTree[n] = {}
      /\ Files[n] = {} => HeadTree[n] = {}
  BY DEF NeverEmptied
<1>2. CASE Still
  BY <1>1, <1>2, SameRefs DEF Still
<1>3. CASE Written
  <2>1. Files' = wt' /\ Files = wt
    BY <1>3 DEF Written, Files
  <2>2. wt'[n] = {} => wt[n] = {}
    BY <1>3 DEF Written, TypeOK, GitOK, Tree
  <2> QED BY <1>1, <1>3, <2>1, <2>2, SameRefs DEF Written
<1>4. CASE Carried
  <2>1. \A t : (t[n] = {} => BaseTree[n] = {}) => (Replay(t)[n] = {} => OriginTree[n] = {})
    BY DEF Replay
  <2>2. /\ BaseTree' = OriginTree /\ HeadTree' = Replay(HeadTree)
        /\ \A i \in DOMAIN ahead' : i \in DOMAIN ahead /\ ahead'[i].tree = Replay(ahead[i].tree)
    BY <1>4, RebasedRefs DEF Carried
  <2>3. PICK C : Files' = Reapply(Files, Replay(HeadTree), C)
    BY <1>4 DEF Carried
  <2>4. Files'[n] = {} => Replay(HeadTree)[n] = {}
    BY <1>1, <2>3 DEF Reapply, Untracked
  <2> QED BY <1>1, <2>1, <2>2, <2>4
<1>5. CASE Cleaned
  <2>1. Files' = Unmarked /\ Files = wt
    BY <1>5 DEF Cleaned, Files
  <2>2. wt[n] # {Marker}
    BY <2>1, KnownTrees, LocalTree DEF TextsNumbered
  <2>3. Unmarked[n] = {} => wt[n] = {}
    BY <2>2 DEF Unmarked
  <2> QED BY <1>1, <1>5, <2>1, <2>3, SameRefs DEF Cleaned
<1>6. CASE Committed /\ Files' = Files /\ Files = wt
  <2>1. /\ BaseTree' = BaseTree
        /\ HeadTree' = [HeadTree EXCEPT ![call.note] = wt[call.note]]
        /\ \A i \in DOMAIN ahead' :
              \/ i \in DOMAIN ahead /\ ahead'[i] = ahead[i]
              \/ ahead'[i].tree = HeadTree'
    BY <1>6, CommittedRefs
  <2>2. HeadTree'[n] = {} => BaseTree[n] = {}
    BY <1>0, <1>1, <1>6, <2>1 DEF Tree
  <2>3. Files'[n] = {} => HeadTree'[n] = {}
    BY <1>0, <1>1, <1>6, <2>1 DEF Tree
  <2> QED BY <1>1, <2>1, <2>2, <2>3
<1>7. CASE GitPush /\ Files' = Files
  BY <1>1, <1>7, PushRefs
<1>8. CASE PcPush /\ Files' = Files
  <2>1. UNCHANGED ahead
    BY <1>8 DEF PcPush, gitVars
  <2> QED BY <1>1, <1>8, <2>1, PcRefs
<1> QED BY <1>2, <1>3, <1>4, <1>5, <1>6, <1>7, <1>8, FileSteps

LEMMA OriginNewsStep ==
    ASSUME TypeOK, WriteClear, TextsNumbered, OriginNews, [Next]_vars
    PROVE  OriginNews'
<1> DEFINE News(n) == OriginTree[n] \ BaseTree[n]
<1>0. \A n \in Notes :
        /\ OriginTree[n] \in {BaseTree[n], {}} \/ News(n) # {}
        /\ \A p \in News(n) : p.src = Pc /\ \A t \in LocalTrees : p \notin t[n]
  BY DEF OriginNews
<1>1. ASSUME UNCHANGED <<OriginTree, BaseTree>>,
             \A t \in LocalTrees', n \in Notes : \A p \in News(n) : p \notin t[n]
      PROVE  OriginNews'
  BY <1>0, <1>1 DEF OriginNews
<1>2. ASSUME OriginTree' = BaseTree' PROVE OriginNews'
  BY <1>2 DEF OriginNews
<1> HIDE DEF News
<1>3. CASE Still
  BY <1>0, <1>1, <1>3, SameRefs DEF Still, LocalTrees
<1>4. CASE Written
  <2>1. Files' = wt' /\ Files = wt /\ UNCHANGED <<origin, base, ahead>>
    BY <1>4 DEF Written, Files
  <2>2. ASSUME NEW n \in Notes, NEW p \in News(n) PROVE p \notin wt'[n]
    <3>1. p \notin wt[n] /\ p.src = Pc
      BY <1>0, <2>1, LocalTree
    <3>p. PICK piece \in [src : Ids, k : Nat] :
             wt' = [wt EXCEPT ![call.note] =
                       IF call.mode = "append" THEN @ \cup {piece} ELSE {piece}]
      BY <1>4 DEF Written
    <3>2. p # piece
      BY <3>1, GoodPiece
    <3>3. wt'[n] \in {wt[n], wt[n] \cup {piece}, {piece}}
      BY <3>p DEF TypeOK, GitOK, Tree
    <3> QED BY <3>1, <3>2, <3>3
  <2> QED BY <1>0, <1>1, <2>1, <2>2, SameRefs DEF LocalTrees
<1>5. CASE Carried
  BY <1>2, <1>5, RebasedRefs DEF Carried
<1>6. CASE Cleaned
  <2>1. Files' = Unmarked /\ Files = wt /\ UNCHANGED <<origin, base, ahead>>
    BY <1>6 DEF Cleaned, Files
  <2>2. \A n \in Notes : Unmarked[n] \subseteq wt[n]
    BY DEF Unmarked
  <2>3. \A n \in Notes : \A p \in News(n) : p \notin Unmarked[n]
    BY <1>0, <2>1, <2>2, LocalTree
  <2> QED BY <1>0, <1>1, <2>1, <2>3, SameRefs DEF LocalTrees
<1>7. CASE Committed /\ Files' = Files /\ Files = wt
  <2>1. /\ BaseTree' = BaseTree /\ OriginTree' = OriginTree
        /\ HeadTree' = [HeadTree EXCEPT ![call.note] = wt[call.note]]
        /\ \A i \in DOMAIN ahead' :
              \/ i \in DOMAIN ahead /\ ahead'[i] = ahead[i]
              \/ ahead'[i].tree = HeadTree'
    BY <1>7, CommittedRefs
  <2>2. ASSUME NEW n \in Notes, NEW p \in News(n) PROVE p \notin HeadTree'[n]
    <3>1. p \notin HeadTree[n]
      BY <1>0, LocalTypes DEF News
    <3>2. p \notin wt[n]
      BY <1>0, <1>7, LocalTree
    <3> QED BY <2>1, <3>1, <3>2, TreeTypes DEF TypeOK, Tree
  <2>3. ASSUME NEW t \in LocalTrees', NEW n \in Notes, NEW p \in News(n) PROVE p \notin t[n]
    <3>1. t \in LocalTrees \/ t = HeadTree'
      <4>1. t = Files \/ \E i \in DOMAIN ahead' : t = ahead'[i].tree
        BY <1>7, LocalTreeNext
      <4>2. \A i \in DOMAIN ahead' : ahead'[i].tree \in LocalTrees \/ ahead'[i].tree = HeadTree'
        BY <2>1, LocalTree
      <4> QED BY <4>1, <4>2, LocalTree
    <3> QED BY <1>0, <2>2, <3>1
  <2> QED BY <1>1, <2>1, <2>3
<1>8. CASE GitPush /\ Files' = Files
  BY <1>2, <1>8, PushRefs
<1>9. CASE PcPush /\ Files' = Files
  <2> DEFINE P == PcPiece(used'.edits)
  <2>1. PICK m \in Notes : \E t \in {OriginTree[m] \cup {P}, {P}, {}} :
           OriginTree' = [OriginTree EXCEPT ![m] = t]
    BY <1>9, PcRefs
  <2>2. P.src = Pc /\ P.k \notin 0..used.edits
    <3>1. used'.edits = used.edits + 1 /\ used.edits \in Nat
      BY <1>9, PcRefs, UsedSteps
    <3> QED BY <3>1 DEF PcPiece
  <2>3. ASSUME NEW t \in AllTrees, NEW n \in Notes PROVE P \notin t[n]
    <3>1. \A p \in t[n] : p.src = Pc => p.k \in 0..used.edits
      BY DEF TextsNumbered
    <3> QED BY <2>2, <3>1
  <2>4. LocalTrees' = LocalTrees /\ BaseTree' = BaseTree
    <3>1. Files' = Files /\ BaseTree' = BaseTree  BY <1>9, PcRefs
    <3>2. UNCHANGED ahead  BY <1>9 DEF PcPush, gitVars
    <3> QED BY <3>1, <3>2 DEF LocalTrees
  <2>5. ASSUME NEW n \in Notes
        PROVE  /\ OriginTree'[n] \in {BaseTree[n], {}} \/ OriginTree'[n] \ BaseTree[n] # {}
               /\ \A p \in OriginTree'[n] \ BaseTree[n] :
                     p.src = Pc /\ \A t \in LocalTrees : p \notin t[n]
    <3>1. P \notin BaseTree[n] /\ \A t \in LocalTrees : P \notin t[n]
      BY <2>3, KnownTrees
    <3>2. OriginTree'[n] \in {OriginTree[n], OriginTree[n] \cup {P}, {P}, {}}
      BY <2>1, TreeTypes DEF TypeOK, Tree
    <3> QED BY <1>0, <2>2, <3>1, <3>2 DEF News
  <2> QED BY <2>4, <2>5 DEF OriginNews
<1> QED BY <1>3, <1>4, <1>5, <1>6, <1>7, <1>8, <1>9, FileSteps

--------------------------------------------------------------------------
(* A refused write restores the vault.                                     *)

LEMMA SameEdits ==
    ASSUME \A n \in Notes : /\ Files'[n] # HeadTree'[n] <=> Files[n] # HeadTree[n]
                            /\ Files'[n] # HeadTree'[n] => Files'[n] = Files[n]
    PROVE  KeptEdits' = KeptEdits
<1>1. {m \in Notes : Files'[m] # HeadTree'[m]} = {m \in Notes : Files[m] # HeadTree[m]}
  OBVIOUS
<1>2. \A n \in {m \in Notes : Files[m] # HeadTree[m]} : <<n, Files'[n]>> = <<n, Files[n]>>
  OBVIOUS
<1> QED BY <1>1, <1>2 DEF KeptEdits

\* The cron job's pull brings in no note that has an edit: an edit that the origin has
\* made as well would have to be news it cannot know, or a deletion the vault never makes.
LEMMA CronEdits ==
    ASSUME TypeOK, NeverEmptied, OriginNews, CronPull
    PROVE  \A n \in Notes :
              \/ /\ Files[n] # HeadTree[n] /\ Files'[n] = Files[n]
                 /\ HeadTree'[n] = HeadTree[n]
              \/ Files[n] = HeadTree[n] /\ Files'[n] = HeadTree'[n]
<1>1. Files = wt /\ Files' = Reapply(wt, OriginTree, {}) /\ HeadTree = BaseTree
  BY DEF CronPull, Pullable, Files, HeadTree
<1>2. HeadTree' = OriginTree
  BY DEF CronPull, HeadTree, BaseTree, OriginTree
<1> TAKE n \in Notes
<1>3. /\ Files[n] = {} => HeadTree[n] = {}
      /\ OriginTree[n] \in {BaseTree[n], {}} \/ OriginTree[n] \ BaseTree[n] # {}
      /\ \A p \in OriginTree[n] \ BaseTree[n] : p \notin Files[n]
  BY LocalTree DEF NeverEmptied, OriginNews
<1>4. CASE n \in Edited(wt)
  <2>1. OriginTree[n] \in {HeadTree[n], wt[n]} /\ wt[n] # HeadTree[n]
    BY <1>4 DEF CronPull, MayClash, Edited
  <2>2. OriginTree[n] = HeadTree[n]
    BY <1>1, <1>3, <2>1
  <2>3. Files'[n] = wt[n]
    BY <1>1, <1>4, <2>2 DEF Reapply
  <2> QED BY <1>1, <1>2, <2>1, <2>2, <2>3
<1>5. CASE n \notin Edited(wt) /\ Untracked(wt, n)
  <2>1. OriginTree[n] = {} /\ HeadTree[n] = {}
    BY <1>5 DEF CronPull, Pullable, Untracked
  <2>2. Files'[n] = wt[n]
    BY <1>1, <1>5 DEF Reapply
  <2> QED BY <1>1, <1>2, <2>1, <2>2
<1>6. CASE n \notin Edited(wt) /\ ~Untracked(wt, n)
  <2>1. Files'[n] = OriginTree[n]
    BY <1>1, <1>6 DEF Reapply
  <2>2. wt[n] = HeadTree[n]
    BY <1>1, <1>3, <1>6 DEF Edited, Untracked
  <2> QED BY <1>1, <1>2, <2>1, <2>2
<1> QED BY <1>4, <1>5, <1>6

LEMMA PullRemembersStep ==
    ASSUME TypeOK, WriteClear, NeverEmptied, OriginNews, PullRemembers, [Next]_vars
    PROVE  PullRemembers'
<1>a. ASSUME call'.phase \in {"idle", "check", "write", "add", "commit", "push"}
      PROVE  PullRemembers'
  BY <1>a DEF PullRemembers
<1>c. ASSUME call \in RunningWrite \cup RunningSyncPull, NEW p, Goto(p)
      PROVE  /\ call'.phase = p /\ call'.pre = call.pre
             /\ call'.op = call.op
  BY <1>c DEF Goto, RunningWrite, RunningSyncPull
<1>1. CASE StartWrite
  BY <1>1, <1>a DEF StartWrite, Respond
<1>2. CASE StartSyncPull
  <2>1. call'.op = "sync_pull"
    BY <1>2 DEF StartSyncPull
  <2> QED BY <2>1 DEF PullRemembers
<1>3. CASE WriteRefused \/ PushFails \/ AbortRebase \/ PushOk \/ Timeout \/ WriteErrs \/ Crash
  BY <1>3, <1>a
     DEF WriteRefused, PushFails, AbortRebase, PushOk, Timeout, WriteErrs, Crash, Respond
<1>4. CASE CheckTree
  <2>1. call \in RunningWrite
    BY <1>4, CallCases DEF CheckTree, Idle
  <2>2. CASE call' = [phase |-> "idle", outcome |-> "sync_error"]
    BY <2>2, <1>a
  <2>3. CASE call' = [call EXCEPT !.phase = "pull", !.pre = Before] /\ rebase = "none"
    <3>1. [call EXCEPT !.phase = "pull", !.pre = Before].pre = Before
      BY <2>1 DEF RunningWrite
    <3>2. call'.pre = Before
      BY <2>3, <3>1
    <3>3. UNCHANGED <<Files, HeadTree, ahead, rebase>> /\ Files = wt
      BY <1>4, <2>3 DEF CheckTree, gitVars, Files, HeadTree, BaseTree
    <3>4. KeptEdits' = KeptEdits
      BY <3>3 DEF KeptEdits
    <3> QED BY <2>3, <3>2, <3>3, <3>4 DEF PullRemembers, Before
  <2> QED BY <1>4, <2>2, <2>3 DEF CheckTree, Respond
<1>5. CASE PullOk
  <2>1. CASE call.op # "write"
    BY <1>5, <2>1, <1>a DEF PullOk, Respond
  <2>2. CASE call.op = "write"
    BY <1>5, <2>2, <1>a, <1>c, CallCases DEF PullOk, Idle
  <2> QED BY <2>1, <2>2
<1>6. CASE PullFails
  <2>1. call'.phase = "abort" /\ call'.pre = call.pre /\ call'.op = call.op
    BY <1>6, <1>c, CallCases DEF PullFails, Idle
  <2>2. UNCHANGED <<Files, HeadTree, ahead>>
    BY <1>6 DEF PullFails, GitPullStops, Pullable, gitVars, Files, HeadTree, BaseTree
  <2>3. KeptEdits' = KeptEdits
    BY <2>2 DEF KeptEdits
  <2> QED BY <1>6, <2>1, <2>2, <2>3 DEF PullFails, PullRemembers
<1>7. CASE WriteFile
  <2>1. call'.phase = "add"
    BY <1>7, CallCases DEF WriteFile, Idle, RunningWrite
  <2> QED BY <2>1, <1>a
<1>8. CASE AddFile
  BY <1>8, <1>a, <1>c, CallCases DEF AddFile, Idle, Respond
<1>9. CASE CommitFile
  BY <1>9, <1>a, <1>c, CallCases DEF CommitFile, Idle, Respond
<1>10. CASE PcPush
  <2>1. UNCHANGED <<Files, HeadTree, ahead, rebase, call>>
    BY <1>10, PcRefs DEF PcPush, gitVars, Files
  <2> QED BY <2>1 DEF PullRemembers, KeptEdits
<1>11. CASE CronPull
  <2>1. UNCHANGED <<ahead, rebase, call>> /\ KeptEdits' = KeptEdits
    BY <1>11, CronEdits, SameEdits DEF CronPull
  <2> QED BY <2>1 DEF PullRemembers
<1>12. CASE HumanResolves \/ HumanFinishes \/ HumanCleans
  BY <1>12, <1>a DEF HumanResolves, HumanFinishes, HumanCleans, Idle
<1>13. CASE UNCHANGED vars
  <2>1. UNCHANGED <<Files, HeadTree, ahead, rebase, call>>
    BY <1>13 DEF vars, gitVars, Files, HeadTree, BaseTree
  <2> QED BY <2>1 DEF PullRemembers, KeptEdits
<1> QED
  BY <1>1, <1>2, <1>3, <1>4, <1>5, <1>6, <1>7, <1>8, <1>9, <1>10, <1>11, <1>12, <1>13,
     ErrsLikeTimeout DEF Next, BridgeStep, Environment

LEMMA InitVaultInv == Init => VaultInv
<1> SUFFICES ASSUME Init PROVE VaultInv
  OBVIOUS
<1>1. PICK tree \in [Notes -> {{}, {PcPiece(0)}}] :
         /\ origin = <<[by |-> "pc", note |-> CHOOSE n \in Notes : TRUE,
                        mode |-> "overwrite", piece |-> PcPiece(0), tree |-> tree]>>
         /\ wt = tree
  BY DEF Init
<1>2. Len(origin) = 1 /\ DOMAIN origin = {1} /\ DOMAIN ahead = {} /\ base = 1 /\ ahead = <<>>
  BY DEF Init
<1>3. Files = tree /\ OriginTree = tree /\ BaseTree = tree /\ HeadTree = tree
  BY <1>1, <1>2 DEF Init, Files, OriginTree, BaseTree, HeadTree
<1>4. AllTrees = {tree}
  BY <1>1, <1>2, <1>3 DEF AllTrees, LocalTrees
<1>5. TextsNumbered
  <2>1. PcPiece(0) # Marker /\ PcPiece(0).k = 0 /\ used.edits = 0
    <3>1. PcPiece(0).src = Pc /\ Marker.src = Mark
      BY DEF PcPiece, Marker
    <3> QED BY <3>1, VaultAssumption DEF PcPiece, Init
  <2> QED BY <1>4, <2>1 DEF TextsNumbered
<1>6. NeverEmptied /\ OriginNews
  BY <1>2, <1>3 DEF NeverEmptied, OriginNews
<1>7. WriteClear /\ PullRemembers
  BY DEF Init, WriteClear, PullRemembers
<1> QED BY <1>5, <1>6, <1>7 DEF VaultInv

LEMMA NextVaultInv == TypeOK /\ VaultInv /\ [Next]_vars => VaultInv'
BY WriteClearStep, TextsNumberedStep, NeverEmptiedStep, OriginNewsStep, PullRemembersStep
   DEF VaultInv

\* A write whose pull was refused loses nothing: it leaves the local commits as the pull
\* found them, and the uncommitted edits in the vault or in the stash of the rebase - which
\* is still stopped only if its abort has failed - although the origin moved meanwhile and
\* the owner's cron job may have pulled in between.
THEOREM RefusalRestores == Spec => RefusedWriteRestores
<1>1. TypeOK /\ VaultInv /\ [Next]_vars =>
        [(call.phase = "abort" /\ Idle' /\ call.op = "write") =>
            /\ ahead' = call.pre.ahead
            /\ KeptEdits' = call.pre.edits
            /\ rebase' # "none" => used' # used]_vars
  <2> SUFFICES ASSUME TypeOK, PullRemembers, Next,
                      call.phase = "abort", Idle', call.op = "write"
               PROVE  /\ ahead' = call.pre.ahead
                      /\ KeptEdits' = call.pre.edits
                      /\ rebase' # "none" => used' # used
    BY DEF VaultInv
  <2>1. AbortRebase \/ CommandErrs \/ Timeout \/ Crash
    BY DEF Next, BridgeStep, Environment, StartWrite, StartSyncPull, NewCall, Idle,
           CheckTree, PullOk, PullFails, WriteRefused, WriteFile, AddFile, CommitFile, PushOk,
           PushFails, WriteErrs, PcPush, CronPull, HumanResolves, HumanFinishes, HumanCleans
  <2>2. call.pre = [edits |-> KeptEdits, ahead |-> ahead]
    BY DEF PullRemembers
  <2>3. UNCHANGED origin /\ (UNCHANGED gitVars \/ GitRebaseAbort)
    BY <2>1 DEF AbortRebase, CommandErrs, Timeout, ErredWork, Crash, CutShort
  <2>4. UNCHANGED <<origin, base, ahead>> /\ Files' = Files
    BY <2>3 DEF GitRebaseAbort, gitVars, Files
  <2>5. KeptEdits' = KeptEdits
    BY <2>4 DEF KeptEdits, HeadTree, BaseTree
  <2>6. rebase' # "none" => used' # used
    <3>1. CASE AbortRebase
      BY <3>1 DEF AbortRebase, GitRebaseAbort, gitVars
    <3>2. CASE CommandErrs \/ Timeout \/ Crash
      BY <3>2, UsedSteps DEF Faulty
    <3> QED BY <2>1, <3>1, <3>2
  <2> QED BY <2>2, <2>4, <2>5, <2>6
<1> QED BY <1>1, InitVaultInv, NextVaultInv, VaultTypeOK, PTL DEF Spec, RefusedWriteRestores

--------------------------------------------------------------------------
(* One commit per write.                                                   *)

\* What a commit's message says concerns its own note only.
LEMMA SameTruth ==
    ASSUME NEW s, NEW c, NEW t, NEW d, MessageTellsTruth(s, c),
           d.by = c.by, d.note = c.note, d.mode = c.mode, d.piece = c.piece,
           t[c.note] = s[c.note], d.tree[c.note] = c.tree[c.note]
    PROVE  MessageTellsTruth(t, d)
BY DEF MessageTellsTruth

LEMMA TruthByMode ==
    ASSUME NEW s, NEW c, c.by = "bridge", c.mode \in Modes
    PROVE  MessageTellsTruth(s, c) <=>
              /\ c.mode = "create" => s[c.note] = {} /\ c.tree[c.note] = {c.piece}
              /\ c.mode = "append" => c.tree[c.note] = s[c.note] \cup {c.piece}
              /\ c.mode = "overwrite" => /\ c.piece \in c.tree[c.note]
                                         /\ \A p \in c.tree[c.note] \ {c.piece} : p.src = Pc
BY DEF MessageTellsTruth, Modes

\* The trees before and after a local commit.
LEMMA Parents ==
    ASSUME TypeOK, NEW i \in 1..Len(ahead)
    PROVE  /\ ahead[i] \in Commit /\ ahead[i].tree \in LocalTrees
           /\ Parent(i) = BaseTree \/ Parent(i) \in LocalTrees
           /\ Parent(i) \in Tree
<1>1. ahead[i] \in Commit /\ ahead[i].tree \in LocalTrees
  BY LocalTypes, LocalTree, ElementOfSeq DEF TypeOK, GitOK
<1>2. i = 1 \/ i - 1 \in DOMAIN ahead
  BY LocalTypes
<1>3. Parent(i) = BaseTree \/ Parent(i) \in LocalTrees
  BY <1>2, LocalTree DEF Parent
<1> QED BY <1>1, <1>3, LocalTypes, TreeTypes DEF TypeOK

\* A note that differs between a local commit and its parent, and changed on the origin,
\* has diverged; if git can replay the commits, all its texts contain the base's.
LEMMA Merged ==
    ASSUME TypeOK, NeverEmptied, OriginNews, MustConflict = {}, NEW i \in 1..Len(ahead),
           NEW n \in Notes, ahead[i].tree[n] # Parent(i)[n], OriginTree[n] # BaseTree[n]
    PROVE  /\ BaseTree[n] # {} /\ BaseTree[n] \subseteq OriginTree[n]
           /\ BaseTree[n] \subseteq ahead[i].tree[n] /\ BaseTree[n] \subseteq Parent(i)[n]
           /\ \A p \in OriginTree[n] \ BaseTree[n] :
                 p.src = Pc /\ p \notin ahead[i].tree[n] /\ p \notin Parent(i)[n]
           /\ Replay(ahead[i].tree)[n] = ahead[i].tree[n] \cup OriginTree[n]
           /\ Replay(Parent(i))[n] = Parent(i)[n] \cup OriginTree[n]
<1>1. DOMAIN ahead = 1..Len(ahead)
  BY LocalTypes
<1>2. \A u \in LocalTexts(n) : \E j \in DOMAIN ahead : u = ahead[j].tree[n]
  BY DEF LocalTexts
<1>3. ahead[i].tree[n] \in LocalTexts(n)
  BY <1>1 DEF LocalTexts
<1>4. Parent(i)[n] = BaseTree[n] \/ Parent(i)[n] \in LocalTexts(n)
  <2>1. i = 1 \/ i - 1 \in DOMAIN ahead
    BY LocalTypes
  <2> QED BY <2>1 DEF Parent, LocalTexts
<1>5. OriginTree[n] \notin LocalTexts(n)
  <2> SUFFICES ASSUME NEW j \in DOMAIN ahead, OriginTree[n] = ahead[j].tree[n] PROVE FALSE
    BY <1>2
  <2>1. OriginTree[n] # {}
    BY DEF NeverEmptied
  <2>2. OriginTree[n] \ BaseTree[n] # {}
    BY <2>1 DEF OriginNews
  <2>3. \A p \in OriginTree[n] \ BaseTree[n] : p \notin ahead[j].tree[n]
    BY LocalTree DEF OriginNews
  <2> QED BY <2>2, <2>3
<1>6. n \in Diverged
  BY <1>3, <1>4, <1>5 DEF Diverged
<1>7. \A u \in LocalTexts(n) : Mergeable(BaseTree[n], u, OriginTree[n])
  BY <1>6 DEF MustConflict
<1>8. /\ BaseTree[n] # {} /\ BaseTree[n] \subseteq OriginTree[n]
      /\ BaseTree[n] \subseteq ahead[i].tree[n] /\ BaseTree[n] \subseteq Parent(i)[n]
  BY <1>3, <1>4, <1>7 DEF Mergeable
<1>9. \A p \in OriginTree[n] \ BaseTree[n] :
         p.src = Pc /\ p \notin ahead[i].tree[n] /\ p \notin Parent(i)[n]
  BY Parents DEF OriginNews
<1>10. \A t : BaseTree[n] \subseteq t[n] => Replay(t)[n] = t[n] \cup OriginTree[n]
  BY <1>8 DEF Replay
<1> QED BY <1>8, <1>9, <1>10

\* A replay that git completes leaves each local commit a change, and its message true.
LEMMA ReplayTruth ==
    ASSUME TypeOK, NeverEmptied, OriginNews, MustConflict = {}, LocalTruth,
           NEW i \in 1..Len(ahead),
           NEW d, d = [ahead[i] EXCEPT !.tree = Replay(ahead[i].tree)]
    PROVE  /\ d.by = "bridge" /\ d.piece.src \in Ids
           /\ d.tree[d.note] # Replay(Parent(i))[d.note]
           /\ MessageTellsTruth(Replay(Parent(i)), d)
<1> DEFINE c == ahead[i]
           n == ahead[i].note
           s == Parent(i)[n]
           t == ahead[i].tree[n]
           o == OriginTree[n]
<1>1. /\ c \in Commit /\ n \in Notes /\ c.mode \in Modes
      /\ d.by = c.by /\ d.note = n /\ d.mode = c.mode /\ d.piece = c.piece
      /\ d.tree = Replay(c.tree)
  BY Parents DEF Commit
<1>2. c.by = "bridge" /\ c.piece.src \in Ids /\ t # s /\ MessageTellsTruth(Parent(i), c)
  BY DEF LocalTruth
<1>3. CASE o = BaseTree[n]
  <2>1. Replay(c.tree)[n] = t /\ Replay(Parent(i))[n] = s
    BY <1>1, <1>3 DEF Replay
  <2>2. MessageTellsTruth(Replay(Parent(i)), d)
    BY <1>1, <1>2, <2>1, SameTruth
  <2> QED BY <1>1, <1>2, <2>1, <2>2
<1>4. CASE o # BaseTree[n]
  <2> DEFINE b == BaseTree[n]
  <2>1. /\ b # {} /\ b \subseteq o /\ b \subseteq t /\ b \subseteq s
        /\ \A p \in o \ b : p.src = Pc /\ p \notin t /\ p \notin s
        /\ Replay(c.tree)[n] = t \cup o /\ Replay(Parent(i))[n] = s \cup o
    BY <1>1, <1>2, <1>4, Merged
  <2>2. /\ c.mode = "create" => s = {} /\ t = {c.piece}
        /\ c.mode = "append" => t = s \cup {c.piece}
        /\ c.mode = "overwrite" => c.piece \in t /\ \A p \in t \ {c.piece} : p.src = Pc
    BY <1>1, <1>2, TruthByMode
  <2> HIDE DEF b, o, s, t
  <2>3. t \cup o # s \cup o
    BY <1>2, <2>1
  <2>4. /\ c.mode # "create"
        /\ c.mode = "append" => t \cup o = (s \cup o) \cup {c.piece}
        /\ c.mode = "overwrite" =>
              c.piece \in t \cup o /\ \A p \in (t \cup o) \ {c.piece} : p.src = Pc
    BY <2>1, <2>2
  <2>5. MessageTellsTruth(Replay(Parent(i)), d)
    <3>1. d.tree[d.note] = t \cup o /\ Replay(Parent(i))[d.note] = s \cup o
      BY <1>1, <2>1
    <3>2. /\ d.mode # "create"
          /\ d.mode = "append" =>
                d.tree[d.note] = Replay(Parent(i))[d.note] \cup {d.piece}
          /\ d.mode = "overwrite" =>
                d.piece \in d.tree[d.note] /\ \A p \in d.tree[d.note] \ {d.piece} : p.src = Pc
      BY <1>1, <2>4, <3>1
    <3>3. d.by = "bridge" /\ d.mode \in Modes
      BY <1>1, <1>2
    <3> QED BY <3>2, <3>3 DEF MessageTellsTruth, Modes
  <2> QED BY <1>1, <1>2, <2>1, <2>3, <2>5
<1> QED BY <1>3, <1>4

\* Without a fault, local commits are rebased by a pull that git completes, or there are none.
LEMMA FaultlessHistory ==
    ASSUME TypeOK, CleanVault, [Next]_vars, ~Faulty
    PROVE  \/ UNCHANGED <<origin, base, ahead>> \/ Committed \/ GitPush \/ PcPush
           \/ Rebased /\ (MustConflict = {} \/ ahead = <<>>)
<1>1. CASE StartWrite \/ StartSyncPull \/ CheckTree \/ WriteRefused \/ WriteFile \/ PushFails
  BY <1>1 DEF StartWrite, StartSyncPull, NewCall, CheckTree, WriteRefused, WriteFile,
              PushFails, gitVars
<1>2. CASE PullOk
  BY <1>2 DEF PullOk, GitPull, gitVars, Rebased
<1>3. CASE PullFails \/ AbortRebase
  BY <1>3 DEF PullFails, AbortRebase, GitPullStops, GitRebaseAbort, gitVars
<1>4. CASE AddFile
  BY <1>4 DEF AddFile, GitAdd, gitVars
<1>5. CASE CommitFile
  <2>1. call \in RunningWrite
    BY <1>5, CallCases DEF CommitFile, Idle
  <2> QED BY <1>5, <2>1 DEF CommitFile, Committed, GitCommit, gitVars
<1>6. CASE PushOk
  BY <1>6 DEF PushOk
<1>7. CASE CronPull
  <2>1. Rebased
    BY <1>7, ReplayTypes, EmptySeq DEF CronPull, Rebased, TypeOK
  <2> QED BY <1>7, <2>1 DEF CronPull
<1>8. CASE HumanResolves \/ HumanFinishes \/ HumanCleans
  BY <1>8 DEF HumanResolves, HumanFinishes, HumanCleans, Idle, CleanVault
<1>9. CASE UNCHANGED vars
  BY <1>9 DEF vars, gitVars
<1> QED
  BY <1>1, <1>2, <1>3, <1>4, <1>5, <1>6, <1>7, <1>8, <1>9
     DEF Next, BridgeStep, Environment, Faulty

LEMMA LocalTruthStep ==
    ASSUME TypeOK, VaultInv, CleanVault, LocalTruth, [Next]_vars, ~Faulty
    PROVE  LocalTruth'
<1>0. /\ DOMAIN ahead = 1..Len(ahead) /\ Len(ahead) \in Nat
      /\ \A i \in 1..Len(ahead) : i # 1 => i - 1 \in 1..Len(ahead)
  BY LocalTypes
<1>1. CASE UNCHANGED <<origin, base, ahead>>
  BY <1>1, SameRefs DEF LocalTruth, Parent
<1>2. CASE Committed
  <2> DEFINE c == [by |-> "bridge", note |-> call.note, mode |-> call.mode,
                   piece |-> call.piece, tree |-> [HeadTree EXCEPT ![call.note] = wt[call.note]]]
  <2>1. /\ Len(ahead') = Len(ahead) + 1 /\ BaseTree' = BaseTree
        /\ \A i \in 1..Len(ahead) : ahead'[i] = ahead[i]
        /\ ahead'[Len(ahead) + 1] = c
    BY <1>2, CommitTypes, CommittedRefs DEF Committed
  <2>2. \A i \in 1..Len(ahead) : Parent(i)' = Parent(i)
    BY <1>0, <2>1 DEF Parent
  <2>3. ASSUME NEW k, k = Len(ahead) + 1 PROVE Parent(k)' = HeadTree
    <3>1. CASE ahead = <<>>
      BY <2>1, <2>3, <3>1, EmptySeq DEF Parent, HeadTree
    <3>2. CASE ahead # <<>>
      <4>1. Len(ahead) \in 1..Len(ahead) /\ k # 1 /\ k - 1 = Len(ahead)
        BY <1>0, <2>3, <3>2, EmptySeq DEF TypeOK, GitOK
      <4> QED BY <2>1, <3>2, <4>1 DEF Parent, HeadTree
    <3> QED BY <3>1, <3>2
  <2>4. /\ call.note \in Notes /\ call.piece.src \in Ids /\ HeadTree \in Tree
        /\ wt[call.note] # HeadTree[call.note]
    BY <1>2, TreeTypes, VaultAssumption DEF Committed, GitCommit, RunningWrite, TypeOK
  <2>5. c.tree[c.note] = wt[call.note]
    BY <2>4 DEF Tree
  <2>6. MessageTellsTruth(HeadTree, c)
    <3> DEFINE w == [by |-> "bridge", note |-> call.note, mode |-> call.mode,
                     piece |-> call.piece, tree |-> wt]
    <3>1. MessageTellsTruth(HeadTree, w)
      BY <1>2, <2>4 DEF CleanVault, Committed
    <3>2. /\ c.by = w.by /\ c.note = w.note /\ c.mode = w.mode /\ c.piece = w.piece
          /\ HeadTree[w.note] = HeadTree[w.note] /\ c.tree[w.note] = w.tree[w.note]
      BY <2>5
    <3> HIDE DEF c, w
    <3> QED BY <3>1, <3>2, SameTruth
  <2>7. ASSUME NEW i \in 1..Len(ahead')
        PROVE  /\ ahead'[i].by = "bridge" /\ ahead'[i].piece.src \in Ids
               /\ ahead'[i].tree[ahead'[i].note] # Parent(i)'[ahead'[i].note]
               /\ MessageTellsTruth(Parent(i)', ahead'[i])
    <3>1. i \in 1..Len(ahead) \/ i = Len(ahead) + 1
      BY <1>0, <2>1
    <3>2. CASE i \in 1..Len(ahead)
      BY <2>1, <2>2, <3>2 DEF LocalTruth
    <3>3. CASE i = Len(ahead) + 1
      <4>1. ahead'[i] = c /\ Parent(i)' = HeadTree
        BY <2>1, <2>3, <3>3
      <4>2. c.by = "bridge" /\ c.piece.src \in Ids /\ c.tree[c.note] # HeadTree[c.note]
        BY <2>4, <2>5
      <4> HIDE DEF c
      <4> QED BY <2>6, <4>1, <4>2
    <3> QED BY <3>1, <3>2, <3>3
  <2> QED BY <2>7 DEF LocalTruth, MessageTellsTruth
<1>3. CASE GitPush
  BY <1>3, PushTypes, EmptySeq DEF LocalTruth
<1>4. CASE PcPush
  BY <1>4, PcRefs DEF LocalTruth, Parent, PcPush, gitVars
<1>5. CASE Rebased /\ ahead = <<>>
  <2>1. Len(ahead') = 0
    BY <1>5, ReplayTypes, EmptySeq DEF Rebased, TypeOK
  <2> QED BY <2>1 DEF LocalTruth
<1>6. CASE Rebased /\ MustConflict = {}
  <2>1. /\ Len(ahead') = Len(ahead) /\ BaseTree' = OriginTree
        /\ \A i \in 1..Len(ahead) : ahead'[i] = [ahead[i] EXCEPT !.tree = Replay(ahead[i].tree)]
        /\ \A i \in DOMAIN ahead' : ahead'[i].tree = Replay(ahead[i].tree)
    BY <1>6, ReplayTypes, RebasedRefs DEF Rebased, TypeOK
  <2>2. DOMAIN ahead' = 1..Len(ahead)
    BY <1>6, <1>0, <2>1, ReplayTypes, LenProperties DEF Rebased, TypeOK
  <2>3. \A i \in 1..Len(ahead) : Parent(i)' = Replay(Parent(i))
    BY <1>0, <2>1, <2>2, ReplayBase DEF Parent, TypeOK
  <2>4. ASSUME NEW i \in 1..Len(ahead)
        PROVE  /\ ahead'[i].by = "bridge" /\ ahead'[i].piece.src \in Ids
               /\ ahead'[i].tree[ahead'[i].note] # Parent(i)'[ahead'[i].note]
               /\ MessageTellsTruth(Parent(i)', ahead'[i])
    <3> DEFINE d == [ahead[i] EXCEPT !.tree = Replay(ahead[i].tree)]
    <3>1. /\ d.by = "bridge" /\ d.piece.src \in Ids
          /\ d.tree[d.note] # Replay(Parent(i))[d.note]
          /\ MessageTellsTruth(Replay(Parent(i)), d)
      BY <1>6, ReplayTruth DEF VaultInv
    <3>2. ahead'[i] = d /\ Parent(i)' = Replay(Parent(i))
      BY <2>1, <2>3
    <3> HIDE DEF d
    <3> QED BY <3>1, <3>2
  <2> QED BY <2>1, <2>4 DEF LocalTruth, MessageTellsTruth
<1> QED BY <1>1, <1>2, <1>3, <1>4, <1>5, <1>6, FaultlessHistory

\* Most steps of a call leave a clean vault alone.
LEMMA CleanUnchanged ==
    ASSUME CleanVault, UNCHANGED <<base, ahead, HeadTree, gitVars>>,
           call.phase \notin {"add", "commit", "abort"}, call'.phase \notin {"add", "commit"}
    PROVE  CleanVault'
<1>1. UNCHANGED <<Files, HeadTree, lock, rebase, unmerged>>
  BY DEF gitVars, Files
<1>2. rebase = "none" /\ \A n \in Notes : Files[n] = HeadTree[n]
  BY DEF CleanVault, Writing
<1> QED BY <1>1, <1>2 DEF CleanVault

\* So does a step that leaves every file as its HEAD has it.
LEMMA CleanMade ==
    ASSUME ~lock', rebase' = "none", unmerged' = {},
           \A n \in Notes : Files'[n] = HeadTree'[n],
           call'.phase \in {"add", "commit"} => wt'[call'.note] = HeadTree'[call'.note]
    PROVE  CleanVault'
BY DEF CleanVault

LEMMA CleanVaultStep ==
    ASSUME TypeOK, VaultInv, CleanVault, [Next]_vars, ~Faulty
    PROVE  CleanVault'
<1>c. ASSUME call \in RunningWrite \cup RunningSyncPull, NEW p, Goto(p)
      PROVE  /\ call'.phase = p
             /\ call \in RunningWrite => /\ call'.note = call.note /\ call'.mode = call.mode
                                         /\ call'.piece = call.piece
  BY <1>c DEF Goto, RunningWrite, RunningSyncPull
<1>u. ASSUME UNCHANGED <<origin, gitVars>> PROVE UNCHANGED <<base, ahead, HeadTree>>
  BY <1>u DEF gitVars, HeadTree, BaseTree
<1>1. CASE StartWrite \/ StartSyncPull
  <2>1. UNCHANGED <<origin, gitVars>> /\ call.phase = "idle" /\ call'.phase \notin {"add", "commit"}
    BY <1>1 DEF StartWrite, StartSyncPull, NewCall, Idle, Respond
  <2> QED BY <2>1, <1>u, CleanUnchanged
<1>2. CASE CheckTree \/ WriteRefused \/ PushFails
  <2>1. UNCHANGED <<origin, gitVars>> /\ call.phase \in {"check", "write", "push"}
    BY <1>2 DEF CheckTree, WriteRefused, PushFails
  <2>2. call \in RunningWrite
    BY <2>1, CallCases DEF Idle
  <2>3. call'.phase \notin {"add", "commit"}
    <3>1. [call EXCEPT !.phase = "pull", !.pre = Before].phase = "pull"
      BY <2>2 DEF RunningWrite
    <3>2. CASE call' = [call EXCEPT !.phase = "pull", !.pre = Before]
      <4>1. call'.phase = "pull"
        BY <3>1, <3>2
      <4> QED BY <4>1
    <3>3. ASSUME NEW o, call' = [phase |-> "idle", outcome |-> o] PROVE call'.phase = "idle"
      BY <3>3
    <3> QED BY <1>2, <3>2, <3>3 DEF CheckTree, WriteRefused, PushFails, Respond
  <2> QED BY <2>1, <2>3, <1>u, CleanUnchanged
<1>3. CASE PullOk \/ PullFails
  <2>1. /\ call \in RunningWrite \cup RunningSyncPull /\ call.phase = "pull"
        /\ call'.phase \in {"idle", "write", "abort"} /\ origin' = origin
    BY <1>3, <1>c, CallCases DEF PullOk, PullFails, Idle, Respond
  <2>2. rebase = "none" /\ Files = wt /\ \A n \in Notes : wt[n] = HeadTree[n]
    BY <2>1 DEF CleanVault, Writing, Files
  <2>3. CASE UNCHANGED gitVars
    BY <2>1, <2>3, <1>u, CleanUnchanged
  <2>4. CASE PullOk /\ ~UNCHANGED gitVars
    <3>1. PICK C \in SUBSET MayClash(Replay(HeadTree)) :
             wt' = Reapply(wt, Replay(HeadTree), C) /\ unmerged' = C
      BY <2>4 DEF PullOk, GitPull
    <3>2. Edited(wt) = {} /\ \A n \in Notes : ~Untracked(wt, n)
      BY <2>2 DEF Edited, Untracked
    <3>3. unmerged' = {}
      BY <3>1, <3>2 DEF MayClash
    <3>4. \A n \in Notes : wt'[n] = Replay(HeadTree)[n]
      BY <3>1, <3>2 DEF Reapply
    <3>5. rebase' = "none" /\ ~lock' /\ Rebased
      BY <2>1, <2>2, <2>4 DEF PullOk, GitPull, CleanVault, Rebased
    <3>6. Files' = wt' /\ HeadTree' = Replay(HeadTree)
      BY <3>5, RebasedRefs DEF Files
    <3> QED BY <2>1, <3>3, <3>4, <3>5, <3>6, CleanMade
  <2>5. CASE PullFails /\ ~UNCHANGED gitVars
    <3>1. /\ rebase' = "stopped" /\ Files' = wt /\ HeadTree' = HeadTree /\ lock' = lock
          /\ call'.phase = "abort"
      BY <1>c, <2>1, <2>5 DEF PullFails, GitPullStops, Files, HeadTree, BaseTree
    <3> QED BY <2>2, <3>1 DEF CleanVault
  <2> QED BY <1>3, <2>3, <2>4, <2>5
<1>4. CASE AbortRebase
  <2>1. /\ wt' = Files /\ rebase' = "none" /\ unmerged' = {} /\ ~lock'
        /\ UNCHANGED <<origin, base, ahead>> /\ call'.phase = "idle"
    BY <1>4 DEF AbortRebase, GitRebaseAbort, Respond, gitVars, Files, CleanVault
  <2>2. \A n \in Notes : Files[n] = HeadTree[n]
    BY <1>4 DEF AbortRebase, CleanVault, Writing
  <2>3. Files' = wt' /\ HeadTree' = HeadTree
    BY <2>1 DEF Files, HeadTree, BaseTree
  <2> QED BY <2>1, <2>2, <2>3, CleanMade
<1>5. CASE WriteFile
  <2>1. call \in RunningWrite /\ call.note \in Notes /\ call.mode \in Modes
    BY <1>5, CallCases, VaultAssumption DEF WriteFile, Idle, RunningWrite
  <2>2. /\ call'.phase = "add" /\ call'.note = call.note /\ call'.mode = call.mode
        /\ UNCHANGED <<origin, base, ahead, unmerged, rebase, lock>>
    BY <1>5, <2>1 DEF WriteFile, RunningWrite
  <2>3. rebase = "none" /\ Files = wt /\ \A n \in Notes : wt[n] = HeadTree[n]
    BY <1>5 DEF WriteFile, CleanVault, VaultInv, WriteClear, Writing, Files
  <2>4. HeadTree' = HeadTree /\ Files' = wt'
    BY <2>2, <2>3 DEF HeadTree, BaseTree, Files
  <2> DEFINE w == [by |-> "bridge", note |-> call'.note, mode |-> call'.mode,
                   piece |-> call'.piece, tree |-> wt']
  <2>5. /\ \A n \in Notes \ {call.note} : wt'[n] = wt[n]
        /\ wt'[call.note] = IF call.mode = "append" THEN wt[call.note] \cup {call'.piece}
                            ELSE {call'.piece}
        /\ call.mode = "create" => wt[call.note] = {}
    BY <1>5, <2>1 DEF WriteFile, TypeOK, GitOK, Tree
  <2>6. MessageTellsTruth(HeadTree, w)
    BY <2>1, <2>2, <2>3, <2>5 DEF MessageTellsTruth, Modes
  <2> HIDE DEF w
  <2>7. \A n \in Notes : Files'[n] = HeadTree'[n] \/ Writing(n)'
    BY <2>2, <2>3, <2>4, <2>5 DEF Writing
  <2> QED BY <2>2, <2>3, <2>4, <2>6, <2>7 DEF CleanVault, w
<1>6. CASE AddFile
  <2>1. call \in RunningWrite /\ ~lock
    BY <1>6, CallCases DEF AddFile, Idle, CleanVault
  <2>2. /\ GitAdd(call.note) /\ origin' = origin /\ call'.phase = "commit"
        /\ call'.note = call.note /\ call'.mode = call.mode /\ call'.piece = call.piece
    BY <1>6, <2>1, <1>c DEF AddFile
  <2>3. rebase = "none" /\ unmerged = {}
    BY <1>6 DEF AddFile, VaultInv, WriteClear, CleanVault
  <2>4. UNCHANGED <<wt, rebase, lock, unmerged, HeadTree, Files>>
    BY <2>2, <2>3 DEF GitAdd, HeadTree, BaseTree, Files
  <2>5. \A n \in Notes : Writing(n) => Writing(n)'
    BY <1>6, <2>2 DEF Writing, AddFile
  <2> QED BY <1>6, <2>2, <2>3, <2>4, <2>5 DEF CleanVault, AddFile
<1>7. CASE CommitFile
  <2>1. /\ call \in RunningWrite /\ call.note \in Notes
        /\ ~lock /\ rebase = "none" /\ unmerged = {} /\ Files = wt
    BY <1>7, CallCases, VaultAssumption
       DEF CommitFile, Idle, CleanVault, VaultInv, WriteClear, RunningWrite, Files
  <2>2. \A n \in Notes \ {call.note} : wt[n] = HeadTree[n]
    BY <1>7, <2>1 DEF CleanVault, Writing
  <2>3. CASE wt[call.note] = HeadTree[call.note]
    <3>1. UNCHANGED <<origin, gitVars>> /\ call'.phase = "idle"
      BY <1>7, <2>3 DEF CommitFile, Respond
    <3>2. UNCHANGED <<wt, rebase, lock, unmerged, HeadTree, Files>>
      BY <3>1, <1>u DEF gitVars, Files
    <3> QED BY <2>1, <2>2, <2>3, <3>1, <3>2, CleanMade
  <2>4. CASE wt[call.note] # HeadTree[call.note]
    <3>1. GitCommit(call.note) /\ origin' = origin /\ call'.phase = "push"
      BY <1>7, <1>c, <2>1, <2>4 DEF CommitFile
    <3>2. HeadTree' = [HeadTree EXCEPT ![call.note] = wt[call.note]]
      BY <1>7, <2>1, <3>1, CommittedRefs DEF Committed, CommitFile, GitCommit
    <3>3. UNCHANGED <<wt, rebase, lock, unmerged, Files>>
      BY <3>1 DEF GitCommit, Files
    <3>4. \A n \in Notes : wt[n] = HeadTree'[n]
      BY <2>1, <2>2, <3>2, TreeTypes DEF TypeOK, Tree
    <3> QED BY <2>1, <3>1, <3>3, <3>4, CleanMade
  <2> QED BY <2>3, <2>4
<1>8. CASE PushOk
  <2>1. UNCHANGED <<wt, rebase, lock, unmerged, HeadTree, Files>> /\ call'.phase = "idle"
    BY <1>8, PushRefs DEF PushOk, GitPush, Respond, Files
  <2>2. rebase = "none" /\ \A n \in Notes : Files[n] = HeadTree[n]
    BY <1>8 DEF PushOk, CleanVault, VaultInv, WriteClear, Writing
  <2> QED BY <2>1, <2>2, CleanMade DEF CleanVault
<1>9. CASE PcPush \/ UNCHANGED vars
  <2>1. UNCHANGED <<call, wt, rebase, lock, unmerged, HeadTree, Files>>
    BY <1>9, PcRefs DEF PcPush, gitVars, vars, Files, HeadTree, BaseTree
  <2> QED BY <2>1 DEF CleanVault, Writing
<1>10. CASE CronPull
  <2>1. UNCHANGED <<call, rebase, lock, unmerged>> /\ rebase = "none" /\ Files = wt /\ Files' = wt'
    BY <1>10 DEF CronPull, Pullable, Files
  <2>2. \A n \in Notes :
           \/ /\ Files[n] # HeadTree[n] /\ Files'[n] = Files[n]
              /\ HeadTree'[n] = HeadTree[n]
           \/ Files[n] = HeadTree[n] /\ Files'[n] = HeadTree'[n]
    BY <1>10, CronEdits DEF VaultInv
  <2>3. \A n \in Notes : Files'[n] = HeadTree'[n] \/ Writing(n)'
    BY <2>1, <2>2 DEF CleanVault, Writing
  <2>4. ASSUME call'.phase \in {"add", "commit"}, wt'[call'.note] # HeadTree'[call'.note]
        PROVE  MessageTellsTruth(HeadTree', [by |-> "bridge", note |-> call.note,
                                 mode |-> call.mode, piece |-> call.piece, tree |-> wt'])
    <3> DEFINE w == [by |-> "bridge", note |-> call.note, mode |-> call.mode,
                     piece |-> call.piece, tree |-> wt]
               v == [by |-> "bridge", note |-> call.note, mode |-> call.mode,
                     piece |-> call.piece, tree |-> wt']
    <3>1. call.note \in Notes
      BY <2>1, <2>4, CallCases, VaultAssumption DEF Idle, RunningWrite
    <3>2. wt[call.note] # HeadTree[call.note] /\ wt'[call.note] = wt[call.note]
          /\ HeadTree'[call.note] = HeadTree[call.note]
      BY <2>1, <2>2, <2>4, <3>1
    <3>3. MessageTellsTruth(HeadTree, w)
      BY <2>1, <2>4, <3>2 DEF CleanVault
    <3>4. /\ v.by = w.by /\ v.note = w.note /\ v.mode = w.mode /\ v.piece = w.piece
          /\ HeadTree'[w.note] = HeadTree[w.note] /\ v.tree[w.note] = w.tree[w.note]
      BY <3>2
    <3>5. MessageTellsTruth(HeadTree', v)
      <4> HIDE DEF v, w
      <4> QED BY <3>3, <3>4, SameTruth
    <3> QED BY <3>5
  <2> QED BY <2>1, <2>3, <2>4 DEF CleanVault
<1>11. CASE HumanResolves \/ HumanFinishes \/ HumanCleans
  BY <1>11 DEF HumanResolves, HumanFinishes, HumanCleans, Idle, CleanVault
<1> QED
  BY <1>1, <1>2, <1>3, <1>4, <1>5, <1>6, <1>7, <1>8, <1>9, <1>10, <1>11
     DEF Next, BridgeStep, Environment, Faulty

LEMMA OneCommitStep ==
    ASSUME TypeOK, LocalTruth, [Next]_vars,
           \A i \in 2..Len(origin) : MessageTellsTruth(origin[i-1].tree, origin[i])
    PROVE  \A i \in 2..Len(origin') : MessageTellsTruth(origin'[i-1].tree, origin'[i])
<1>1. /\ Len(ahead) \in Nat /\ Len(origin) \in Nat /\ base \in 1..Len(origin)
  BY LenProperties DEF TypeOK, GitOK
<1>2. CASE UNCHANGED origin
  BY <1>2
<1>3. CASE PcPush
  <2>1. /\ Len(origin') = Len(origin) + 1
        /\ \A i \in 1..Len(origin) : origin'[i] = origin[i]
        /\ origin'[Len(origin) + 1].by = "pc"
    BY <1>3, PcPushTypes
  <2> TAKE i \in 2..Len(origin')
  <2>2. CASE i <= Len(origin)
    <3>1. i \in 2..Len(origin) /\ i \in 1..Len(origin) /\ i - 1 \in 1..Len(origin)
      BY <1>1, <2>2
    <3> QED BY <2>1, <3>1
  <2>3. CASE i = Len(origin) + 1
    BY <2>1, <2>3 DEF MessageTellsTruth
  <2> QED BY <1>1, <2>1, <2>2, <2>3
<1>4. CASE GitPush
  <2>1. /\ base = Len(origin) /\ Len(origin') = Len(origin) + Len(ahead)
        /\ \A i \in 1..Len(origin) : origin'[i] = origin[i]
        /\ \A i \in 1..Len(ahead) : origin'[Len(origin) + i] = ahead[i]
    BY <1>4, PushTypes
  <2>2. \A k \in 1..Len(ahead) : MessageTellsTruth(Parent(k), ahead[k])
    BY DEF LocalTruth
  <2> TAKE i \in 2..Len(origin')
  <2>3. CASE i <= Len(origin)
    <3>1. i \in 2..Len(origin) /\ i \in 1..Len(origin) /\ i - 1 \in 1..Len(origin)
      BY <1>1, <2>3
    <3> QED BY <2>1, <3>1
  <2>4. CASE i > Len(origin)
    <3>1. PICK k \in 1..Len(ahead) : i = Len(origin) + k
      <4>1. i - Len(origin) \in 1..Len(ahead) /\ i = Len(origin) + (i - Len(origin))
        BY <1>1, <2>1, <2>4
      <4> QED BY <4>1
    <3>2. origin'[i-1].tree = Parent(k)
      <4>1. CASE k = 1
        <5>1. i - 1 = Len(origin) /\ Len(origin) \in 1..Len(origin)
          BY <1>1, <3>1, <4>1
        <5> QED BY <2>1, <4>1, <5>1 DEF Parent, BaseTree
      <4>2. CASE k # 1
        <5>1. k - 1 \in 1..Len(ahead) /\ i - 1 = Len(origin) + (k - 1)
          BY <1>1, <3>1, <4>2
        <5> QED BY <2>1, <4>2, <5>1 DEF Parent
      <4> QED BY <4>1, <4>2
    <3> QED BY <2>1, <2>2, <3>1, <3>2
  <2> QED BY <1>1, <2>3, <2>4
<1> QED BY <1>2, <1>3, <1>4, HistorySteps DEF Rebased, Committed

LEMMA InitFaultless == Init => FaultlessInv /\ OneCommitPerWrite
<1> SUFFICES ASSUME Init PROVE FaultlessInv /\ OneCommitPerWrite
  OBVIOUS
<1>1. PICK tree \in [Notes -> {{}, {PcPiece(0)}}] :
         /\ origin = <<[by |-> "pc", note |-> CHOOSE n \in Notes : TRUE,
                        mode |-> "overwrite", piece |-> PcPiece(0), tree |-> tree]>>
         /\ wt = tree
  BY DEF Init
<1>2. Len(origin) = 1 /\ base = 1 /\ ahead = <<>> /\ Len(ahead) = 0
  BY <1>1, EmptySeq DEF Init
<1>3. Files = tree /\ HeadTree = tree
  BY <1>1, <1>2 DEF Init, Files, BaseTree, HeadTree
<1>4. CleanVault
  BY <1>3 DEF Init, CleanVault
<1> QED BY <1>2, <1>4 DEF FaultlessInv, LocalTruth, OneCommitPerWrite

LEMMA NextFaultless ==
    ASSUME TypeOK, VaultInv, FaultlessInv, OneCommitPerWrite, [Next]_vars
    PROVE  FaultlessInv' /\ OneCommitPerWrite'
<1> SUFFICES ASSUME used'.faults = 0
             PROVE  CleanVault' /\ LocalTruth' /\ OneCommitPerWrite'
  BY DEF FaultlessInv, OneCommitPerWrite
<1>1. used.faults = 0 /\ ~Faulty
  BY UsedSteps
<1>2. CleanVault /\ LocalTruth
  BY <1>1 DEF FaultlessInv
<1>3. CleanVault' /\ LocalTruth'
  BY <1>1, <1>2, CleanVaultStep, LocalTruthStep
<1>4. \A i \in 2..Len(origin) : MessageTellsTruth(origin[i-1].tree, origin[i])
  BY <1>1 DEF OneCommitPerWrite
<1>5. \A i \in 2..Len(origin') : MessageTellsTruth(origin'[i-1].tree, origin'[i])
  BY <1>2, <1>4, OneCommitStep
<1> QED BY <1>3, <1>5 DEF OneCommitPerWrite, MessageTellsTruth

\* "Un commit per write": as long as no git command or write of the vault fails or times
\* out and the service does not die, every commit of the bridge that reaches the origin
\* contains its own write and no other, however many were kept back by rejected pushes and
\* rebased onto the PC's.
THEOREM CommitsTellTruth == Spec => []OneCommitPerWrite
<1>1. TypeOK /\ VaultInv /\ FaultlessInv /\ OneCommitPerWrite /\ [Next]_vars =>
        FaultlessInv' /\ OneCommitPerWrite'
  BY NextFaultless
<1> QED BY <1>1, InitVaultInv, NextVaultInv, InitFaultless, VaultTypeOK, PTL DEF Spec
=============================================================================
