----------------------------- MODULE NotesVault -----------------------------
(***************************************************************************)
(* The notes_* tools (src/src/devbox_bridge/tools/notes.py): a git working *)
(* copy of the vault, written by the bridge on behalf of one client, whose *)
(* origin is also pushed to from a PC.  notes_write is a sequence of git   *)
(* commands; each can be refused, can fail or time out after having done   *)
(* its work or not, the note can be written in part, and the service can   *)
(* die between any two of them.                                            *)
(*                                                                         *)
(* The text of a note is the set of pieces written to it: a piece is what  *)
(* one write contributed, the k-th copy of it if it was appended k times.  *)
(* The empty text stands for a note that is not there; the 0th copy of a   *)
(* content for the part of it, perhaps nothing, that a write cut short     *)
(* left in the note.  A commit carries the whole tree, as in git.  The     *)
(* HEAD of the vault is origin[1..base] followed by the commits of `ahead`. *)
(***************************************************************************)
EXTENDS Naturals, Sequences, FiniteSets

CONSTANTS
    Notes,        \* the .md paths of the vault
    Writable,     \* those under NOTES_WRITE_DIRS
    Ids,          \* the contents clients write
    Pc,           \* the author of the pieces written from the PC
    Mark,         \* git's conflict markers, a piece of a conflicted text
    MaxCalls,     \* bound: tool calls a client makes
    MaxEdits,     \* bound: commits pushed from the PC
    MaxFaults     \* bound: commands and writes that fail or time out, crashes

ASSUME VaultAssumption ==
    /\ Writable \subseteq Notes /\ Notes # {}
    /\ Pc \notin Ids /\ Mark \notin Ids /\ Pc # Mark
    /\ MaxCalls \in Nat /\ MaxEdits \in Nat /\ MaxFaults \in Nat

Piece == [src : Ids \cup {Pc, Mark}, k : Nat]
Text == {t \in SUBSET Piece : IsFiniteSet(t)}
Tree == [Notes -> Text]
Modes == {"create", "overwrite", "append"}
Commit == [by : {"pc", "bridge"}, note : Notes, mode : Modes, piece : Piece, tree : Tree]

Marker == [src |-> Mark, k |-> 0]
PcPiece(k) == [src |-> Pc, k |-> k]

Phases == {"check", "pull", "abort", "write", "add", "commit", "push"}
Outcomes == {"none", "ok", "denied", "file_error", "sync_error", "os_error", "lost"}

VARIABLES
    origin,    \* the commits of the branch on the origin
    base,      \* how many of them the vault's HEAD contains
    ahead,     \* the vault's commits that the origin does not have
    wt,        \* the files of the working tree
    added,     \* new files in the index, not yet committed
    unmerged,  \* paths with conflict stages in the index
    rebase,    \* "none", "stopped" on a conflict, "resolved" by hand but not continued
    saved,     \* the working tree a `rebase --abort` goes back to
    lock,      \* a stale .git/index.lock
    call,      \* the tool call in progress, or the last one
    acked,     \* auxiliary: the writes reported successful
    used       \* the budgets spent

gitVars == <<base, ahead, wt, added, unmerged, rebase, saved, lock>>
vars == <<origin, gitVars, call, acked, used>>

--------------------------------------------------------------------------
(* Trees and refs.                                                        *)

OriginTree == origin[Len(origin)].tree
BaseTree == origin[base].tree
HeadTree == IF ahead = <<>> THEN BaseTree ELSE ahead[Len(ahead)].tree

Untracked(files, n) == HeadTree[n] = {} /\ files[n] # {} /\ n \notin added
Behind == base < Len(origin)

\* Two changes of a text can merge when both only added to it; git may still
\* see overlapping hunks.
Mergeable(from, ours, theirs) ==
    from # {} /\ from \subseteq ours /\ from \subseteq theirs

\* Notes changed on both sides since the merge base, by whichever local commit, and
\* those of them no replay can merge.
LocalTexts(n) == {ahead[i].tree[n] : i \in DOMAIN ahead}
Diverged == {n \in Notes : /\ OriginTree[n] # BaseTree[n]
                           /\ LocalTexts(n) \ {BaseTree[n], OriginTree[n]} # {}}
MustConflict == {n \in Diverged : \E t \in LocalTexts(n) :
                                     ~Mergeable(BaseTree[n], t, OriginTree[n])}

\* The tree of a local commit once replayed on the origin's tip.
Replay(tree) ==
    [n \in Notes |-> IF OriginTree[n] = BaseTree[n] THEN tree[n]
                     ELSE IF tree[n] = BaseTree[n] THEN OriginTree[n]
                     ELSE tree[n] \cup OriginTree[n]]
Replayed == [i \in DOMAIN ahead |-> [ahead[i] EXCEPT !.tree = Replay(ahead[i].tree)]]

\* The uncommitted texts among `files`: what autostash carries over a pull.
Edited(files) ==
    {n \in Notes : files[n] # HeadTree[n] /\ (HeadTree[n] # {} \/ n \in added)}

\* `files` with its edits carried over to HEAD tree `new`, those in C conflicting.
Reapply(files, new, C) ==
    [n \in Notes |->
        IF n \notin Edited(files) THEN IF Untracked(files, n) THEN files[n] ELSE new[n]
        ELSE IF new[n] = HeadTree[n] THEN files[n]
        ELSE files[n] \cup new[n]
             \cup (IF n \in C /\ new[n] # {} THEN {Marker} ELSE {})]

\* The edits that can, and those that must, conflict when re-applied to `new`.
MayClash(new) == {n \in Edited(wt) : new[n] \notin {HeadTree[n], wt[n]}}
MustClash(new) == {n \in MayClash(new) : ~Mergeable(HeadTree[n], wt[n], new[n])}

--------------------------------------------------------------------------
(* The git commands the tools run, by their effect on the vault.  Git is   *)
(* not part of the repository: these are modelled from what the arguments  *)
(* notes.py gives it do (git 2.39).                                        *)

\* A pull that has something to bring in, and no reason to refuse at once.
Pullable == /\ unmerged = {} /\ rebase = "none" /\ Behind /\ ~lock
            /\ \A n \in Notes : Untracked(wt, n) => OriginTree[n] = {}

\* `pull --rebase --autostash` exits 0 - also when re-applying the autostash
\* conflicts: the stash is kept and the index is left with unmerged paths.
GitPull ==
    \/ /\ unmerged = {} /\ rebase = "none" /\ ~Behind
       /\ UNCHANGED gitVars
    \/ /\ Pullable /\ MustConflict = {}
       /\ base' = Len(origin)
       /\ ahead' = Replayed
       /\ \E C \in SUBSET MayClash(Replay(HeadTree)) :
             /\ MustClash(Replay(HeadTree)) \subseteq C
             /\ wt' = Reapply(wt, Replay(HeadTree), C)
             /\ unmerged' = C
       /\ added' = {n \in added : Replay(HeadTree)[n] = {}}
       /\ UNCHANGED <<rebase, saved, lock>>

\* ... stops in the middle of replaying the local commits: exit 1.
GitPullStops ==
    /\ Pullable
    /\ \E n \in Diverged :
          /\ wt' = [Replay(HeadTree) EXCEPT ![n] = @ \cup {Marker}]
          /\ unmerged' = {n}
    /\ rebase' = "stopped"
    /\ saved' = wt
    /\ UNCHANGED <<base, ahead, added, lock>>

\* For a mutant: the failed pull is undone with a hard reset to the upstream.
GitResetToUpstream ==
    /\ base' = Len(origin) /\ ahead' = <<>> /\ wt' = OriginTree
    /\ added' = {} /\ unmerged' = {} /\ rebase' = "none"
    /\ saved' = [n \in Notes |-> {}]
    /\ UNCHANGED lock

\* `rebase --abort`: back to the branch and to the stashed edits, or exit 128.
GitRebaseAbort ==
    IF rebase = "none" THEN UNCHANGED gitVars
    ELSE /\ wt' = saved
         /\ saved' = [n \in Notes |-> {}]
         /\ rebase' = "none"
         /\ unmerged' = {}
         /\ UNCHANGED <<base, ahead, added, lock>>

\* `add -- <rel>` also marks a conflicted path as resolved.
GitAdd(n) ==
    /\ ~lock
    /\ added' = IF HeadTree[n] = {} THEN added \cup {n} ELSE added
    /\ unmerged' = unmerged \ {n}
    /\ UNCHANGED <<base, ahead, wt, rebase, saved, lock>>

\* For a mutant: `commit` without a pathspec takes the whole index.
GitCommitIndex(n) ==
    /\ ~lock
    /\ wt[n] # HeadTree[n]
    /\ ahead' = Append(ahead, [by |-> "bridge", note |-> n, mode |-> call.mode,
                               piece |-> call.piece,
                               tree |-> [m \in Notes |-> IF m \in added \cup {n} THEN wt[m]
                                                         ELSE HeadTree[m]]])
    /\ added' = {}
    /\ UNCHANGED <<base, wt, unmerged, rebase, saved, lock>>

\* `commit -- <rel>` takes that path alone, whatever else is staged or unmerged.
GitCommit(n) ==
    /\ ~lock
    /\ wt[n] # HeadTree[n]
    /\ ahead' = Append(ahead, [by |-> "bridge", note |-> n, mode |-> call.mode,
                               piece |-> call.piece,
                               tree |-> [HeadTree EXCEPT ![n] = wt[n]]])
    /\ added' = added \ {n}
    /\ UNCHANGED <<base, wt, unmerged, rebase, saved, lock>>

\* For a mutant: `push --force`.
GitPushForced ==
    /\ origin' = SubSeq(origin, 1, base) \o ahead
    /\ base' = base + Len(ahead)
    /\ ahead' = <<>>
    /\ UNCHANGED <<wt, added, unmerged, rebase, saved, lock>>

\* `push origin HEAD:<branch>`, never forced: the origin only fast-forwards.
GitPush ==
    /\ ~Behind
    /\ origin' = origin \o ahead
    /\ base' = Len(origin) + Len(ahead)
    /\ ahead' = <<>>
    /\ UNCHANGED <<wt, added, unmerged, rebase, saved, lock>>

\* A killed git leaves its lock on the index behind.
LockLeft == lock' = TRUE /\ UNCHANGED <<base, ahead, wt, added, unmerged, rebase, saved>>

--------------------------------------------------------------------------
(* notes_write and notes_sync_pull.                                        *)

NoPre == [edits |-> {}, ahead |-> <<>>]

\* The owner's and the bridge's files: those a stopped rebase has put aside, if there is
\* one; and those of them that are not committed.
Files == IF rebase = "none" THEN wt ELSE saved
KeptEdits == {<<n, Files[n]>> : n \in {m \in Notes : Files[m] # HeadTree[m]}}

\* The vault as a pull finds it, remembered to judge what a refusal leaves.
Before == [edits |-> KeptEdits, ahead |-> ahead]

Respond(o) == call' = [phase |-> "idle", outcome |-> o]
Goto(p) == call' = [call EXCEPT !.phase = p]

Idle == call.phase = "idle"
NewCall ==
    /\ Idle /\ used.calls < MaxCalls
    /\ used' = [used EXCEPT !.calls = @ + 1]
    /\ UNCHANGED <<origin, gitVars, acked>>

\* Mutant: the whitelist of write dirs is not consulted.
StartWriteAnywhere ==
    /\ NewCall
    /\ \E n \in Notes, mode \in Modes, id \in Ids :
          call' = [phase |-> "check", op |-> "write", note |-> n, mode |-> mode,
                   piece |-> [src |-> id, k |-> 1], pre |-> NoPre]

\* notes_write is called: only .md paths under the write dirs get past _resolve_md
\* and the whitelist.
StartWrite ==
    /\ NewCall
    /\ \E n \in Notes, mode \in Modes, id \in Ids :
          IF n \in Writable
          THEN call' = [phase |-> "check", op |-> "write", note |-> n, mode |-> mode,
                        piece |-> [src |-> id, k |-> 1], pre |-> NoPre]
          ELSE Respond("denied")

\* notes_sync_pull is called; it pulls without looking at the tree first.
StartSyncPull ==
    /\ NewCall
    /\ call' = [phase |-> "pull", op |-> "sync_pull", pre |-> Before]

\* _ensure_tree_not_conflicted
CheckTree ==
    /\ call.phase = "check"
    /\ IF rebase # "none" \/ unmerged # {} THEN Respond("sync_error")
       ELSE call' = [call EXCEPT !.phase = "pull", !.pre = Before]
    /\ UNCHANGED <<origin, gitVars, acked, used>>

\* _pull_rebase, when git pull exits 0.
PullOk ==
    /\ call.phase = "pull"
    /\ GitPull
    /\ IF call.op = "write" THEN Goto("write") ELSE Respond("ok")
    /\ UNCHANGED <<origin, acked, used>>

\* git pull exits with an error: refused at once, or stopped in a rebase.
PullFails ==
    /\ call.phase = "pull"
    /\ UNCHANGED gitVars \/ GitPullStops
    /\ Goto("abort")
    /\ UNCHANGED <<origin, acked, used>>

\* Mutant: the failed pull is reported and the rebase left as it stopped.
ReportOnly ==
    /\ call.phase = "abort"
    /\ Respond("sync_error")
    /\ UNCHANGED <<origin, gitVars, acked, used>>

\* Mutant: the pull is tried again until it works.
AbortAndRetry ==
    /\ call.phase = "abort"
    /\ GitRebaseAbort
    /\ Goto("pull")
    /\ UNCHANGED <<origin, acked, used>>

\* Mutant: the vault is reset to its upstream instead.
ResetToUpstream ==
    /\ call.phase = "abort"
    /\ GitResetToUpstream
    /\ Respond("sync_error")
    /\ UNCHANGED <<origin, acked, used>>

\* _pull_rebase undoes what the failed pull left, and raises; CommandErrs is the
\* abort that fails, whose exit code nobody looks at.
AbortRebase ==
    /\ call.phase = "abort"
    /\ GitRebaseAbort
    /\ Respond("sync_error")
    /\ UNCHANGED <<origin, acked, used>>

\* mode=create finds the note already there.
WriteRefused ==
    /\ call.phase = "write"
    /\ call.mode = "create" /\ wt[call.note] # {}
    /\ Respond("file_error")
    /\ UNCHANGED <<origin, gitVars, acked, used>>

\* The next copy of a content in a text.
NextCopy(n, id) == 1 + Cardinality({p \in wt[n] : p.src = id})

\* Mutant: mode=create does not look whether the note exists.
WriteFileBlindly ==
    /\ call.phase = "write"
    /\ call' = [call EXCEPT !.phase = "add",
                !.piece.k = IF call.mode = "append" THEN NextCopy(call.note, call.piece.src) ELSE 1]
    /\ wt' = [wt EXCEPT ![call.note] =
                 IF call.mode = "append" THEN @ \cup {call'.piece} ELSE {call'.piece}]
    /\ UNCHANGED <<origin, base, ahead, added, unmerged, rebase, saved, lock, acked, used>>

WriteFile ==
    /\ call.phase = "write"
    /\ call.mode = "create" => wt[call.note] = {}
    /\ call' = [call EXCEPT !.phase = "add",
                !.piece.k = IF call.mode = "append" THEN NextCopy(call.note, call.piece.src) ELSE 1]
    /\ wt' = [wt EXCEPT ![call.note] =
                 IF call.mode = "append" THEN @ \cup {call'.piece} ELSE {call'.piece}]
    /\ UNCHANGED <<origin, base, ahead, added, unmerged, rebase, saved, lock, acked, used>>

\* git add; here and below a stale lock is what always makes it fail, CommandErrs
\* whatever else does.
AddFile ==
    /\ call.phase = "add"
    /\ IF lock THEN Respond("sync_error") /\ UNCHANGED gitVars
       ELSE Goto("commit") /\ GitAdd(call.note)
    /\ UNCHANGED <<origin, acked, used>>

\* Mutant: the commit does not name its path.
CommitAll ==
    /\ call.phase = "commit"
    /\ IF lock \/ wt[call.note] = HeadTree[call.note]
       THEN Respond("sync_error") /\ UNCHANGED gitVars
       ELSE Goto("push") /\ GitCommitIndex(call.note)
    /\ UNCHANGED <<origin, acked, used>>

\* git commit, rev-parse HEAD and symbolic-ref; with nothing to commit git exits 1.
CommitFile ==
    /\ call.phase = "commit"
    /\ IF lock \/ wt[call.note] = HeadTree[call.note]
       THEN Respond("sync_error") /\ UNCHANGED gitVars
       ELSE Goto("push") /\ GitCommit(call.note)
    /\ UNCHANGED <<origin, acked, used>>

\* Mutant: the exit code of the push is not looked at.
PushUnchecked ==
    /\ call.phase = "push"
    /\ GitPush \/ UNCHANGED <<origin, gitVars>>
    /\ acked' = acked \cup {[note |-> call.note, piece |-> call.piece]}
    /\ Respond("ok")
    /\ UNCHANGED used

\* Mutant: the push is forced.
PushForced ==
    /\ call.phase = "push"
    /\ GitPushForced
    /\ acked' = acked \cup {[note |-> call.note, piece |-> call.piece]}
    /\ Respond("ok")
    /\ UNCHANGED used

PushOk ==
    /\ call.phase = "push"
    /\ GitPush
    /\ acked' = acked \cup {[note |-> call.note, piece |-> call.piece]}
    /\ Respond("ok")
    /\ UNCHANGED used

\* The push is rejected, or the origin is unreachable: the commit stays local.
PushFails ==
    /\ call.phase = "push"
    /\ Respond("sync_error")
    /\ UNCHANGED <<origin, gitVars, acked, used>>

BridgeStep == CheckTree \/ PullOk \/ PullFails \/ AbortRebase \/ WriteRefused \/ WriteFile
              \/ AddFile \/ CommitFile \/ PushOk \/ PushFails

--------------------------------------------------------------------------
(* Faults.  A command fails, having done its work or not; or _run_git      *)
(* kills it after GIT_TIMEOUT_SECONDS and raises, whatever it had done; a  *)
(* pull that times out is not aborted.  Writing the note fails.  Or the    *)
(* service dies, and systemd restarts it.                                  *)

Fault == used.faults < MaxFaults /\ used' = [used EXCEPT !.faults = @ + 1]

\* What the commands of the phase in progress have done when the tool gives up on them.
ErredWork ==
    \/ UNCHANGED <<origin, gitVars>>
    \/ call.phase = "pull" /\ (GitPull \/ GitPullStops) /\ UNCHANGED origin
    \/ call.phase = "abort" /\ GitRebaseAbort /\ UNCHANGED origin
    \/ call.phase = "add" /\ GitAdd(call.note) /\ UNCHANGED origin
    \/ call.phase = "commit" /\ GitCommit(call.note) /\ UNCHANGED origin
    \/ call.phase = "push" /\ GitPush

\* A command exits with an error - the index locked by another git, a full disk, a hook,
\* no identity; rev-parse after the commit - or its output cannot be decoded.  An abort
\* that fails is no more than passed over.
CommandErrs ==
    /\ call.phase \notin {"idle", "write"}
    /\ Fault
    /\ ErredWork
    /\ Respond("sync_error")
    /\ UNCHANGED acked

Timeout ==
    /\ call.phase \notin {"idle", "write"}
    /\ Fault
    /\ \/ ErredWork
       \/ call.phase \in {"add", "commit"} /\ LockLeft /\ UNCHANGED origin
    /\ Respond("sync_error")
    /\ UNCHANGED acked

\* The note has been truncated or opened, and only part of the content written.
CutShort ==
    /\ call.phase = "write"
    /\ call.mode = "create" => wt[call.note] = {}
    /\ wt' = [wt EXCEPT ![call.note] = (IF call.mode = "append" THEN @ ELSE {})
                                       \cup {[call.piece EXCEPT !.k = 0]}]
    /\ UNCHANGED <<base, ahead, added, unmerged, rebase, saved, lock>>

\* mkdir, open or write raises: a full disk, a permission, a file in the way.
WriteErrs ==
    /\ call.phase = "write"
    /\ Fault
    /\ UNCHANGED gitVars \/ CutShort
    /\ Respond("os_error")
    /\ UNCHANGED <<origin, acked>>

Crash ==
    /\ ~Idle
    /\ Fault
    /\ \/ UNCHANGED gitVars
       \/ call.phase \in {"pull", "add", "commit"} /\ LockLeft
       \/ CutShort
    /\ Respond("lost")
    /\ UNCHANGED <<origin, acked>>

--------------------------------------------------------------------------
(* The other users of the repository.                                      *)

\* From the PC: a note is edited, replaced, added or deleted, and pushed.
PcPush ==
    /\ used.edits < MaxEdits
    /\ used' = [used EXCEPT !.edits = @ + 1]
    /\ \E n \in Notes :
          \E t \in {OriginTree[n] \cup {PcPiece(used'.edits)}, {PcPiece(used'.edits)}, {}} :
             /\ t # OriginTree[n]
             /\ origin' = Append(origin, [by |-> "pc", note |-> n, mode |-> "overwrite",
                                          piece |-> PcPiece(used'.edits),
                                          tree |-> [OriginTree EXCEPT ![n] = t]])
    /\ UNCHANGED <<gitVars, call, acked>>

\* The pull-only cron job of the vault's owner fast-forwards a vault that has no
\* commits of its own, if no edit is in its way.
CronPull ==
    /\ Pullable /\ ahead = <<>> /\ MayClash(OriginTree) = {}
    /\ base' = Len(origin)
    /\ wt' = Reapply(wt, OriginTree, {})
    /\ added' = {n \in added : OriginTree[n] = {}}
    /\ UNCHANGED <<origin, ahead, unmerged, rebase, saved, lock, call, acked, used>>

\* "risolvere manualmente prima di scrivere": the owner edits the conflicted notes
\* of a stopped rebase, and later continues it (pulling again if need be).
Unmarked == [n \in Notes |-> IF n \in unmerged THEN wt[n] \ {Marker} ELSE wt[n]]

HumanResolves ==
    /\ rebase = "stopped" /\ Idle
    /\ rebase' = "resolved"
    /\ wt' = Unmarked
    /\ unmerged' = {}
    /\ UNCHANGED <<origin, base, ahead, added, saved, lock, call, acked, used>>

HumanFinishes ==
    /\ rebase = "resolved" /\ Idle
    /\ rebase' = "none"
    /\ base' = Len(origin)
    /\ ahead' = Replayed
    /\ wt' = Reapply(saved, Replay(HeadTree), {})
    /\ added' = {n \in added : Replay(HeadTree)[n] = {}}
    /\ saved' = [n \in Notes |-> {}]
    /\ UNCHANGED <<origin, unmerged, lock, call, acked, used>>

\* The owner cleans up what is neither: conflicted edits, a stale lock.
HumanCleans ==
    /\ rebase = "none" /\ Idle /\ (unmerged # {} \/ lock)
    /\ unmerged' = {}
    /\ lock' = FALSE
    /\ wt' = Unmarked
    /\ UNCHANGED <<origin, base, ahead, added, rebase, saved, call, acked, used>>

Environment == StartWrite \/ StartSyncPull \/ CommandErrs \/ Timeout \/ WriteErrs \/ Crash
               \/ PcPush \/ CronPull \/ HumanResolves \/ HumanFinishes \/ HumanCleans

Init ==
    /\ \E tree \in [Notes -> {{}, {PcPiece(0)}}] :
          /\ origin = <<[by |-> "pc", note |-> CHOOSE n \in Notes : TRUE,
                         mode |-> "overwrite", piece |-> PcPiece(0), tree |-> tree]>>
          /\ wt = tree
    /\ call = [phase |-> "idle", outcome |-> "none"]
    /\ base = 1
    /\ ahead = <<>>
    /\ added = {} /\ unmerged = {}
    /\ rebase = "none" /\ saved = [n \in Notes |-> {}]
    /\ lock = FALSE
    /\ acked = {}
    /\ used = [calls |-> 0, edits |-> 0, faults |-> 0]

Next == BridgeStep \/ Environment

Spec == Init /\ [][Next]_vars

\* Every git command ends within its timeout, so a call in progress goes on; nothing
\* obliges the client, the PC, the owner or a fault to act.
FairSpec == Spec /\ WF_vars(BridgeStep)
--------------------------------------------------------------------------
(* Properties.                                                             *)

\* A call is either answered, or running in some phase.
Answer == [phase : {"idle"}, outcome : Outcomes]
RebaseStates == {"none", "stopped", "resolved"}
Snapshot == [edits : SUBSET (Notes \X Text), ahead : Seq(Commit)]
RunningWrite ==
    [phase : Phases, op : {"write"}, note : Writable, mode : Modes,
     piece : [src : Ids, k : Nat], pre : Snapshot]
RunningSyncPull == [phase : {"pull", "abort"}, op : {"sync_pull"}, pre : Snapshot]

GitOK ==
    /\ base \in 1..Len(origin)
    /\ ahead \in Seq(Commit)
    /\ wt \in Tree /\ saved \in Tree
    /\ added \subseteq Notes /\ unmerged \subseteq Notes
    /\ rebase \in RebaseStates
    /\ lock \in BOOLEAN

\* The type invariant of the origin, the vault and the running call.  In particular
\* only notes under the write dirs are ever being written or acknowledged.
TypeOK ==
    /\ origin \in Seq(Commit)
    /\ GitOK
    /\ call \in Answer \cup RunningWrite \cup RunningSyncPull
    /\ acked \subseteq [note : Writable, piece : [src : Ids, k : Nat]]
    /\ used \in [calls : Nat, edits : Nat, faults : Nat]

\* Refinement: the published history only grows at its end, whatever fails, and a
\* success is reported only for a write that is in it (notes_write's return value).
Abstract == INSTANCE PublishedLog WITH log <- origin, acked <- acked
Published == Abstract!PubSpec

\* The commits of a history h preceded by tree t: each bridge commit is under the
\* write dirs and leaves every other note as it found it ("add -- rel", "commit -- rel").
TouchesItsNote(before, c) ==
    c.by = "bridge" =>
        /\ c.note \in Writable
        /\ \A n \in Notes \ {c.note} : c.tree[n] = before[n]

\* Every commit of the bridge, published or waiting, also after it was rebased onto
\* commits of the PC, changes its own note only.
OneNotePerCommit ==
    /\ \A i \in 2..Len(origin) : TouchesItsNote(origin[i-1].tree, origin[i])
    /\ \A i \in 1..Len(ahead) :
          TouchesItsNote(IF i = 1 THEN BaseTree ELSE ahead[i-1].tree, ahead[i])

\* What a commit of the bridge does to its note is what its message says: a create
\* had no note to replace, an append kept all there was, and an overwrite left nothing
\* but its own text - and what the PC added meanwhile, when it could be merged.
MessageTellsTruth(before, c) ==
    c.by = "bridge" =>
        CASE c.mode = "create"    -> before[c.note] = {} /\ c.tree[c.note] = {c.piece}
          [] c.mode = "append"    -> c.tree[c.note] = before[c.note] \cup {c.piece}
          [] c.mode = "overwrite" -> /\ c.piece \in c.tree[c.note]
                                     /\ \A p \in c.tree[c.note] \ {c.piece} : p.src = Pc

\* "Un commit per write" (notes.py:24): a commit contains its own write and no other, also
\* when pushes were rejected and pulls rebased it, as long as no command or write of the
\* vault has failed, timed out or been cut by a crash.
OneCommitPerWrite ==
    used.faults = 0 =>
        \A i \in 2..Len(origin) : MessageTellsTruth(origin[i-1].tree, origin[i])

\* A commit kept by a failed push ("commit locale preservato", notes.py:324) is never
\* dropped: not by an aborted rebase, a crash, a timeout or a later call.
SameWrite(c, d) == c.note = d.note /\ c.piece = d.piece
PreservedCommitSurvives ==
    [][\A i \in DOMAIN ahead :
          \/ \E j \in DOMAIN ahead' : SameWrite(ahead[i], ahead'[j])
          \/ \E j \in DOMAIN origin' : SameWrite(ahead[i], origin'[j])]_vars

\* A successful write leaves nothing behind: whatever earlier calls kept local was
\* published with it, and the note is not left staged, conflicted or mid-rebase.
SuccessPublishesAll ==
    [][(call.phase = "push" /\ Idle' /\ call'.outcome = "ok") =>
          /\ ahead' = <<>>
          /\ call.note \notin added' \cup unmerged'
          /\ rebase' = "none"]_vars

\* A write that the pull refuses loses nothing: the local commits are those there were,
\* the uncommitted edits are in the vault, or put aside by the rebase that is still
\* stopped - and it is still stopped only if its abort has failed (notes.py:191).
RefusedWriteRestores ==
    [][(call.phase = "abort" /\ Idle' /\ call.op = "write") =>
          /\ ahead' = call.pre.ahead
          /\ KeptEdits' = call.pre.edits
          /\ rebase' # "none" => used' # used]_vars

\* "Mai scrivere su un tree in conflitto" (notes.py:301).
NeverWriteOnConflictedTree ==
    [][(call.phase = "write" /\ wt' # wt /\ used' = used) => unmerged = {} /\ rebase = "none"]_vars

\* Every tool call is answered: each git command has a timeout, so nothing hangs the
\* (single) event loop for good.
CallsReturn == ~Idle ~> Idle

--------------------------------------------------------------------------
(* The inductive invariant behind SuccessPublishesAll, RefusedWriteRestores *)
(* and OneCommitPerWrite.                                                   *)

LocalTrees == {Files} \cup {ahead[i].tree : i \in DOMAIN ahead}
AllTrees == LocalTrees \cup {origin[i].tree : i \in DOMAIN origin}

\* A call that is past its pull works on no rebase, and what it commits is not conflicted.
WriteClear ==
    /\ call.phase \in {"write", "add", "commit", "push"} => rebase = "none"
    /\ call.phase \in {"commit", "push"} => call.note \notin unmerged
    /\ call.phase = "push" => call.note \notin added

\* No text is a conflict marker alone, and pieces of the PC are numbered as they come.
TextsNumbered ==
    \A t \in AllTrees, n \in Notes :
        /\ t[n] # {Marker}
        /\ \A p \in t[n] : p.src = Pc => p.k \in 0..used.edits

\* The vault deletes no note.
NeverEmptied ==
    \A n \in Notes :
        /\ \A i \in DOMAIN ahead : ahead[i].tree[n] = {} => BaseTree[n] = {}
        /\ Files[n] = {} => HeadTree[n] = {}

\* What the origin has that the vault's base has not comes from the PC and is nowhere in
\* the vault; a note that changed there has some of it, or is gone.
OriginNews ==
    \A n \in Notes :
        /\ OriginTree[n] \in {BaseTree[n], {}} \/ OriginTree[n] \ BaseTree[n] # {}
        /\ \A p \in OriginTree[n] \ BaseTree[n] :
              p.src = Pc /\ \A t \in LocalTrees : p \notin t[n]

\* Until a write has pulled, the vault is what the call remembers, whatever stopped.
PullRemembers ==
    call.phase \in {"pull", "abort"} /\ call.op = "write" =>
        /\ call.pre = [edits |-> KeptEdits, ahead |-> ahead]
        /\ call.phase = "pull" => rebase = "none"

VaultInv == WriteClear /\ TextsNumbered /\ NeverEmptied /\ OriginNews /\ PullRemembers

\* Without a fault there are no edits but the text of the call in progress, ...
Writing(n) == call.phase \in {"add", "commit"} /\ call.note = n
CleanVault ==
    /\ ~lock
    /\ rebase # "none" => rebase = "stopped" /\ call.phase = "abort"
    /\ rebase = "none" => unmerged = {}
    /\ \A n \in Notes : Files[n] = HeadTree[n] \/ Writing(n)
    /\ call.phase \in {"add", "commit"} /\ wt[call.note] # HeadTree[call.note] =>
          MessageTellsTruth(HeadTree, [by |-> "bridge", note |-> call.note, mode |-> call.mode,
                                       piece |-> call.piece, tree |-> wt])

\* ... and each local commit has changed its note, in the way its message says.
Parent(i) == IF i = 1 THEN BaseTree ELSE ahead[i-1].tree
LocalTruth ==
    \A i \in 1..Len(ahead) :
        /\ ahead[i].by = "bridge" /\ ahead[i].piece.src \in Ids
        /\ ahead[i].tree[ahead[i].note] # Parent(i)[ahead[i].note]
        /\ MessageTellsTruth(Parent(i), ahead[i])

FaultlessInv == used.faults = 0 => CleanVault /\ LocalTruth

=============================================================================
