----------------------------- MODULE PathGuard -----------------------------
(***************************************************************************)
(* Path containment (src/src/devbox_bridge/security/paths.py) with the     *)
(* tools that stand on it: read_file, write_file, list_directory,          *)
(* tail_log, notes_read and notes_write.  A path is resolved one lookup    *)
(* at a time, and other users of the machine may change the tree between   *)
(* any two of them.                                                        *)
(*                                                                         *)
(* A place is a sequence of names from the root of the file system; a text *)
(* (a request, a configured root, what a link says) may also have "..",    *)
(* and begins with "/" when it is absolute.  Empty and "." components are  *)
(* gone: pathlib drops them.                                               *)
(***************************************************************************)
EXTENDS Naturals, Sequences, SequencesExt

CONSTANTS
    Names,      \* names of directory entries
    Places,     \* the places where something can be
    Texts,      \* what a link can say
    Requests,   \* what a client asks for
    Root,       \* text: the path of the project, or NOTES_ROOT
    LogRoots,   \* lists of texts: what system.log_paths_whitelist may be
    WriteDirs,  \* names: NOTES_WRITE_DIRS
    Trees,      \* the trees others may leave
    MaxHops,    \* bound: links followed in one resolution
    MaxCalls,   \* bound: tool calls
    MaxChanges  \* bound: changes of the tree by others

Components == Names \cup {"/", ".."}
Parent(p) == IF p = <<>> THEN p ELSE SubSeq(p, 1, Len(p) - 1)

Node == [kind : {"none", "dir", "file", "big"}, to : {<<>>}]
            \cup [kind : {"link"}, to : Texts]
Nothing == [kind |-> "none", to |-> <<>>]

ASSUME PathAssumption ==
    /\ Names # {} /\ Names \cap {"/", ".."} = {}
    /\ Places \subseteq Seq(Names)
    /\ Texts \subseteq Seq(Components) /\ Requests \subseteq Seq(Components)
    /\ Root \in Seq(Components) /\ LogRoots \subseteq Seq(Seq(Components))
    /\ WriteDirs \subseteq Names
    /\ Trees \subseteq [Places -> Node]
    /\ MaxHops \in Nat /\ MaxCalls \in Nat /\ MaxChanges \in Nat

\* What is above something that is there is a directory.
Grown(t) ==
    /\ <<>> \in Places /\ t[<<>>].kind = "dir"
    /\ \A q \in Places : \A k \in 0..(Len(q) - 1) :
          LET p == SubSeq(q, 1, k) IN p \in Places /\ (t[q].kind # "none" => t[p].kind = "dir")

ASSUME TreesAssumption == \A t \in Trees : Grown(t)

VARIABLES
    fs,      \* the tree: what is at each place
    walk,    \* the resolution in progress
    call,    \* the tool call in progress
    goal,    \* auxiliary: where its request led when it began
    since,   \* auxiliary: what others changed since then
    used     \* calls and changes so far, for the bounds

vars == <<fs, walk, call, goal, since, used>>

ProjectTools == {"read_file", "write_file", "list_directory"}
NotesTools == {"notes_read", "notes_write"}
Tools == ProjectTools \cup NotesTools \cup {"tail_log"}
Answers == {"", "ok", "denied", "missing", "kind", "error"}
Phases == {"idle", "root", "roots", "resolve", "recheck", "pull", "look",
           "mkdir", "open", "describe", "described"}

--------------------------------------------------------------------------
(* Resolution.                                                             *)

\* "lenient" and "strict" are os.path.realpath, and the kernel looks a path
\* up as "strict" does; "mkdir" makes the directories that are missing,
\* "create" the last component.
Modes == {"lenient", "strict", "mkdir", "create"}

Walks == [at : Seq(Names), rest : Seq(Components), hops : 0..MaxHops, mode : Modes,
          over : {"no", "missing", "refused", "loop"}, found : {"none", "dir", "file", "big"}]
Walker(text, mode) ==
    [at |-> <<>>, rest |-> text, hops |-> 0, mode |-> mode, over |-> "no", found |-> "dir"]

Here(t, p) == IF p \in Places THEN t[p] ELSE Nothing
Finished(w) == w.rest = <<>> \/ w.over # "no"
Reached(w) == w.rest = <<>> /\ w.over = "no"

\* The next component makes an entry.
Makes(t, w) ==
    LET p == Append(w.at, Head(w.rest)) IN
    /\ p \in Places /\ Here(t, p).kind = "none" /\ Here(t, w.at).kind = "dir"
    /\ w.mode = "mkdir" \/ (w.mode = "create" /\ Tail(w.rest) = <<>>)
Made(w) == IF w.mode = "mkdir" THEN "dir" ELSE "file"

\* One component: an lstat and, for a link, a readlink.  What is missing is
\* taken as it is written by a lenient resolution, and ends any other.
Ahead(t, w, most, hop) ==
    LET c == Head(w.rest)
        p == Append(w.at, c)
        n == Here(t, p)
        on(q, kind) == [w EXCEPT !.at = q, !.rest = Tail(@), !.found = kind]
    IN  CASE c = "/"  -> on(<<>>, "dir")
          [] c = ".." -> on(Parent(w.at), "dir")
          [] c \in Names /\ n.kind = "link" ->
                IF w.hops = most
                THEN [w EXCEPT !.over = "loop"]
                ELSE [w EXCEPT !.rest = n.to \o Tail(@), !.hops = @ + hop]
          [] c \in Names /\ n.kind = "none" /\ w.mode # "lenient" /\ ~Makes(t, w) ->
                [w EXCEPT !.over = IF Here(t, w.at).kind = "dir" THEN "missing" ELSE "refused"]
          [] OTHER -> on(p, IF Makes(t, w) THEN Made(w) ELSE n.kind)

\* Mutant: one link more than the bound.
AdvanceOneMore(t, w) == Ahead(t, w, MaxHops + 1, 1)
\* Mutant: links are not counted, so a loop goes on.
AdvanceForever(t, w) == Ahead(t, w, MaxHops, 0)

Advance(t, w) == Ahead(t, w, MaxHops, 1)

Absolute(text) == text # <<>> /\ Head(text) = "/"

\* Path(root) / candidate
Joined(root, text) == IF Absolute(text) THEN text ELSE root \o text

\* relative_to() for one of the roots, by components and not by characters.
Within(p, roots) == \E r \in roots : IsPrefix(r, p)

--------------------------------------------------------------------------
(* The tools.                                                              *)

\* The roots that a tool's guard is given.
GuardRoots(tool) == IF tool = "tail_log" THEN LogRoots ELSE {<<Root>>}

\* Auxiliary: where a walk leads on the tree as it is, in one go.
Ends(t) ==
    LET end[w \in Walks] == IF Finished(w) THEN w ELSE end[Ahead(t, w, MaxHops, 1)] IN end
Leads(t, text, mode) == Ends(t)[Walker(text, mode)]

\* The roots that were reached; and a guard gives up on none of them.
Held(dirs) == {w.at : w \in {v \in dirs : Reached(v)}}
Sound(tool, dirs) == \A w \in dirs : Reached(w) \/ (tool = "tail_log" /\ w.over = "missing")

Goal(t, tool, req, roots) ==
    LET dirs == {Leads(t, roots[i], "strict") : i \in DOMAIN roots}
        text == IF tool = "tail_log" THEN req ELSE Joined(Leads(t, Root, "strict").at, req)
        end == Leads(t, text, "lenient")
    IN  [ sound |-> Reached(end) /\ Sound(tool, dirs),
          inside |-> (tool = "tail_log" => Absolute(req)) /\ Within(end.at, Held(dirs)),
          at |-> end.at,
          kind |-> IF tool = "tail_log" /\ ~Reached(Leads(t, text, "strict")) THEN "none"
                   ELSE Here(t, end.at).kind ]

\* create=True of write_file, mode="create" of notes_write.
Flags(tool) == IF tool \in {"write_file", "notes_write"} THEN BOOLEAN ELSE {FALSE}

Resolve(pc, text, mode, c) ==
    /\ walk' = Walker(text, mode)
    /\ call' = [c EXCEPT !.pc = pc]
    /\ UNCHANGED <<fs, goal, since, used>>

Answer(a, c) ==
    /\ call' = [c EXCEPT !.pc = "idle", !.answer = a]
    /\ UNCHANGED <<fs, walk, goal, since, used>>

At(pc) == call.pc = pc /\ Finished(walk)
Is(tools) == call.tool \in tools

\* A tool is called; its first line resolves the root.  tail_log has none, and wants an
\* absolute path.
Start(tool, req, flag, roots) ==
    LET c == [call EXCEPT !.tool = tool, !.req = req, !.flag = flag, !.answer = "",
                          !.root = <<>>, !.roots = {}, !.left = roots,
                          !.target = <<>>, !.touched = {}, !.todo = {}, !.told = {}]
    IN  /\ call.pc = "idle" /\ used.calls < MaxCalls
        /\ used' = [used EXCEPT !.calls = @ + 1]
        /\ goal' = Goal(fs, tool, req, roots) /\ since' = "nothing"
        /\ UNCHANGED fs
        /\ CASE tool = "tail_log" /\ ~Absolute(req) ->
                  walk' = Walker(<<>>, "strict") /\ call' = [c EXCEPT !.answer = "denied"]
             [] tool = "tail_log" /\ Absolute(req) /\ roots = <<>> ->
                  walk' = Walker(req, "lenient") /\ call' = [c EXCEPT !.pc = "resolve"]
             [] tool = "tail_log" /\ Absolute(req) /\ roots # <<>> ->
                  walk' = Walker(Head(roots), "strict") /\ call' = [c EXCEPT !.pc = "roots"]
             [] OTHER -> walk' = Walker(Root, "strict") /\ call' = [c EXCEPT !.pc = "root"]

Lookup ==
    /\ call.pc # "idle" /\ ~Finished(walk)
    /\ walk' = Advance(fs, walk)
    /\ fs' = IF Makes(fs, walk)
             THEN [fs EXCEPT ![Append(walk.at, Head(walk.rest))] = [kind |-> Made(walk), to |-> <<>>]]
             ELSE fs
    /\ UNCHANGED <<call, goal, since, used>>

\* _project_root(), _vault_root(): the root that answers are relative to.  The
\* guard then resolves it again.
RootResolved ==
    /\ At("root")
    /\ IF Reached(walk)
       THEN Resolve("roots", Root, "strict", [call EXCEPT !.root = walk.at])
       ELSE Answer(IF Is(NotesTools) /\ walk.over = "missing" THEN "denied" ELSE "error", call)

\* Mutant: the request is normalised as text and no link is followed.
ResolvedAsText ==
    /\ At("roots") /\ Reached(walk) /\ ~Is({"tail_log"})
    /\ LET c == [call EXCEPT !.left = <<>>, !.roots = {walk.at}, !.target = walk.at \o call.req] IN
       Resolve("look", c.target, "strict", c)

\* Mutant: tail_log asks for the file before it looks at the whitelist.
ExistenceFirst ==
    LET c == [call EXCEPT !.left = Tail(@), !.roots = @ \cup IF Reached(walk) THEN {walk.at} ELSE {}]
    IN  /\ At("roots")
        /\ IF c.left # <<>>
           THEN Resolve("roots", Head(c.left), "strict", c)
           ELSE Resolve("recheck", call.req, "strict", c)

\* A root of the log whitelist that does not exist is skipped.
GuardRootResolved ==
    LET c == [call EXCEPT !.left = Tail(@), !.roots = @ \cup IF Reached(walk) THEN {walk.at} ELSE {}]
    IN  /\ At("roots")
        /\ CASE walk.over \in {"refused", "loop"} -> Answer("error", c)
             [] walk.over = "missing" /\ ~Is({"tail_log"}) -> Answer("denied", c)
             [] walk.over = "no" /\ ~Is({"tail_log"}) -> Resolve("resolve", Joined(walk.at, call.req), "lenient", c)
             [] OTHER -> IF c.left # <<>>
                         THEN Resolve("roots", Head(c.left), "strict", c)
                         ELSE Resolve("resolve", call.req, "lenient", c)

\* Below the root, and for notes_write below one of the write dirs.
MayWrite(p) ==
    LET rel == SubSeq(p, Len(call.root) + 1, Len(p)) IN
    Len(rel) >= 2 /\ Head(rel) \in WriteDirs

Resolved ==
    LET c == [call EXCEPT !.target = walk.at]
    IN  /\ At("resolve")
        /\ CASE ~Reached(walk) -> Answer("error", c)
             [] Reached(walk) /\ ~Within(walk.at, call.roots) -> Answer("denied", c)
             [] OTHER ->
                CASE Is({"tail_log"}) -> Resolve("recheck", call.req, "strict", c)
                  [] Is(NotesTools) /\ ~IsPrefix(call.root, walk.at) -> Answer("error", c)
                  [] Is({"notes_write"}) /\ IsPrefix(call.root, walk.at) /\ ~MayWrite(walk.at) ->
                        Answer("denied", c)
                  [] Is({"notes_write"}) /\ IsPrefix(call.root, walk.at) /\ MayWrite(walk.at) ->
                        Resolve("pull", <<>>, "strict", c)
                  [] OTHER -> Resolve("look", walk.at, "strict", c)

\* resolve_within_any(): again, strictly, and checked again.
Rechecked ==
    LET c == [call EXCEPT !.target = walk.at]
    IN  /\ At("recheck")
        /\ CASE walk.over = "missing" -> Answer("missing", c)
             [] walk.over \in {"refused", "loop"} -> Answer("error", c)
             [] Reached(walk) /\ ~Within(walk.at, call.roots) -> Answer("denied", c)
             [] OTHER -> Resolve("open", walk.at, "strict", c)

\* What others make of the tree; above all, whether an entry became a link.
Others(t) ==
    /\ used.changes < MaxChanges
    /\ used' = [used EXCEPT !.changes = @ + 1]
    /\ fs' = t
    /\ since' = IF \E p \in Places : t[p] # fs[p] /\ t[p].kind = "link" THEN "link"
               ELSE IF since = "link" THEN "link" ELSE "other"

\* notes_write pulls when its target has been resolved; what git replaces is
\* under the root.
Pull ==
    /\ At("pull")
    /\ \E t \in Trees \cup {fs} :
          /\ \A p \in Places : fs[p] # t[p] => IsPrefix(call.root, p) /\ p # call.root
          /\ IF t = fs THEN UNCHANGED <<fs, since, used>> ELSE Others(t)
    /\ UNCHANGED goal
    /\ IF call.flag
       THEN /\ walk' = Walker(call.target, "strict")
            /\ call' = [call EXCEPT !.pc = "look"]
       ELSE /\ walk' = Walker(Parent(call.target), "mkdir")
            /\ call' = [call EXCEPT !.pc = "mkdir"]

\* What exists(), is_file(), is_dir() and the size have to say for a tool to go on.
Sought == CASE Is({"list_directory"}) -> {"dir"}
            [] Is({"read_file", "notes_read"}) -> {"file"}
            [] Is({"write_file"}) -> {"file", "big"}
            [] OTHER -> {}

Touch == [call EXCEPT !.touched = @ \cup IF Reached(walk) THEN {walk.at} ELSE {}]

Looked ==
    LET kind == IF Reached(walk) THEN walk.found ELSE "none"
        creates == Is({"write_file", "notes_write"}) /\ call.flag
    IN  /\ At("look")
        /\ CASE kind \in Sought ->
                  Resolve("open", call.target, IF Is({"write_file"}) THEN "create" ELSE "strict", Touch)
             [] kind = "none" /\ creates -> Resolve("mkdir", Parent(call.target), "mkdir", Touch)
             [] kind = "none" /\ ~creates -> Answer("missing", Touch)
             [] kind = "dir" /\ Is({"notes_read"}) -> Answer("missing", Touch)
             [] OTHER -> Answer("kind", Touch)

\* target.parent.mkdir(parents=True, exist_ok=True)
ParentMade ==
    /\ At("mkdir")
    /\ IF Reached(walk) /\ walk.found = "dir"
       THEN Resolve("open", call.target, "create", call)
       ELSE Answer("error", call)

\* The open() or iterdir() of the tool; tail_log answers whatever tail says.
Opened ==
    LET links == {n \in Names : Here(fs, Append(walk.at, n)).kind = "link"}
    IN  /\ At("open")
        /\ CASE Is({"tail_log"}) -> Answer("ok", Touch)
             [] ~Reached(walk) /\ ~Is({"tail_log"}) -> Answer("error", call)
             [] Reached(walk) /\ Is({"list_directory"}) /\ walk.found = "dir" ->
                  Resolve("describe", <<>>, "strict", [Touch EXCEPT !.todo = links])
             [] Reached(walk) /\ ~Is({"list_directory", "tail_log"}) /\ walk.found # "dir" ->
                  Answer("ok", Touch)
             [] OTHER -> Answer("error", Touch)

\* _describe_symlink(): each link of the directory is resolved, and not read.
Describe(n) ==
    /\ At("describe") /\ n \in call.todo
    /\ Resolve("described", Append(call.target, n), "lenient", [call EXCEPT !.todo = @ \ {n}, !.child = n])

\* Mutant: one hop of the link is looked at.
DescribedByOneHop ==
    LET to == Here(fs, Append(call.target, call.child)).to
        place == IF to # <<>> /\ Head(to) = "/" THEN Tail(to) ELSE call.target \o to
        shown == IsPrefix(call.root, place)
    IN  /\ At("described")
        /\ Resolve("describe", <<>>, "strict",
              [call EXCEPT !.told = @ \cup {[name |-> call.child, shown |-> shown,
                                            at |-> IF shown THEN place ELSE <<>>]}])

\* Its target relative to the root, or "<external>" - also when it is a loop.
Described ==
    LET shown == Reached(walk) /\ IsPrefix(call.root, walk.at)
    IN  /\ At("described")
        /\ Resolve("describe", <<>>, "strict",
              [call EXCEPT !.told = @ \cup {[name |-> call.child, shown |-> shown,
                                            at |-> IF shown THEN walk.at ELSE <<>>]}])

Listed == At("describe") /\ call.todo = {} /\ Answer("ok", call)

\* The developer, a deployment, cron, at any moment.
OthersChange == \E t \in Trees \ {fs} : Others(t) /\ UNCHANGED <<walk, call, goal>>

--------------------------------------------------------------------------

Init ==
    /\ fs \in Trees
    /\ walk = Walker(<<>>, "strict")
    /\ call = [ pc |-> "idle", tool |-> "read_file", req |-> <<>>, flag |-> FALSE, answer |-> "",
                root |-> <<>>, roots |-> {}, left |-> <<>>, target |-> <<>>, touched |-> {},
                todo |-> {}, child |-> CHOOSE n \in Names : TRUE, told |-> {} ]
    /\ goal = [sound |-> TRUE, inside |-> TRUE, at |-> <<>>, kind |-> "dir"]
    /\ since = "nothing"
    /\ used = [calls |-> 0, changes |-> 0]

Step ==
    \/ Lookup \/ RootResolved \/ GuardRootResolved \/ Resolved \/ Rechecked
    \/ Pull \/ Looked \/ ParentMade \/ Opened \/ Described \/ Listed
    \/ \E n \in Names : Describe(n)

Next ==
    \/ \E tool \in Tools, req \in Requests :
          \E flag \in Flags(tool), roots \in GuardRoots(tool) : Start(tool, req, flag, roots)
    \/ Step
    \/ OthersChange

Spec == Init /\ [][Next]_vars

\* A tool that runs goes on: nothing it waits for depends on others.
FairSpec == Spec /\ WF_vars(Step)

--------------------------------------------------------------------------

Calls == [pc : Phases, tool : Tools, req : Seq(Components), flag : BOOLEAN, answer : Answers,
          root : Seq(Names), roots : SUBSET Seq(Names), left : Seq(Seq(Components)),
          target : Seq(Names), touched : SUBSET Seq(Names), todo : SUBSET Names,
          child : Names, told : SUBSET [name : Names, shown : BOOLEAN, at : Seq(Names)]]

TypeOK ==
    /\ fs \in [Places -> Node]
    /\ walk \in Walks
    /\ call \in Calls /\ (call.pc \in {"root", "roots"} => call.left # <<>>)
    /\ since \in {"nothing", "other", "link"}
    /\ used \in [calls : 0..MaxCalls, changes : 0..MaxChanges]

\* What a tool stats, opens or lists is below a root its guard resolved, however
\* the request and the links of the tree are written, and whatever others add or
\* take away meanwhile - unless they turn an entry into a link after it was looked at.
StaysInside == since # "link" => \A p \in call.touched : Within(p, call.roots)

\* What mkdir and open() make, one entry after the other, is below a root that the guard
\* resolved; when others took away the root meanwhile, or what is above it, mkdir makes that
\* again, and nothing in any other place - with the same exception.
MadeInside ==
    [][used' = used /\ since # "link" =>
          \A p \in {q \in Places : fs'[q] # fs[q]} :
             \E r \in call.roots : (IsPrefix(r, p) /\ p # r) \/ (since # "nothing" /\ IsPrefix(p, r))]_vars

\* An answer is right for the goal of its call.
Right(a) ==
    /\ ~goal.sound => a \in {"error", "denied"}
    /\ goal.sound /\ ~goal.inside => a = "denied"
    /\ goal.sound /\ goal.inside /\ a = "denied" => Is({"notes_write"}) /\ ~MayWrite(goal.at)
    /\ a = "missing" => goal.inside /\ (goal.kind = "none" \/ (goal.kind = "dir" /\ Is({"notes_read"})))
    /\ a = "ok" =>
          \/ Is({"write_file", "notes_write"}) /\ goal.kind # "dir"
          \/ Is({"list_directory"}) /\ goal.kind = "dir"
          \/ Is({"tail_log"}) /\ goal.kind # "none"
          \/ Is({"read_file", "notes_read"}) /\ goal.kind = "file"

\* On a tree that nobody changes, a request is denied exactly when it leads
\* outside (or, for notes_write, outside the write dirs), whether what it leads
\* to exists or not; "not found" is only said of what is inside and not there;
\* and a success is had only with what is there, or with what was written.
VerdictsAreRight == call.pc = "idle" /\ since = "nothing" /\ call.answer # "" => Right(call.answer)

\* What was told of the links in target is what requests for them would get.
Agrees(t, root, target, told) ==
    \A e \in told :
        LET rel == SubSeq(target, Len(root) + 1, Len(target))
            g == Goal(t, "read_file", Append(rel, e.name), <<Root>>)
        IN  /\ e.shown <=> g.sound /\ g.inside
            /\ e.shown => e.at = g.at

\* list_directory shows where a link leads exactly when the guard would let a
\* request for the link through, and then it shows the place that request gets.
ListingAgreesWithGuard ==
    call.pc = "idle" /\ since = "nothing" => Agrees(fs, call.root, call.target, call.told)

\* A call ends, also on links that lead to each other.
CallsEnd == call.pc # "idle" ~> call.pc = "idle"

--------------------------------------------------------------------------
(* The inductive invariant behind VerdictsAreRight and                     *)
(* ListingAgreesWithGuard: what a call knows of a tree that nobody         *)
(* changes.                                                                *)

Guarding == {"root", "roots", "resolve", "recheck"}
Guarded == {"pull", "look", "mkdir", "open", "describe", "described"}
Writers == {"write_file", "notes_write"}

\* The walk in progress ends where the text leads.
OnTheWay(text, mode) == walk.mode = mode /\ Ends(fs)[walk] = Leads(fs, text, mode)

\* The first k of the roots have been resolved, and the others are left.
RootsSeen(roots, k) ==
    LET seen == {Leads(fs, roots[i], "strict") : i \in 1..k} IN
    /\ call.left = SubSeq(roots, k + 1, Len(roots))
    /\ call.roots = Held(seen) /\ Sound(call.tool, seen)
RootKnown == Reached(Leads(fs, Root, "strict")) /\ call.root = Leads(fs, Root, "strict").at

\* The text that the guard resolves.
Asked == IF Is({"tail_log"}) THEN call.req ELSE Joined(call.root, call.req)

\* Until the guard has decided, the call is on its way to what its goal says.
GuardingInv ==
    /\ call.pc = "root" => /\ ~Is({"tail_log"}) /\ goal = Goal(fs, call.tool, call.req, <<Root>>)
                           /\ RootsSeen(<<Root>>, 0) /\ OnTheWay(Root, "strict")
    /\ call.pc \in {"roots", "resolve"} =>
          /\ IF Is({"tail_log"}) THEN Absolute(call.req) ELSE RootKnown
          /\ \E roots \in GuardRoots(call.tool) :
                /\ goal = Goal(fs, call.tool, call.req, roots)
                /\ IF call.pc = "roots"
                   THEN \E k \in 0..(Len(roots) - 1) : RootsSeen(roots, k) /\ OnTheWay(roots[k + 1], "strict")
                   ELSE RootsSeen(roots, Len(roots)) /\ OnTheWay(Asked, "lenient")

\* What the guard let through is what the goal says; tail_log, which resolves it again,
\* gets to the same place or finds that nothing is there.
PassedInv ==
    /\ call.pc \in Guarded \cup {"recheck"} => goal.sound /\ goal.inside /\ goal.at = call.target
    /\ call.pc = "recheck" =>
          LET first == Leads(fs, call.req, "lenient") IN
          /\ Is({"tail_log"}) /\ OnTheWay(call.req, "strict")
          /\ Reached(first) /\ first.at = call.target /\ Within(call.target, call.roots)
          /\ goal.kind = IF Reached(Leads(fs, call.req, "strict")) THEN Here(fs, call.target).kind ELSE "none"
          /\ walk.over = "no" => /\ Here(fs, walk.at).kind # "none"
                                 /\ Ends(fs)[[walk EXCEPT !.mode = "lenient"]] = first
    /\ call.pc \in {"pull", "look", "mkdir", "describe", "described"} => ~Is({"tail_log"})

\* A look finds what is at the target; what a tool goes on with is what it was there for;
\* and a directory in the place of the file to write stays one.
FoundInv ==
    /\ call.pc \in {"pull", "look"} => goal.kind = Here(fs, call.target).kind
    /\ call.pc = "look" => walk.mode = "strict" /\ (walk.over # "no" => goal.kind = "none")
    /\ call.pc \in {"look", "open"} /\ ~Is({"tail_log"}) /\ walk.over = "no" =>
          walk.found # "none" /\ walk.found = Here(fs, walk.at).kind
    /\ call.pc \in {"pull", "mkdir"} => Is(Writers)
    /\ call.pc \in {"pull", "describe"} => Finished(walk)
    /\ call.pc \in {"mkdir", "open"} /\ Is(Writers) /\ goal.kind = "dir" => Here(fs, call.target).kind = "dir"
    /\ call.pc = "open" =>
          /\ walk.mode = IF Is(Writers) THEN "create" ELSE "strict"
          /\ Is({"tail_log"}) => goal.kind # "none"
          /\ Is({"list_directory"}) => goal.kind = "dir"
          /\ Is({"read_file", "notes_read"}) => goal.kind = "file"
    /\ call.pc \in {"describe", "described"} => goal.kind = "dir" /\ Is({"list_directory"})

\* What was told of the links so far is what a request for them would get.
ListingInv ==
    /\ call.told # {} => call.pc \in {"describe", "described", "idle"}
    /\ call.pc \in Guarded /\ Is({"list_directory"}) => RootKnown /\ IsPrefix(call.root, call.target)
    /\ call.pc \in {"describe", "described"} => Agrees(fs, call.root, call.target, call.told)
    /\ call.pc = "described" => OnTheWay(Append(call.target, call.child), "lenient")

VerdictInv ==
    /\ Grown(fs)
    /\ since = "nothing" => GuardingInv /\ PassedInv /\ FoundInv /\ ListingInv
                            /\ VerdictsAreRight /\ ListingAgreesWithGuard
=============================================================================
