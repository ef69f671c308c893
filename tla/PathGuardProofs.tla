-------------------------- MODULE PathGuardProofs --------------------------
(***************************************************************************)
(* Type correctness of PathGuard, and that a tool only touches what is     *)
(* below a root its guard resolved.  A resolution keeps to places on whose *)
(* way there is no link, and what others change keeps them so unless it is *)
(* a new link; so the open of a resolved target follows it name by name.   *)
(* So do the mkdir and the open that make what is missing, which therefore *)
(* is below the root, or the root again when others took it away.          *)
(* Then, on a tree that nobody changes, that answers and listings are what *)
(* one look at the tree says: a walk ends where its text leads (Ends), and *)
(* a strict one, while it gets on, where a lenient one does.               *)
(***************************************************************************)
EXTENDS PathGuard, SequenceTheorems, TLAPS

USE PathAssumption DEF Components

--------------------------------------------------------------------------
(* Sequences.                                                              *)

\* The parent of a place is a place.
LEMMA ParentType ==
    ASSUME NEW p \in Seq(Names)
    PROVE  Parent(p) \in Seq(Names)
BY SMT DEF Parent

\* What starts with what, entry by entry.
LEMMA PrefixIff ==
    ASSUME NEW r \in Seq(Names), NEW p \in Seq(Names)
    PROVE  IsPrefix(r, p) <=> Len(r) <= Len(p) /\ \A i \in 1..Len(r) : r[i] = p[i]
<1>1. ASSUME IsPrefix(r, p), NEW i \in 1..Len(r)
      PROVE  r[i] = p[i]
    BY <1>1 DEF IsPrefix
<1>2. ASSUME Len(r) <= Len(p), \A i \in 1..Len(r) : r[i] = p[i]
      PROVE  IsPrefix(r, p)
    <2>1. SubSeq(r, 1, Len(r)) \in Seq(Names) /\ SubSeq(p, 1, Len(r)) \in Seq(Names)
        BY <1>2
    <2>2. Len(SubSeq(r, 1, Len(r))) = Len(SubSeq(p, 1, Len(r)))
        BY <1>2
    <2>3. \A i \in 1..Len(SubSeq(r, 1, Len(r))) : SubSeq(r, 1, Len(r))[i] = SubSeq(p, 1, Len(r))[i]
        BY <1>2
    <2>4. SubSeq(r, 1, Len(r)) = SubSeq(p, 1, Len(r))
        BY <2>1, <2>2, <2>3, SeqEqual
    <2> QED  BY <1>2, <2>4 DEF IsPrefix
<1> QED  BY <1>1, <1>2 DEF IsPrefix

\* A prefix of a parent is one of the child, and a prefix of what is one name
\* longer is a prefix of it, or all.
LEMMA PrefixOfParent ==
    ASSUME NEW r \in Seq(Names), NEW p \in Seq(Names), IsPrefix(r, Parent(p))
    PROVE  IsPrefix(r, p)
<1>1. Parent(p) \in Seq(Names) /\ Len(Parent(p)) <= Len(p)
          /\ \A i \in 1..Len(Parent(p)) : Parent(p)[i] = p[i]
    BY SMT DEF Parent
<1> QED  BY <1>1, PrefixIff, ParentType

LEMMA PrefixOfAppend ==
    ASSUME NEW r \in Seq(Names), NEW p \in Seq(Names), NEW c \in Names,
           IsPrefix(r, Append(p, c))
    PROVE  IsPrefix(r, p) \/ r = Append(p, c)
<1>1. Append(p, c) \in Seq(Names) /\ Len(Append(p, c)) = Len(p) + 1
    OBVIOUS
<1>2. Len(r) <= Len(p) + 1 /\ \A i \in 1..Len(r) : r[i] = Append(p, c)[i]
    BY <1>1, PrefixIff
<1>3. CASE Len(r) <= Len(p)
    <2>1. \A i \in 1..Len(r) : r[i] = p[i]
        BY <1>2, <1>3
    <2> QED  BY <1>3, <2>1, PrefixIff
<1>4. CASE Len(r) = Len(p) + 1
    <2> QED  BY <1>1, <1>2, <1>4, SeqEqual
<1> QED  BY <1>2, <1>3, <1>4

--------------------------------------------------------------------------
(* Types.                                                                  *)

Tree == [Places -> Node]

LEMMA HereType ==
    ASSUME NEW t \in Tree, NEW p
    PROVE  /\ Here(t, p) \in Node
           /\ Here(t, p).kind \in {"none", "dir", "file", "big", "link"}
           /\ Here(t, p).kind = "link" => Here(t, p).to \in Seq(Components)
<1>1. Here(t, p) \in Node
    BY DEF Here, Tree, Node, Nothing
<1> QED  BY <1>1 DEF Node

LEMMA WalkerType ==
    ASSUME NEW text \in Seq(Components), NEW mode \in Modes
    PROVE  Walker(text, mode) \in Walks
BY DEF Walker, Walks

\* Names are components.
LEMMA PlaceIsText ==
    ASSUME NEW p \in Seq(Names)
    PROVE  p \in Seq(Components)
BY SMT

LEMMA JoinedType ==
    ASSUME NEW r \in Seq(Names), NEW text \in Seq(Components)
    PROVE  Joined(r, text) \in Seq(Components)
BY PlaceIsText, ConcatProperties DEF Joined, Absolute

\* One lookup, by its cases.
LEMMA AdvanceCases ==
    ASSUME NEW t \in Tree, NEW w \in Walks, ~Finished(w)
    PROVE  LET c == Head(w.rest)
               p == Append(w.at, c)
               n == Here(t, p)
           IN  \/ /\ c \in {"/", ".."}
                  /\ Advance(t, w) = [w EXCEPT !.at = IF c = "/" THEN <<>> ELSE Parent(w.at),
                                               !.rest = Tail(w.rest), !.found = "dir"]
               \/ /\ c \in Names /\ n.kind = "link"
                  /\ Advance(t, w) = IF w.hops = MaxHops THEN [w EXCEPT !.over = "loop"]
                                     ELSE [w EXCEPT !.rest = n.to \o Tail(w.rest), !.hops = w.hops + 1]
               \/ /\ c \in Names /\ n.kind # "link"
                  /\ \E o \in {"missing", "refused"} : Advance(t, w) = [w EXCEPT !.over = o]
               \/ /\ c \in Names /\ n.kind # "link"
                  /\ \E k \in {"none", "dir", "file", "big"} :
                        Advance(t, w) = [w EXCEPT !.at = p, !.rest = Tail(w.rest), !.found = k]
<1> DEFINE c == Head(w.rest)
           p == Append(w.at, c)
           n == Here(t, p)
<1>1. c \in Components /\ w.rest # <<>>
    BY DEF Finished, Walks
<1>2. n.kind \in {"none", "dir", "file", "big", "link"}
    BY HereType
<1>3. CASE c = "/"
    BY <1>3 DEF Advance, Ahead
<1>4. CASE c = ".."
    BY <1>4 DEF Advance, Ahead
<1>5. CASE c \in Names /\ n.kind = "link"
    BY <1>5 DEF Advance, Ahead
<1>6. CASE c \in Names /\ n.kind # "link"
    <2>1. c # "/" /\ c # ".."
        BY <1>6
    <2>2. CASE n.kind = "none" /\ w.mode # "lenient" /\ ~Makes(t, w)
        BY <1>6, <2>1, <2>2 DEF Advance, Ahead
    <2>3. CASE ~(n.kind = "none" /\ w.mode # "lenient" /\ ~Makes(t, w))
        <3>1. Advance(t, w) = [w EXCEPT !.at = p, !.rest = Tail(w.rest),
                                        !.found = IF Makes(t, w) THEN Made(w) ELSE n.kind]
            BY <1>6, <2>1, <2>3 DEF Advance, Ahead
        <3> QED  BY <1>2, <1>6, <3>1 DEF Made
    <2> QED  BY <2>2, <2>3
<1> QED  BY <1>1, <1>3, <1>4, <1>5, <1>6

LEMMA AdvanceType ==
    ASSUME NEW t \in Tree, NEW w \in Walks, ~Finished(w)
    PROVE  Advance(t, w) \in Walks
<1> DEFINE c == Head(w.rest)
           p == Append(w.at, c)
           n == Here(t, p)
<1>1. c \in Components /\ Tail(w.rest) \in Seq(Components) /\ w.at \in Seq(Names)
    BY HeadTailProperties DEF Finished, Walks
<1>2. Parent(w.at) \in Seq(Names) /\ <<>> \in Seq(Names)
    BY <1>1, ParentType
<1>3. n.kind = "link" => n.to \o Tail(w.rest) \in Seq(Components)
    BY <1>1, HereType, ConcatProperties
<1>4. c \in Names => p \in Seq(Names)
    BY <1>1
<1>5. w.hops # MaxHops => w.hops + 1 \in 0..MaxHops
    BY DEF Walks
<1>6. CASE c \in {"/", ".."} /\ Advance(t, w) = [w EXCEPT !.at = IF c = "/" THEN <<>> ELSE Parent(w.at),
                                               !.rest = Tail(w.rest), !.found = "dir"]
    BY <1>1, <1>2, <1>6 DEF Walks
<1>7. CASE c \in Names /\ n.kind = "link" /\ Advance(t, w) =
              IF w.hops = MaxHops THEN [w EXCEPT !.over = "loop"]
              ELSE [w EXCEPT !.rest = n.to \o Tail(w.rest), !.hops = w.hops + 1]
    <2> HIDE DEF c, n
    <2>1. CASE w.hops = MaxHops
        BY <1>7, <2>1 DEF Walks
    <2>2. CASE w.hops # MaxHops
        BY <1>3, <1>5, <1>7, <2>2 DEF Walks
    <2> QED  BY <2>1, <2>2
<1>8. ASSUME NEW o \in {"missing", "refused"}, Advance(t, w) = [w EXCEPT !.over = o]
      PROVE  Advance(t, w) \in Walks
    BY <1>8 DEF Walks
<1>9. ASSUME NEW k \in {"none", "dir", "file", "big"}, c \in Names,
             Advance(t, w) = [w EXCEPT !.at = p, !.rest = Tail(w.rest), !.found = k]
      PROVE  Advance(t, w) \in Walks
    BY <1>1, <1>4, <1>9 DEF Walks
<1> QED  BY <1>6, <1>7, <1>8, <1>9, AdvanceCases

\* The two ways an action goes on.
LEMMA ResolveType ==
    ASSUME TypeOK, NEW pc \in Phases, NEW text \in Seq(Components), NEW mode \in Modes,
           NEW c \in Calls, Resolve(pc, text, mode, c), pc \in {"root", "roots"} => c.left # <<>>
    PROVE  TypeOK'
<1>1. [c EXCEPT !.pc = pc] \in Calls /\ [c EXCEPT !.pc = pc].pc = pc /\ [c EXCEPT !.pc = pc].left = c.left
    BY DEF Calls
<1> QED  BY <1>1, WalkerType DEF TypeOK, Resolve

LEMMA AnswerType ==
    ASSUME TypeOK, NEW a \in Answers, NEW c \in Calls, Answer(a, c)
    PROVE  TypeOK'
<1>1. [c EXCEPT !.pc = "idle", !.answer = a] \in Calls
          /\ [c EXCEPT !.pc = "idle", !.answer = a].pc = "idle"
    BY DEF Calls, Phases
<1> QED  BY <1>1 DEF TypeOK, Answer

LEMMA TouchType ==
    ASSUME TypeOK
    PROVE  Touch \in Calls
<1>1. call.touched \cup (IF Reached(walk) THEN {walk.at} ELSE {}) \in SUBSET Seq(Names)
    BY DEF TypeOK, Calls, Walks
<1> QED  BY <1>1 DEF TypeOK, Calls, Touch

LEMMA StartType ==
    ASSUME TypeOK, NEW tool \in Tools, NEW req \in Requests, NEW flag \in Flags(tool),
           NEW roots \in GuardRoots(tool), Start(tool, req, flag, roots)
    PROVE  TypeOK'
<1> DEFINE c == [call EXCEPT !.tool = tool, !.req = req, !.flag = flag, !.answer = "",
                             !.root = <<>>, !.roots = {}, !.left = roots,
                             !.target = <<>>, !.touched = {}, !.todo = {}, !.told = {}]
<1>1. /\ flag \in BOOLEAN /\ req \in Seq(Components)
      /\ roots \in Seq(Seq(Components)) /\ (tool # "tail_log" => roots # <<>>)
    <2>1. flag \in BOOLEAN /\ req \in Seq(Components)
        BY DEF Flags
    <2>2. CASE tool = "tail_log"
        BY <2>1, <2>2 DEF GuardRoots
    <2>3. CASE tool # "tail_log"
        <3>1. roots = <<Root>>
            BY <2>3 DEF GuardRoots
        <3> QED  BY <2>1, <2>3, <3>1
    <2> QED  BY <2>2, <2>3
<1>2. c \in Calls /\ c.left = roots
    <2>1. call \in Calls /\ "" \in Answers /\ <<>> \in Seq(Names)
        BY DEF TypeOK, Answers
    <2>2. call \in [pc : Phases, tool : Tools, req : Seq(Components), flag : BOOLEAN, answer : Answers,
          root : Seq(Names), roots : SUBSET Seq(Names), left : Seq(Seq(Components)),
          target : Seq(Names), touched : SUBSET Seq(Names), todo : SUBSET Names,
          child : Names, told : SUBSET [name : Names, shown : BOOLEAN, at : Seq(Names)]]
        BY <2>1 DEF Calls
    <2> QED  BY <1>1, <2>1, <2>2 DEF Calls
<1>3. /\ [c EXCEPT !.pc = "resolve"] \in Calls /\ [c EXCEPT !.pc = "roots"] \in Calls
      /\ [c EXCEPT !.pc = "root"] \in Calls /\ [c EXCEPT !.answer = "denied"] \in Calls
      /\ [c EXCEPT !.answer = "denied"].pc = "idle"
      /\ [c EXCEPT !.pc = "resolve"].pc = "resolve"
      /\ [c EXCEPT !.pc = "roots"].left = roots /\ [c EXCEPT !.pc = "root"].left = roots
    <2>1. c.pc = "idle" /\ "denied" \in Answers
        BY DEF TypeOK, Calls, Start, Answers
    <2> HIDE DEF c
    <2> QED  BY <1>2, <2>1 DEF Calls, Phases
<1>4. roots # <<>> => Head(roots) \in Seq(Components)
    BY <1>1
<1>5. Walker(req, "lenient") \in Walks /\ Walker(Root, "strict") \in Walks
          /\ Walker(<<>>, "strict") \in Walks
          /\ (roots # <<>> => Walker(Head(roots), "strict") \in Walks)
    <2>1. {"strict", "lenient"} \subseteq Modes
        BY DEF Modes
    <2>2. <<>> \in Seq(Components)
        OBVIOUS
    <2>3. Walker(<<>>, "strict") \in Walks
        BY <2>1, <2>2, WalkerType
    <2> QED  BY <1>1, <1>4, <2>1, <2>3, WalkerType
<1>6. call' \in Calls /\ walk' \in Walks /\ (call'.pc \in {"root", "roots"} => call'.left # <<>>)
    <2>1. CASE tool = "tail_log" /\ ~Absolute(req)
        BY <1>3, <1>5, <2>1 DEF Start
    <2>2. CASE tool = "tail_log" /\ Absolute(req) /\ roots = <<>>
        BY <1>3, <1>5, <2>2 DEF Start
    <2>3. CASE tool = "tail_log" /\ Absolute(req) /\ roots # <<>>
        BY <1>3, <1>5, <2>3 DEF Start
    <2>4. CASE tool # "tail_log"
        BY <1>1, <1>3, <1>5, <2>4 DEF Start
    <2> QED  BY <2>1, <2>2, <2>3, <2>4
<1>7. used' \in [calls : 0..MaxCalls, changes : 0..MaxChanges]
    <2>1. used.calls \in 0..MaxCalls /\ used.calls < MaxCalls
              /\ used' = [used EXCEPT !.calls = used.calls + 1]
        BY DEF Start, TypeOK
    <2>2. used.calls + 1 \in 0..MaxCalls
        BY <2>1
    <2> QED  BY <2>1, <2>2 DEF TypeOK
<1> QED  BY <1>6, <1>7 DEF Start, TypeOK

\* What a lookup makes of the tree: the same, or an entry that is no link.
LEMMA LookupTree ==
    ASSUME TypeOK, Lookup
    PROVE  \/ fs' = fs
           \/ \E p \in Places, k \in {"dir", "file"} : fs' = [fs EXCEPT ![p] = [kind |-> k, to |-> <<>>]]
BY DEF Lookup, Makes, Made

LEMMA LookupType ==
    ASSUME TypeOK, Lookup
    PROVE  TypeOK'
<1>1. fs' \in Tree
    <2>1. \A k \in {"dir", "file"} : [kind |-> k, to |-> <<>>] \in Node
        BY DEF Node
    <2> QED  BY <2>1, LookupTree DEF TypeOK, Tree
<1>2. walk' \in Walks
    BY AdvanceType DEF Lookup, TypeOK, Tree
<1> QED  BY <1>1, <1>2 DEF Lookup, TypeOK, Tree

LEMMA RootsType ==
    ASSUME TypeOK, RootResolved \/ GuardRootResolved
    PROVE  TypeOK'
<1>1. ASSUME RootResolved
      PROVE  TypeOK'
    <2>3. call.pc = "root" /\ call.left # <<>>
        BY <1>1 DEF RootResolved, At, TypeOK
    <2>1. CASE Reached(walk)
        <3>1. [call EXCEPT !.root = walk.at] \in Calls /\ [call EXCEPT !.root = walk.at].left = call.left
            BY DEF TypeOK, Calls, Walks
        <3> QED  BY <1>1, <2>1, <2>3, <3>1, ResolveType DEF RootResolved, Phases, Modes
    <2>2. CASE ~Reached(walk)
        <3>1. call \in Calls /\ "denied" \in Answers /\ "error" \in Answers
            BY DEF TypeOK, Answers
        <3>2. Answer("denied", call) \/ Answer("error", call)
            BY <1>1, <2>2 DEF RootResolved
        <3> QED  BY <3>1, <3>2, AnswerType
    <2> QED  BY <2>1, <2>2
<1>2. ASSUME GuardRootResolved
      PROVE  TypeOK'
    <2>9. call.left # <<>>
        BY <1>2 DEF GuardRootResolved, At, TypeOK
    <2> DEFINE c == [call EXCEPT !.left = Tail(@), !.roots = @ \cup IF Reached(walk) THEN {walk.at} ELSE {}]
    <2>1. Tail(call.left) \in Seq(Seq(Components)) /\ call \in Calls
        BY <2>9, HeadTailProperties DEF TypeOK, Calls
    <2>2. call.roots \cup (IF Reached(walk) THEN {walk.at} ELSE {}) \in SUBSET Seq(Names)
        BY DEF TypeOK, Calls, Walks
    <2>3. c \in Calls
        BY <2>1, <2>2 DEF Calls
    <2>4. call.req \in Seq(Components) /\ walk.at \in Seq(Names)
        BY DEF TypeOK, Calls, Walks
    <2>5. c.left # <<>> => Head(c.left) \in Seq(Components)
        <3>1. c.left \in Seq(Seq(Components))
            BY <2>3 DEF Calls
        <3> QED  BY <3>1, HeadTailProperties
    <2>6. Joined(walk.at, call.req) \in Seq(Components)
        BY <2>4, JoinedType
    <2>7. \/ Answer("error", c) \/ Answer("denied", c)
          \/ Resolve("resolve", Joined(walk.at, call.req), "lenient", c)
          \/ c.left # <<>> /\ Resolve("roots", Head(c.left), "strict", c)
          \/ Resolve("resolve", call.req, "lenient", c)
        BY <1>2, Zenon DEF GuardRootResolved
    <2>8. /\ "error" \in Answers /\ "denied" \in Answers
          /\ "resolve" \in Phases /\ "roots" \in Phases /\ "lenient" \in Modes /\ "strict" \in Modes
        BY DEF Answers, Phases, Modes
    <2> HIDE DEF c
    <2> QED  BY <2>3, <2>4, <2>5, <2>6, <2>7, <2>8, ResolveType, AnswerType
<1> QED  BY <1>1, <1>2

LEMMA ResolvedType ==
    ASSUME TypeOK, Resolved \/ Rechecked
    PROVE  TypeOK'
<1> DEFINE c == [call EXCEPT !.target = walk.at]
<1>1. c \in Calls /\ call.req \in Seq(Components) /\ walk.at \in Seq(Components) /\ <<>> \in Seq(Components)
    <2>1. walk.at \in Seq(Names) /\ call \in Calls
        BY DEF TypeOK, Walks
    <2>2. c \in Calls
        BY <2>1 DEF Calls
    <2>3. call.req \in Seq(Components)
        BY <2>1 DEF Calls
    <2>4. walk.at \in Seq(Components)
        BY <2>1, PlaceIsText
    <2> QED  BY <2>2, <2>3, <2>4
<1>2. \/ \E a \in {"error", "denied", "missing"} : Answer(a, c)
      \/ Resolve("recheck", call.req, "strict", c)
      \/ Resolve("pull", <<>>, "strict", c)
      \/ Resolve("look", walk.at, "strict", c)
      \/ Resolve("open", walk.at, "strict", c)
    <2>1. CASE Resolved
        BY <2>1, Zenon DEF Resolved
    <2>2. CASE Rechecked
        BY <2>2, Zenon DEF Rechecked
    <2> QED  BY <2>1, <2>2
<1>3. /\ \A a \in {"error", "denied", "missing"} : a \in Answers
      /\ \A p \in {"recheck", "pull", "look", "open"} : p \in Phases \ {"root", "roots"}
      /\ "strict" \in Modes
    BY DEF Answers, Phases, Modes
<1> HIDE DEF c
<1> QED  BY <1>1, <1>2, <1>3, ResolveType, AnswerType

\* What others leave is a tree, and is counted.
LEMMA OthersType ==
    ASSUME TypeOK, NEW t \in Tree, Others(t)
    PROVE  /\ fs' \in Tree /\ since' \in {"nothing", "other", "link"}
           /\ used' \in [calls : 0..MaxCalls, changes : 0..MaxChanges]
<1>1. used.changes \in 0..MaxChanges /\ used.changes < MaxChanges
          /\ used' = [used EXCEPT !.changes = used.changes + 1]
    BY DEF Others, TypeOK
<1>2. used.changes + 1 \in 0..MaxChanges
    BY <1>1
<1>3. used' \in [calls : 0..MaxCalls, changes : 0..MaxChanges]
    BY <1>1, <1>2 DEF TypeOK
<1> QED  BY <1>3 DEF Others

LEMMA PullType ==
    ASSUME TypeOK, Pull
    PROVE  TypeOK'
<1>1. /\ fs' \in Tree /\ since' \in {"nothing", "other", "link"}
      /\ used' \in [calls : 0..MaxCalls, changes : 0..MaxChanges]
    <2>1. PICK t \in Trees \cup {fs} : IF t = fs THEN UNCHANGED <<fs, since, used>> ELSE Others(t)
        BY DEF Pull
    <2>2. t \in Tree
        BY DEF TypeOK, Tree
    <2>3. CASE t = fs
        BY <2>1, <2>3 DEF TypeOK, Tree
    <2>4. CASE t # fs
        BY <2>1, <2>2, <2>4, OthersType
    <2> QED  BY <2>3, <2>4
<1>2. walk' \in Walks
    <2>1. call.target \in Seq(Names)
        BY DEF TypeOK, Calls
    <2>2. call.target \in Seq(Components) /\ Parent(call.target) \in Seq(Components)
        BY <2>1, ParentType, PlaceIsText
    <2> QED  BY <2>2, WalkerType DEF Pull, Modes
<1>3. call' \in Calls /\ call'.pc \notin {"root", "roots"}
    <2>1. call \in Calls
        BY DEF TypeOK
    <2>2. call' = [call EXCEPT !.pc = "look"] \/ call' = [call EXCEPT !.pc = "mkdir"]
        BY DEF Pull
    <2>3. ASSUME NEW p \in {"look", "mkdir"}
          PROVE  [call EXCEPT !.pc = p] \in Calls /\ [call EXCEPT !.pc = p].pc = p
        BY <2>1 DEF Calls, Phases
    <2> QED  BY <2>2, <2>3
<1> QED  BY <1>1, <1>2, <1>3 DEF TypeOK, Tree

LEMMA LookedType ==
    ASSUME TypeOK, Looked \/ ParentMade
    PROVE  TypeOK'
<1>1. call.target \in Seq(Components) /\ Parent(call.target) \in Seq(Components) /\ call \in Calls
    <2>1. call.target \in Seq(Names)
        BY DEF TypeOK, Calls
    <2> QED  BY <2>1, ParentType, PlaceIsText DEF TypeOK
<1>2. Touch \in Calls
    BY TouchType
<1>3. \/ \E a \in {"missing", "kind"} : Answer(a, Touch)
      \/ Answer("error", call)
      \/ Resolve("open", call.target, "create", Touch) \/ Resolve("open", call.target, "strict", Touch)
      \/ Resolve("open", call.target, "create", call)
      \/ Resolve("mkdir", Parent(call.target), "mkdir", Touch)
    <2>1. CASE Looked
        BY <2>1, Zenon DEF Looked
    <2>2. CASE ParentMade
        BY <2>2, Zenon DEF ParentMade
    <2> QED  BY <2>1, <2>2
<1>4. /\ \A a \in {"missing", "kind", "error"} : a \in Answers
      /\ \A p \in {"open", "mkdir"} : p \in Phases \ {"root", "roots"}
      /\ \A m \in {"create", "strict", "mkdir"} : m \in Modes
    BY DEF Answers, Phases, Modes
<1> QED  BY <1>1, <1>2, <1>3, <1>4, ResolveType, AnswerType

LEMMA OpenedType ==
    ASSUME TypeOK, Opened
    PROVE  TypeOK'
<1> DEFINE links == {n \in Names : Here(fs, Append(walk.at, n)).kind = "link"}
           c == [Touch EXCEPT !.todo = links]
<1>1. Touch \in Calls /\ call \in Calls
    BY TouchType DEF TypeOK
<1>2. c \in Calls
    BY <1>1 DEF Calls
<1>3. \/ Answer("ok", Touch) \/ Answer("error", call) \/ Answer("error", Touch)
      \/ Resolve("describe", <<>>, "strict", c)
    BY Zenon DEF Opened
<1>4. /\ "ok" \in Answers /\ "error" \in Answers /\ "strict" \in Modes
      /\ "describe" \in Phases \ {"root", "roots"} /\ <<>> \in Seq(Components)
    BY DEF Answers, Phases, Modes
<1> HIDE DEF c, links
<1> QED  BY <1>1, <1>2, <1>3, <1>4, ResolveType, AnswerType

LEMMA ListingType ==
    ASSUME TypeOK, Listed \/ Described \/ \E n \in Names : Describe(n)
    PROVE  TypeOK'
<1>1. call \in Calls /\ <<>> \in Seq(Components) /\ "strict" \in Modes /\ "lenient" \in Modes
          /\ "ok" \in Answers /\ \A p \in {"describe", "described"} : p \in Phases \ {"root", "roots"}
    BY DEF TypeOK, Answers, Phases, Modes
<1>2. CASE Listed
    BY <1>1, <1>2, AnswerType DEF Listed
<1>3. CASE Described
    <2> DEFINE shown == Reached(walk) /\ IsPrefix(call.root, walk.at)
               e == [name |-> call.child, shown |-> shown, at |-> IF shown THEN walk.at ELSE <<>>]
               c == [call EXCEPT !.told = @ \cup {e}]
    <2>1. shown \in BOOLEAN
        BY DEF Reached
    <2>2. e \in [name : Names, shown : BOOLEAN, at : Seq(Names)]
        <3> HIDE DEF shown
        <3> QED  BY <2>1 DEF TypeOK, Calls, Walks
    <2>3. c \in Calls
        <3> HIDE DEF e
        <3> QED  BY <1>1, <2>2 DEF Calls
    <2>4. Resolve("describe", <<>>, "strict", c)
        BY <1>3, Zenon DEF Described
    <2> HIDE DEF c
    <2> QED  BY <1>1, <2>3, <2>4, ResolveType
<1>4. ASSUME NEW n \in Names, Describe(n)
      PROVE  TypeOK'
    <2> DEFINE c == [call EXCEPT !.todo = @ \ {n}, !.child = n]
    <2>1. c \in Calls
        BY <1>1 DEF Calls
    <2>2. Append(call.target, n) \in Seq(Components)
        <3>1. call.target \in Seq(Names)
            BY <1>1 DEF Calls
        <3>2. Append(call.target, n) \in Seq(Names)
            BY <3>1
        <3> QED  BY <3>2, PlaceIsText
    <2>3. Resolve("described", Append(call.target, n), "lenient", c)
        BY <1>4 DEF Describe
    <2> HIDE DEF c
    <2> QED  BY <1>1, <2>1, <2>2, <2>3, ResolveType
<1> QED  BY <1>2, <1>3, <1>4

\* The state of a tool call is always one the tools can be in.
THEOREM PathsTypeOK == Spec => []TypeOK
<1>1. Init => TypeOK
    <2> SUFFICES ASSUME Init PROVE TypeOK
        OBVIOUS
    <2>1. fs \in Tree
        BY DEF Init, Tree
    <2>2. walk \in Walks
        <3>1. <<>> \in Seq(Components) /\ "strict" \in Modes
            BY DEF Modes
        <3> QED  BY <3>1, WalkerType DEF Init
    <2>3. call \in Calls /\ call.pc = "idle"
        <3>1. (CHOOSE n \in Names : TRUE) \in Names
            BY Zenon
        <3>2. /\ "idle" \in Phases /\ "read_file" \in Tools /\ "" \in Answers
              /\ <<>> \in Seq(Components) /\ <<>> \in Seq(Names) /\ <<>> \in Seq(Seq(Components))
            BY DEF Phases, Tools, ProjectTools, Answers
        <3> QED  BY <3>1, <3>2 DEF Init, Calls
    <2>4. used \in [calls : 0..MaxCalls, changes : 0..MaxChanges]
        <3>1. 0 \in 0..MaxCalls /\ 0 \in 0..MaxChanges
            OBVIOUS
        <3> QED  BY <3>1 DEF Init
    <2> QED  BY <2>1, <2>2, <2>3, <2>4 DEF Init, TypeOK, Tree
<1>2. TypeOK /\ [Next]_vars => TypeOK'
    <2> SUFFICES ASSUME TypeOK, [Next]_vars PROVE TypeOK'
        OBVIOUS
    <2>1. CASE UNCHANGED vars
        BY <2>1 DEF vars, TypeOK
    <2>2. CASE OthersChange
        <3>1. PICK t \in Trees \ {fs} : Others(t) /\ UNCHANGED <<walk, call, goal>>
            BY <2>2 DEF OthersChange
        <3> QED  BY <3>1, OthersType DEF TypeOK, Tree
    <2>3. CASE Step
        BY <2>3, LookupType, RootsType, ResolvedType, PullType, LookedType, OpenedType, ListingType DEF Step
    <2>4. ASSUME NEW tool \in Tools, NEW req \in Requests, NEW flag \in Flags(tool),
                 NEW roots \in GuardRoots(tool), Start(tool, req, flag, roots)
          PROVE  TypeOK'
        BY <2>4, StartType
    <2> QED  BY <2>1, <2>2, <2>3, <2>4 DEF Next
<1> QED  BY <1>1, <1>2, PTL DEF Spec

--------------------------------------------------------------------------
(* Containment.                                                            *)

\* No entry on the way to p is a link.
Free(t, p) == \A q \in Places : q # <<>> /\ IsPrefix(q, p) => t[q].kind # "link"

\* What a walk has done and has to do is p.
Follows(w, p) ==
    /\ Len(w.at) + Len(w.rest) = Len(p)
    /\ \A i \in 1..Len(w.at) : w.at[i] = p[i]
    /\ \A i \in 1..Len(w.rest) : w.rest[i] = p[Len(w.at) + i]

\* A walk is at a place free of links, the resolved target is one below a root,
\* and the look at it and its opening walk along it.
Safe(t, w, c) ==
    /\ Free(t, w.at)
    /\ c.pc \in Guarded => Free(t, c.target) /\ Within(c.target, c.roots)
    /\ c.pc \in {"look", "open"} /\ w.over = "no" => Follows(w, c.target)
    /\ \A p \in c.touched : Within(p, c.roots)

GuardInv ==
    /\ call.pc \in Guarding => call.touched = {}
    /\ since # "link" => Safe(fs, walk, call)

LEMMA FreeRoot ==
    ASSUME NEW t \in Tree
    PROVE  Free(t, <<>>)
<1>1. <<>> \in Seq(Names) /\ Len(<<>>) = 0
    OBVIOUS
<1>2. ASSUME NEW q \in Places, IsPrefix(q, <<>>)
      PROVE  q = <<>>
    <2>1. q \in Seq(Names) /\ Len(q) <= 0
        BY <1>1, <1>2, PrefixIff
    <2> QED  BY <2>1
<1> QED  BY <1>2 DEF Free

LEMMA FreeParent ==
    ASSUME NEW t \in Tree, NEW p \in Seq(Names), Free(t, p)
    PROVE  Free(t, Parent(p))
BY PrefixOfParent DEF Free

LEMMA FreeAppend ==
    ASSUME NEW t \in Tree, NEW p \in Seq(Names), NEW c \in Names, Free(t, p),
           Here(t, Append(p, c)).kind # "link"
    PROVE  Free(t, Append(p, c))
<1>1. ASSUME NEW q \in Places, q # <<>>, IsPrefix(q, Append(p, c))
      PROVE  t[q].kind # "link"
    <2>1. IsPrefix(q, p) \/ q = Append(p, c)
        BY <1>1, PrefixOfAppend
    <2>2. CASE IsPrefix(q, p)
        BY <1>1, <2>2 DEF Free
    <2>3. CASE q = Append(p, c)
        BY <1>1, <2>3 DEF Here
    <2> QED  BY <2>1, <2>2, <2>3
<1> QED  BY <1>1 DEF Free

\* A place stays free of links when no entry becomes one.
LEMMA FreeLater ==
    ASSUME NEW t \in Tree, NEW u \in Tree, NEW p, Free(t, p),
           \A q \in Places : u[q].kind = "link" => t[q].kind = "link"
    PROVE  Free(u, p)
BY DEF Free

\* A walk along a place meets names of it, and ends there.
LEMMA FollowsOn ==
    ASSUME NEW w \in Walks, NEW p \in Seq(Names), Follows(w, p), w.rest # <<>>
    PROVE  /\ Head(w.rest) \in Names
           /\ IsPrefix(Append(w.at, Head(w.rest)), p)
           /\ \A k : Follows([w EXCEPT !.at = Append(w.at, Head(w.rest)),
                                       !.rest = Tail(w.rest), !.found = k], p)
<1> DEFINE n == Len(w.at)
           m == Len(w.rest)
           at == Append(w.at, Head(w.rest))
<1>1. w.at \in Seq(Names) /\ w.rest \in Seq(Components) /\ n \in Nat /\ m \in Nat /\ m # 0
    BY DEF Walks
<1>2. /\ n + m = Len(p) /\ \A i \in 1..n : w.at[i] = p[i]
      /\ \A i \in 1..m : w.rest[i] = p[n + i]
    BY DEF Follows
<1>3. /\ Head(w.rest) = w.rest[1] /\ Len(Tail(w.rest)) = m - 1
      /\ \A i \in 1..(m - 1) : Tail(w.rest)[i] = w.rest[i + 1]
    BY <1>1, HeadTailProperties
<1>4. Head(w.rest) = p[n + 1] /\ n + 1 \in 1..Len(p) /\ n + 1 <= Len(p)
    <2> HIDE DEF n, m
    <2> QED  BY <1>1, <1>2, <1>3
<1>5. Head(w.rest) \in Names
    BY <1>4, ElementOfSeq
<1>6. /\ at \in Seq(Names) /\ Len(at) = n + 1 /\ at[n + 1] = Head(w.rest)
      /\ \A i \in 1..n : at[i] = w.at[i]
    BY <1>1, <1>5, AppendProperties
<1> HIDE DEF n, m, at
<1>7. ASSUME NEW i \in 1..(n + 1)
      PROVE  at[i] = p[i]
    <2>1. i \in 1..n \/ i = n + 1
        BY <1>1
    <2>2. CASE i \in 1..n
        BY <1>2, <1>6, <2>2
    <2>3. CASE i = n + 1
        BY <1>4, <1>6, <2>3
    <2> QED  BY <2>1, <2>2, <2>3
<1>8. IsPrefix(at, p)
    BY <1>4, <1>6, <1>7, PrefixIff
<1>9. ASSUME NEW i \in 1..(m - 1)
      PROVE  Tail(w.rest)[i] = p[(n + 1) + i]
    <2>1. i + 1 \in 1..m /\ n + (i + 1) = (n + 1) + i
        BY <1>1
    <2>2. w.rest[i + 1] = p[n + (i + 1)]
        BY <1>2, <2>1
    <2> QED  BY <1>3, <2>1, <2>2
<1>10. ASSUME NEW k
       PROVE  Follows([w EXCEPT !.at = at, !.rest = Tail(w.rest), !.found = k], p)
    <2> DEFINE v == [w EXCEPT !.at = at, !.rest = Tail(w.rest), !.found = k]
    <2>1. v.at = at /\ v.rest = Tail(w.rest)
        BY DEF Walks
    <2>2. Len(v.at) = n + 1 /\ Len(v.rest) = m - 1
        BY <1>3, <1>6, <2>1
    <2> HIDE DEF v
    <2>3. (n + 1) + (m - 1) = Len(p)
        BY <1>1, <1>2
    <2>4. \A i \in 1..Len(v.at) : v.at[i] = p[i]
        BY <1>7, <2>1, <2>2
    <2>5. \A i \in 1..Len(v.rest) : v.rest[i] = p[Len(v.at) + i]
        BY <1>9, <2>1, <2>2
    <2>6. Follows(v, p)
        BY <2>2, <2>3, <2>4, <2>5 DEF Follows
    <2> QED  BY <2>6 DEF v
<1> USE DEF at
<1> QED  BY <1>5, <1>8, <1>10

LEMMA FollowsEnd ==
    ASSUME NEW w \in Walks, NEW p \in Seq(Names), Follows(w, p), w.rest = <<>>
    PROVE  w.at = p
<1>1. w.at \in Seq(Names) /\ Len(w.at) = Len(p)
    BY DEF Walks, Follows
<1>2. \A i \in 1..Len(w.at) : w.at[i] = p[i]
    BY DEF Follows
<1> QED  BY <1>1, <1>2, SeqEqual

\* The two ways an action goes on.
LEMMA SafeResolve ==
    ASSUME NEW t \in Tree, NEW c \in Calls, NEW pc \in Phases, NEW text, NEW mode,
           pc \in Guarded => Free(t, c.target) /\ Within(c.target, c.roots),
           pc \in {"look", "open"} => text = c.target,
           \A p \in c.touched : Within(p, c.roots)
    PROVE  Safe(t, Walker(text, mode), [c EXCEPT !.pc = pc])
<1> DEFINE d == [c EXCEPT !.pc = pc]
           w == Walker(text, mode)
<1>1. d.pc = pc /\ d.target = c.target /\ d.roots = c.roots /\ d.touched = c.touched
    BY DEF Calls
<1>2. w.at = <<>> /\ w.rest = text
    BY DEF Walker
<1>3. Free(t, w.at)
    BY <1>2, FreeRoot
<1>4. ASSUME pc \in {"look", "open"}
      PROVE  Follows(w, d.target)
    <2>1. w.rest = d.target /\ d.target \in Seq(Names)
        BY <1>1, <1>2, <1>4 DEF Calls
    <2>2. Len(<<>>) = 0 /\ Len(d.target) \in Nat
        BY <2>1
    <2> HIDE DEF w, d
    <2> QED  BY <1>2, <2>1, <2>2 DEF Follows
<1>5. Safe(t, w, d)
    <2> HIDE DEF w, d
    <2> QED  BY <1>1, <1>3, <1>4 DEF Safe
<1> QED  BY <1>5

LEMMA SafeAnswer ==
    ASSUME NEW t, NEW w, NEW c \in Calls, NEW a, Free(t, w.at), \A p \in c.touched : Within(p, c.roots)
    PROVE  Safe(t, w, [c EXCEPT !.pc = "idle", !.answer = a])
<1> DEFINE d == [c EXCEPT !.pc = "idle", !.answer = a]
<1>1. d.pc = "idle" /\ d.roots = c.roots /\ d.touched = c.touched
    BY DEF Calls
<1> HIDE DEF d
<1> QED  BY <1>1 DEF Safe, Guarded

\* A lookup meets no link on the way to a place that is free of them.
LEMMA LookupGuard ==
    ASSUME TypeOK, GuardInv, Lookup
    PROVE  GuardInv'
<1> SUFFICES ASSUME since # "link" PROVE Safe(fs', walk', call)
    BY DEF Lookup, GuardInv
<1>1. /\ fs \in Tree /\ fs' \in Tree /\ walk \in Walks /\ call \in Calls /\ ~Finished(walk)
      /\ walk' = Advance(fs, walk) /\ Safe(fs, walk, call)
    BY LookupType DEF TypeOK, Tree, Lookup, GuardInv
<1>2. call.target \in Seq(Names) /\ walk.at \in Seq(Names) /\ walk.rest # <<>> /\ walk.over = "no"
    BY <1>1 DEF Calls, Walks, Finished
<1>3. \A q \in Places : fs'[q].kind = "link" => fs[q].kind = "link"
    <2>1. CASE fs' = fs
        BY <2>1
    <2>2. ASSUME NEW r \in Places, NEW k \in {"dir", "file"}, fs' = [fs EXCEPT ![r] = [kind |-> k, to |-> <<>>]],
                 NEW q \in Places
          PROVE  fs'[q].kind = "link" => fs[q].kind = "link"
        BY <1>1, <2>2 DEF Tree
    <2> QED  BY <2>1, <2>2, LookupTree
<1> DEFINE c == Head(walk.rest)
           p == Append(walk.at, c)
           along == call.pc \in {"look", "open"}
<1>4. ASSUME along
      PROVE  c \in Names /\ Here(fs, p).kind # "link"
                 /\ \A k : Follows([walk EXCEPT !.at = p, !.rest = Tail(walk.rest), !.found = k], call.target)
    <2>1. Follows(walk, call.target) /\ Free(fs, call.target)
        BY <1>1, <1>2, <1>4 DEF Safe, Guarded
    <2>2. /\ c \in Names /\ IsPrefix(p, call.target)
          /\ \A k : Follows([walk EXCEPT !.at = p, !.rest = Tail(walk.rest), !.found = k], call.target)
        BY <1>1, <1>2, <2>1, FollowsOn
    <2>3. p # <<>>
        BY <1>2
    <2>4. Here(fs, p).kind # "link"
        BY <2>1, <2>2, <2>3 DEF Free, Here, Nothing
    <2> QED  BY <2>2, <2>4
<1>5. Free(fs, walk'.at) /\ (along /\ walk'.over = "no" => Follows(walk', call.target))
    <2> HIDE DEF along
    <2>1. CASE c \in {"/", ".."} /\ walk' = [walk EXCEPT !.at = IF c = "/" THEN <<>> ELSE Parent(walk.at),
                                                         !.rest = Tail(walk.rest), !.found = "dir"]
        <3>1. walk'.at = <<>> \/ walk'.at = Parent(walk.at)
            BY <1>1, <2>1 DEF Walks
        <3>2. c \notin Names
            BY <2>1
        <3> QED  BY <1>1, <1>2, <1>4, <3>1, <3>2, FreeRoot, FreeParent DEF Safe
    <2>2. CASE c \in Names /\ Here(fs, p).kind = "link" /\ walk' =
                  IF walk.hops = MaxHops THEN [walk EXCEPT !.over = "loop"]
                  ELSE [walk EXCEPT !.rest = Here(fs, p).to \o Tail(walk.rest), !.hops = walk.hops + 1]
        <3>1. walk'.at = walk.at
            BY <1>1, <2>2 DEF Walks
        <3> QED  BY <1>1, <1>4, <2>2, <3>1 DEF Safe
    <2>3. ASSUME NEW o \in {"missing", "refused"}, walk' = [walk EXCEPT !.over = o]
          PROVE  walk'.at = walk.at /\ walk'.over # "no"
        BY <1>1, <2>3 DEF Walks
    <2>4. ASSUME NEW k \in {"none", "dir", "file", "big"}, c \in Names, Here(fs, p).kind # "link",
                 walk' = [walk EXCEPT !.at = p, !.rest = Tail(walk.rest), !.found = k]
          PROVE  Free(fs, walk'.at) /\ (along => Follows(walk', call.target))
        <3>1. walk'.at = p
            BY <1>1, <2>4 DEF Walks
        <3>2. Free(fs, p)
            BY <1>1, <1>2, <2>4, FreeAppend DEF Safe
        <3> QED  BY <1>4, <2>4, <3>1, <3>2
    <2>5. Free(fs, walk.at)
        BY <1>1 DEF Safe
    <2>6. \/ /\ c \in {"/", ".."}
             /\ walk' = [walk EXCEPT !.at = IF c = "/" THEN <<>> ELSE Parent(walk.at),
                                     !.rest = Tail(walk.rest), !.found = "dir"]
          \/ /\ c \in Names /\ Here(fs, p).kind = "link"
             /\ walk' = IF walk.hops = MaxHops THEN [walk EXCEPT !.over = "loop"]
                        ELSE [walk EXCEPT !.rest = Here(fs, p).to \o Tail(walk.rest), !.hops = walk.hops + 1]
          \/ \E o \in {"missing", "refused"} : walk' = [walk EXCEPT !.over = o]
          \/ /\ c \in Names /\ Here(fs, p).kind # "link"
             /\ \E k \in {"none", "dir", "file", "big"} :
                   walk' = [walk EXCEPT !.at = p, !.rest = Tail(walk.rest), !.found = k]
        BY <1>1, AdvanceCases, ZenonT(60)
    <2> HIDE DEF c, p
    <2>7. CASE \E o \in {"missing", "refused"} : walk' = [walk EXCEPT !.over = o]
        BY <2>3, <2>5, <2>7
    <2>8. CASE /\ c \in Names /\ Here(fs, p).kind # "link"
               /\ \E k \in {"none", "dir", "file", "big"} :
                     walk' = [walk EXCEPT !.at = p, !.rest = Tail(walk.rest), !.found = k]
        BY <2>4, <2>8
    <2> QED  BY <2>1, <2>2, <2>6, <2>7, <2>8
<1>6. Free(fs', walk'.at)
    BY <1>1, <1>3, <1>5, FreeLater
<1>7. call.pc \in Guarded => Free(fs', call.target) /\ Within(call.target, call.roots)
    BY <1>1, <1>3, FreeLater DEF Safe
<1> QED  BY <1>1, <1>5, <1>6, <1>7 DEF Safe

\* What others change leaves the way free, unless it is a new link.
LEMMA OthersFree ==
    ASSUME TypeOK, NEW t \in Tree, Others(t), since' # "link"
    PROVE  /\ since # "link" /\ fs \in Tree /\ fs' \in Tree
           /\ \A p : Free(fs, p) => Free(fs', p)
<1>1. since # "link" /\ fs' = t /\ ~\E p \in Places : t[p] # fs[p] /\ t[p].kind = "link"
    BY DEF Others
<1>2. fs \in Tree /\ \A q \in Places : fs'[q].kind = "link" => fs[q].kind = "link"
    BY <1>1 DEF TypeOK, Tree
<1> QED  BY <1>1, <1>2, FreeLater

LEMMA OthersGuard ==
    ASSUME TypeOK, GuardInv, OthersChange
    PROVE  GuardInv'
<1>1. PICK t \in Trees \ {fs} : Others(t) /\ UNCHANGED <<walk, call, goal>>
    BY DEF OthersChange
<1>2. t \in Tree
    BY DEF Tree
<1>3. ASSUME since' # "link"
      PROVE  Safe(fs', walk, call)
    <2>1. since # "link" /\ \A p : Free(fs, p) => Free(fs', p)
        BY <1>1, <1>2, <1>3, OthersFree
    <2> QED  BY <2>1 DEF GuardInv, Safe
<1> QED  BY <1>1, <1>3 DEF GuardInv

\* The two ways an action goes on, again.
LEMMA GuardResolve ==
    ASSUME TypeOK, NEW c \in Calls, NEW pc \in Phases, NEW text, NEW mode,
           Resolve(pc, text, mode, c),
           pc \in Guarding => c.touched = {},
           since # "link" =>
               /\ pc \in Guarded => Free(fs, c.target) /\ Within(c.target, c.roots)
               /\ pc \in {"look", "open"} => text = c.target
               /\ \A p \in c.touched : Within(p, c.roots)
    PROVE  GuardInv'
<1>1. fs \in Tree /\ fs' = fs /\ since' = since /\ walk' = Walker(text, mode) /\ call' = [c EXCEPT !.pc = pc]
    BY DEF TypeOK, Tree, Resolve
<1>2. call'.pc = pc /\ call'.touched = c.touched
    BY <1>1 DEF Calls
<1>3. ASSUME since # "link"
      PROVE  Safe(fs, Walker(text, mode), [c EXCEPT !.pc = pc])
    BY <1>1, <1>3, SafeResolve
<1> QED  BY <1>1, <1>2, <1>3 DEF GuardInv

LEMMA GuardAnswer ==
    ASSUME TypeOK, GuardInv, NEW c \in Calls, NEW a, Answer(a, c),
           since # "link" => \A p \in c.touched : Within(p, c.roots)
    PROVE  GuardInv'
<1>1. fs' = fs /\ since' = since /\ walk' = walk /\ call' = [c EXCEPT !.pc = "idle", !.answer = a]
    BY DEF Answer
<1>2. call'.pc = "idle"
    BY <1>1 DEF Calls
<1>3. ASSUME since # "link"
      PROVE  Safe(fs, walk, [c EXCEPT !.pc = "idle", !.answer = a])
    BY <1>3, SafeAnswer DEF GuardInv, Safe
<1> QED  BY <1>1, <1>2, <1>3 DEF GuardInv, Guarding

LEMMA StartGuard ==
    ASSUME TypeOK, NEW tool, NEW req, NEW flag, NEW roots, Start(tool, req, flag, roots)
    PROVE  GuardInv'
<1>1. fs \in Tree /\ fs' = fs
    BY DEF TypeOK, Tree, Start
<1>2. \E text, mode : walk' = Walker(text, mode)
    BY DEF Start
<1>3. Free(fs', walk'.at)
    BY <1>1, <1>2, FreeRoot DEF Walker
<1>4. call'.touched = {} /\ call'.pc \notin Guarded
    <2> DEFINE c == [call EXCEPT !.tool = tool, !.req = req, !.flag = flag, !.answer = "",
                                 !.root = <<>>, !.roots = {}, !.left = roots,
                                 !.target = <<>>, !.touched = {}, !.todo = {}, !.told = {}]
    <2>1. (\E pc \in Guarding : call' = [c EXCEPT !.pc = pc]) \/ call' = [c EXCEPT !.answer = "denied"]
        BY DEF Start, Guarding
    <2>2. c.touched = {} /\ c.pc = "idle" /\ "pc" \in DOMAIN c /\ "touched" \in DOMAIN c
        BY DEF TypeOK, Calls, Start
    <2>3. "idle" \notin Guarded /\ Guarding \cap Guarded = {}
        BY DEF Guarding, Guarded
    <2> HIDE DEF c
    <2> QED  BY <2>1, <2>2, <2>3
<1> QED  BY <1>3, <1>4 DEF GuardInv, Safe, Guarded

LEMMA RootsGuard ==
    ASSUME TypeOK, GuardInv, RootResolved \/ GuardRootResolved
    PROVE  GuardInv'
<1>1. call \in Calls /\ walk \in Walks /\ call.touched = {}
    BY DEF TypeOK, GuardInv, RootResolved, GuardRootResolved, At, Guarding
<1>2. /\ \A p \in {"roots", "resolve"} : p \in Phases \ Guarded
      /\ \A p \in {"roots", "resolve"} : p \notin {"look", "open"}
    BY DEF Phases, Guarded
<1>3. CASE RootResolved
    <2> DEFINE c == [call EXCEPT !.root = walk.at]
    <2>1. c \in Calls /\ c.touched = {}
        BY <1>1 DEF Calls, Walks
    <2>2. \/ Answer("denied", call) \/ Answer("error", call)
          \/ Resolve("roots", Root, "strict", c)
        BY <1>3, Zenon DEF RootResolved
    <2> HIDE DEF c
    <2> QED  BY <1>1, <1>2, <2>1, <2>2, GuardResolve, GuardAnswer
<1>4. CASE GuardRootResolved
    <2> DEFINE more == IF Reached(walk) THEN {walk.at} ELSE {}
               c == [call EXCEPT !.left = Tail(@), !.roots = @ \cup IF Reached(walk) THEN {walk.at} ELSE {}]
    <2>1. call.left # <<>>
        BY <1>4 DEF GuardRootResolved, At, TypeOK
    <2>2. Tail(call.left) \in Seq(Seq(Components)) /\ call.roots \cup more \in SUBSET Seq(Names)
        BY <1>1, <2>1, HeadTailProperties DEF Calls, Walks
    <2>3. c \in Calls /\ c.touched = {}
        BY <1>1, <2>2 DEF Calls
    <2>4. \/ Answer("error", c) \/ Answer("denied", c)
          \/ \E text, mode : Resolve("resolve", text, mode, c)
          \/ \E text, mode : Resolve("roots", text, mode, c)
        BY <1>4, Zenon DEF GuardRootResolved
    <2> HIDE DEF c
    <2> QED  BY <1>2, <2>3, <2>4, GuardResolve, GuardAnswer
<1> QED  BY <1>3, <1>4

LEMMA ResolvedGuard ==
    ASSUME TypeOK, GuardInv, Resolved \/ Rechecked
    PROVE  GuardInv'
<1> DEFINE c == [call EXCEPT !.target = walk.at]
<1>1. call \in Calls /\ walk \in Walks /\ call.touched = {} /\ Finished(walk)
    BY DEF TypeOK, GuardInv, Resolved, Rechecked, At, Guarding
<1>2. c \in Calls /\ c.touched = {} /\ c.target = walk.at /\ c.roots = call.roots
    BY <1>1 DEF Calls, Walks
<1>3. since # "link" => Free(fs, walk.at)
    BY DEF GuardInv, Safe
<1>4. \/ \E a : Answer(a, c)
      \/ Resolve("recheck", call.req, "strict", c)
      \/ /\ Within(walk.at, call.roots)
         /\ \/ Resolve("pull", <<>>, "strict", c)
            \/ \E p \in {"look", "open"} : Resolve(p, walk.at, "strict", c)
    <2>1. CASE Resolved
        BY <2>1, Zenon DEF Resolved
    <2>2. CASE Rechecked
        <3>1. walk.over \notin {"missing", "refused", "loop"} => Reached(walk)
            BY <1>1 DEF Walks, Finished, Reached
        <3> QED  BY <2>2, <3>1, Zenon DEF Rechecked
    <2> QED  BY <2>1, <2>2
<1>5. /\ "recheck" \in Phases \ Guarded /\ "pull" \in Phases \ Guarding
      /\ \A p \in {"look", "open"} : p \in Phases \ Guarding
    BY DEF Phases, Guarding, Guarded
<1> HIDE DEF c
<1>6. ASSUME NEW a, Answer(a, c)
      PROVE  GuardInv'
    BY <1>2, <1>6, GuardAnswer
<1>7. CASE Resolve("recheck", call.req, "strict", c)
    BY <1>2, <1>5, <1>7, GuardResolve
<1>8. CASE Within(walk.at, call.roots) /\ Resolve("pull", <<>>, "strict", c)
    BY <1>2, <1>3, <1>5, <1>8, GuardResolve
<1>9. ASSUME Within(walk.at, call.roots), NEW p \in {"look", "open"}, Resolve(p, walk.at, "strict", c)
      PROVE  GuardInv'
    BY <1>2, <1>3, <1>5, <1>9, GuardResolve
<1> QED  BY <1>4, <1>6, <1>7, <1>8, <1>9

\* The target is looked at again after the pull, which changed no name on the
\* way to it into a link.
LEMMA PullGuard ==
    ASSUME TypeOK, GuardInv, Pull
    PROVE  GuardInv'
<1>1. call \in Calls /\ call.pc = "pull"
    BY DEF TypeOK, Pull, At
<1>2. \/ walk' = Walker(call.target, "strict") /\ call' = [call EXCEPT !.pc = "look"]
      \/ walk' = Walker(Parent(call.target), "mkdir") /\ call' = [call EXCEPT !.pc = "mkdir"]
    BY DEF Pull
<1>3. ASSUME since' # "link"
      PROVE  since # "link" /\ fs' \in Tree /\ \A p : Free(fs, p) => Free(fs', p)
    <2>1. PICK t \in Trees \cup {fs} : IF t = fs THEN UNCHANGED <<fs, since, used>> ELSE Others(t)
        BY DEF Pull
    <2>2. t \in Tree
        BY DEF TypeOK, Tree
    <2>3. CASE t = fs
        BY <1>3, <2>1, <2>3 DEF TypeOK, Tree
    <2>4. CASE t # fs
        BY <1>3, <2>1, <2>2, <2>4, OthersFree
    <2> QED  BY <2>3, <2>4
<1>4. ASSUME since' # "link"
      PROVE  Free(fs', call.target) /\ Within(call.target, call.roots)
                 /\ \A p \in call.touched : Within(p, call.roots)
    BY <1>1, <1>3, <1>4 DEF GuardInv, Safe, Guarded
<1>5. ASSUME since' # "link"
      PROVE  Safe(fs', walk', call')
    <2>1. "look" \in Phases /\ "mkdir" \in Phases \ {"look", "open"}
        BY DEF Phases
    <2>2. CASE walk' = Walker(call.target, "strict") /\ call' = [call EXCEPT !.pc = "look"]
        <3>1. Safe(fs', Walker(call.target, "strict"), [call EXCEPT !.pc = "look"])
            BY <1>1, <1>3, <1>4, <1>5, <2>1, SafeResolve
        <3> QED  BY <2>2, <3>1
    <2>3. CASE walk' = Walker(Parent(call.target), "mkdir") /\ call' = [call EXCEPT !.pc = "mkdir"]
        <3>1. Safe(fs', Walker(Parent(call.target), "mkdir"), [call EXCEPT !.pc = "mkdir"])
            BY <1>1, <1>3, <1>4, <1>5, <2>1, SafeResolve
        <3> QED  BY <2>3, <3>1
    <2> QED  BY <1>2, <2>2, <2>3
<1>6. call'.pc \notin Guarding
    BY <1>1, <1>2 DEF Calls, Guarding
<1> QED  BY <1>5, <1>6 DEF GuardInv

\* What is touched at the end of a look or an opening is the resolved target.
LEMMA TouchInside ==
    ASSUME TypeOK, GuardInv, since # "link", At("look") \/ At("open")
    PROVE  \A p \in Touch.touched : Within(p, call.roots)
<1>1. call \in Calls /\ walk \in Walks /\ Safe(fs, walk, call) /\ call.pc \in {"look", "open"}
    BY DEF TypeOK, GuardInv, At
<1>2. call.target \in Seq(Names) /\ Within(call.target, call.roots)
    BY <1>1 DEF Calls, Safe, Guarded
<1>3. Reached(walk) => walk.at = call.target
    BY <1>1, <1>2, FollowsEnd DEF Safe, Reached
<1>4. Touch.touched = call.touched \cup IF Reached(walk) THEN {walk.at} ELSE {}
    BY <1>1 DEF Touch, Calls
<1> QED  BY <1>1, <1>2, <1>3, <1>4 DEF Safe

LEMMA OpenGuard ==
    ASSUME TypeOK, GuardInv, Looked \/ ParentMade \/ Opened
    PROVE  GuardInv'
<1> DEFINE links == {n \in Names : Here(fs, Append(walk.at, n)).kind = "link"}
           d == [Touch EXCEPT !.todo = links]
<1>1. /\ call \in Calls /\ Touch \in Calls
      /\ Touch.target = call.target /\ Touch.roots = call.roots
    BY TouchType DEF TypeOK, Touch, Calls
<1>2. d \in Calls /\ d.target = call.target /\ d.roots = call.roots /\ d.touched = Touch.touched
    BY <1>1 DEF Calls
<1>3. call.pc \in Guarded
    BY DEF Looked, ParentMade, Opened, At, Guarded
<1>4. since # "link" => /\ Free(fs, call.target) /\ Within(call.target, call.roots)
                        /\ \A p \in call.touched : Within(p, call.roots)
    BY <1>3 DEF GuardInv, Safe
<1>5. /\ "open" \in Phases \ Guarding /\ "mkdir" \in Phases \ Guarding /\ "mkdir" \notin {"look", "open"}
      /\ "describe" \in Phases \ Guarding /\ "describe" \notin {"look", "open"}
    BY DEF Phases, Guarding
<1> HIDE DEF d
<1>6. CASE ParentMade
    <2>1. Resolve("open", call.target, "create", call) \/ Answer("error", call)
        BY <1>6 DEF ParentMade
    <2> QED  BY <1>1, <1>4, <1>5, <2>1, GuardResolve, GuardAnswer
<1>7. CASE Looked \/ Opened
    <2>1. since # "link" => \A p \in Touch.touched : Within(p, call.roots)
        BY <1>7, TouchInside DEF Looked, Opened
    <2>2. \/ \E a : Answer(a, Touch) \/ Answer(a, call)
          \/ \E mode : Resolve("open", call.target, mode, Touch)
          \/ Resolve("mkdir", Parent(call.target), "mkdir", Touch)
          \/ Resolve("describe", <<>>, "strict", d)
        <3>1. CASE Looked
            BY <3>1, Zenon DEF Looked
        <3>2. CASE Opened
            BY <3>2, Zenon DEF Opened, d
        <3> QED  BY <1>7, <3>1, <3>2
    <2>3. ASSUME NEW a, Answer(a, Touch) \/ Answer(a, call)
          PROVE  GuardInv'
        BY <1>1, <1>4, <2>1, <2>3, GuardAnswer
    <2>4. ASSUME NEW mode, Resolve("open", call.target, mode, Touch)
          PROVE  GuardInv'
        BY <1>1, <1>4, <1>5, <2>1, <2>4, GuardResolve
    <2>5. CASE Resolve("mkdir", Parent(call.target), "mkdir", Touch)
        BY <1>1, <1>4, <1>5, <2>1, <2>5, GuardResolve
    <2>6. CASE Resolve("describe", <<>>, "strict", d)
        BY <1>2, <1>4, <1>5, <2>1, <2>6, GuardResolve
    <2> QED  BY <2>2, <2>3, <2>4, <2>5, <2>6
<1> QED  BY <1>6, <1>7

\* Describing a link resolves it and touches nothing.
LEMMA ListingGuard ==
    ASSUME TypeOK, GuardInv, Listed \/ Described \/ \E n \in Names : Describe(n)
    PROVE  GuardInv'
<1>1. call \in Calls /\ call.pc \in Guarded
    BY DEF TypeOK, Listed, Described, Describe, At, Guarded
<1>2. since # "link" => /\ Free(fs, call.target) /\ Within(call.target, call.roots)
                        /\ \A p \in call.touched : Within(p, call.roots)
    BY <1>1 DEF GuardInv, Safe
<1>3. \A p \in {"describe", "described"} : p \in Phases \ Guarding /\ p \notin {"look", "open"}
    BY DEF Phases, Guarding
<1>4. CASE Listed
    BY <1>1, <1>2, <1>4, GuardAnswer DEF Listed
<1>5. CASE Described
    <2> DEFINE shown == Reached(walk) /\ IsPrefix(call.root, walk.at)
               e == [name |-> call.child, shown |-> shown, at |-> IF shown THEN walk.at ELSE <<>>]
               c == [call EXCEPT !.told = @ \cup {e}]
    <2>1. e \in [name : Names, shown : BOOLEAN, at : Seq(Names)]
        <3>1. shown \in BOOLEAN
            BY DEF Reached
        <3> HIDE DEF shown
        <3> QED  BY <3>1 DEF TypeOK, Calls, Walks
    <2>2. c \in Calls /\ c.target = call.target /\ c.roots = call.roots /\ c.touched = call.touched
        <3> HIDE DEF e
        <3> QED  BY <1>1, <2>1 DEF Calls
    <2>3. Resolve("describe", <<>>, "strict", c)
        BY <1>5, Zenon DEF Described
    <2> HIDE DEF c
    <2> QED  BY <1>2, <1>3, <2>2, <2>3, GuardResolve
<1>6. ASSUME NEW n \in Names, Describe(n)
      PROVE  GuardInv'
    <2> DEFINE c == [call EXCEPT !.todo = @ \ {n}, !.child = n]
    <2>1. c \in Calls /\ c.target = call.target /\ c.roots = call.roots /\ c.touched = call.touched
        BY <1>1 DEF Calls
    <2>2. Resolve("described", Append(call.target, n), "lenient", c)
        BY <1>6 DEF Describe
    <2> HIDE DEF c
    <2> QED  BY <1>2, <1>3, <2>1, <2>2, GuardResolve
<1> QED  BY <1>4, <1>5, <1>6

LEMMA GuardHolds == Spec => []GuardInv
<1>1. Init => GuardInv
    <2> SUFFICES ASSUME Init PROVE GuardInv
        OBVIOUS
    <2>1. fs \in Tree /\ walk.at = <<>> /\ call.pc = "idle" /\ call.touched = {}
        BY DEF Init, Tree, Walker
    <2>2. Free(fs, walk.at)
        BY <2>1, FreeRoot
    <2> QED  BY <2>1, <2>2 DEF GuardInv, Safe, Guarding, Guarded
<1>2. TypeOK /\ GuardInv /\ [Next]_vars => GuardInv'
    <2> SUFFICES ASSUME TypeOK, GuardInv, [Next]_vars PROVE GuardInv'
        OBVIOUS
    <2>1. CASE UNCHANGED vars
        BY <2>1 DEF vars, GuardInv
    <2>2. CASE OthersChange
        BY <2>2, OthersGuard
    <2>3. CASE Step
        BY <2>3, LookupGuard, RootsGuard, ResolvedGuard, PullGuard, OpenGuard, ListingGuard DEF Step
    <2>4. ASSUME NEW tool \in Tools, NEW req \in Requests, NEW flag \in Flags(tool),
                 NEW roots \in GuardRoots(tool), Start(tool, req, flag, roots)
          PROVE  GuardInv'
        BY <2>4, StartGuard
    <2> QED  BY <2>1, <2>2, <2>3, <2>4 DEF Next
<1> QED  BY <1>1, <1>2, PathsTypeOK, PTL DEF Spec

\* What a tool stats, opens or lists is below a root its guard resolved, unless
\* others turn an entry into a link while it runs.
THEOREM Contained == Spec => []StaysInside
<1>1. GuardInv => StaysInside
    BY DEF GuardInv, Safe, StaysInside
<1> QED  BY <1>1, GuardHolds, PTL

--------------------------------------------------------------------------
(* Where a walk leads.                                                     *)

\* A walk that goes on to v, lookup by lookup, and ends there.
RunsTo(t, w, v) ==
    \E n \in Nat : \E f :
        /\ f[0] = w /\ f[n] = v /\ Finished(v)
        /\ \A i \in 1..n : ~Finished(f[i - 1]) /\ f[i] = Advance(t, f[i - 1])
Outcomes(t, w) == {v \in Walks : RunsTo(t, w, v)}

LEMMA RunsNowhere ==
    ASSUME NEW t, NEW w, NEW v, Finished(w)
    PROVE  RunsTo(t, w, v) <=> v = w
<1>1. ASSUME RunsTo(t, w, v) PROVE v = w
    <2>0. PICK n \in Nat : \E f :
                  /\ f[0] = w /\ f[n] = v
                  /\ \A i \in 1..n : ~Finished(f[i - 1]) /\ f[i] = Advance(t, f[i - 1])
        BY <1>1 DEF RunsTo
    <2>1. PICK f : /\ f[0] = w /\ f[n] = v
                   /\ \A i \in 1..n : ~Finished(f[i - 1]) /\ f[i] = Advance(t, f[i - 1])
        BY <2>0
    <2>2. CASE n = 0
        BY <2>1, <2>2
    <2>3. CASE n # 0
        <3>1. 1 \in 1..n
            BY <2>3
        <3>2. ~Finished(f[1 - 1])
            BY <2>1, <3>1
        <3> QED  BY <2>1, <3>2
    <2> QED  BY <2>2, <2>3
<1>2. RunsTo(t, w, w)
    <2> DEFINE f == [i \in {0} |-> w]
    <2>1. f[0] = w /\ 0 \in Nat
        OBVIOUS
    <2>2. \A i \in 1..0 : ~Finished(f[i - 1]) /\ f[i] = Advance(t, f[i - 1])
        OBVIOUS
    <2> HIDE DEF f
    <2> QED  BY <2>1, <2>2 DEF RunsTo
<1> QED  BY <1>1, <1>2

LEMMA RunsOn ==
    ASSUME NEW t, NEW w, NEW v, ~Finished(w)
    PROVE  RunsTo(t, w, v) <=> RunsTo(t, Advance(t, w), v)
<1>1. ASSUME RunsTo(t, w, v) PROVE RunsTo(t, Advance(t, w), v)
    <2>0. PICK n \in Nat : \E f :
                  /\ f[0] = w /\ f[n] = v /\ Finished(v)
                  /\ \A i \in 1..n : ~Finished(f[i - 1]) /\ f[i] = Advance(t, f[i - 1])
        BY <1>1 DEF RunsTo
    <2>1. PICK f : /\ f[0] = w /\ f[n] = v /\ Finished(v)
                   /\ \A i \in 1..n : ~Finished(f[i - 1]) /\ f[i] = Advance(t, f[i - 1])
        BY <2>0
    <2>2. n # 0
        BY <2>1
    <2>3. PICK m \in Nat : n = m + 1
        <3>1. n - 1 \in Nat /\ n = (n - 1) + 1
            BY <2>2
        <3> QED  BY <3>1
    <2> DEFINE g == [i \in 0..m |-> f[i + 1]]
    <2>4. \A i \in 0..m : g[i] = f[i + 1]
        OBVIOUS
    <2> HIDE DEF g
    <2>5. g[0] = Advance(t, w)
        <3>1. 0 \in 0..m /\ 1 \in 1..n /\ 1 - 1 = 0 /\ 0 + 1 = 1
            BY <2>3
        <3>2. f[1] = Advance(t, f[1 - 1])
            BY <2>1, <3>1
        <3>3. g[0] = f[0 + 1]
            BY <2>4, <3>1
        <3> QED  BY <2>1, <3>1, <3>2, <3>3
    <2>6. g[m] = v
        <3>1. m \in 0..m
            OBVIOUS
        <3> QED  BY <2>1, <2>3, <2>4, <3>1
    <2>7. ASSUME NEW i \in 1..m PROVE ~Finished(g[i - 1]) /\ g[i] = Advance(t, g[i - 1])
        <3>1. i + 1 \in 1..n /\ i \in 0..m /\ i - 1 \in 0..m /\ (i + 1) - 1 = i /\ (i - 1) + 1 = i
            BY <2>3
        <3>2. ~Finished(f[(i + 1) - 1]) /\ f[i + 1] = Advance(t, f[(i + 1) - 1])
            BY <2>1, <3>1
        <3>3. g[i] = f[i + 1]
            BY <2>4, <3>1
        <3>4. g[i - 1] = f[(i - 1) + 1]
            BY <2>4, <3>1
        <3> QED  BY <3>1, <3>2, <3>3, <3>4
    <2> QED  BY <2>1, <2>5, <2>6, <2>7 DEF RunsTo
<1>2. ASSUME RunsTo(t, Advance(t, w), v) PROVE RunsTo(t, w, v)
    <2>0. PICK m \in Nat : \E g :
                  /\ g[0] = Advance(t, w) /\ g[m] = v /\ Finished(v)
                  /\ \A i \in 1..m : ~Finished(g[i - 1]) /\ g[i] = Advance(t, g[i - 1])
        BY <1>2 DEF RunsTo
    <2>1. PICK g : /\ g[0] = Advance(t, w) /\ g[m] = v /\ Finished(v)
                   /\ \A i \in 1..m : ~Finished(g[i - 1]) /\ g[i] = Advance(t, g[i - 1])
        BY <2>0
    <2> DEFINE f == [i \in 0..(m + 1) |-> IF i = 0 THEN w ELSE g[i - 1]]
    <2>2. /\ f[0] = w
          /\ \A i \in 1..(m + 1) : f[i] = g[i - 1]
        OBVIOUS
    <2> HIDE DEF f
    <2>3. f[m + 1] = v
        <3>1. m + 1 \in 1..(m + 1) /\ (m + 1) - 1 = m
            OBVIOUS
        <3>2. f[m + 1] = g[(m + 1) - 1]
            BY <2>2, <3>1
        <3> QED  BY <2>1, <3>1, <3>2
    <2>4. ASSUME NEW i \in 1..(m + 1) PROVE ~Finished(f[i - 1]) /\ f[i] = Advance(t, f[i - 1])
        <3>0. f[i] = g[i - 1]
            BY <2>2
        <3>1. CASE i = 1
            <4>1. i - 1 = 0
                BY <3>1
            <4> QED  BY <2>1, <2>2, <3>0, <4>1
        <3>2. CASE i # 1
            <4>1. i - 1 \in 1..m /\ i - 1 \in 1..(m + 1)
                BY <3>2
            <4>2. ~Finished(g[(i - 1) - 1]) /\ g[i - 1] = Advance(t, g[(i - 1) - 1])
                BY <2>1, <4>1
            <4>3. f[i - 1] = g[(i - 1) - 1]
                BY <2>2, <4>1
            <4> QED  BY <3>0, <4>2, <4>3
        <3> QED  BY <3>1, <3>2
    <2>5. m + 1 \in Nat
        OBVIOUS
    <2> QED  BY <2>1, <2>2, <2>3, <2>4, <2>5 DEF RunsTo
<1> QED  BY <1>1, <1>2

\* Ends is what its definition says: a function that gives a finished walk itself, and
\* any other what its next lookup gives.
LEMMA EndsIs ==
    ASSUME NEW t \in Tree
    PROVE  \A w \in Walks : Ends(t)[w] = IF Finished(w) THEN w ELSE Ends(t)[Advance(t, w)]
<1> DEFINE g == [w \in Walks |-> CHOOSE v : v \in Outcomes(t, w)]
<1>1. \A w \in Walks : g[w] = CHOOSE v : v \in Outcomes(t, w)
    OBVIOUS
<1>2. g = [w \in Walks |-> g[w]]
    OBVIOUS
<1> HIDE DEF g
<1>3. ASSUME NEW w \in Walks
      PROVE  g[w] = IF Finished(w) THEN w ELSE g[Ahead(t, w, MaxHops, 1)]
    <2>1. CASE Finished(w)
        <3>1. Outcomes(t, w) = {w}
            BY <2>1, RunsNowhere DEF Outcomes
        <3>2. (CHOOSE v : v \in {w}) = w
            OBVIOUS
        <3> QED  BY <1>1, <2>1, <3>1, <3>2
    <2>2. CASE ~Finished(w)
        <3>1. Advance(t, w) \in Walks
            BY <2>2, AdvanceType
        <3>2. Outcomes(t, w) = Outcomes(t, Advance(t, w))
            BY <2>2, RunsOn, Zenon DEF Outcomes
        <3>3. g[w] = g[Advance(t, w)]
            BY <1>1, <3>1, <3>2, Zenon
        <3> QED  BY <2>2, <3>3, Zenon DEF Advance
    <2> QED  BY <2>1, <2>2
<1>4. g = [w \in Walks |-> IF Finished(w) THEN w ELSE g[Ahead(t, w, MaxHops, 1)]]
    BY <1>2, <1>3, Zenon
<1>5. Ends(t) = [w \in Walks |-> IF Finished(w) THEN w ELSE Ends(t)[Ahead(t, w, MaxHops, 1)]]
    BY <1>4, Zenon DEF Ends
<1>6. PICK e : e = Ends(t)
    OBVIOUS
<1>7. e = [w \in Walks |-> IF Finished(w) THEN w ELSE e[Ahead(t, w, MaxHops, 1)]]
    BY <1>5, <1>6, Zenon
<1>8. ASSUME NEW w \in Walks
      PROVE  e[w] = IF Finished(w) THEN w ELSE e[Advance(t, w)]
    BY <1>7, Zenon DEF Advance
<1> QED  BY <1>6, <1>8, Zenon

LEMMA AdvanceMode ==
    ASSUME NEW t \in Tree, NEW w \in Walks, ~Finished(w)
    PROVE  Advance(t, w).mode = w.mode
<1> DEFINE c == Head(w.rest)
           p == Append(w.at, c)
           n == Here(t, p)
<1>1. ASSUME NEW q, NEW r, NEW k PROVE [w EXCEPT !.at = q, !.rest = r, !.found = k].mode = w.mode
    BY DEF Walks
<1>2. ASSUME NEW r, NEW h PROVE [w EXCEPT !.rest = r, !.hops = h].mode = w.mode
    BY DEF Walks
<1>3. ASSUME NEW o PROVE [w EXCEPT !.over = o].mode = w.mode
    BY DEF Walks
<1>4. PICK v : v = Advance(t, w)
    OBVIOUS
<1>5. \/ v = [w EXCEPT !.at = IF c = "/" THEN <<>> ELSE Parent(w.at), !.rest = Tail(w.rest), !.found = "dir"]
      \/ v = (IF w.hops = MaxHops THEN [w EXCEPT !.over = "loop"]
              ELSE [w EXCEPT !.rest = n.to \o Tail(w.rest), !.hops = w.hops + 1])
      \/ \E o \in {"missing", "refused"} : v = [w EXCEPT !.over = o]
      \/ \E k \in {"none", "dir", "file", "big"} : v = [w EXCEPT !.at = p, !.rest = Tail(w.rest), !.found = k]
    BY <1>4, AdvanceCases, ZenonT(60)
<1> HIDE DEF c, p, n
<1>6. \/ v = [w EXCEPT !.over = "loop"]
      \/ v = [w EXCEPT !.rest = n.to \o Tail(w.rest), !.hops = w.hops + 1]
      \/ v = [w EXCEPT !.at = IF c = "/" THEN <<>> ELSE Parent(w.at), !.rest = Tail(w.rest), !.found = "dir"]
      \/ \E o \in {"missing", "refused"} : v = [w EXCEPT !.over = o]
      \/ \E k \in {"none", "dir", "file", "big"} : v = [w EXCEPT !.at = p, !.rest = Tail(w.rest), !.found = k]
    BY <1>5
<1>7. CASE v = [w EXCEPT !.over = "loop"]
    BY <1>3, <1>4, <1>7
<1>8. CASE v = [w EXCEPT !.rest = n.to \o Tail(w.rest), !.hops = w.hops + 1]
    BY <1>2, <1>4, <1>8
<1>9. CASE v = [w EXCEPT !.at = IF c = "/" THEN <<>> ELSE Parent(w.at), !.rest = Tail(w.rest), !.found = "dir"]
    BY <1>1, <1>4, <1>9
<1>10. ASSUME NEW o, v = [w EXCEPT !.over = o]
       PROVE  v.mode = w.mode
    BY <1>3, <1>10
<1>11. ASSUME NEW k, v = [w EXCEPT !.at = p, !.rest = Tail(w.rest), !.found = k]
       PROVE  v.mode = w.mode
    BY <1>1, <1>11
<1>12. v.mode = w.mode
    BY <1>4, <1>6, <1>7, <1>8, <1>9, <1>10, <1>11, Zenon
<1> QED  BY <1>4, <1>12

LEMMA WayGoesOn ==
    ASSUME TypeOK, NEW text, NEW mode, OnTheWay(text, mode), Lookup, fs' = fs
    PROVE  OnTheWay(text, mode)'
<1>1. fs \in Tree /\ walk \in Walks /\ ~Finished(walk) /\ walk' = Advance(fs, walk)
    BY DEF TypeOK, Tree, Lookup
<1>2. Ends(fs)[walk] = Ends(fs)[walk']
    BY <1>1, EndsIs
<1>3. walk'.mode = walk.mode
    BY <1>1, AdvanceMode
<1> QED  BY <1>1, <1>2, <1>3, Zenon DEF OnTheWay, Leads

LEMMA WayEnds ==
    ASSUME TypeOK, NEW text, NEW mode, OnTheWay(text, mode), Finished(walk)
    PROVE  Leads(fs, text, mode) = walk
BY EndsIs DEF OnTheWay, TypeOK, Tree

\* Only mkdir and an open for writing make an entry.
LEMMA LooksOnly ==
    ASSUME Lookup, walk.mode \in {"lenient", "strict"}
    PROVE  fs' = fs
BY DEF Lookup, Makes

--------------------------------------------------------------------------
(* Trees.                                                                  *)

\* What is above something is a directory.
LEMMA AboveIsDir ==
    ASSUME NEW t \in Tree, Grown(t), NEW q \in Seq(Names), NEW p \in Seq(Names),
           IsPrefix(p, q), p # q, Here(t, q).kind # "none"
    PROVE  Here(t, p).kind = "dir"
<1>1. q \in Places /\ t[q].kind # "none"
    BY DEF Here, Nothing
<1>2. Len(p) \in Nat /\ Len(p) <= Len(q) /\ \A i \in 1..Len(p) : p[i] = q[i]
    BY PrefixIff
<1>3. Len(p) # Len(q)
    <2> SUFFICES ASSUME Len(p) = Len(q) PROVE p = q
        OBVIOUS
    <2> QED  BY <1>2, SeqEqual
<1>4. Len(p) \in 0..(Len(q) - 1)
    BY <1>2, <1>3
<1>5. p = SubSeq(q, 1, Len(p))
    <2>1. /\ SubSeq(q, 1, Len(p)) \in Seq(Names) /\ Len(SubSeq(q, 1, Len(p))) = Len(p)
          /\ \A i \in 1..Len(p) : SubSeq(q, 1, Len(p))[i] = q[i]
        BY <1>2
    <2> QED  BY <1>2, <2>1, SeqEqual
<1>6. SubSeq(q, 1, Len(p)) \in Places /\ t[SubSeq(q, 1, Len(p))].kind = "dir"
    BY <1>1, <1>4 DEF Grown
<1> QED  BY <1>5, <1>6 DEF Here

LEMMA AboveIsThere ==
    ASSUME NEW t \in Tree, Grown(t), NEW q \in Seq(Names), NEW p \in Seq(Names),
           IsPrefix(p, q), Here(t, q).kind # "none"
    PROVE  Here(t, p).kind # "none"
BY AboveIsDir

LEMMA RootIsDir ==
    ASSUME NEW t \in Tree, Grown(t)
    PROVE  Here(t, <<>>).kind = "dir"
BY DEF Grown, Here

LEMMA ParentIsThere ==
    ASSUME NEW t \in Tree, Grown(t), NEW p \in Seq(Names), Here(t, p).kind # "none"
    PROVE  Here(t, Parent(p)).kind # "none"
<1>1. Parent(p) \in Seq(Names)
    BY ParentType
<1>2. IsPrefix(Parent(p), p)
    <2>1. Len(Parent(p)) <= Len(p) /\ \A i \in 1..Len(Parent(p)) : Parent(p)[i] = p[i]
        BY SMT DEF Parent
    <2> QED  BY <1>1, <2>1, PrefixIff
<1> QED  BY <1>1, <1>2, AboveIsThere

\* A new entry in a directory takes nothing away and puts nothing below a file.
Entered(t, p, k) == [t EXCEPT ![p] = [kind |-> k, to |-> <<>>]]

LEMMA GrownMade ==
    ASSUME NEW t \in Tree, Grown(t), NEW at \in Seq(Names), NEW c \in Names, NEW k \in {"dir", "file"},
           Append(at, c) \in Places, Here(t, Append(at, c)).kind = "none", Here(t, at).kind = "dir",
           NEW u, u = Entered(t, Append(at, c), k)
    PROVE  /\ Grown(u) /\ Here(u, Append(at, c)).kind = k
           /\ \A q : Here(t, q).kind # "none" => Here(u, q) = Here(t, q)
<1>0. PICK p : p = Append(at, c)
    OBVIOUS
<1>1. /\ p \in Places /\ p \in Seq(Names) /\ t[p].kind = "none" /\ at \in Places /\ t[at].kind = "dir"
      /\ Len(p) = Len(at) + 1 /\ at = SubSeq(p, 1, Len(at)) /\ p # <<>>
    <2>1. p \in Seq(Names) /\ Len(p) = Len(at) + 1 /\ p # <<>>
        BY <1>0
    <2>2. at = SubSeq(p, 1, Len(at))
        BY <1>0
    <2> QED  BY <1>0, <2>1, <2>2 DEF Here, Nothing
<1>2. /\ u[p].kind = k
      /\ \A q \in Places : q # p => u[q] = t[q]
    BY <1>0, <1>1 DEF Tree, Entered
<1>3. Here(u, p).kind = k
    BY <1>1, <1>2 DEF Here
<1>4. \A q : Here(t, q).kind # "none" => Here(u, q) = Here(t, q)
    BY <1>1, <1>2 DEF Here
<1>5. ASSUME NEW q \in Places, NEW j \in 0..(Len(q) - 1)
      PROVE  SubSeq(q, 1, j) \in Places /\ (u[q].kind # "none" => u[SubSeq(q, 1, j)].kind = "dir")
    <2>1. PICK r : r = SubSeq(q, 1, j)
        OBVIOUS
    <2>2. r \in Places /\ (t[q].kind # "none" => t[r].kind = "dir")
        BY <2>1 DEF Grown
    <2>3. r = p => t[q].kind = "none"
        BY <1>1, <2>2
    <2>4. ASSUME q = p PROVE t[r].kind = "dir"
        <3>1. j \in 0..Len(at) /\ Len(at) \in Nat
            BY <1>1, <2>4
        <3>2. CASE j = Len(at)
            BY <1>1, <2>1, <2>4, <3>2
        <3>3. CASE j # Len(at)
            <4>1. j \in 0..(Len(at) - 1)
                BY <3>1, <3>3
            <4>2. SubSeq(at, 1, j) = SubSeq(p, 1, j)
                <5>1. SubSeq(at, 1, j) \in Seq(Names) /\ SubSeq(p, 1, j) \in Seq(Names)
                    BY <1>1, <4>1
                <5>2. Len(SubSeq(at, 1, j)) = j /\ Len(SubSeq(p, 1, j)) = j
                    BY <1>1, <4>1
                <5>3. \A i \in 1..j : SubSeq(at, 1, j)[i] = at[i] /\ SubSeq(p, 1, j)[i] = p[i]
                    BY <1>1, <4>1
                <5>4. \A i \in 1..j : at[i] = p[i]
                    BY <1>0, <4>1
                <5> QED  BY <5>1, <5>2, <5>3, <5>4, SeqEqual
            <4>3. t[SubSeq(at, 1, j)].kind = "dir"
                BY <1>1, <4>1 DEF Grown
            <4> QED  BY <2>1, <2>4, <4>2, <4>3
        <3> QED  BY <3>2, <3>3
    <2>5. r # p \/ q # p
        BY <1>1, <2>1, <2>4
    <2>6. CASE r = p
        BY <1>2, <2>1, <2>2, <2>3, <2>5, <2>6
    <2>7. CASE r # p
        BY <1>2, <2>1, <2>2, <2>4, <2>7
    <2> QED  BY <2>6, <2>7
<1>6. <<>> \in Places /\ u[<<>>].kind = "dir"
    BY <1>1, <1>2 DEF Grown
<1> QED  BY <1>0, <1>3, <1>4, <1>5, <1>6 DEF Grown

LEMMA GrownLookup ==
    ASSUME TypeOK, Grown(fs), Lookup
    PROVE  /\ Grown(fs') /\ \A q : Here(fs, q).kind # "none" => Here(fs', q) = Here(fs, q)
           /\ Makes(fs, walk) => Here(fs', Append(walk.at, Head(walk.rest))).kind = Made(walk)
<1>1. fs \in Tree /\ walk \in Walks
    BY DEF TypeOK, Tree
<1>2. CASE ~Makes(fs, walk)
    BY <1>2 DEF Lookup
<1>3. CASE Makes(fs, walk)
    <2>1. PICK at, c, k : at = walk.at /\ c = Head(walk.rest) /\ k = Made(walk)
        OBVIOUS
    <2>2. /\ Append(at, c) \in Places /\ Here(fs, Append(at, c)).kind = "none"
          /\ Here(fs, at).kind = "dir" /\ k \in {"dir", "file"}
          /\ fs' = Entered(fs, Append(at, c), k)
        BY <1>3, <2>1 DEF Lookup, Makes, Made, Entered
    <2>3. at \in Seq(Names)
        BY <1>1, <2>1 DEF Walks
    <2>4. c \in Names
        <3>1. Append(at, c) \in Seq(Names)
            BY <2>2
        <3>2. Append(at, c)[Len(at) + 1] = c /\ Len(Append(at, c)) = Len(at) + 1
            BY <2>3
        <3>3. Len(at) + 1 \in 1..Len(Append(at, c))
            BY <2>3, <3>2
        <3> QED  BY <3>1, <3>2, <3>3, ElementOfSeq
    <2>5. PICK u : u = fs'
        OBVIOUS
    <2>6. /\ Grown(u) /\ Here(u, Append(at, c)).kind = k
          /\ \A q : Here(fs, q).kind # "none" => Here(u, q) = Here(fs, q)
        <3>1. PICK t : t = fs
            OBVIOUS
        <3>2. /\ t \in Tree /\ Grown(t) /\ u = Entered(t, Append(at, c), k)
              /\ Here(t, Append(at, c)).kind = "none" /\ Here(t, at).kind = "dir"
            BY <1>1, <2>2, <2>5, <3>1, Zenon
        <3>3. /\ Grown(u) /\ Here(u, Append(at, c)).kind = k
              /\ \A q : Here(t, q).kind # "none" => Here(u, q) = Here(t, q)
            BY <2>2, <2>3, <2>4, <3>2, GrownMade
        <3> QED  BY <3>1, <3>3, Zenon
    <2> QED  BY <2>1, <2>5, <2>6, Zenon
<1> QED  BY <1>2, <1>3

--------------------------------------------------------------------------
(* Verdicts.                                                               *)

\* A root that is neither there nor skipped leaves no sound goal.
LEMMA GoalUnsound ==
    ASSUME NEW t, NEW tool, NEW req, NEW roots, NEW i \in DOMAIN roots,
           NEW v, v = Leads(t, roots[i], "strict"),
           ~Reached(v), tool = "tail_log" => v.over # "missing"
    PROVE  ~Goal(t, tool, req, roots).sound
<1>1. PICK dirs : dirs = {Leads(t, roots[j], "strict") : j \in DOMAIN roots}
    OBVIOUS
<1>2. ~Sound(tool, dirs)
    BY <1>1 DEF Sound
<1>3. \E e, x, y, z : Goal(t, tool, req, roots) =
          [sound |-> Reached(e) /\ Sound(tool, dirs), inside |-> x, at |-> y, kind |-> z]
    BY <1>1, Zenon DEF Goal
<1>4. PICK e, x, y, z : Goal(t, tool, req, roots) =
          [sound |-> Reached(e) /\ Sound(tool, dirs), inside |-> x, at |-> y, kind |-> z]
    BY <1>3
<1>5. Goal(t, tool, req, roots).sound = (Reached(e) /\ Sound(tool, dirs))
    BY <1>4
<1> QED  BY <1>2, <1>5, Zenon

--------------------------------------------------------------------------
(* What a call knows.                                                      *)

Known == GuardingInv /\ PassedInv /\ FoundInv /\ ListingInv /\ VerdictsAreRight /\ ListingAgreesWithGuard

\* An answer that is right ends the call with all of it known.
LEMMA KnownAnswer ==
    ASSUME TypeOK, since = "nothing", NEW c \in Calls, NEW a, Answer(a, c), Right(a),
           c.tool = call.tool, c.root = call.root, c.told = call.told,
           call.told = {} \/ (c.target = call.target /\ Agrees(fs, call.root, call.target, call.told))
    PROVE  Known'
<1>1. /\ fs' = fs /\ goal' = goal /\ since' = since
      /\ call' = [c EXCEPT !.pc = "idle", !.answer = a]
    BY DEF Answer
<1>2. /\ call'.pc = "idle" /\ call'.answer = a /\ call'.tool = call.tool /\ call'.root = call.root
      /\ call'.target = c.target /\ call'.told = call.told
    BY <1>1 DEF Calls
<1>3. VerdictsAreRight'
    BY <1>1, <1>2 DEF VerdictsAreRight, Right, Is, MayWrite
<1>4. Agrees(fs, call.root, c.target, call.told)
    BY DEF Agrees
<1>5. GuardingInv' /\ PassedInv' /\ FoundInv'
    BY <1>2 DEF GuardingInv, PassedInv, FoundInv, Guarded
<1>6. ListingInv' /\ ListingAgreesWithGuard'
    BY <1>1, <1>2, <1>4 DEF ListingInv, ListingAgreesWithGuard, Guarded
<1> QED  BY <1>3, <1>5, <1>6 DEF Known

\* The roots that a guard is given are texts.
LEMMA RootsAre ==
    ASSUME NEW tool, NEW roots \in GuardRoots(tool)
    PROVE  roots \in Seq(Seq(Components)) /\ (tool # "tail_log" => roots = <<Root>>)
<1>1. CASE tool = "tail_log"
    BY <1>1 DEF GuardRoots
<1>2. CASE tool # "tail_log"
    <2>1. roots = <<Root>>
        BY <1>2 DEF GuardRoots
    <2> QED  BY <1>2, <2>1
<1> QED  BY <1>1, <1>2

\* While the guard has not decided, there is nothing else to know.
LEMMA KnownGuarding ==
    ASSUME call'.pc \in Guarding \ {"recheck"}, call'.told = {}, GuardingInv'
    PROVE  Known'
<1>1. call'.pc \notin Guarded \cup {"recheck", "idle"}
    BY DEF Guarding, Guarded
<1>2. PassedInv' /\ FoundInv'
    BY <1>1 DEF PassedInv, FoundInv, Guarded
<1>3. ListingInv' /\ ListingAgreesWithGuard' /\ VerdictsAreRight'
    BY <1>1 DEF ListingInv, ListingAgreesWithGuard, VerdictsAreRight, Guarded
<1> QED  BY <1>2, <1>3 DEF Known

\* A call begins on its way to its goal; one that is denied at once asks for no absolute path.
LEMMA StartKnown ==
    ASSUME TypeOK, NEW tool \in Tools, NEW req \in Requests, NEW flag \in Flags(tool),
           NEW roots \in GuardRoots(tool), Start(tool, req, flag, roots)
    PROVE  Known'
<1> DEFINE c == [call EXCEPT !.tool = tool, !.req = req, !.flag = flag, !.answer = "",
                             !.root = <<>>, !.roots = {}, !.left = roots,
                             !.target = <<>>, !.touched = {}, !.todo = {}, !.told = {}]
<1>1. /\ c.pc = "idle" /\ c.tool = tool /\ c.req = req /\ c.root = <<>> /\ c.roots = {} /\ c.left = roots
      /\ c.told = {} /\ c.answer = ""
    BY DEF TypeOK, Calls, Start
<1>2. ASSUME NEW pc
      PROVE  LET d == [c EXCEPT !.pc = pc] IN
             /\ d.pc = pc /\ d.tool = tool /\ d.req = req /\ d.root = <<>> /\ d.roots = {} /\ d.left = roots
             /\ d.told = {}
    BY DEF TypeOK, Calls, Start
<1>3. LET d == [c EXCEPT !.answer = "denied"] IN
      d.pc = "idle" /\ d.tool = tool /\ d.told = {} /\ d.answer = "denied"
    BY DEF TypeOK, Calls, Start
<1> HIDE DEF c
<1>4. /\ fs' = fs /\ goal' = Goal(fs, tool, req, roots) /\ since' = "nothing"
      /\ \/ tool = "tail_log" /\ ~Absolute(req) /\ call' = [c EXCEPT !.answer = "denied"]
         \/ /\ tool = "tail_log" /\ Absolute(req) /\ roots = <<>>
            /\ walk' = Walker(req, "lenient") /\ call' = [c EXCEPT !.pc = "resolve"]
         \/ /\ tool = "tail_log" /\ Absolute(req) /\ roots # <<>>
            /\ walk' = Walker(Head(roots), "strict") /\ call' = [c EXCEPT !.pc = "roots"]
         \/ tool # "tail_log" /\ walk' = Walker(Root, "strict") /\ call' = [c EXCEPT !.pc = "root"]
    BY Zenon DEF Start, c
<1>5. roots \in Seq(Seq(Components)) /\ (tool # "tail_log" => roots = <<Root>>)
    BY RootsAre
<1>6. CASE tool = "tail_log" /\ ~Absolute(req) /\ call' = [c EXCEPT !.answer = "denied"]
    <2>1. ~goal'.inside
        BY <1>4, <1>6 DEF Goal
    <2>2. /\ call'.pc = "idle" /\ call'.told = {} /\ call'.answer = "denied"
        BY <1>3, <1>6
    <2>3. VerdictsAreRight'
        BY <2>1, <2>2 DEF VerdictsAreRight, Right
    <2>4. ListingInv' /\ ListingAgreesWithGuard'
        BY <2>2 DEF ListingInv, ListingAgreesWithGuard, Agrees, Guarded
    <2>5. GuardingInv' /\ PassedInv' /\ FoundInv'
        BY <2>2 DEF GuardingInv, PassedInv, FoundInv, Guarded
    <2> QED  BY <2>3, <2>4, <2>5 DEF Known
<1>7. ASSUME NEW pc \in Guarding \ {"recheck"}, call' = [c EXCEPT !.pc = pc], GuardingInv'
      PROVE  Known'
    BY <1>2, <1>7, KnownGuarding
<1>8. ASSUME NEW k \in Nat, k = 0
      PROVE  call'.roots = {} /\ call'.left = roots => RootsSeen(roots, k)'
    <2>1. SubSeq(roots, 1, Len(roots)) = roots
        BY <1>5
    <2>2. 1..0 = {}
        OBVIOUS
    <2>3. {Leads(fs', roots[i], "strict") : i \in 1..0} = {}
        BY <2>2
    <2> QED  BY <1>8, <2>1, <2>3 DEF RootsSeen, Held, Sound
<1>9. CASE tool = "tail_log" /\ Absolute(req) /\ roots = <<>>
           /\ walk' = Walker(req, "lenient") /\ call' = [c EXCEPT !.pc = "resolve"]
    <2>1. /\ call'.pc = "resolve" /\ call'.tool = tool /\ call'.req = req /\ call'.roots = {} /\ call'.left = roots
        BY <1>2, <1>9
    <2>2. RootsSeen(roots, Len(roots))'
        BY <1>8, <1>9, <2>1
    <2>3. Asked' = req
        BY <1>9, <2>1 DEF Asked, Is
    <2>4. OnTheWay(Asked, "lenient")'
        BY <1>9, <2>3 DEF OnTheWay, Leads, Walker
    <2>5. goal' = Goal(fs', call'.tool, call'.req, roots) /\ roots \in GuardRoots(call'.tool)
        BY <1>4, <2>1
    <2>6. GuardingInv'
        BY <1>9, <2>1, <2>2, <2>4, <2>5 DEF GuardingInv, Is
    <2> QED  BY <1>7, <1>9, <2>6 DEF Guarding
<1>10. CASE tool = "tail_log" /\ Absolute(req) /\ roots # <<>>
            /\ walk' = Walker(Head(roots), "strict") /\ call' = [c EXCEPT !.pc = "roots"]
    <2>1. /\ call'.pc = "roots" /\ call'.tool = tool /\ call'.req = req /\ call'.roots = {} /\ call'.left = roots
        BY <1>2, <1>10
    <2>2. RootsSeen(roots, 0)'
        BY <1>8, <2>1
    <2>3. walk' = Walker(roots[0 + 1], "strict") /\ 0 \in 0..(Len(roots) - 1)
        BY <1>5, <1>10
    <2>4. OnTheWay(roots[0 + 1], "strict")'
        BY <2>3 DEF OnTheWay, Leads, Walker
    <2>5. goal' = Goal(fs', call'.tool, call'.req, roots) /\ roots \in GuardRoots(call'.tool)
        BY <1>4, <2>1
    <2>6. GuardingInv'
        BY <1>10, <2>1, <2>2, <2>3, <2>4, <2>5 DEF GuardingInv, Is
    <2> QED  BY <1>7, <1>10, <2>6 DEF Guarding
<1>11. CASE tool # "tail_log" /\ walk' = Walker(Root, "strict") /\ call' = [c EXCEPT !.pc = "root"]
    <2>1. /\ call'.pc = "root" /\ call'.tool = tool /\ call'.req = req /\ call'.roots = {} /\ call'.left = roots
        BY <1>2, <1>11
    <2>2. RootsSeen(<<Root>>, 0)'
        BY <1>5, <1>8, <1>11, <2>1
    <2>3. OnTheWay(Root, "strict")'
        BY <1>11 DEF OnTheWay, Leads, Walker
    <2>4. goal' = Goal(fs', call'.tool, call'.req, <<Root>>)
        BY <1>4, <1>5, <1>11, <2>1
    <2>5. GuardingInv'
        BY <1>11, <2>1, <2>2, <2>3, <2>4 DEF GuardingInv, Is
    <2> QED  BY <1>7, <1>11, <2>5 DEF Guarding
<1> QED  BY <1>4, <1>6, <1>9, <1>10, <1>11

\* The root that answers are relative to is known, or the goal is not sound.
LEMMA RootKnownNext ==
    ASSUME TypeOK, since = "nothing", Known, RootResolved
    PROVE  Known'
<1>1. /\ call \in Calls /\ walk \in Walks /\ fs \in Tree /\ call.pc = "root" /\ Finished(walk)
      /\ ~Is({"tail_log"}) /\ goal = Goal(fs, call.tool, call.req, <<Root>>)
      /\ RootsSeen(<<Root>>, 0) /\ OnTheWay(Root, "strict") /\ call.told = {}
    BY DEF TypeOK, Tree, Known, GuardingInv, ListingInv, RootResolved, At
<1>2. walk = Leads(fs, Root, "strict")
    BY <1>1, WayEnds
<1>3. CASE Reached(walk)
    <2> DEFINE c == [call EXCEPT !.root = walk.at]
    <2>1. Resolve("roots", Root, "strict", c)
        BY <1>3, Zenon DEF RootResolved
    <2>2. /\ fs' = fs /\ goal' = goal /\ walk' = Walker(Root, "strict") /\ call' = [c EXCEPT !.pc = "roots"]
        BY <2>1 DEF Resolve
    <2>3. /\ call'.pc = "roots" /\ call'.tool = call.tool /\ call'.req = call.req /\ call'.root = walk.at
          /\ call'.roots = call.roots /\ call'.left = call.left /\ call'.told = {}
        BY <1>1, <2>2 DEF Calls
    <2>4. RootsSeen(<<Root>>, 0)'
        <3>1. Is({"tail_log"})' <=> Is({"tail_log"})
            BY <2>3 DEF Is
        <3> QED  BY <1>1, <2>2, <2>3, <3>1, Zenon DEF RootsSeen
    <2>5. RootKnown'
        BY <1>2, <1>3, <2>2, <2>3 DEF RootKnown
    <2>6. OnTheWay(<<Root>>[0 + 1], "strict")' /\ 0 \in 0..(Len(<<Root>>) - 1)
        BY <2>2 DEF OnTheWay, Leads, Walker
    <2>7. ~Is({"tail_log"})' /\ <<Root>> \in GuardRoots(call'.tool) /\ goal' = Goal(fs', call'.tool, call'.req, <<Root>>)
        BY <1>1, <2>2, <2>3 DEF Is, GuardRoots
    <2>8. GuardingInv'
        BY <2>3, <2>4, <2>5, <2>6, <2>7 DEF GuardingInv
    <2> QED  BY <2>3, <2>8, KnownGuarding DEF Guarding
<1>4. CASE ~Reached(walk)
    <2>1. \E a \in {"denied", "error"} : Answer(a, call)
        BY <1>4, Zenon DEF RootResolved
    <2>2. ~goal.sound
        <3>1. 1 \in DOMAIN <<Root>> /\ <<Root>>[1] = Root
            OBVIOUS
        <3>2. call.tool # "tail_log"
            BY <1>1 DEF Is
        <3> QED  BY <1>1, <1>2, <1>4, <3>1, <3>2, GoalUnsound
    <2>3. \A a \in {"denied", "error"} : Right(a)
        BY <2>2 DEF Right
    <2> QED  BY <1>1, <2>1, <2>3, KnownAnswer
<1> QED  BY <1>3, <1>4

\* One more root has been resolved, or has been skipped.
LEMMA RootsSeenNext ==
    ASSUME TypeOK, NEW roots \in Seq(Seq(Components)), NEW k \in 0..(Len(roots) - 1), RootsSeen(roots, k),
           walk = Leads(fs, roots[k + 1], "strict"),
           Reached(walk) \/ (Is({"tail_log"}) /\ walk.over = "missing"),
           fs' = fs, call'.tool = call.tool, call'.left = Tail(call.left),
           call'.roots = call.roots \cup IF Reached(walk) THEN {walk.at} ELSE {}
    PROVE  RootsSeen(roots, k + 1)'
<1>1. PICK seen : seen = {Leads(fs, roots[i], "strict") : i \in 1..k}
    OBVIOUS
<1>2. /\ call.left = SubSeq(roots, k + 1, Len(roots))
      /\ call.roots = {w.at : w \in {v \in seen : Reached(v)}}
      /\ \A v \in seen : Reached(v) \/ (call.tool = "tail_log" /\ v.over = "missing")
    BY <1>1, Zenon DEF RootsSeen, Held, Sound
<1>3. PICK now : now = {Leads(fs, roots[i], "strict") : i \in 1..(k + 1)}
    OBVIOUS
<1>4. now = seen \cup {walk}
    <2>1. \A i : i \in 1..(k + 1) <=> i \in 1..k \/ i = k + 1
        OBVIOUS
    <2> QED  BY <1>1, <1>3, <2>1
<1>5. call'.left = SubSeq(roots, (k + 1) + 1, Len(roots))
    <2>1. Tail(SubSeq(roots, k + 1, Len(roots))) = SubSeq(roots, (k + 1) + 1, Len(roots))
        BY SMTT(30)
    <2> QED  BY <1>2, <2>1
<1>6. call'.roots = {w.at : w \in {v \in now : Reached(v)}}
    <2>1. CASE Reached(walk)
        <3>1. {v \in now : Reached(v)} = {v \in seen : Reached(v)} \cup {walk}
            BY <1>4, <2>1
        <3> QED  BY <1>2, <2>1, <3>1
    <2>2. CASE ~Reached(walk)
        <3>1. {v \in now : Reached(v)} = {v \in seen : Reached(v)}
            BY <1>4, <2>2
        <3> QED  BY <1>2, <2>2, <3>1
    <2> QED  BY <2>1, <2>2
<1>7. Sound(call'.tool, now)
    BY <1>2, <1>4 DEF Is, Sound
<1>8. now = {Leads(fs', roots[i], "strict") : i \in 1..(k + 1)}
    BY <1>3
<1> QED  BY <1>5, <1>6, <1>7, <1>8, Zenon DEF RootsSeen, Held

LEMMA GuardRootKnown ==
    ASSUME TypeOK, since = "nothing", Known, GuardRootResolved
    PROVE  Known'
<1> DEFINE c == [call EXCEPT !.left = Tail(@), !.roots = @ \cup IF Reached(walk) THEN {walk.at} ELSE {}]
<1>1. /\ call \in Calls /\ walk \in Walks /\ fs \in Tree /\ call.pc = "roots" /\ Finished(walk)
      /\ call.told = {} /\ call.left # <<>>
      /\ IF Is({"tail_log"}) THEN Absolute(call.req) ELSE RootKnown
    BY DEF TypeOK, Tree, Known, GuardingInv, ListingInv, GuardRootResolved, At
<1>2. PICK roots \in GuardRoots(call.tool) :
          /\ goal = Goal(fs, call.tool, call.req, roots)
          /\ \E k \in 0..(Len(roots) - 1) : RootsSeen(roots, k) /\ OnTheWay(roots[k + 1], "strict")
    BY <1>1 DEF Known, GuardingInv
<1>3. PICK k \in 0..(Len(roots) - 1) : RootsSeen(roots, k) /\ OnTheWay(roots[k + 1], "strict")
    BY <1>2
<1>4. roots \in Seq(Seq(Components)) /\ (call.tool # "tail_log" => roots = <<Root>>)
    BY RootsAre
<1>5. walk = Leads(fs, roots[k + 1], "strict")
    BY <1>1, <1>3, WayEnds
<1>6. /\ c.tool = call.tool /\ c.req = call.req /\ c.root = call.root /\ c.target = call.target /\ c.told = {}
      /\ c.left = Tail(call.left) /\ c.roots = call.roots \cup IF Reached(walk) THEN {walk.at} ELSE {}
      /\ c \in Calls
    <2>1. Tail(call.left) \in Seq(Seq(Components))
        BY <1>1, HeadTailProperties DEF Calls
    <2>2. call.roots \cup (IF Reached(walk) THEN {walk.at} ELSE {}) \in SUBSET Seq(Names)
        BY <1>1 DEF Calls, Walks
    <2> QED  BY <1>1, <2>1, <2>2 DEF Calls
<1>7. \/ walk.over \in {"refused", "loop"} /\ Answer("error", c)
      \/ walk.over = "missing" /\ ~Is({"tail_log"}) /\ Answer("denied", c)
      \/ walk.over = "no" /\ ~Is({"tail_log"}) /\ Resolve("resolve", Joined(walk.at, call.req), "lenient", c)
      \/ /\ walk.over \in {"no", "missing"} /\ Is({"tail_log"})
         /\ IF c.left # <<>>
            THEN Resolve("roots", Head(c.left), "strict", c)
            ELSE Resolve("resolve", call.req, "lenient", c)
    <2>1. walk.over \in {"no", "missing", "refused", "loop"}
        BY <1>1 DEF Walks
    <2>2. CASE walk.over \in {"refused", "loop"}
        BY <2>2, Zenon DEF GuardRootResolved
    <2>3. CASE walk.over = "missing" /\ ~Is({"tail_log"})
        BY <2>3, Zenon DEF GuardRootResolved
    <2>4. CASE walk.over = "no" /\ ~Is({"tail_log"})
        <3>1. walk.over \notin {"refused", "loop"} /\ walk.over # "missing"
            BY <2>4
        <3> QED  BY <2>4, <3>1, Zenon DEF GuardRootResolved
    <2>5. CASE walk.over \in {"no", "missing"} /\ Is({"tail_log"})
        <3>1. walk.over \notin {"refused", "loop"}
            BY <2>5
        <3> QED  BY <2>5, <3>1, Zenon DEF GuardRootResolved
    <2> QED  BY <2>1, <2>2, <2>3, <2>4, <2>5, Zenon
<1> HIDE DEF c
<1>8. walk.over = "no" => Reached(walk)
    BY <1>1 DEF Finished, Reached
<1>9. CASE walk.over # "no" /\ (walk.over = "missing" => ~Is({"tail_log"}))
           /\ \E a \in {"error", "denied"} : Answer(a, c)
    <2>1. ~goal.sound
        <3>1. k + 1 \in DOMAIN roots
            BY <1>4
        <3>2. ~Reached(walk) /\ (call.tool = "tail_log" => walk.over # "missing")
            BY <1>9 DEF Reached, Is
        <3> QED  BY <1>2, <1>5, <3>1, <3>2, GoalUnsound
    <2>2. \A a \in {"error", "denied"} : Right(a)
        BY <2>1 DEF Right
    <2> QED  BY <1>1, <1>6, <1>9, <2>2, KnownAnswer
<1>10. ASSUME NEW pc \in {"roots", "resolve"}, NEW text, NEW mode, Resolve(pc, text, mode, c),
              walk.over = "no" \/ (walk.over = "missing" /\ Is({"tail_log"}))
       PROVE  /\ fs' = fs /\ goal' = goal /\ walk' = Walker(text, mode)
              /\ call'.pc = pc /\ call'.tool = call.tool /\ call'.req = call.req /\ call'.root = call.root
              /\ call'.told = {} /\ call'.left = c.left
              /\ (IF Is({"tail_log"}) THEN Absolute(call.req) ELSE RootKnown)'
              /\ RootsSeen(roots, k + 1)' /\ OnTheWay(text, mode)'
              /\ goal' = Goal(fs', call'.tool, call'.req, roots) /\ roots \in GuardRoots(call'.tool)
    <2>1. fs' = fs /\ goal' = goal /\ walk' = Walker(text, mode) /\ call' = [c EXCEPT !.pc = pc]
        BY <1>10 DEF Resolve
    <2>2. /\ call'.pc = pc /\ call'.tool = call.tool /\ call'.req = call.req /\ call'.root = call.root
          /\ call'.told = {} /\ call'.left = c.left /\ call'.roots = c.roots
        BY <1>6, <2>1 DEF Calls
    <2>3. RootsSeen(roots, k + 1)'
        BY <1>3, <1>4, <1>5, <1>6, <1>8, <1>10, <2>1, <2>2, RootsSeenNext
    <2>4. OnTheWay(text, mode)'
        BY <2>1 DEF OnTheWay, Leads, Walker
    <2>5. (IF Is({"tail_log"}) THEN Absolute(call.req) ELSE RootKnown)'
        BY <1>1, <2>1, <2>2 DEF Is, RootKnown
    <2> QED  BY <1>2, <2>1, <2>2, <2>3, <2>4, <2>5
<1>11. CASE walk.over = "no" /\ ~Is({"tail_log"}) /\ Resolve("resolve", Joined(walk.at, call.req), "lenient", c)
    <2>1. roots = <<Root>> /\ k = 0 /\ k + 1 = Len(roots)
        <3>1. roots = <<Root>>
            BY <1>4, <1>11 DEF Is
        <3>2. Len(<<Root>>) = 1
            OBVIOUS
        <3> QED  BY <3>1, <3>2
    <2>2. walk.at = call.root
        BY <1>1, <1>5, <1>11, <2>1 DEF RootKnown
    <2>3. Asked' = Joined(walk.at, call.req)
        BY <1>10, <1>11, <2>2 DEF Asked, Is
    <2>4. RootsSeen(roots, Len(roots))' /\ OnTheWay(Asked, "lenient")'
        BY <1>10, <1>11, <2>1, <2>3 DEF OnTheWay
    <2>5. GuardingInv'
        BY <1>10, <1>11, <2>4 DEF GuardingInv
    <2> QED  BY <1>10, <1>11, <2>5, KnownGuarding DEF Guarding
<1>12. CASE walk.over \in {"no", "missing"} /\ Is({"tail_log"}) /\ c.left # <<>>
            /\ Resolve("roots", Head(c.left), "strict", c)
    <2>1. c.left = SubSeq(roots, (k + 1) + 1, Len(roots))
        BY <1>6, <1>10, <1>12 DEF RootsSeen
    <2>2. k + 1 \in 0..(Len(roots) - 1) /\ Head(c.left) = roots[(k + 1) + 1]
        BY <1>4, <1>12, <2>1
    <2>3. OnTheWay(roots[(k + 1) + 1], "strict")'
        BY <1>10, <1>12, <2>2 DEF OnTheWay
    <2>4. GuardingInv'
        BY <1>10, <1>12, <2>2, <2>3 DEF GuardingInv
    <2> QED  BY <1>10, <1>12, <2>4, KnownGuarding DEF Guarding
<1>13. CASE walk.over \in {"no", "missing"} /\ Is({"tail_log"}) /\ c.left = <<>>
            /\ Resolve("resolve", call.req, "lenient", c)
    <2>1. c.left = SubSeq(roots, (k + 1) + 1, Len(roots))
        BY <1>6, <1>10, <1>13 DEF RootsSeen
    <2>2. k + 1 = Len(roots)
        <3>1. Len(SubSeq(roots, (k + 1) + 1, Len(roots))) = Len(roots) - (k + 1)
            BY <1>4
        <3>2. Len(SubSeq(roots, (k + 1) + 1, Len(roots))) = 0
            BY <1>13, <2>1
        <3> QED  BY <1>4, <3>1, <3>2
    <2>3. Asked' = call.req
        BY <1>10, <1>13 DEF Asked, Is
    <2>4. RootsSeen(roots, Len(roots))' /\ OnTheWay(Asked, "lenient")'
        BY <1>10, <1>13, <2>2, <2>3 DEF OnTheWay
    <2>5. GuardingInv'
        BY <1>10, <1>13, <2>4 DEF GuardingInv
    <2> QED  BY <1>10, <1>13, <2>5, KnownGuarding DEF Guarding
<1> QED  BY <1>7, <1>9, <1>11, <1>12, <1>13

\* The guard has decided: what is left to know depends on where the call goes on.
LEMMA KnownGuarded ==
    ASSUME call'.pc \in Guarded \cup {"recheck"}, call'.told = {},
           PassedInv', FoundInv',
           call'.pc \in Guarded => call'.pc \notin {"describe", "described"},
           call'.pc \in Guarded /\ Is({"list_directory"})' => RootKnown' /\ IsPrefix(call.root, call.target)'
    PROVE  Known'
<1>1. call'.pc \notin {"root", "roots", "resolve", "idle"}
    BY DEF Guarded
<1>2. GuardingInv' /\ VerdictsAreRight' /\ ListingAgreesWithGuard'
    BY <1>1 DEF GuardingInv, VerdictsAreRight, ListingAgreesWithGuard
<1>3. ListingInv'
    BY DEF ListingInv, Guarded
<1> QED  BY <1>2, <1>3 DEF Known

LEMMA ResolvedKnown ==
    ASSUME TypeOK, Grown(fs), since = "nothing", Known, Resolved
    PROVE  Known'
<1> DEFINE c == [call EXCEPT !.target = walk.at]
<1>1. /\ call \in Calls /\ walk \in Walks /\ fs \in Tree /\ call.pc = "resolve" /\ Finished(walk)
      /\ call.told = {} /\ IF Is({"tail_log"}) THEN Absolute(call.req) ELSE RootKnown
    BY DEF TypeOK, Tree, Known, GuardingInv, ListingInv, Resolved, At
<1>2. PICK roots \in GuardRoots(call.tool) :
          /\ goal = Goal(fs, call.tool, call.req, roots)
          /\ RootsSeen(roots, Len(roots)) /\ OnTheWay(Asked, "lenient")
    BY <1>1 DEF Known, GuardingInv
<1>3. roots \in Seq(Seq(Components)) /\ (call.tool # "tail_log" => roots = <<Root>>)
    BY RootsAre
<1>4. PICK asked : asked = Asked
    OBVIOUS
<1>5. walk = Leads(fs, asked, "lenient")
    BY <1>1, <1>2, <1>4, WayEnds
<1>6. /\ goal.sound <=> Reached(walk)
      /\ goal.inside <=> Within(walk.at, call.roots)
      /\ goal.at = walk.at
      /\ goal.kind = IF call.tool = "tail_log" /\ ~Reached(Leads(fs, call.req, "strict")) THEN "none"
                     ELSE Here(fs, walk.at).kind
    <2>1. asked = IF call.tool = "tail_log" THEN call.req ELSE Joined(call.root, call.req)
        BY <1>4 DEF Asked, Is
    <2>2. DOMAIN roots = 1..Len(roots)
        BY <1>3
    <2>3. PICK dirs : dirs = {Leads(fs, roots[i], "strict") : i \in DOMAIN roots}
        OBVIOUS
    <2>4. call.roots = Held(dirs) /\ Sound(call.tool, dirs)
        BY <1>2, <2>2, <2>3 DEF RootsSeen
    <2>5. /\ call.tool = "tail_log" => Absolute(call.req)
          /\ call.tool # "tail_log" => Leads(fs, Root, "strict").at = call.root
        BY <1>1 DEF RootKnown, Is
    <2>6. asked = IF call.tool = "tail_log" THEN call.req ELSE Joined(Leads(fs, Root, "strict").at, call.req)
        BY <2>1, <2>5
    <2>7. goal = [ sound |-> Reached(walk) /\ Sound(call.tool, dirs),
                   inside |-> (call.tool = "tail_log" => Absolute(call.req)) /\ Within(walk.at, Held(dirs)),
                   at |-> walk.at,
                   kind |-> IF call.tool = "tail_log" /\ ~Reached(Leads(fs, asked, "strict")) THEN "none"
                            ELSE Here(fs, walk.at).kind ]
        BY <1>2, <1>5, <2>3, <2>6, Zenon DEF Goal
    <2> QED  BY <2>1, <2>4, <2>5, <2>7 DEF Sound, Within
<1>7. \/ ~Reached(walk) /\ Answer("error", c)
      \/ Reached(walk) /\ ~Within(walk.at, call.roots) /\ Answer("denied", c)
      \/ /\ Reached(walk) /\ Within(walk.at, call.roots)
         /\ \/ Is({"tail_log"}) /\ Resolve("recheck", call.req, "strict", c)
            \/ Is(NotesTools) /\ ~IsPrefix(call.root, walk.at) /\ Answer("error", c)
            \/ Is({"notes_write"}) /\ ~MayWrite(walk.at) /\ Answer("denied", c)
            \/ Is({"notes_write"}) /\ Resolve("pull", <<>>, "strict", c)
            \/ ~Is({"notes_write", "tail_log"}) /\ Resolve("look", walk.at, "strict", c)
    <2>1. CASE ~Reached(walk)
        BY <2>1, Zenon DEF Resolved
    <2>2. CASE Reached(walk) /\ ~Within(walk.at, call.roots)
        BY <2>2, Zenon DEF Resolved
    <2>3. CASE Reached(walk) /\ Within(walk.at, call.roots)
        <3>1. CASE Is({"tail_log"})
            <4>1. ~Is(NotesTools) /\ ~Is({"notes_write"})
                BY <3>1 DEF Is, NotesTools
            <4> QED  BY <2>3, <3>1, <4>1, Zenon DEF Resolved
        <3>2. CASE ~Is({"tail_log"}) /\ Is(NotesTools) /\ ~IsPrefix(call.root, walk.at)
            BY <2>3, <3>2, Zenon DEF Resolved
        <3>3. CASE ~Is({"tail_log"}) /\ Is({"notes_write"}) /\ IsPrefix(call.root, walk.at) /\ ~MayWrite(walk.at)
            BY <2>3, <3>3, Zenon DEF Resolved
        <3>4. CASE ~Is({"tail_log"}) /\ Is({"notes_write"}) /\ IsPrefix(call.root, walk.at) /\ MayWrite(walk.at)
            BY <2>3, <3>4, Zenon DEF Resolved
        <3>5. CASE ~Is({"tail_log"}) /\ ~Is({"notes_write"}) /\ ~(Is(NotesTools) /\ ~IsPrefix(call.root, walk.at))
            <4>1. ~Is({"notes_write", "tail_log"})
                BY <3>5 DEF Is
            <4> QED  BY <2>3, <3>5, <4>1, Zenon DEF Resolved
        <3>6. Is({"notes_write"}) => Is(NotesTools)
            BY DEF Is, NotesTools
        <3> QED  BY <3>1, <3>2, <3>3, <3>4, <3>5, <3>6
    <2> QED  BY <2>1, <2>2, <2>3
<1>8. /\ c \in Calls /\ c.tool = call.tool /\ c.req = call.req /\ c.root = call.root /\ c.roots = call.roots
      /\ c.target = walk.at /\ c.told = {}
    BY <1>1 DEF Calls, Walks
<1> HIDE DEF c
<1>9. ASSUME NEW a \in {"error", "denied"}, Answer(a, c), Right(a)
      PROVE  Known'
    BY <1>1, <1>8, <1>9, KnownAnswer
<1>10. ASSUME NEW pc \in {"recheck", "pull", "look"}, NEW text, NEW mode, Resolve(pc, text, mode, c)
       PROVE  /\ fs' = fs /\ goal' = goal /\ walk' = Walker(text, mode)
              /\ call'.pc = pc /\ call'.tool = call.tool /\ call'.req = call.req /\ call'.root = call.root
              /\ call'.roots = call.roots /\ call'.target = walk.at /\ call'.told = {}
              /\ \A tools : Is(tools)' <=> Is(tools)
    <2>1. fs' = fs /\ goal' = goal /\ walk' = Walker(text, mode) /\ call' = [c EXCEPT !.pc = pc]
        BY <1>10 DEF Resolve
    <2> QED  BY <1>8, <2>1 DEF Calls, Is
<1>11. CASE ~Reached(walk) /\ Answer("error", c)
    BY <1>6, <1>9, <1>11 DEF Right
<1>12. CASE Reached(walk) /\ ~Within(walk.at, call.roots) /\ Answer("denied", c)
    BY <1>6, <1>9, <1>12 DEF Right
<1>13. CASE Reached(walk) /\ Within(walk.at, call.roots) /\ Answer("error", c)
    BY <1>6, <1>9, <1>13 DEF Right
<1>14. CASE Reached(walk) /\ Within(walk.at, call.roots) /\ Is({"notes_write"}) /\ ~MayWrite(walk.at) /\ Answer("denied", c)
    BY <1>6, <1>9, <1>14 DEF Right
<1>15. CASE Reached(walk) /\ Within(walk.at, call.roots) /\ Is({"tail_log"}) /\ Resolve("recheck", call.req, "strict", c)
    <2>1. /\ fs' = fs /\ goal' = goal /\ walk' = Walker(call.req, "strict")
          /\ call'.pc = "recheck" /\ call'.tool = call.tool /\ call'.req = call.req /\ call'.root = call.root
          /\ call'.roots = call.roots /\ call'.target = walk.at /\ call'.told = {}
          /\ Is({"tail_log"})'
        BY <1>10, <1>15
    <2>2. PICK v : v = walk'
        OBVIOUS
    <2>3. asked = call.req
        BY <1>4, <1>15 DEF Asked
    <2>4. v.mode = "strict" /\ v.at = <<>> /\ [v EXCEPT !.mode = "lenient"] = Walker(call.req, "lenient")
        BY <2>1, <2>2 DEF Walker
    <2>5. Ends(fs)[[v EXCEPT !.mode = "lenient"]] = walk
        BY <1>5, <2>3, <2>4, Zenon DEF Leads
    <2>6. OnTheWay(call.req, "strict")'
        BY <2>1 DEF OnTheWay, Leads, Walker
    <2>7. Here(fs, v.at).kind # "none"
        BY <1>1, <2>4, RootIsDir
    <2>8. goal.kind = IF Reached(Leads(fs, call.req, "strict")) THEN Here(fs, walk.at).kind ELSE "none"
        BY <1>6, <1>15 DEF Is
    <2>9. PICK first : first = Leads(fs, call.req, "lenient")
        OBVIOUS
    <2>10. first = walk
        BY <1>5, <2>3, <2>9
    <2>11. /\ Is({"tail_log"})' /\ OnTheWay(call.req, "strict")'
           /\ Reached(first) /\ first.at = call'.target /\ Within(call'.target, call'.roots)
           /\ goal'.kind = IF Reached(Leads(fs', call'.req, "strict")) THEN Here(fs', call'.target).kind ELSE "none"
           /\ walk'.over = "no" => /\ Here(fs', walk'.at).kind # "none"
                                   /\ Ends(fs')[[walk' EXCEPT !.mode = "lenient"]] = first
        BY <1>15, <2>1, <2>2, <2>5, <2>6, <2>7, <2>8, <2>10
    <2>12. first = Leads(fs', call'.req, "lenient")
        BY <2>1, <2>9
    <2>13. goal'.sound /\ goal'.inside /\ goal'.at = call'.target
        BY <1>6, <1>15, <2>1
    <2>14. PassedInv'
        BY <2>1, <2>11, <2>12, <2>13 DEF PassedInv
    <2>15. FoundInv' /\ call'.pc \notin Guarded
        BY <2>1 DEF FoundInv, Guarded
    <2> QED  BY <2>1, <2>14, <2>15, KnownGuarded
<1>16. CASE Reached(walk) /\ Within(walk.at, call.roots) /\ Is({"notes_write"}) /\ Resolve("pull", <<>>, "strict", c)
    <2>1. /\ fs' = fs /\ goal' = goal /\ walk' = Walker(<<>>, "strict")
          /\ call'.pc = "pull" /\ call'.tool = call.tool /\ call'.target = walk.at /\ call'.told = {}
          /\ \A tools : Is(tools)' <=> Is(tools)
        BY <1>10, <1>16
    <2>2. call.tool = "notes_write" /\ Is({"notes_write"})' /\ Is(Writers)' /\ ~Is({"tail_log"})'
              /\ ~Is({"list_directory"})'
        BY <1>16, <2>1 DEF Is, Writers
    <2>3. PassedInv'
        BY <1>6, <1>16, <2>1, <2>2 DEF PassedInv
    <2>4. FoundInv'
        <3>1. Finished(walk)'
            BY <2>1 DEF Finished, Walker
        <3>2. goal'.kind = Here(fs', call'.target).kind
            BY <1>6, <2>1, <2>2
        <3> QED  BY <2>1, <2>2, <3>1, <3>2 DEF FoundInv
    <2> QED  BY <2>1, <2>2, <2>3, <2>4, KnownGuarded DEF Guarded
<1>17. CASE Reached(walk) /\ Within(walk.at, call.roots) /\ ~Is({"notes_write", "tail_log"})
            /\ Resolve("look", walk.at, "strict", c)
    <2>1. /\ fs' = fs /\ goal' = goal /\ walk' = Walker(walk.at, "strict") /\ call'.root = call.root
          /\ call'.pc = "look" /\ call'.tool = call.tool /\ call'.target = walk.at /\ call'.told = {}
          /\ \A tools : Is(tools)' <=> Is(tools)
        BY <1>10, <1>17
    <2>2. call.tool # "tail_log" /\ ~Is({"tail_log"})'
        BY <1>17, <2>1 DEF Is
    <2>3. PassedInv'
        BY <1>6, <1>17, <2>1, <2>2 DEF PassedInv, Guarded
    <2>4. FoundInv'
        <3>1. PICK v : v = walk'
            OBVIOUS
        <3>2. v.mode = "strict" /\ v.over = "no" /\ v.found = "dir" /\ v.at = <<>>
            BY <2>1, <3>1 DEF Walker
        <3>3. goal'.kind = Here(fs', call'.target).kind
            BY <1>6, <2>1, <2>2
        <3>4. v.found = Here(fs', v.at).kind
            BY <1>1, <2>1, <3>2, RootIsDir
        <3> QED  BY <2>1, <2>2, <3>1, <3>2, <3>3, <3>4 DEF FoundInv
    <2>5. RootKnown'
        BY <1>1, <2>1, <2>2 DEF RootKnown, Is
    <2>6. IsPrefix(call.root, call.target)'
        <3>1. PICK root : root = Leads(fs, Root, "strict")
            OBVIOUS
        <3>2. Reached(root) /\ call.root = root.at /\ roots = <<Root>>
            BY <1>1, <1>3, <2>2, <3>1 DEF RootKnown, Is
        <3>3. {Leads(fs, roots[i], "strict") : i \in 1..Len(roots)} = {root}
            <4>1. Len(<<Root>>) = 1 /\ <<Root>>[1] = Root /\ 1..1 = {1}
                OBVIOUS
            <4> QED  BY <3>1, <3>2, <4>1
        <3>4. call.roots = {root.at}
            <4>1. call.roots = Held({root})
                BY <1>2, <3>3, Zenon DEF RootsSeen
            <4> QED  BY <3>2, <4>1 DEF Held
        <3> QED  BY <1>17, <2>1, <3>2, <3>4 DEF Within
    <2> QED  BY <2>1, <2>3, <2>4, <2>5, <2>6, KnownGuarded DEF Guarded
<1> QED  BY <1>7, <1>11, <1>12, <1>13, <1>14, <1>15, <1>16, <1>17

\* The second resolution gets to the place of the first, or finds nothing there.
LEMMA RecheckedKnown ==
    ASSUME TypeOK, since = "nothing", Known, Rechecked
    PROVE  Known'
<1> DEFINE c == [call EXCEPT !.target = walk.at]
<1>1. /\ call \in Calls /\ walk \in Walks /\ fs \in Tree /\ call.pc = "recheck" /\ Finished(walk)
      /\ call.told = {} /\ Is({"tail_log"}) /\ goal.sound /\ goal.inside /\ goal.at = call.target
    BY DEF TypeOK, Tree, Known, PassedInv, ListingInv, Rechecked, At
<1>2. PICK first : first = Leads(fs, call.req, "lenient")
    OBVIOUS
<1>3. /\ OnTheWay(call.req, "strict") /\ Reached(first) /\ first.at = call.target /\ Within(call.target, call.roots)
      /\ goal.kind = IF Reached(Leads(fs, call.req, "strict")) THEN Here(fs, call.target).kind ELSE "none"
      /\ walk.over = "no" => /\ Here(fs, walk.at).kind # "none"
                             /\ Ends(fs)[[walk EXCEPT !.mode = "lenient"]] = first
    BY <1>1, <1>2 DEF Known, PassedInv
<1>4. walk = Leads(fs, call.req, "strict")
    BY <1>1, <1>3, WayEnds
<1>5. ASSUME walk.over = "no"
      PROVE  Reached(walk) /\ walk.at = call.target /\ Here(fs, call.target).kind # "none" /\ goal.kind # "none"
    <2>1. Reached(walk)
        BY <1>1, <1>5 DEF Finished, Reached
    <2>2. PICK v : v = [walk EXCEPT !.mode = "lenient"]
        OBVIOUS
    <2>3. v \in Walks /\ v.rest = walk.rest /\ v.at = walk.at
        BY <1>1, <2>2 DEF Walks, Modes
    <2>4. Finished(v)
        BY <2>1, <2>3 DEF Finished, Reached
    <2>5. Ends(fs)[v] = v
        BY <1>1, <2>3, <2>4, EndsIs
    <2>6. first = v
        BY <1>3, <1>5, <2>2, <2>5
    <2>7. walk.at = call.target
        BY <1>3, <2>3, <2>6
    <2> QED  BY <1>3, <1>4, <1>5, <2>1, <2>7
<1>6. \/ walk.over = "missing" /\ Answer("missing", c)
      \/ walk.over \in {"refused", "loop"} /\ Answer("error", c)
      \/ walk.over = "no" /\ Resolve("open", walk.at, "strict", c)
    <2>1. CASE walk.over = "missing"
        <3>1. ~Reached(walk) /\ walk.over \notin {"refused", "loop"}
            BY <2>1 DEF Reached
        <3> QED  BY <2>1, <3>1, Zenon DEF Rechecked
    <2>2. CASE walk.over \in {"refused", "loop"}
        <3>1. ~Reached(walk) /\ walk.over # "missing"
            BY <2>2 DEF Reached
        <3> QED  BY <2>2, <3>1, Zenon DEF Rechecked
    <2>3. CASE walk.over = "no"
        <3>1. Within(walk.at, call.roots) /\ walk.over # "missing" /\ walk.over \notin {"refused", "loop"}
            BY <1>3, <1>5, <2>3
        <3> QED  BY <2>3, <3>1, Zenon DEF Rechecked
    <2> QED  BY <1>1, <2>1, <2>2, <2>3 DEF Walks
<1>7. /\ c \in Calls /\ c.tool = call.tool /\ c.req = call.req /\ c.root = call.root /\ c.roots = call.roots
      /\ c.target = walk.at /\ c.told = {}
    BY <1>1 DEF Calls, Walks
<1> HIDE DEF c
<1>8. CASE walk.over = "missing" /\ Answer("missing", c)
    <2>1. goal.kind = "none"
        BY <1>3, <1>4, <1>8 DEF Reached
    <2>2. Right("missing")
        BY <1>1, <2>1 DEF Right
    <2> QED  BY <1>1, <1>7, <1>8, <2>2, KnownAnswer
<1>9. CASE Answer("error", c)
    <2>1. Right("error")
        BY <1>1 DEF Right
    <2> QED  BY <1>1, <1>7, <1>9, <2>1, KnownAnswer
<1>10. CASE walk.over = "no" /\ Resolve("open", walk.at, "strict", c)
    <2>1. fs' = fs /\ goal' = goal /\ walk' = Walker(walk.at, "strict") /\ call' = [c EXCEPT !.pc = "open"]
        BY <1>10 DEF Resolve
    <2>2. /\ call'.pc = "open" /\ call'.tool = call.tool /\ call'.target = call.target /\ call'.told = {}
        BY <1>5, <1>7, <1>10, <2>1 DEF Calls
    <2>3. call.tool = "tail_log" /\ Is({"tail_log"})' /\ ~Is(Writers)' /\ ~Is({"list_directory"})'
              /\ ~Is({"read_file", "notes_read"})'
        BY <1>1, <2>2 DEF Is, Writers
    <2>4. PassedInv'
        BY <1>1, <2>1, <2>2, <2>3 DEF PassedInv
    <2>5. walk'.mode = "strict"
        BY <2>1 DEF Walker
    <2>6. FoundInv'
        BY <1>5, <1>10, <2>1, <2>2, <2>3, <2>5 DEF FoundInv
    <2> QED  BY <2>2, <2>3, <2>4, <2>6, KnownGuarded DEF Guarded
<1> QED  BY <1>6, <1>8, <1>9, <1>10

\* A pull that changes nothing leaves the target as it was found.
LEMMA PullKnown ==
    ASSUME TypeOK, Grown(fs), since = "nothing", since' = "nothing", Known, Pull
    PROVE  Known'
<1>1. /\ call \in Calls /\ fs \in Tree /\ call.pc = "pull" /\ Is(Writers) /\ ~Is({"tail_log"})
      /\ call.told = {} /\ goal.sound /\ goal.inside /\ goal.at = call.target
      /\ goal.kind = Here(fs, call.target).kind
    BY DEF TypeOK, Tree, Known, PassedInv, FoundInv, ListingInv, Pull, At, Guarded
<1>2. fs' = fs /\ goal' = goal
    <2>1. PICK t \in Trees \cup {fs} : IF t = fs THEN UNCHANGED <<fs, since, used>> ELSE Others(t)
        BY DEF Pull
    <2>2. CASE t # fs
        BY <2>1, <2>2 DEF Others
    <2> QED  BY <2>1, <2>2 DEF Pull
<1>3. \/ walk' = Walker(call.target, "strict") /\ call' = [call EXCEPT !.pc = "look"]
      \/ walk' = Walker(Parent(call.target), "mkdir") /\ call' = [call EXCEPT !.pc = "mkdir"]
    BY DEF Pull
<1>4. /\ call'.pc \in {"look", "mkdir"} /\ call'.tool = call.tool /\ call'.target = call.target /\ call'.told = {}
      /\ call'.pc = "look" => walk' = Walker(call.target, "strict")
    BY <1>1, <1>3 DEF Calls
<1>5. ~Is({"tail_log"})' /\ Is(Writers)' /\ ~Is({"list_directory"})'
    BY <1>1, <1>4 DEF Is, Writers
<1>6. PassedInv'
    BY <1>1, <1>2, <1>4, <1>5 DEF PassedInv
<1>7. FoundInv'
    <2>1. PICK v : v = walk'
        OBVIOUS
    <2>2. call'.pc = "look" => v.mode = "strict" /\ v.over = "no" /\ v.found = "dir" /\ v.at = <<>>
        BY <1>4, <2>1 DEF Walker
    <2>3. Here(fs, <<>>).kind = "dir"
        BY <1>1, RootIsDir
    <2> QED  BY <1>1, <1>2, <1>4, <1>5, <2>1, <2>2, <2>3 DEF FoundInv
<1> QED  BY <1>4, <1>5, <1>6, <1>7, KnownGuarded DEF Guarded

\* A look finds what the goal says is there.
LEMMA LookedKnown ==
    ASSUME TypeOK, GuardInv, Grown(fs), since = "nothing", Known, Looked
    PROVE  Known'
<1> DEFINE kind == IF Reached(walk) THEN walk.found ELSE "none"
           creates == Is({"write_file", "notes_write"}) /\ call.flag
           mode == IF Is({"write_file"}) THEN "create" ELSE "strict"
<1>1. /\ call \in Calls /\ walk \in Walks /\ fs \in Tree /\ call.pc = "look" /\ Finished(walk)
      /\ call.told = {} /\ ~Is({"tail_log"}) /\ goal.sound /\ goal.inside /\ goal.at = call.target
      /\ goal.kind = Here(fs, call.target).kind /\ (walk.over # "no" => goal.kind = "none")
      /\ walk.over = "no" => walk.found # "none" /\ walk.found = Here(fs, walk.at).kind
      /\ Is({"list_directory"}) => RootKnown /\ IsPrefix(call.root, call.target)
    BY DEF TypeOK, Tree, Known, PassedInv, FoundInv, ListingInv, Looked, At, Guarded
<1>2. kind = goal.kind
    <2>1. CASE walk.over = "no"
        <3>1. Reached(walk)
            BY <1>1, <2>1 DEF Finished, Reached
        <3>2. call.target \in Seq(Names) /\ Follows(walk, call.target) /\ walk.rest = <<>>
            BY <1>1, <2>1, <3>1 DEF GuardInv, Safe, Calls, Reached
        <3>3. walk.at = call.target
            BY <1>1, <3>2, FollowsEnd
        <3> QED  BY <1>1, <2>1, <3>1, <3>3
    <2>2. CASE walk.over # "no"
        BY <1>1, <2>2 DEF Reached
    <2> QED  BY <2>1, <2>2
<1>3. \/ kind \in Sought /\ Resolve("open", call.target, mode, Touch)
      \/ kind = "none" /\ creates /\ Resolve("mkdir", Parent(call.target), "mkdir", Touch)
      \/ kind = "none" /\ Answer("missing", Touch)
      \/ kind = "dir" /\ Is({"notes_read"}) /\ Answer("missing", Touch)
      \/ Answer("kind", Touch)
    <2>1. \/ kind \in Sought
          \/ kind \notin Sought /\ kind = "none" /\ creates
          \/ kind \notin Sought /\ kind = "none" /\ ~creates
          \/ kind \notin Sought /\ kind # "none" /\ kind = "dir" /\ Is({"notes_read"})
          \/ kind \notin Sought /\ kind # "none" /\ ~(kind = "dir" /\ Is({"notes_read"}))
        OBVIOUS
    <2>2. kind \in Sought => kind # "none" /\ ~(kind = "dir" /\ Is({"notes_read"}))
        BY DEF Sought, Is
    <2>3. \/ kind \in Sought /\ Resolve("open", call.target, mode, Touch)
          \/ kind = "none" /\ creates /\ Resolve("mkdir", Parent(call.target), "mkdir", Touch)
          \/ kind = "none" /\ ~creates /\ Answer("missing", Touch)
          \/ kind = "dir" /\ Is({"notes_read"}) /\ Answer("missing", Touch)
          \/ Answer("kind", Touch)
        <3>1. CASE kind \in Sought
            BY <2>2, <3>1, Zenon DEF Looked
        <3>2. CASE kind \notin Sought /\ kind = "none" /\ creates
            <4>1. kind # "dir"
                BY <3>2
            <4> QED  BY <3>2, <4>1, Zenon DEF Looked
        <3>3. CASE kind \notin Sought /\ kind = "none" /\ ~creates
            <4>1. kind # "dir"
                BY <3>3
            <4> QED  BY <3>3, <4>1, Zenon DEF Looked
        <3>4. CASE kind \notin Sought /\ kind # "none" /\ kind = "dir" /\ Is({"notes_read"})
            BY <3>4, Zenon DEF Looked
        <3>5. CASE kind \notin Sought /\ kind # "none" /\ ~(kind = "dir" /\ Is({"notes_read"}))
            BY <3>5, Zenon DEF Looked
        <3> QED  BY <2>1, <3>1, <3>2, <3>3, <3>4, <3>5, Zenon
    <2> QED  BY <2>3
<1>4. /\ Touch \in Calls /\ Touch.tool = call.tool /\ Touch.root = call.root /\ Touch.target = call.target
      /\ Touch.told = {}
    BY <1>1, TouchType DEF Touch, Calls
<1> HIDE DEF kind, creates, mode
<1>5. CASE Answer("missing", Touch) /\ (kind = "none" \/ (kind = "dir" /\ Is({"notes_read"})))
    <2>1. Right("missing")
        BY <1>1, <1>2, <1>5 DEF Right
    <2> QED  BY <1>1, <1>4, <1>5, <2>1, KnownAnswer
<1>6. CASE Answer("kind", Touch)
    <2>1. Right("kind")
        BY <1>1 DEF Right
    <2> QED  BY <1>1, <1>4, <1>6, <2>1, KnownAnswer
<1>7. ASSUME NEW pc \in {"open", "mkdir"}, NEW text, NEW m, Resolve(pc, text, m, Touch)
      PROVE  /\ fs' = fs /\ goal' = goal /\ walk' = Walker(text, m) /\ call'.pc = pc
             /\ call'.tool = call.tool /\ call'.root = call.root /\ call'.target = call.target /\ call'.told = {}
             /\ \A tools : Is(tools)' <=> Is(tools)
             /\ PassedInv' /\ walk'.mode = m /\ walk'.found = Here(fs', walk'.at).kind /\ walk'.found # "none"
    <2>1. fs' = fs /\ goal' = goal /\ walk' = Walker(text, m) /\ call' = [Touch EXCEPT !.pc = pc]
        BY <1>7 DEF Resolve
    <2>2. /\ call'.pc = pc /\ call'.tool = call.tool /\ call'.root = call.root
          /\ call'.target = call.target /\ call'.told = {}
        BY <1>4, <2>1 DEF Calls
    <2>3. \A tools : Is(tools)' <=> Is(tools)
        BY <2>2 DEF Is
    <2>4. PassedInv'
        BY <1>1, <2>1, <2>2, <2>3 DEF PassedInv
    <2>5. walk'.mode = m /\ walk'.found = "dir" /\ walk'.at = <<>>
        BY <2>1 DEF Walker
    <2> QED  BY <1>1, <2>1, <2>2, <2>3, <2>4, <2>5, RootIsDir
<1>8. CASE kind \in Sought /\ Resolve("open", call.target, mode, Touch)
    <2>1. /\ fs' = fs /\ goal' = goal /\ walk' = Walker(call.target, mode) /\ call'.pc = "open"
          /\ call'.tool = call.tool /\ call'.root = call.root /\ call'.target = call.target /\ call'.told = {}
          /\ PassedInv' /\ walk'.mode = mode /\ walk'.found = Here(fs', walk'.at).kind /\ walk'.found # "none"
        BY <1>7, <1>8
    <2>2. call.tool # "notes_write"
        BY <1>8 DEF Sought, Is
    <2>3. mode = IF Is(Writers)' THEN "create" ELSE "strict"
        BY <2>1, <2>2 DEF mode, Is, Writers
    <2>4. /\ Is(Writers)' => goal'.kind # "dir"
          /\ Is({"list_directory"})' => goal'.kind = "dir"
          /\ Is({"read_file", "notes_read"})' => goal'.kind = "file"
          /\ ~Is({"tail_log"})'
        BY <1>1, <1>2, <1>8, <2>1, <2>2 DEF Sought, Is, Writers
    <2>5. FoundInv'
        BY <2>1, <2>3, <2>4 DEF FoundInv
    <2>6. Is({"list_directory"})' => RootKnown' /\ IsPrefix(call.root, call.target)'
        BY <1>1, <2>1 DEF Is, RootKnown
    <2> QED  BY <2>1, <2>5, <2>6, KnownGuarded DEF Guarded
<1>9. CASE kind = "none" /\ creates /\ Resolve("mkdir", Parent(call.target), "mkdir", Touch)
    <2>1. /\ fs' = fs /\ goal' = goal /\ call'.pc = "mkdir"
          /\ call'.tool = call.tool /\ call'.root = call.root /\ call'.target = call.target /\ call'.told = {}
          /\ PassedInv'
        BY <1>7, <1>9
    <2>2. goal'.kind # "dir" /\ Is(Writers)' /\ ~Is({"list_directory"})'
        BY <1>2, <1>9, <2>1 DEF creates, Is, Writers
    <2>3. FoundInv'
        BY <2>1, <2>2 DEF FoundInv
    <2> QED  BY <2>1, <2>2, <2>3, KnownGuarded DEF Guarded
<1> QED  BY <1>3, <1>5, <1>6, <1>8, <1>9

LEMMA ParentMadeKnown ==
    ASSUME TypeOK, Grown(fs), since = "nothing", Known, ParentMade
    PROVE  Known'
<1>1. /\ call \in Calls /\ fs \in Tree /\ call.pc = "mkdir" /\ call.told = {} /\ Is(Writers) /\ ~Is({"tail_log"})
      /\ goal.sound /\ goal.inside /\ goal.at = call.target
      /\ goal.kind = "dir" => Here(fs, call.target).kind = "dir"
    BY DEF TypeOK, Tree, Known, PassedInv, FoundInv, ListingInv, ParentMade, At, Guarded
<1>2. Resolve("open", call.target, "create", call) \/ Answer("error", call)
    BY DEF ParentMade
<1>3. CASE Answer("error", call)
    <2>1. Right("error")
        BY <1>1 DEF Right
    <2> QED  BY <1>1, <1>3, <2>1, KnownAnswer
<1>4. CASE Resolve("open", call.target, "create", call)
    <2>1. fs' = fs /\ goal' = goal /\ walk' = Walker(call.target, "create") /\ call' = [call EXCEPT !.pc = "open"]
        BY <1>4 DEF Resolve
    <2>2. call'.pc = "open" /\ call'.tool = call.tool /\ call'.target = call.target /\ call'.told = {}
        BY <1>1, <2>1 DEF Calls
    <2>3. /\ ~Is({"tail_log"})' /\ Is(Writers)' /\ ~Is({"list_directory"})'
          /\ ~Is({"read_file", "notes_read"})'
        BY <1>1, <2>2 DEF Is, Writers
    <2>4. PassedInv'
        BY <1>1, <2>1, <2>2 DEF PassedInv
    <2>5. walk'.mode = "create" /\ walk'.found = "dir" /\ walk'.at = <<>> /\ Here(fs, <<>>).kind = "dir"
        BY <1>1, <2>1, RootIsDir DEF Walker
    <2>6. FoundInv'
        BY <1>1, <2>1, <2>2, <2>3, <2>5 DEF FoundInv
    <2> QED  BY <2>2, <2>3, <2>4, <2>6, KnownGuarded DEF Guarded
<1> QED  BY <1>2, <1>3, <1>4

\* While links are described, what has been told of them agrees.
LEMMA KnownDescribing ==
    ASSUME call'.pc \in {"describe", "described"}, goal'.kind = "dir", Is({"list_directory"})',
           (goal.sound /\ goal.inside /\ goal.at = call.target)', RootKnown', IsPrefix(call.root, call.target)',
           call'.pc = "describe" => Finished(walk)',
           call'.pc = "described" => OnTheWay(Append(call.target, call.child), "lenient")',
           Agrees(fs, call.root, call.target, call.told)'
    PROVE  Known'
<1>1. call'.pc \notin {"root", "roots", "resolve", "recheck", "pull", "look", "mkdir", "open", "idle"}
    OBVIOUS
<1>2. ~Is({"tail_log"})'
    BY DEF Is
<1>3. GuardingInv' /\ VerdictsAreRight' /\ ListingAgreesWithGuard' /\ PassedInv' /\ FoundInv'
    BY <1>1, <1>2 DEF GuardingInv, VerdictsAreRight, ListingAgreesWithGuard, PassedInv, FoundInv
<1>4. ListingInv'
    BY DEF ListingInv
<1> QED  BY <1>3, <1>4 DEF Known

\* What is opened is what it was when it was looked at.
LEMMA OpenedKnown ==
    ASSUME TypeOK, GuardInv, since = "nothing", Known, Opened
    PROVE  Known'
<1> DEFINE links == {n \in Names : Here(fs, Append(walk.at, n)).kind = "link"}
           c == [Touch EXCEPT !.todo = links]
<1>1. /\ call \in Calls /\ walk \in Walks /\ fs \in Tree /\ call.pc = "open" /\ Finished(walk) /\ call.told = {}
      /\ goal.sound /\ goal.inside /\ goal.at = call.target
      /\ Is({"tail_log"}) => goal.kind # "none"
      /\ Is({"list_directory"}) => goal.kind = "dir" /\ RootKnown /\ IsPrefix(call.root, call.target)
      /\ Is({"read_file", "notes_read"}) => goal.kind = "file"
      /\ ~Is({"tail_log"}) /\ walk.over = "no" => walk.found = Here(fs, walk.at).kind
      /\ Is(Writers) /\ goal.kind = "dir" => Here(fs, call.target).kind = "dir"
    BY DEF TypeOK, Tree, Known, PassedInv, FoundInv, ListingInv, Opened, At, Guarded
<1>2. \/ Is({"tail_log"}) /\ Answer("ok", Touch)
      \/ Answer("error", call) \/ Answer("error", Touch)
      \/ Is({"list_directory"}) /\ Resolve("describe", <<>>, "strict", c)
      \/ /\ Reached(walk) /\ ~Is({"list_directory", "tail_log"}) /\ walk.found # "dir"
         /\ Answer("ok", Touch)
    <2>1. CASE Is({"tail_log"})
        <3>1. ~Is({"list_directory"}) /\ Is({"list_directory", "tail_log"})
            BY <2>1 DEF Is
        <3> QED  BY <2>1, <3>1, Zenon DEF Opened
    <2>2. CASE ~Is({"tail_log"}) /\ ~Reached(walk)
        BY <2>2, Zenon DEF Opened
    <2>3. CASE ~Is({"tail_log"}) /\ Reached(walk) /\ Is({"list_directory"})
        <3>1. Is({"list_directory", "tail_log"})
            BY <2>3 DEF Is
        <3> QED  BY <2>3, <3>1, Zenon DEF Opened
    <2>4. CASE ~Is({"tail_log"}) /\ Reached(walk) /\ ~Is({"list_directory"})
        <3>1. ~Is({"list_directory", "tail_log"})
            BY <2>4 DEF Is
        <3> QED  BY <2>4, <3>1, Zenon DEF Opened
    <2> QED  BY <2>1, <2>2, <2>3, <2>4
<1>3. /\ Touch \in Calls /\ Touch.tool = call.tool /\ Touch.root = call.root /\ Touch.target = call.target
      /\ Touch.told = {}
    BY <1>1, TouchType DEF Touch, Calls
<1>4. /\ c \in Calls /\ c.tool = call.tool /\ c.root = call.root /\ c.target = call.target /\ c.told = {}
    BY <1>3 DEF Calls
<1> HIDE DEF c
<1>5. ASSUME NEW d \in {call, Touch}, NEW a \in {"ok", "error"}, Answer(a, d), Right(a)
      PROVE  Known'
    BY <1>1, <1>3, <1>5, KnownAnswer
<1>6. Right("error")
    BY <1>1 DEF Right
<1>7. CASE Is({"tail_log"}) /\ Answer("ok", Touch)
    <2>1. Right("ok")
        BY <1>1, <1>7 DEF Right
    <2> QED  BY <1>5, <1>7, <2>1
<1>8. CASE Is({"list_directory"}) /\ Resolve("describe", <<>>, "strict", c)
    <2>1. fs' = fs /\ goal' = goal /\ walk' = Walker(<<>>, "strict") /\ call' = [c EXCEPT !.pc = "describe"]
        BY <1>8 DEF Resolve
    <2>2. /\ call'.pc = "describe" /\ call'.tool = call.tool /\ call'.root = call.root
          /\ call'.target = call.target /\ call'.told = {}
        BY <1>4, <2>1 DEF Calls
    <2>3. Is({"list_directory"})' /\ RootKnown' /\ Finished(walk)'
        BY <1>1, <1>8, <2>1, <2>2 DEF Is, RootKnown, Finished, Walker
    <2>4. Agrees(fs, call.root, call.target, call.told)'
        BY <2>2 DEF Agrees
    <2> QED  BY <1>1, <1>8, <2>1, <2>2, <2>3, <2>4, KnownDescribing
<1>9. CASE Reached(walk) /\ ~Is({"list_directory", "tail_log"}) /\ walk.found # "dir" /\ Answer("ok", Touch)
    <2>1. walk.at = call.target /\ walk.over = "no" /\ ~Is({"tail_log"}) /\ ~Is({"list_directory"})
        <3>1. call.target \in Seq(Names) /\ Follows(walk, call.target) /\ walk.rest = <<>> /\ walk.over = "no"
            BY <1>1, <1>9 DEF GuardInv, Safe, Calls, Reached
        <3> QED  BY <1>1, <1>9, <3>1, FollowsEnd DEF Is
    <2>2. Is(Writers) => goal.kind # "dir"
        BY <1>1, <1>9, <2>1
    <2>3. Is(Writers) \/ Is({"read_file", "notes_read"})
        BY <1>1, <2>1 DEF Calls, Tools, ProjectTools, NotesTools, Is, Writers
    <2>4. Right("ok")
        BY <1>1, <2>2, <2>3 DEF Right, Writers
    <2> QED  BY <1>5, <1>9, <2>4
<1> QED  BY <1>2, <1>5, <1>6, <1>7, <1>8, <1>9

\* What a directory below a root holds, asked for from the root.
LEMMA JoinedBack ==
    ASSUME NEW root \in Seq(Names), NEW target \in Seq(Names), IsPrefix(root, target), NEW n \in Names
    PROVE  Joined(root, Append(SubSeq(target, Len(root) + 1, Len(target)), n)) = Append(target, n)
<1>1. PICK rel : rel = SubSeq(target, Len(root) + 1, Len(target))
    OBVIOUS
<1>2. Len(root) <= Len(target) /\ \A i \in 1..Len(root) : root[i] = target[i]
    BY PrefixIff
<1>3. /\ rel \in Seq(Names) /\ Len(rel) = Len(target) - Len(root)
      /\ \A i \in 1..Len(rel) : rel[i] = target[Len(root) + i]
    <2>1. rel \in Seq(Names) /\ Len(rel) = Len(target) - Len(root)
        BY <1>1, <1>2
    <2>2. ASSUME NEW i \in 1..Len(rel)
          PROVE  rel[i] = target[Len(root) + i]
        <3>1. rel[i] = target[(Len(root) + 1) + i - 1]
            BY <1>1, <1>2, <2>1
        <3>2. (Len(root) + 1) + i - 1 = Len(root) + i
            BY <2>1
        <3> QED  BY <3>1, <3>2
    <2> QED  BY <2>1, <2>2
<1>4. PICK req : req = Append(rel, n)
    OBVIOUS
<1>5. /\ req \in Seq(Names) /\ Len(req) = Len(rel) + 1 /\ req[Len(rel) + 1] = n
      /\ \A i \in 1..Len(rel) : req[i] = rel[i]
    BY <1>3, <1>4, AppendProperties
<1>6. ~Absolute(req)
    <2>1. 1 \in 1..Len(req) /\ Head(req) = req[1]
        BY <1>3, <1>5
    <2>2. Head(req) \in Names
        BY <1>5, <2>1, ElementOfSeq
    <2> QED  BY <2>2 DEF Absolute
<1>7. PICK both : both = root \o req
    OBVIOUS
<1>8. /\ both \in Seq(Names) /\ Len(both) = Len(root) + Len(req)
      /\ \A i \in 1..Len(both) : both[i] = IF i <= Len(root) THEN root[i] ELSE req[i - Len(root)]
    <2>1. both \in Seq(Names) /\ Len(both) = Len(root) + Len(req)
        <3>1. root \in Seq(Names) /\ req \in Seq(Names)
            BY <1>5
        <3>2. root \o req \in Seq(Names) /\ Len(root \o req) = Len(root) + Len(req)
            BY <3>1, ConcatProperties, SMT
        <3> QED  BY <1>7, <3>2
    <2>2. ASSUME NEW i \in 1..Len(both)
          PROVE  both[i] = IF i <= Len(root) THEN root[i] ELSE req[i - Len(root)]
        BY <1>5, <1>7, <2>1
    <2> QED  BY <2>1, <2>2
<1>9. PICK place : place = Append(target, n)
    OBVIOUS
<1>10. /\ place \in Seq(Names) /\ Len(place) = Len(target) + 1 /\ place[Len(target) + 1] = n
       /\ \A i \in 1..Len(target) : place[i] = target[i]
    BY <1>9, AppendProperties
<1>11. Len(both) = Len(place)
    BY <1>2, <1>3, <1>5, <1>8, <1>10
<1>12. ASSUME NEW i \in 1..Len(both)
       PROVE  both[i] = place[i]
    <2>1. CASE i <= Len(root)
        <3>1. i \in 1..Len(root) /\ i \in 1..Len(target)
            BY <1>2, <2>1
        <3> QED  BY <1>2, <1>8, <1>10, <2>1, <3>1
    <2>2. CASE i > Len(root) /\ i <= Len(target)
        <3>1. i - Len(root) \in 1..Len(rel) /\ Len(root) + (i - Len(root)) = i /\ i \in 1..Len(target)
            BY <1>2, <1>3, <2>2
        <3>2. PICK j : j = i - Len(root)
            OBVIOUS
        <3>3. j \in 1..Len(rel) /\ Len(root) + j = i /\ ~(i <= Len(root))
            BY <1>2, <1>8, <2>2, <3>1, <3>2
        <3>4. req[j] = rel[j] /\ rel[j] = target[Len(root) + j]
            BY <1>3, <1>5, <3>3
        <3>5. both[i] = req[j]
            BY <1>8, <3>2, <3>3
        <3>6. both[i] = target[i] /\ place[i] = target[i]
            BY <1>10, <3>1, <3>3, <3>4, <3>5
        <3> QED  BY <3>6
    <2>3. CASE i > Len(target)
        <3>1. i = Len(target) + 1 /\ i - Len(root) = Len(rel) + 1 /\ ~(i <= Len(root))
            BY <1>2, <1>3, <1>10, <1>11, <2>3
        <3>2. both[i] = req[i - Len(root)]
            BY <1>8, <3>1
        <3>3. both[i] = n /\ place[i] = n
            BY <1>5, <1>10, <3>1, <3>2
        <3> QED  BY <3>3
    <2> QED  BY <2>1, <2>2, <2>3
<1>13. both = place
    BY <1>8, <1>10, <1>11, <1>12, SeqEqual
<1> QED  BY <1>1, <1>4, <1>6, <1>7, <1>9, <1>13 DEF Joined

\* What is told of a link is what a request for it would get.
LEMMA ToldAgrees ==
    ASSUME TypeOK, RootKnown, IsPrefix(call.root, call.target),
           walk = Leads(fs, Append(call.target, call.child), "lenient"),
           NEW e, e.name = call.child, e.shown <=> Reached(walk) /\ IsPrefix(call.root, walk.at),
           e.shown => e.at = walk.at,
           Agrees(fs, call.root, call.target, call.told)
    PROVE  Agrees(fs, call.root, call.target, call.told \cup {e})
<1>1. call.root \in Seq(Names) /\ call.target \in Seq(Names) /\ call.child \in Names
    BY DEF TypeOK, Calls
<1>2. PICK req : req = Append(SubSeq(call.target, Len(call.root) + 1, Len(call.target)), call.child)
    OBVIOUS
<1>3. PICK to : to = Append(call.target, call.child)
    OBVIOUS
<1>4. Joined(call.root, req) = to
    BY <1>1, <1>2, <1>3, JoinedBack
<1>5. PICK root : root = Leads(fs, Root, "strict")
    OBVIOUS
<1>6. Reached(root) /\ call.root = root.at
    BY <1>5 DEF RootKnown
<1>7. PICK dirs : dirs = {Leads(fs, <<Root>>[i], "strict") : i \in DOMAIN <<Root>>}
    OBVIOUS
<1>8. dirs = {root}
    <2>1. DOMAIN <<Root>> = {1} /\ <<Root>>[1] = Root
        BY SMT
    <2> QED  BY <1>5, <1>7, <2>1
<1>9. Sound("read_file", dirs) /\ Held(dirs) = {call.root}
    BY <1>6, <1>8 DEF Sound, Held
<1>10. PICK g : g = Goal(fs, "read_file", req, <<Root>>)
    OBVIOUS
<1>11. to = IF "read_file" = "tail_log" THEN req ELSE Joined(Leads(fs, Root, "strict").at, req)
    BY <1>4, <1>5, <1>6
<1>12. \E k : g = [ sound |-> Reached(walk) /\ Sound("read_file", dirs),
                    inside |-> ("read_file" = "tail_log" => Absolute(req)) /\ Within(walk.at, Held(dirs)),
                    at |-> walk.at, kind |-> k ]
    BY <1>3, <1>7, <1>10, <1>11, Zenon DEF Goal
<1>13. /\ g.sound <=> Reached(walk)
       /\ g.inside <=> IsPrefix(call.root, walk.at)
       /\ g.at = walk.at
    <2>1. PICK k : g = [ sound |-> Reached(walk) /\ Sound("read_file", dirs),
                         inside |-> ("read_file" = "tail_log" => Absolute(req)) /\ Within(walk.at, Held(dirs)),
                         at |-> walk.at, kind |-> k ]
        BY <1>12
    <2>2. /\ g.sound = (Reached(walk) /\ Sound("read_file", dirs))
          /\ g.inside = (("read_file" = "tail_log" => Absolute(req)) /\ Within(walk.at, Held(dirs)))
          /\ g.at = walk.at
        BY <2>1
    <2>3. Within(walk.at, Held(dirs)) <=> IsPrefix(call.root, walk.at)
        BY <1>9 DEF Within
    <2>4. "read_file" # "tail_log"
        OBVIOUS
    <2> QED  BY <1>9, <2>2, <2>3, <2>4, Zenon
<1>14. ASSUME NEW f \in call.told \cup {e}
       PROVE  LET r == Goal(fs, "read_file", Append(SubSeq(call.target, Len(call.root) + 1, Len(call.target)), f.name), <<Root>>)
              IN  (f.shown <=> r.sound /\ r.inside) /\ (f.shown => f.at = r.at)
    <2>1. CASE f \in call.told
        BY <2>1, Zenon DEF Agrees
    <2>2. CASE f = e
        BY <1>2, <1>10, <1>13, <2>2, Zenon
    <2> QED  BY <2>1, <2>2
<1> QED  BY <1>14, Zenon DEF Agrees

LEMMA ListingKnown ==
    ASSUME TypeOK, since = "nothing", Known, Listed \/ Described \/ \E n \in Names : Describe(n)
    PROVE  Known'
<1>1. /\ call \in Calls /\ walk \in Walks /\ fs \in Tree /\ call.pc \in {"describe", "described"} /\ Finished(walk)
      /\ goal.sound /\ goal.inside /\ goal.at = call.target /\ goal.kind = "dir" /\ Is({"list_directory"})
      /\ RootKnown /\ IsPrefix(call.root, call.target) /\ Agrees(fs, call.root, call.target, call.told)
      /\ call.pc = "described" => OnTheWay(Append(call.target, call.child), "lenient")
    BY DEF TypeOK, Tree, Known, PassedInv, FoundInv, ListingInv, Listed, Described, Describe, At, Guarded
<1>2. CASE Listed
    <2>1. Right("ok")
        BY <1>1 DEF Right
    <2>2. Answer("ok", call)
        BY <1>2 DEF Listed
    <2> QED  BY <1>1, <2>1, <2>2, KnownAnswer
<1>3. ASSUME NEW pc \in {"describe", "described"}, NEW text, NEW mode, NEW c \in Calls, Resolve(pc, text, mode, c),
             c.tool = call.tool, c.root = call.root, c.target = call.target, Agrees(fs, call.root, call.target, c.told),
             pc = "describe" => text = <<>>,
             pc = "described" => text = Append(call.target, c.child) /\ mode = "lenient"
      PROVE  Known'
    <2>1. fs' = fs /\ goal' = goal /\ walk' = Walker(text, mode) /\ call' = [c EXCEPT !.pc = pc]
        BY <1>3 DEF Resolve
    <2>2. /\ call'.pc = pc /\ call'.tool = call.tool /\ call'.root = call.root /\ call'.target = call.target
          /\ call'.told = c.told /\ call'.child = c.child
        BY <1>3, <2>1 DEF Calls
    <2>3. Is({"list_directory"})' /\ RootKnown'
        BY <1>1, <2>1, <2>2 DEF Is, RootKnown
    <2>4. pc = "describe" => Finished(walk)'
        BY <1>3, <2>1 DEF Finished, Walker
    <2>5. ASSUME pc = "described"
          PROVE  OnTheWay(Append(call.target, call.child), "lenient")'
        <3>1. PICK to : to = Append(call.target, c.child)
            OBVIOUS
        <3>2. OnTheWay(to, "lenient")'
            BY <1>3, <2>1, <2>5, <3>1 DEF OnTheWay, Leads, Walker
        <3> QED  BY <2>2, <3>1, <3>2
    <2>6. Agrees(fs, call.root, call.target, call.told)'
        BY <1>3, <2>1, <2>2, Zenon
    <2> QED  BY <1>1, <2>1, <2>2, <2>3, <2>4, <2>5, <2>6, KnownDescribing
<1>4. ASSUME NEW n \in Names, Describe(n)
      PROVE  Known'
    <2> DEFINE c == [call EXCEPT !.todo = @ \ {n}, !.child = n]
    <2>1. /\ c \in Calls /\ c.tool = call.tool /\ c.root = call.root /\ c.target = call.target
          /\ c.told = call.told /\ c.child = n
        BY <1>1 DEF Calls
    <2>2. Resolve("described", Append(call.target, n), "lenient", c)
        BY <1>4 DEF Describe
    <2> HIDE DEF c
    <2>3. PICK to : to = Append(call.target, n)
        OBVIOUS
    <2>4. to = Append(call.target, c.child) /\ Resolve("described", to, "lenient", c)
              /\ Agrees(fs, call.root, call.target, c.told)
        BY <1>1, <2>1, <2>2, <2>3, Zenon
    <2> QED  BY <1>3, <2>1, <2>4
<1>5. CASE Described
    <2> DEFINE shown == Reached(walk) /\ IsPrefix(call.root, walk.at)
               e == [name |-> call.child, shown |-> shown, at |-> IF shown THEN walk.at ELSE <<>>]
               c == [call EXCEPT !.told = @ \cup {e}]
    <2>1. e \in [name : Names, shown : BOOLEAN, at : Seq(Names)]
        <3>1. shown \in BOOLEAN
            BY DEF Reached
        <3> HIDE DEF shown
        <3> QED  BY <1>1, <3>1 DEF Calls, Walks
    <2>2. e.name = call.child /\ (e.shown <=> shown) /\ (e.shown => e.at = walk.at)
        <3>1. PICK b \in BOOLEAN : b = shown
            BY DEF Reached
        <3>2. e = [name |-> call.child, shown |-> b, at |-> IF b THEN walk.at ELSE <<>>]
            BY <3>1, Zenon
        <3> HIDE DEF e, shown
        <3>3. e.name = call.child /\ e.shown = b /\ e.at = IF b THEN walk.at ELSE <<>>
            BY <3>2
        <3> QED  BY <3>1, <3>3
    <2>3. /\ c \in Calls /\ c.tool = call.tool /\ c.root = call.root /\ c.target = call.target
          /\ c.told = call.told \cup {e}
        <3> HIDE DEF e
        <3> QED  BY <1>1, <2>1 DEF Calls
    <2>4. Resolve("describe", <<>>, "strict", c)
        BY <1>5, Zenon DEF Described
    <2>5. PICK to : to = Append(call.target, call.child)
        OBVIOUS
    <2>6. walk = Leads(fs, Append(call.target, call.child), "lenient")
        <3>1. OnTheWay(to, "lenient")
            BY <1>1, <1>5, <2>5 DEF Described, At
        <3> QED  BY <1>1, <2>5, <3>1, WayEnds
    <2> HIDE DEF e, c
    <2>7. Agrees(fs, call.root, call.target, call.told \cup {e})
        BY <1>1, <2>2, <2>6, ToldAgrees
    <2>8. Agrees(fs, call.root, call.target, c.told)
        BY <2>3, <2>7, Zenon
    <2> QED  BY <1>3, <2>3, <2>4, <2>8
<1> QED  BY <1>2, <1>4, <1>5

\* A name that is no link, looked up by a walk that is not lenient: it is missing, and then
\* so is all below it, or it is there, or it is made.
LEMMA AlongStep ==
    ASSUME NEW t \in Tree, Grown(t), NEW w \in Walks, ~Finished(w), w.mode # "lenient",
           NEW p \in Seq(Names), Follows(w, p), Free(t, p)
    PROVE  LET q == Append(w.at, Head(w.rest))
               v == Advance(t, w)
           IN  \/ v.over # "no" /\ Here(t, p).kind = "none"
               \/ /\ v.over = "no" /\ v.at = q
                  /\ v.found = IF Makes(t, w) THEN Made(w) ELSE Here(t, q).kind
                  /\ Makes(t, w) \/ Here(t, q).kind # "none"
<1> DEFINE c == Head(w.rest)
           q == Append(w.at, c)
           n == Here(t, q)
           v == Advance(t, w)
<1>1. w.rest # <<>> /\ w.over = "no" /\ w.at \in Seq(Names)
    BY DEF Finished, Walks
<1>2. c \in Names /\ IsPrefix(q, p) /\ q \in Seq(Names) /\ q # <<>>
    <2>1. c \in Names /\ IsPrefix(q, p)
        BY <1>1, FollowsOn
    <2> QED  BY <1>1, <2>1
<1>3. c # "/" /\ c # ".."
    BY <1>2
<1>4. n.kind # "link"
    BY <1>2 DEF Free, Here, Nothing
<1>5. CASE n.kind = "none" /\ ~Makes(t, w)
    <2>1. v = [w EXCEPT !.over = IF Here(t, w.at).kind = "dir" THEN "missing" ELSE "refused"]
        BY <1>2, <1>3, <1>5 DEF Advance, Ahead
    <2>2. v.over # "no"
        BY <2>1 DEF Walks
    <2>3. Here(t, p).kind = "none"
        BY <1>2, <1>5, AboveIsThere
    <2> QED  BY <2>2, <2>3
<1>6. CASE ~(n.kind = "none" /\ ~Makes(t, w))
    <2>1. v = [w EXCEPT !.at = q, !.rest = Tail(w.rest), !.found = IF Makes(t, w) THEN Made(w) ELSE n.kind]
        BY <1>2, <1>3, <1>4, <1>6 DEF Advance, Ahead
    <2>2. v.over = "no" /\ v.at = q /\ v.found = IF Makes(t, w) THEN Made(w) ELSE n.kind
        BY <1>1, <2>1 DEF Walks
    <2> QED  BY <1>6, <2>2
<1> QED  BY <1>5, <1>6

\* The same walk, lenient; a walk put at a place; a walk sent along the way of a link.
Lenient(w) == [w EXCEPT !.mode = "lenient"]
PutAt(w, q, r, k) == [w EXCEPT !.at = q, !.rest = r, !.found = k]
SentOn(w, r, h) == [w EXCEPT !.rest = r, !.hops = h]

\* The mode of a walk and what a lookup changes of it do not meet.
LEMMA PutLasts ==
    ASSUME NEW w \in Walks, NEW q, NEW r, NEW k
    PROVE  PutAt(Lenient(w), q, r, k) = Lenient(PutAt(w, q, r, k)) /\ PutAt(w, q, r, k).at = q
BY DEF Walks, PutAt, Lenient

LEMMA SentLasts ==
    ASSUME NEW w \in Walks, NEW r, NEW h
    PROVE  SentOn(Lenient(w), r, h) = Lenient(SentOn(w, r, h)) /\ SentOn(w, r, h).at = w.at
BY DEF Walks, SentOn, Lenient

\* As long as a strict walk gets on, a lenient one does as well, and both are at something.
LEMMA StrictAsLenient ==
    ASSUME NEW t \in Tree, Grown(t), NEW w \in Walks, ~Finished(w), w.mode = "strict",
           Here(t, w.at).kind # "none", Advance(t, w).over = "no"
    PROVE  /\ Lenient(w) \in Walks /\ ~Finished(Lenient(w)) /\ Advance(t, Lenient(w)) = Lenient(Advance(t, w))
           /\ Here(t, Advance(t, w).at).kind # "none"
<1> DEFINE c == Head(w.rest)
<1>0. PICK v, l, q, n, k, r : /\ v = Advance(t, w) /\ l = Lenient(w) /\ r = Tail(w.rest)
                              /\ q = Append(w.at, c) /\ n = Here(t, q) /\ k = n.kind
    OBVIOUS
<1>1. /\ l \in Walks /\ l.rest = w.rest /\ l.at = w.at /\ l.over = w.over /\ l.mode = "lenient" /\ l.hops = w.hops
      /\ ~Finished(l)
    BY <1>0 DEF Walks, Modes, Finished, Lenient
<1>2. c \in Components /\ w.at \in Seq(Names) /\ w.over = "no"
    BY DEF Finished, Walks
<1>3. ~Makes(t, w) /\ ~Makes(t, l)
    BY <1>1 DEF Makes
<1>4. CASE c = "/"
    <2>1. v = PutAt(w, <<>>, r, "dir")
        BY <1>0, <1>4 DEF Advance, Ahead, PutAt
    <2>2. Advance(t, l) = PutAt(l, <<>>, r, "dir")
        BY <1>0, <1>1, <1>4 DEF Advance, Ahead, PutAt
    <2>3. Advance(t, l) = Lenient(v) /\ v.at = <<>>
        BY <2>1, <2>2, PutLasts, <1>0
    <2>4. Here(t, <<>>).kind = "dir"
        BY RootIsDir
    <2> QED  BY <1>0, <1>1, <2>3, <2>4, Zenon
<1>5. CASE c = ".."
    <2>1. v = PutAt(w, Parent(w.at), r, "dir")
        BY <1>0, <1>5 DEF Advance, Ahead, PutAt
    <2>2. Advance(t, l) = PutAt(l, Parent(w.at), r, "dir")
        BY <1>0, <1>1, <1>5 DEF Advance, Ahead, PutAt
    <2>3. Advance(t, l) = Lenient(v) /\ v.at = Parent(w.at)
        BY <2>1, <2>2, PutLasts, <1>0
    <2>4. Here(t, Parent(w.at)).kind # "none"
        BY <1>2, ParentIsThere
    <2> QED  BY <1>0, <1>1, <2>3, <2>4, Zenon
<1>6. CASE c \in Names /\ n.kind = "link"
    <2>1. v = IF w.hops = MaxHops THEN [w EXCEPT !.over = "loop"] ELSE SentOn(w, n.to \o r, w.hops + 1)
        BY <1>0, <1>6 DEF Advance, Ahead, SentOn
    <2>2. w.hops # MaxHops
        BY <1>0, <2>1 DEF Walks
    <2>3. Advance(t, l) = SentOn(l, n.to \o r, w.hops + 1)
        BY <1>0, <1>1, <1>6, <2>2 DEF Advance, Ahead, SentOn
    <2>4. Advance(t, l) = Lenient(v) /\ v.at = w.at
        BY <2>1, <2>2, <2>3, SentLasts, <1>0
    <2> QED  BY <1>0, <1>1, <2>4, Zenon
<1>7. CASE c \in Names /\ n.kind # "link"
    <2>0. c # "/" /\ c # ".."
        BY <1>7
    <2>1. n.kind # "none"
        <3>1. n.kind = "none" =>
                  v = [w EXCEPT !.over = IF Here(t, w.at).kind = "dir" THEN "missing" ELSE "refused"]
            BY <1>0, <1>3, <1>7, <2>0 DEF Advance, Ahead
        <3> QED  BY <1>0, <3>1 DEF Walks
    <2>2. v = PutAt(w, q, r, k)
        BY <1>0, <1>3, <1>7, <2>0, <2>1 DEF Advance, Ahead, PutAt
    <2>3. Advance(t, l) = PutAt(l, q, r, k)
        BY <1>0, <1>1, <1>3, <1>7, <2>0, <2>1 DEF Advance, Ahead, PutAt
    <2>4. Advance(t, l) = Lenient(v) /\ v.at = q
        <3>1. PutAt(Lenient(w), q, r, k) = Lenient(PutAt(w, q, r, k)) /\ PutAt(w, q, r, k).at = q
            BY PutLasts
        <3>2. l = Lenient(w)
            BY <1>0
        <3> QED  BY <2>2, <2>3, <3>1, <3>2
    <2> QED  BY <1>0, <1>1, <2>1, <2>4, Zenon
<1> QED  BY <1>2, <1>4, <1>5, <1>6, <1>7 DEF Components

\* A lookup that makes an entry is one of a tool that writes.
LEMMA OnlyWritersMake ==
    ASSUME TypeOK, Known, since = "nothing", Lookup
    PROVE  fs' = fs \/ (call.pc \in {"mkdir", "open"} /\ Is(Writers))
<1>1. call.pc \in Phases \ {"idle"} /\ ~Finished(walk)
    BY DEF TypeOK, Calls, Lookup
<1>2. call.pc \notin {"pull", "describe"}
    BY <1>1 DEF Known, FoundInv
<1>3. CASE call.pc \in {"root", "roots", "resolve", "recheck", "described"}
    <2>1. \E text, mode : mode \in {"lenient", "strict"} /\ OnTheWay(text, mode)
        BY <1>3 DEF Known, GuardingInv, PassedInv, ListingInv
    <2> QED  BY <2>1, LooksOnly DEF OnTheWay
<1>4. CASE call.pc = "look" \/ (call.pc = "open" /\ ~Is(Writers))
    <2>1. walk.mode = "strict"
        BY <1>4 DEF Known, FoundInv
    <2> QED  BY <2>1, LooksOnly
<1>5. CASE call.pc = "mkdir" \/ (call.pc = "open" /\ Is(Writers))
    BY <1>5 DEF Known, FoundInv
<1> QED  BY <1>1, <1>2, <1>3, <1>4, <1>5 DEF Phases

LEMMA LookupGuarding ==
    ASSUME TypeOK, Known, since = "nothing", Lookup
    PROVE  GuardingInv'
<1>1. call' = call /\ goal' = goal
    BY DEF Lookup
<1>2. CASE call.pc \notin {"root", "roots", "resolve"}
    BY <1>1, <1>2 DEF GuardingInv
<1>3. CASE call.pc \in {"root", "roots", "resolve"}
    <2>1. fs' = fs
        BY <1>3, OnlyWritersMake
    <2>2. ASSUME NEW text, NEW mode, OnTheWay(text, mode)
          PROVE  OnTheWay(text, mode)'
        BY <2>1, <2>2, WayGoesOn
    <2>3. \A roots, k : RootsSeen(roots, k)' <=> RootsSeen(roots, k)
        BY <1>1, <2>1 DEF RootsSeen, Is
    <2>4. (RootKnown' <=> RootKnown) /\ Asked' = Asked /\ \A tools : Is(tools)' <=> Is(tools)
        BY <1>1, <2>1 DEF RootKnown, Asked, Is
    <2>5. CASE call.pc = "root"
        <3>1. ~Is({"tail_log"}) /\ goal = Goal(fs, call.tool, call.req, <<Root>>)
                  /\ RootsSeen(<<Root>>, 0) /\ OnTheWay(Root, "strict")
            BY <2>5 DEF Known, GuardingInv
        <3>2. OnTheWay(Root, "strict")' /\ RootsSeen(<<Root>>, 0)'
            BY <2>2, <2>3, <3>1
        <3> QED  BY <1>1, <2>1, <2>4, <2>5, <3>1, <3>2 DEF GuardingInv
    <2>6. CASE call.pc \in {"roots", "resolve"}
        <3>1. /\ IF Is({"tail_log"}) THEN Absolute(call.req) ELSE RootKnown
              /\ \E roots \in GuardRoots(call.tool) :
                    /\ goal = Goal(fs, call.tool, call.req, roots)
                    /\ IF call.pc = "roots"
                       THEN \E k \in 0..(Len(roots) - 1) : RootsSeen(roots, k) /\ OnTheWay(roots[k + 1], "strict")
                       ELSE RootsSeen(roots, Len(roots)) /\ OnTheWay(Asked, "lenient")
            BY <2>6 DEF Known, GuardingInv
        <3>2. PICK roots \in GuardRoots(call.tool) :
                    /\ goal = Goal(fs, call.tool, call.req, roots)
                    /\ IF call.pc = "roots"
                       THEN \E k \in 0..(Len(roots) - 1) : RootsSeen(roots, k) /\ OnTheWay(roots[k + 1], "strict")
                       ELSE RootsSeen(roots, Len(roots)) /\ OnTheWay(Asked, "lenient")
            BY <3>1
        <3>3. CASE call.pc = "roots"
            <4>1. PICK k \in 0..(Len(roots) - 1) : RootsSeen(roots, k) /\ OnTheWay(roots[k + 1], "strict")
                BY <3>2, <3>3
            <4>2. OnTheWay(roots[k + 1], "strict")' /\ RootsSeen(roots, k)'
                BY <2>2, <2>3, <4>1
            <4> QED  BY <1>1, <2>1, <2>4, <3>1, <3>2, <3>3, <4>2 DEF GuardingInv
        <3>4. CASE call.pc = "resolve"
            <4>1. PICK asked : asked = Asked
                OBVIOUS
            <4>2. OnTheWay(asked, "lenient")
                BY <3>2, <3>4, <4>1
            <4>3. OnTheWay(asked, "lenient")' /\ RootsSeen(roots, Len(roots))'
                BY <2>2, <2>3, <3>2, <3>4, <4>2
            <4>4. OnTheWay(Asked, "lenient")'
                BY <2>4, <4>1, <4>3 DEF OnTheWay
            <4> QED  BY <1>1, <2>1, <2>4, <3>1, <3>2, <3>4, <4>3, <4>4 DEF GuardingInv
        <3> QED  BY <2>6, <3>3, <3>4
    <2> QED  BY <1>3, <2>5, <2>6
<1> QED  BY <1>2, <1>3

LEMMA LookupPassed ==
    ASSUME TypeOK, Grown(fs), Known, since = "nothing", Lookup
    PROVE  PassedInv'
<1>1. call' = call /\ goal' = goal /\ \A tools : Is(tools)' <=> Is(tools)
    BY DEF Lookup, Is
<1>2. CASE call.pc # "recheck"
    BY <1>1, <1>2 DEF Known, PassedInv
<1>3. CASE call.pc = "recheck"
    <2>1. /\ fs' = fs /\ fs \in Tree /\ walk \in Walks /\ ~Finished(walk) /\ walk' = Advance(fs, walk)
        BY <1>3, OnlyWritersMake DEF Lookup, TypeOK, Tree
    <2>2. PICK first : first = Leads(fs, call.req, "lenient")
        OBVIOUS
    <2>3. /\ goal.sound /\ goal.inside /\ goal.at = call.target
          /\ Is({"tail_log"}) /\ OnTheWay(call.req, "strict")
          /\ Reached(first) /\ first.at = call.target /\ Within(call.target, call.roots)
          /\ goal.kind = IF Reached(Leads(fs, call.req, "strict")) THEN Here(fs, call.target).kind ELSE "none"
          /\ walk.over = "no" => /\ Here(fs, walk.at).kind # "none"
                                 /\ Ends(fs)[[walk EXCEPT !.mode = "lenient"]] = first
        BY <1>3, <2>2 DEF Known, PassedInv
    <2>4. OnTheWay(call.req, "strict")'
        <3>1. PICK req : req = call.req
            OBVIOUS
        <3>2. OnTheWay(req, "strict")'
            BY <2>1, <2>3, <3>1, WayGoesOn
        <3> QED  BY <1>1, <3>1, <3>2 DEF OnTheWay
    <2>5. PICK v : v = walk'
        OBVIOUS
    <2>6. ASSUME v.over = "no"
          PROVE  Here(fs, v.at).kind # "none" /\ Ends(fs)[[v EXCEPT !.mode = "lenient"]] = first
        <3>1. walk.over = "no" /\ walk.mode = "strict"
            BY <2>1, <2>3 DEF OnTheWay, Finished, Walks
        <3>2. /\ Lenient(walk) \in Walks /\ ~Finished(Lenient(walk))
              /\ Advance(fs, Lenient(walk)) = Lenient(v) /\ Here(fs, v.at).kind # "none"
            BY <2>1, <2>3, <2>5, <2>6, <3>1, StrictAsLenient
        <3>3. Ends(fs)[Lenient(walk)] = Ends(fs)[Advance(fs, Lenient(walk))]
            BY <2>1, <3>2, EndsIs
        <3>4. Ends(fs)[Lenient(v)] = first
            BY <2>3, <3>1, <3>2, <3>3 DEF Lenient
        <3> QED  BY <3>2, <3>4 DEF Lenient
    <2>7. /\ Reached(first) /\ first.at = call'.target /\ Within(call'.target, call'.roots)
          /\ first = Leads(fs', call'.req, "lenient")
          /\ goal'.kind = IF Reached(Leads(fs', call'.req, "strict")) THEN Here(fs', call'.target).kind ELSE "none"
          /\ walk'.over = "no" => /\ Here(fs', walk'.at).kind # "none"
                                  /\ Ends(fs')[[walk' EXCEPT !.mode = "lenient"]] = first
        BY <1>1, <2>1, <2>2, <2>3, <2>5, <2>6
    <2> QED  BY <1>1, <1>3, <2>3, <2>4, <2>7 DEF PassedInv
<1> QED  BY <1>2, <1>3

LEMMA LookupFound ==
    ASSUME TypeOK, GuardInv, Grown(fs), Known, since = "nothing", Lookup
    PROVE  FoundInv'
<1>1. /\ call' = call /\ goal' = goal /\ fs \in Tree /\ walk \in Walks /\ call \in Calls /\ ~Finished(walk)
      /\ walk' = Advance(fs, walk) /\ walk.over = "no" /\ walk.rest # <<>>
      /\ \A tools : Is(tools)' <=> Is(tools)
    BY DEF TypeOK, Tree, Lookup, Finished, Is
<1>2. walk'.mode = walk.mode
    BY <1>1, AdvanceMode
<1>3. call.pc \notin {"pull", "describe"} /\ FoundInv
    BY <1>1 DEF Known, FoundInv
<1>4. fs' = fs \/ (call.pc \in {"mkdir", "open"} /\ Is(Writers))
    BY OnlyWritersMake
<1>5. PICK q : q = Append(walk.at, Head(walk.rest))
    OBVIOUS
<1>6. /\ \A p : Here(fs, p).kind # "none" => Here(fs', p) = Here(fs, p)
      /\ Makes(fs, walk) => Here(fs', q).kind = Made(walk) /\ Made(walk) # "none"
    BY <1>5, GrownLookup DEF Made
<1>7. ASSUME call.pc \in {"look", "open"}
      PROVE  \/ walk'.over # "no" /\ Here(fs, call.target).kind = "none"
             \/ /\ walk'.over = "no" /\ walk'.at = q
                /\ walk'.found = IF Makes(fs, walk) THEN Made(walk) ELSE Here(fs, q).kind
                /\ Makes(fs, walk) \/ Here(fs, q).kind # "none"
    <2>1. walk.mode # "lenient"
        BY <1>3, <1>7 DEF FoundInv
    <2>2. Follows(walk, call.target) /\ Free(fs, call.target) /\ call.target \in Seq(Names)
        BY <1>1, <1>7 DEF GuardInv, Safe, Guarded, Calls
    <2>3. PICK t, w, p : t = fs /\ w = walk /\ p = call.target
        OBVIOUS
    <2>4. \/ Advance(t, w).over # "no" /\ Here(t, p).kind = "none"
          \/ /\ Advance(t, w).over = "no" /\ Advance(t, w).at = Append(w.at, Head(w.rest))
             /\ Advance(t, w).found = IF Makes(t, w) THEN Made(w) ELSE Here(t, Append(w.at, Head(w.rest))).kind
             /\ Makes(t, w) \/ Here(t, Append(w.at, Head(w.rest))).kind # "none"
        BY <1>1, <2>1, <2>2, <2>3, AlongStep
    <2> QED  BY <1>1, <1>5, <2>3, <2>4
<1>8. call.pc \in {"look", "open"} /\ walk'.over = "no" =>
          walk'.found # "none" /\ walk'.found = Here(fs', walk'.at).kind
    BY <1>6, <1>7
<1>9. call.pc = "look" => fs' = fs /\ walk'.mode = "strict" /\ (walk'.over # "no" => goal.kind = "none")
    BY <1>2, <1>3, <1>4, <1>7 DEF FoundInv
<1>10. Is(Writers) /\ goal.kind = "dir" /\ call.pc \in {"mkdir", "open"} => Here(fs', call.target).kind = "dir"
    <2>1. ASSUME Is(Writers), goal.kind = "dir", call.pc \in {"mkdir", "open"}
          PROVE  Here(fs', call.target).kind = "dir"
        <3>1. Here(fs, call.target).kind = "dir"
            BY <1>3, <2>1 DEF FoundInv
        <3> QED  BY <1>6, <3>1
    <2> QED  BY <2>1
<1>11. /\ call'.pc \in {"pull", "look"} => goal'.kind = Here(fs', call'.target).kind
       /\ call'.pc = "look" => walk'.mode = "strict" /\ (walk'.over # "no" => goal'.kind = "none")
       /\ call'.pc \in {"look", "open"} /\ ~Is({"tail_log"})' /\ walk'.over = "no" =>
             walk'.found # "none" /\ walk'.found = Here(fs', walk'.at).kind
    BY <1>1, <1>3, <1>8, <1>9 DEF FoundInv
<1>12. /\ call'.pc \in {"pull", "mkdir"} => Is(Writers)'
       /\ call'.pc \in {"pull", "describe"} => Finished(walk)'
       /\ call'.pc \in {"mkdir", "open"} /\ Is(Writers)' /\ goal'.kind = "dir" => Here(fs', call'.target).kind = "dir"
    BY <1>1, <1>3, <1>10 DEF FoundInv
<1>13. /\ call'.pc = "open" =>
             /\ walk'.mode = IF Is(Writers)' THEN "create" ELSE "strict"
             /\ Is({"tail_log"})' => goal'.kind # "none"
             /\ Is({"list_directory"})' => goal'.kind = "dir"
             /\ Is({"read_file", "notes_read"})' => goal'.kind = "file"
       /\ call'.pc \in {"describe", "described"} => goal'.kind = "dir" /\ Is({"list_directory"})'
    BY <1>1, <1>2, <1>3 DEF FoundInv
<1> QED  BY <1>11, <1>12, <1>13 DEF FoundInv

\* A lookup keeps all that a call knows.
LEMMA LookupKnown ==
    ASSUME TypeOK, GuardInv, Grown(fs), Known, since = "nothing", Lookup
    PROVE  Known'
<1>1. GuardingInv' /\ PassedInv' /\ FoundInv'
    BY LookupGuarding, LookupPassed, LookupFound
<1>2. call' = call /\ goal' = goal /\ call.pc # "idle" /\ \A tools : Is(tools)' <=> Is(tools)
    BY DEF Lookup, Is
<1>3. VerdictsAreRight' /\ ListingAgreesWithGuard'
    BY <1>2 DEF VerdictsAreRight, ListingAgreesWithGuard
<1>4. ListingInv /\ FoundInv
    BY DEF Known
<1>5. fs' = fs \/ (call.pc \in {"mkdir", "open"} /\ Is(Writers))
    BY OnlyWritersMake
<1>6. CASE fs' = fs
    <2>1. RootKnown' <=> RootKnown
        BY <1>2, <1>6 DEF RootKnown
    <2>2. call.pc = "described" => OnTheWay(Append(call.target, call.child), "lenient")'
        <3>1. PICK to : to = Append(call.target, call.child)
            OBVIOUS
        <3>2. call.pc = "described" => OnTheWay(to, "lenient")
            BY <1>4, <3>1 DEF ListingInv
        <3>3. call.pc = "described" => OnTheWay(to, "lenient")'
            BY <1>6, <3>2, WayGoesOn
        <3> QED  BY <1>2, <3>1, <3>3 DEF OnTheWay
    <2>3. Agrees(fs, call.root, call.target, call.told)' <=> Agrees(fs, call.root, call.target, call.told)
        BY <1>2, <1>6
    <2>4. ListingInv'
        BY <1>2, <1>4, <2>1, <2>2, <2>3 DEF ListingInv
    <2> QED  BY <1>1, <1>3, <2>4 DEF Known
<1>7. CASE call.pc \in {"mkdir", "open"} /\ Is(Writers)
    <2>1. ~Is({"list_directory"})
        BY <1>7 DEF Is, Writers
    <2>2. ListingInv'
        BY <1>2, <1>4, <1>7, <2>1 DEF ListingInv
    <2> QED  BY <1>1, <1>3, <2>2 DEF Known
<1> QED  BY <1>5, <1>6, <1>7

\* Only a lookup, a pull and others change the tree.
LEMMA TreeChanges ==
    ASSUME [Next]_vars
    PROVE  fs' = fs \/ Lookup \/ Pull \/ OthersChange
<1>1. CASE UNCHANGED vars
    BY <1>1 DEF vars
<1>2. ASSUME NEW tool, NEW req, NEW flag, NEW roots, Start(tool, req, flag, roots)
      PROVE  fs' = fs
    BY <1>2 DEF Start
<1>3. CASE RootResolved \/ GuardRootResolved \/ Resolved \/ Rechecked
    BY <1>3, Zenon DEF RootResolved, GuardRootResolved, Resolved, Rechecked, Resolve, Answer
<1>4. CASE Looked \/ ParentMade \/ Opened
    BY <1>4, Zenon DEF Looked, ParentMade, Opened, Resolve, Answer
<1>5. CASE Described \/ Listed \/ \E n \in Names : Describe(n)
    BY <1>5, Zenon DEF Described, Listed, Describe, Resolve, Answer
<1> QED  BY <1>1, <1>2, <1>3, <1>4, <1>5 DEF Next, Step

\* What is above something stays a directory, whoever changes the tree.
LEMMA GrownNext ==
    ASSUME TypeOK, Grown(fs), [Next]_vars
    PROVE  Grown(fs')
<1>1. CASE fs' = fs
    BY <1>1
<1>2. CASE Lookup
    BY <1>2, GrownLookup
<1>3. CASE Pull \/ OthersChange
    <2>1. fs' = fs \/ fs' \in Trees
        BY <1>3 DEF Pull, OthersChange, Others
    <2> QED  BY <1>1, <2>1, TreesAssumption
<1>4. fs' = fs \/ Lookup \/ Pull \/ OthersChange
    BY TreeChanges
<1> QED  BY <1>1, <1>2, <1>3, <1>4

\* What a call knows stays known until others change the tree.
LEMMA KnownNext ==
    ASSUME TypeOK, GuardInv, VerdictInv, [Next]_vars, since' = "nothing"
    PROVE  Known'
<1>1. Grown(fs) /\ (since = "nothing" => Known)
    BY DEF VerdictInv, Known
<1>2. CASE UNCHANGED vars
    <2>1. since = "nothing" /\ Known
        BY <1>1, <1>2 DEF vars
    <2>2. fs' = fs /\ walk' = walk /\ call' = call /\ goal' = goal /\ since' = since
        BY <1>2 DEF vars
    <2>3. GuardingInv' /\ PassedInv'
        <3>1. /\ \A text, mode : OnTheWay(text, mode)' <=> OnTheWay(text, mode)
              /\ \A roots, k : RootsSeen(roots, k)' <=> RootsSeen(roots, k)
            BY <2>2 DEF OnTheWay, RootsSeen, Is
        <3>2. (RootKnown' <=> RootKnown) /\ Asked' = Asked /\ \A tools : Is(tools)' <=> Is(tools)
            BY <2>2 DEF RootKnown, Asked, Is
        <3>3. GuardingInv'
            BY <2>1, <2>2, <3>1, <3>2 DEF Known, GuardingInv
        <3>4. PassedInv'
            BY <2>1, <2>2, <3>1, <3>2 DEF Known, PassedInv
        <3> QED  BY <3>3, <3>4
    <2>4. FoundInv' /\ ListingInv'
        BY <2>1, <2>2 DEF Known, FoundInv, ListingInv, OnTheWay, RootKnown, Is
    <2>5. VerdictsAreRight' /\ ListingAgreesWithGuard'
        BY <2>1, <2>2 DEF Known, VerdictsAreRight, ListingAgreesWithGuard, Right, Is, MayWrite
    <2> QED  BY <2>3, <2>4, <2>5 DEF Known
<1>3. ASSUME NEW tool \in Tools, NEW req \in Requests, NEW flag \in Flags(tool),
             NEW roots \in GuardRoots(tool), Start(tool, req, flag, roots)
      PROVE  Known'
    BY <1>3, StartKnown
<1>4. ASSUME OthersChange
      PROVE  FALSE
    BY <1>4 DEF OthersChange, Others
<1>5. CASE Step
    <2>1. since = "nothing"
        <3>1. CASE Pull
            BY <3>1 DEF Pull, Others
        <3>2. CASE Lookup
            BY <3>2 DEF Lookup
        <3>3. CASE RootResolved \/ GuardRootResolved \/ Resolved \/ Rechecked
            <4>1. since' = since
                BY <3>3, Zenon DEF RootResolved, GuardRootResolved, Resolved, Rechecked, Resolve, Answer
            <4> QED  BY <4>1
        <3>4. CASE Looked \/ ParentMade \/ Opened
            <4>1. since' = since
                BY <3>4, Zenon DEF Looked, ParentMade, Opened, Resolve, Answer
            <4> QED  BY <4>1
        <3>5. CASE Described \/ Listed \/ \E n \in Names : Describe(n)
            <4>1. since' = since
                BY <3>5, Zenon DEF Described, Listed, Describe, Resolve, Answer
            <4> QED  BY <4>1
        <3> QED  BY <1>5, <3>1, <3>2, <3>3, <3>4, <3>5 DEF Step
    <2>2. Known
        BY <1>1, <2>1
    <2> QED  BY <1>1, <1>5, <2>1, <2>2, LookupKnown, RootKnownNext, GuardRootKnown, ResolvedKnown, RecheckedKnown,
                PullKnown, LookedKnown, ParentMadeKnown, OpenedKnown, ListingKnown DEF Step
<1> QED  BY <1>2, <1>3, <1>4, <1>5 DEF Next

LEMMA VerdictHolds == Spec => []VerdictInv
<1>1. Init => VerdictInv
    <2> SUFFICES ASSUME Init PROVE VerdictInv
        OBVIOUS
    <2>1. Grown(fs)
        BY TreesAssumption DEF Init
    <2>2. call.pc = "idle" /\ call.answer = "" /\ call.told = {}
        BY DEF Init
    <2>3. GuardingInv /\ PassedInv /\ FoundInv
        BY <2>2 DEF GuardingInv, PassedInv, FoundInv, Guarded
    <2>4. ListingInv /\ VerdictsAreRight /\ ListingAgreesWithGuard
        BY <2>2 DEF ListingInv, VerdictsAreRight, ListingAgreesWithGuard, Agrees, Guarded
    <2> QED  BY <2>1, <2>3, <2>4 DEF VerdictInv
<1>2. TypeOK /\ GuardInv /\ VerdictInv /\ [Next]_vars => VerdictInv'
    <2> SUFFICES ASSUME TypeOK, GuardInv, VerdictInv, [Next]_vars PROVE VerdictInv'
        OBVIOUS
    <2>1. Grown(fs')
        BY GrownNext DEF VerdictInv
    <2>2. since' = "nothing" => Known'
        BY KnownNext
    <2> QED  BY <2>1, <2>2 DEF VerdictInv, Known
<1> QED  BY <1>1, <1>2, PathsTypeOK, GuardHolds, PTL DEF Spec

\* On a tree that nobody changes, a request is denied exactly when it leads outside, "not
\* found" is only said of what is inside and not there, and a success is had only with what
\* is there or was written: the checks of the tools, spread over many lookups, come to what
\* one look at the tree at the beginning of the call says.
THEOREM VerdictsAlwaysRight == Spec => []VerdictsAreRight
<1>1. VerdictInv => VerdictsAreRight
    BY DEF VerdictInv, VerdictsAreRight
<1> QED  BY <1>1, VerdictHolds, PTL

\* list_directory shows where a link leads exactly when the guard would let a request for
\* the link through, and it shows the place that such a request gets.
THEOREM ListingAlwaysAgrees == Spec => []ListingAgreesWithGuard
<1>1. VerdictInv => ListingAgreesWithGuard
    BY DEF VerdictInv, ListingAgreesWithGuard
<1> QED  BY <1>1, VerdictHolds, PTL
--------------------------------------------------------------------------
(* What is made.                                                           *)

\* Only mkdir and open() make anything, and they walk along the target; on a tree that
\* nobody changes, a strict walk is at something, and so each of the roots is there.
MakeInv ==
    /\ call.pc \notin {"idle", "mkdir", "open"} => walk.mode \in {"lenient", "strict"}
    /\ call.pc = "roots" => walk.mode = "strict"
    /\ since # "link" /\ call.pc = "mkdir" /\ walk.over = "no" => Follows(walk, Parent(call.target))
    /\ since = "nothing" =>
          /\ walk.mode = "strict" /\ walk.over = "no" => Here(fs, walk.at).kind # "none"
          /\ \A r \in call.roots : Here(fs, r).kind # "none"

\* A walk at its beginning, along the text that it was given.
LEMMA FollowsFirst ==
    ASSUME NEW p \in Seq(Names), NEW mode
    PROVE  Follows(Walker(p, mode), p)
<1> DEFINE w == Walker(p, mode)
<1>1. w.at = <<>> /\ w.rest = p
    BY DEF Walker
<1>2. Len(<<>>) = 0 /\ Len(p) \in Nat
    OBVIOUS
<1> HIDE DEF w
<1>3. Follows(w, p)
    BY <1>1, <1>2 DEF Follows
<1> QED  BY <1>3 DEF w

LEMMA MakeResolve ==
    ASSUME TypeOK, MakeInv, Grown(fs), NEW c \in Calls, NEW pc, NEW text, NEW mode,
           Resolve(pc, text, mode, c),
           mode \in {"lenient", "strict"} \/ pc \in {"mkdir", "open"},
           pc = "roots" => mode = "strict",
           pc = "mkdir" => text = Parent(c.target),
           since = "nothing" => \A r \in c.roots : Here(fs, r).kind # "none"
    PROVE  MakeInv'
<1>1. /\ fs' = fs /\ since' = since /\ walk' = Walker(text, mode) /\ call' = [c EXCEPT !.pc = pc]
    BY DEF Resolve
<1>2. call'.pc = pc /\ call'.roots = c.roots /\ call'.target = c.target /\ c.target \in Seq(Names)
    BY <1>1 DEF Calls
<1>3. walk'.mode = mode /\ walk'.at = <<>>
    BY <1>1 DEF Walker
<1>4. pc = "mkdir" => Follows(walk', Parent(c.target))
    BY <1>1, <1>2, ParentType, FollowsFirst
<1>5. Here(fs, <<>>).kind # "none"
    BY RootIsDir DEF TypeOK, Tree
<1> QED  BY <1>1, <1>2, <1>3, <1>4, <1>5 DEF MakeInv

LEMMA MakeAnswer ==
    ASSUME TypeOK, MakeInv, NEW c \in Calls, NEW a, Answer(a, c),
           since = "nothing" => \A r \in c.roots : Here(fs, r).kind # "none"
    PROVE  MakeInv'
<1>1. fs' = fs /\ since' = since /\ walk' = walk /\ call' = [c EXCEPT !.pc = "idle", !.answer = a]
    BY DEF Answer
<1>2. call'.pc = "idle" /\ call'.roots = c.roots
    BY <1>1 DEF Calls
<1> QED  BY <1>1, <1>2 DEF MakeInv

LEMMA StartMake ==
    ASSUME TypeOK, Grown(fs), NEW tool, NEW req, NEW flag, NEW roots, Start(tool, req, flag, roots)
    PROVE  MakeInv'
<1>1. fs' = fs /\ Here(fs, <<>>).kind # "none"
    BY RootIsDir DEF TypeOK, Tree, Start
<1> DEFINE c == [call EXCEPT !.tool = tool, !.req = req, !.flag = flag, !.answer = "",
                             !.root = <<>>, !.roots = {}, !.left = roots,
                             !.target = <<>>, !.touched = {}, !.todo = {}, !.told = {}]
<1>2. \/ call' = [c EXCEPT !.answer = "denied"] /\ \E text : walk' = Walker(text, "strict")
      \/ call' = [c EXCEPT !.pc = "resolve"] /\ \E text : walk' = Walker(text, "lenient")
      \/ call' = [c EXCEPT !.pc = "roots"] /\ \E text : walk' = Walker(text, "strict")
      \/ call' = [c EXCEPT !.pc = "root"] /\ \E text : walk' = Walker(text, "strict")
    BY DEF Start
<1>3. c.roots = {} /\ c.pc = "idle" /\ "pc" \in DOMAIN c /\ "roots" \in DOMAIN c
    BY DEF TypeOK, Calls, Start
<1> HIDE DEF c
<1>4. call'.roots = {} /\ call'.pc \in {"idle", "resolve", "roots", "root"}
    BY <1>2, <1>3
<1>5. /\ walk'.at = <<>> /\ walk'.mode \in {"lenient", "strict"}
      /\ call'.pc = "roots" => walk'.mode = "strict"
    BY <1>2, <1>3 DEF Walker
<1> QED  BY <1>1, <1>4, <1>5 DEF MakeInv

LEMMA LookupCases ==
    ASSUME TypeOK, Lookup
    PROVE  LET d == Head(walk.rest)
               p == Append(walk.at, d)
           IN  \/ /\ d \in {"/", ".."}
                  /\ walk' = [walk EXCEPT !.at = IF d = "/" THEN <<>> ELSE Parent(walk.at),
                                          !.rest = Tail(walk.rest), !.found = "dir"]
               \/ /\ d \in Names /\ Here(fs, p).kind = "link"
                  /\ walk' = IF walk.hops = MaxHops THEN [walk EXCEPT !.over = "loop"]
                             ELSE [walk EXCEPT !.rest = Here(fs, p).to \o Tail(walk.rest), !.hops = walk.hops + 1]
               \/ \E o \in {"missing", "refused"} : walk' = [walk EXCEPT !.over = o]
               \/ /\ d \in Names /\ Here(fs, p).kind # "link"
                  /\ \E k \in {"none", "dir", "file", "big"} :
                        walk' = [walk EXCEPT !.at = p, !.rest = Tail(walk.rest), !.found = k]
<1>1. /\ fs \in Tree /\ walk \in Walks /\ ~Finished(walk) /\ walk' = Advance(fs, walk)
    BY DEF TypeOK, Tree, Lookup
<1> QED  BY <1>1, AdvanceCases, ZenonT(60)

\* A walk that is not lenient is at what is there, or is over.
LEMMA LookupThere ==
    ASSUME TypeOK, Grown(fs), Lookup, walk.mode = "strict", Here(fs, walk.at).kind # "none",
           walk'.over = "no"
    PROVE  Here(fs', walk'.at).kind # "none"
<1>0. fs' = fs
    BY LooksOnly
<1>1. /\ fs \in Tree /\ walk \in Walks /\ ~Finished(walk) /\ walk' = Advance(fs, walk)
    BY DEF TypeOK, Tree, Lookup
<1>2. walk.at \in Seq(Names) /\ walk.rest # <<>>
    BY <1>1 DEF Walks, Finished
<1> DEFINE d == Head(walk.rest)
           p == Append(walk.at, d)
<1>3. CASE /\ d \in {"/", ".."}
           /\ walk' = [walk EXCEPT !.at = IF d = "/" THEN <<>> ELSE Parent(walk.at),
                                   !.rest = Tail(walk.rest), !.found = "dir"]
    <2>1. walk'.at \in {<<>>, Parent(walk.at)}
        BY <1>1, <1>3 DEF Walks
    <2>2. Here(fs, <<>>).kind # "none" /\ Here(fs, Parent(walk.at)).kind # "none"
        BY <1>1, <1>2, RootIsDir, ParentIsThere
    <2> QED  BY <1>0, <2>1, <2>2
<1>4. CASE /\ d \in Names /\ Here(fs, p).kind = "link"
           /\ walk' = IF walk.hops = MaxHops THEN [walk EXCEPT !.over = "loop"]
                      ELSE [walk EXCEPT !.rest = Here(fs, p).to \o Tail(walk.rest), !.hops = walk.hops + 1]
    <2>1. walk'.at = walk.at
        BY <1>1, <1>4 DEF Walks
    <2> QED  BY <1>0, <2>1
<1>5. CASE \E o \in {"missing", "refused"} : walk' = [walk EXCEPT !.over = o]
    BY <1>1, <1>5 DEF Walks
<1>6. CASE /\ d \in Names /\ Here(fs, p).kind # "link"
           /\ \E k \in {"none", "dir", "file", "big"} :
                 walk' = [walk EXCEPT !.at = p, !.rest = Tail(walk.rest), !.found = k]
    <2>1. walk'.at = p
        BY <1>1, <1>6 DEF Walks
    <2>2. ASSUME Here(fs, p).kind = "none" PROVE FALSE
        <3>1. ~Makes(fs, walk)
            BY DEF Makes
        <3>2. d # "/" /\ d # ".."
            BY <1>6
        <3>3. walk' = [walk EXCEPT !.over = IF Here(fs, walk.at).kind = "dir" THEN "missing" ELSE "refused"]
            BY <1>1, <1>6, <2>2, <3>1, <3>2 DEF Advance, Ahead
        <3>4. walk'.over # "no"
            BY <1>1, <3>3 DEF Walks
        <3> QED  BY <3>4
    <2> QED  BY <1>0, <2>1, <2>2
<1>7. \/ /\ d \in {"/", ".."}
         /\ walk' = [walk EXCEPT !.at = IF d = "/" THEN <<>> ELSE Parent(walk.at),
                                 !.rest = Tail(walk.rest), !.found = "dir"]
      \/ /\ d \in Names /\ Here(fs, p).kind = "link"
         /\ walk' = IF walk.hops = MaxHops THEN [walk EXCEPT !.over = "loop"]
                    ELSE [walk EXCEPT !.rest = Here(fs, p).to \o Tail(walk.rest), !.hops = walk.hops + 1]
      \/ \E o \in {"missing", "refused"} : walk' = [walk EXCEPT !.over = o]
      \/ /\ d \in Names /\ Here(fs, p).kind # "link"
         /\ \E k \in {"none", "dir", "file", "big"} :
               walk' = [walk EXCEPT !.at = p, !.rest = Tail(walk.rest), !.found = k]
    BY LookupCases
<1> HIDE DEF d, p
<1> QED  BY <1>3, <1>4, <1>5, <1>6, <1>7

\* A lookup goes on along the way it is on.
LEMMA LookupFollows ==
    ASSUME TypeOK, Lookup, NEW p \in Seq(Names), Follows(walk, p), Free(fs, p), walk'.over = "no"
    PROVE  Follows(walk', p)
<1>1. /\ fs \in Tree /\ walk \in Walks /\ ~Finished(walk) /\ walk' = Advance(fs, walk)
    BY DEF TypeOK, Tree, Lookup
<1>2. walk.at \in Seq(Names) /\ walk.rest # <<>>
    BY <1>1 DEF Walks, Finished
<1> DEFINE d == Head(walk.rest)
           q == Append(walk.at, d)
<1>3. /\ d \in Names /\ IsPrefix(q, p)
      /\ \A k : Follows([walk EXCEPT !.at = q, !.rest = Tail(walk.rest), !.found = k], p)
    BY <1>1, <1>2, FollowsOn
<1>4. q # <<>>
    BY <1>2
<1>5. Here(fs, q).kind # "link" /\ d \notin {"/", ".."}
    BY <1>3, <1>4 DEF Free, Here, Nothing
<1>6. \/ \E o \in {"missing", "refused"} : walk' = [walk EXCEPT !.over = o]
      \/ \E k : walk' = [walk EXCEPT !.at = q, !.rest = Tail(walk.rest), !.found = k]
    BY <1>1, <1>5, AdvanceCases, ZenonT(60)
<1>7. CASE \E o \in {"missing", "refused"} : walk' = [walk EXCEPT !.over = o]
    BY <1>1, <1>7 DEF Walks
<1> HIDE DEF d, q
<1> QED  BY <1>3, <1>6, <1>7

LEMMA LookupMake ==
    ASSUME TypeOK, GuardInv, MakeInv, Grown(fs), Lookup
    PROVE  MakeInv'
<1>1. /\ fs \in Tree /\ walk \in Walks /\ call \in Calls /\ ~Finished(walk) /\ call' = call /\ since' = since
      /\ walk' = Advance(fs, walk)
    BY DEF TypeOK, Tree, Lookup
<1>2. walk'.mode = walk.mode /\ walk.over = "no"
    BY <1>1, AdvanceMode DEF Finished
<1>3. \A q : Here(fs, q).kind # "none" => Here(fs', q) = Here(fs, q)
    BY GrownLookup
<1>4. ASSUME since # "link", call.pc = "mkdir", walk'.over = "no"
      PROVE  Follows(walk', Parent(call.target))
    <2>1. call.target \in Seq(Names) /\ Free(fs, call.target)
        BY <1>1, <1>4 DEF GuardInv, Safe, Guarded, Calls
    <2>2. Free(fs, Parent(call.target)) /\ Parent(call.target) \in Seq(Names)
        BY <1>1, <2>1, FreeParent, ParentType
    <2>3. Follows(walk, Parent(call.target))
        BY <1>2, <1>4 DEF MakeInv
    <2> QED  BY <1>4, <2>2, <2>3, LookupFollows
<1>5. ASSUME since = "nothing", walk.mode = "strict", walk'.over = "no"
      PROVE  Here(fs', walk'.at).kind # "none"
    <2>1. Here(fs, walk.at).kind # "none"
        BY <1>2, <1>5 DEF MakeInv
    <2> QED  BY <1>5, <2>1, LookupThere
<1>6. ASSUME since = "nothing", NEW r \in call.roots
      PROVE  Here(fs', r).kind # "none"
    BY <1>3, <1>6 DEF MakeInv
<1> QED  BY <1>1, <1>2, <1>4, <1>5, <1>6 DEF MakeInv

\* Others change the tree, and no more is said of what is there.
LEMMA OthersMake ==
    ASSUME TypeOK, MakeInv, OthersChange
    PROVE  MakeInv'
<1>1. walk' = walk /\ call' = call /\ since' # "nothing" /\ (since' # "link" => since # "link")
    BY DEF OthersChange, Others
<1> QED  BY <1>1 DEF MakeInv

LEMMA PullMake ==
    ASSUME TypeOK, MakeInv, Grown(fs), Pull
    PROVE  MakeInv'
<1>1. call \in Calls /\ call.target \in Seq(Names) /\ call.pc = "pull"
    BY DEF TypeOK, Calls, Pull, At
<1>2. \/ /\ walk' = Walker(call.target, "strict") /\ call' = [call EXCEPT !.pc = "look"]
      \/ /\ walk' = Walker(Parent(call.target), "mkdir") /\ call' = [call EXCEPT !.pc = "mkdir"]
    BY Zenon DEF Pull
<1>3. /\ call'.roots = call.roots /\ call'.target = call.target
      /\ walk'.at = <<>>
      /\ \/ walk'.mode = "strict" /\ call'.pc = "look"
         \/ walk' = Walker(Parent(call.target), "mkdir") /\ walk'.mode = "mkdir" /\ call'.pc = "mkdir"
    BY <1>1, <1>2 DEF Calls, Walker
<1>4. call'.pc = "mkdir" => Follows(walk', Parent(call'.target))
    BY <1>1, <1>3, ParentType, FollowsFirst
<1>5. CASE UNCHANGED <<fs, since>>
    <2>1. Here(fs, <<>>).kind # "none"
        BY RootIsDir DEF TypeOK, Tree
    <2> QED  BY <1>1, <1>3, <1>4, <1>5, <2>1 DEF MakeInv
<1>6. CASE since' # "nothing"
    BY <1>3, <1>4, <1>6 DEF MakeInv
<1>7. UNCHANGED <<fs, since>> \/ since' # "nothing"
    BY DEF Pull, Others
<1> QED  BY <1>5, <1>6, <1>7

\* An action that goes on, or answers, with the roots as they are.
LEMMA OtherMake ==
    ASSUME TypeOK, MakeInv, Grown(fs), NEW c \in Calls, c.roots = call.roots,
           \/ \E a : Answer(a, c)
           \/ \E pc, text, mode :
                 /\ Resolve(pc, text, mode, c)
                 /\ mode \in {"lenient", "strict"} \/ pc \in {"mkdir", "open"}
                 /\ pc = "roots" => mode = "strict"
                 /\ pc = "mkdir" => text = Parent(c.target)
    PROVE  MakeInv'
<1>1. since = "nothing" => \A r \in c.roots : Here(fs, r).kind # "none"
    BY DEF MakeInv
<1>2. CASE \E a : Answer(a, c)
    BY <1>1, <1>2, MakeAnswer
<1>3. ASSUME NEW pc, NEW text, NEW mode, Resolve(pc, text, mode, c),
             mode \in {"lenient", "strict"} \/ pc \in {"mkdir", "open"},
             pc = "roots" => mode = "strict", pc = "mkdir" => text = Parent(c.target)
      PROVE  MakeInv'
    BY <1>1, <1>3, MakeResolve
<1> QED  BY <1>2, <1>3

LEMMA RootMake ==
    ASSUME TypeOK, MakeInv, Grown(fs), RootResolved
    PROVE  MakeInv'
<1>1. call \in Calls /\ walk.at \in Seq(Names)
    BY DEF TypeOK, Walks
<1> DEFINE c == [call EXCEPT !.root = walk.at]
<1>2. c \in Calls /\ c.roots = call.roots
    BY <1>1 DEF Calls
<1>3. Resolve("roots", Root, "strict", c) \/ \E a : Answer(a, call)
    BY DEF RootResolved
<1> HIDE DEF c
<1>4. CASE Resolve("roots", Root, "strict", c)
    BY <1>2, <1>4, OtherMake
<1>5. CASE \E a : Answer(a, call)
    BY <1>1, <1>5, OtherMake
<1> QED  BY <1>3, <1>4, <1>5

\* A root that the guard has reached is there.
LEMMA GuardRootMake ==
    ASSUME TypeOK, MakeInv, Grown(fs), GuardRootResolved
    PROVE  MakeInv'
<1>1. call \in Calls /\ walk.at \in Seq(Names) /\ call.pc = "roots" /\ call.left # <<>>
    BY DEF TypeOK, Walks, GuardRootResolved, At
<1> DEFINE more == IF Reached(walk) THEN {walk.at} ELSE {}
           c == [call EXCEPT !.left = Tail(@), !.roots = @ \cup IF Reached(walk) THEN {walk.at} ELSE {}]
<1>2. Tail(call.left) \in Seq(Seq(Components)) /\ call.roots \cup more \in SUBSET Seq(Names)
    BY <1>1, HeadTailProperties DEF Calls
<1>3. c \in Calls /\ c.roots = call.roots \cup more
    BY <1>1, <1>2 DEF Calls
<1>4. \/ Answer("error", c) \/ Answer("denied", c)
      \/ \E text : Resolve("resolve", text, "lenient", c)
      \/ \E text : Resolve("roots", text, "strict", c)
    BY Zenon DEF GuardRootResolved
<1>5. ASSUME since = "nothing", NEW r \in c.roots
      PROVE  Here(fs, r).kind # "none"
    BY <1>1, <1>3, <1>5 DEF MakeInv, Reached
<1> HIDE DEF c
<1>6. CASE Answer("error", c) \/ Answer("denied", c)
    BY <1>3, <1>5, <1>6, MakeAnswer
<1>7. CASE \E text : Resolve("resolve", text, "lenient", c)
    BY <1>3, <1>5, <1>7, MakeResolve
<1>8. CASE \E text : Resolve("roots", text, "strict", c)
    BY <1>3, <1>5, <1>8, MakeResolve
<1> QED  BY <1>4, <1>6, <1>7, <1>8

LEMMA ResolvedMake ==
    ASSUME TypeOK, MakeInv, Grown(fs), Resolved \/ Rechecked
    PROVE  MakeInv'
<1>1. call \in Calls /\ walk.at \in Seq(Names)
    BY DEF TypeOK, Walks
<1> DEFINE c == [call EXCEPT !.target = walk.at]
<1>2. c \in Calls /\ c.roots = call.roots
    BY <1>1 DEF Calls
<1>3. \/ \E a : Answer(a, c)
      \/ \E pc, text, mode : Resolve(pc, text, mode, c) /\ pc \in {"recheck", "pull", "look", "open"}
                             /\ mode = "strict"
    BY Zenon DEF Resolved, Rechecked
<1> HIDE DEF c
<1> QED  BY <1>2, <1>3, OtherMake

LEMMA ToolMake ==
    ASSUME TypeOK, MakeInv, Grown(fs), Looked \/ ParentMade \/ Opened
    PROVE  MakeInv'
<1>1. /\ Touch \in Calls /\ Touch.roots = call.roots /\ Touch.target = call.target
      /\ call \in Calls
    BY TouchType DEF TypeOK, Calls, Touch
<1> DEFINE links == {n \in Names : Here(fs, Append(walk.at, n)).kind = "link"}
           d == [Touch EXCEPT !.todo = links]
<1>2. d \in Calls /\ d.roots = call.roots
    BY <1>1 DEF Calls
<1> HIDE DEF d
<1>3. CASE ParentMade
    <2>1. Resolve("open", call.target, "create", call) \/ Answer("error", call)
        BY <1>3 DEF ParentMade
    <2> QED  BY <1>1, <2>1, OtherMake
<1>4. CASE Looked \/ Opened
    <2>1. \/ \E a : Answer(a, Touch) \/ Answer(a, call)
          \/ \E mode : Resolve("open", call.target, mode, Touch)
          \/ Resolve("mkdir", Parent(call.target), "mkdir", Touch)
          \/ Resolve("describe", <<>>, "strict", d)
        <3>1. CASE Looked
            BY <3>1, Zenon DEF Looked
        <3>2. CASE Opened
            BY <3>2, Zenon DEF Opened, d
        <3> QED  BY <1>4, <3>1, <3>2
    <2>2. ASSUME NEW a, Answer(a, Touch) \/ Answer(a, call)
          PROVE  MakeInv'
        BY <1>1, <2>2, OtherMake
    <2>3. ASSUME NEW mode, Resolve("open", call.target, mode, Touch)
          PROVE  MakeInv'
        BY <1>1, <2>3, OtherMake
    <2>4. CASE Resolve("mkdir", Parent(call.target), "mkdir", Touch)
        BY <1>1, <2>4, OtherMake
    <2>5. CASE Resolve("describe", <<>>, "strict", d)
        BY <1>2, <2>5, OtherMake
    <2> QED  BY <2>1, <2>2, <2>3, <2>4, <2>5
<1> QED  BY <1>3, <1>4

LEMMA ListingMake ==
    ASSUME TypeOK, MakeInv, Grown(fs), Listed \/ Described \/ \E n \in Names : Describe(n)
    PROVE  MakeInv'
<1>1. call \in Calls /\ walk.at \in Seq(Names)
    BY DEF TypeOK, Walks
<1>2. CASE Listed
    BY <1>1, <1>2, OtherMake DEF Listed
<1>3. CASE Described
    <2> DEFINE shown == Reached(walk) /\ IsPrefix(call.root, walk.at)
               e == [name |-> call.child, shown |-> shown, at |-> IF shown THEN walk.at ELSE <<>>]
               c == [call EXCEPT !.told = @ \cup {e}]
    <2>1. e \in [name : Names, shown : BOOLEAN, at : Seq(Names)]
        <3>1. shown \in BOOLEAN
            BY DEF Reached
        <3> HIDE DEF shown
        <3> QED  BY <1>1, <3>1 DEF Calls
    <2>2. c \in Calls /\ c.roots = call.roots
        <3> HIDE DEF e
        <3> QED  BY <1>1, <2>1 DEF Calls
    <2>3. Resolve("describe", <<>>, "strict", c)
        BY <1>3, Zenon DEF Described
    <2> HIDE DEF c
    <2> QED  BY <2>2, <2>3, OtherMake
<1>4. ASSUME NEW n \in Names, Describe(n)
      PROVE  MakeInv'
    <2> DEFINE c == [call EXCEPT !.todo = call.todo \ {n}, !.child = n]
    <2>1. c \in Calls /\ c.roots = call.roots
        BY <1>1 DEF Calls
    <2>2. Resolve("described", Append(call.target, n), "lenient", c)
        BY <1>4 DEF Describe
    <2> HIDE DEF c
    <2> QED  BY <2>1, <2>2, OtherMake
<1> QED  BY <1>2, <1>3, <1>4

LEMMA MakeHolds == Spec => []MakeInv
<1>1. Init => MakeInv
    <2> SUFFICES ASSUME Init PROVE MakeInv
        OBVIOUS
    <2>1. call.pc = "idle" /\ call.roots = {} /\ walk.at = <<>>
        BY DEF Init, Walker
    <2>2. fs \in Tree /\ Grown(fs)
        BY TreesAssumption DEF Init, Tree
    <2> QED  BY <2>1, <2>2, RootIsDir DEF MakeInv
<1>2. TypeOK /\ GuardInv /\ VerdictInv /\ MakeInv /\ [Next]_vars => MakeInv'
    <2> SUFFICES ASSUME TypeOK, GuardInv, Grown(fs), MakeInv, [Next]_vars PROVE MakeInv'
        BY DEF VerdictInv
    <2>1. CASE UNCHANGED vars
        BY <2>1 DEF vars, MakeInv
    <2>2. CASE OthersChange
        BY <2>2, OthersMake
    <2>3. CASE Step
        BY <2>3, LookupMake, RootMake, GuardRootMake, ResolvedMake, PullMake, ToolMake, ListingMake DEF Step
    <2>4. ASSUME NEW tool \in Tools, NEW req \in Requests, NEW flag \in Flags(tool),
                 NEW roots \in GuardRoots(tool), Start(tool, req, flag, roots)
          PROVE  MakeInv'
        BY <2>4, StartMake
    <2> QED  BY <2>1, <2>2, <2>3, <2>4 DEF Next
<1> QED  BY <1>1, <1>2, PathsTypeOK, GuardHolds, VerdictHolds, PTL DEF Spec

\* Two beginnings of a place: one of them is the beginning of the other.
LEMMA PrefixesOfOne ==
    ASSUME NEW p \in Seq(Names), NEW q \in Seq(Names), NEW r \in Seq(Names), IsPrefix(p, q), IsPrefix(r, q)
    PROVE  IsPrefix(r, p) \/ IsPrefix(p, r)
<1>1. /\ Len(p) <= Len(q) /\ \A i \in 1..Len(p) : p[i] = q[i]
      /\ Len(r) <= Len(q) /\ \A i \in 1..Len(r) : r[i] = q[i]
      /\ Len(p) \in Nat /\ Len(r) \in Nat
    BY PrefixIff
<1>2. CASE Len(r) <= Len(p)
    <2>1. \A i \in 1..Len(r) : r[i] = p[i]
        BY <1>1, <1>2
    <2> QED  BY <1>2, <2>1, PrefixIff
<1>3. CASE ~(Len(r) <= Len(p))
    <2>1. Len(p) <= Len(r) /\ \A i \in 1..Len(p) : p[i] = r[i]
        BY <1>1, <1>3
    <2> QED  BY <2>1, PrefixIff
<1> QED  BY <1>2, <1>3

\* What a lookup makes is on the way to the target.
LEMMA LookupMakes ==
    ASSUME TypeOK, GuardInv, MakeInv, Grown(fs), Lookup, since # "link", NEW p \in Places, fs'[p] # fs[p]
    PROVE  \E r \in call.roots : (IsPrefix(r, p) /\ p # r) \/ (since # "nothing" /\ IsPrefix(p, r))
<1>1. /\ fs \in Tree /\ walk \in Walks /\ call \in Calls /\ ~Finished(walk) /\ call.pc # "idle"
    BY DEF TypeOK, Tree, Lookup
<1>2. Makes(fs, walk) /\ p = Append(walk.at, Head(walk.rest))
    <2>1. Makes(fs, walk)
        BY DEF Lookup
    <2>2. PICK q, k : q = Append(walk.at, Head(walk.rest)) /\ k = Made(walk)
        OBVIOUS
    <2>3. q \in Places /\ fs' = [fs EXCEPT ![q] = [kind |-> k, to |-> <<>>]]
        BY <2>1, <2>2, Zenon DEF Lookup, Makes
    <2>4. p = q
        BY <1>1, <2>3 DEF Tree
    <2> QED  BY <2>1, <2>2, <2>4
<1>3. Here(fs, p).kind = "none" /\ walk.mode \in {"mkdir", "create"}
    BY <1>2 DEF Makes
<1>4. call.pc \in {"mkdir", "open"} /\ walk.over = "no" /\ walk.rest # <<>>
    BY <1>1, <1>3 DEF MakeInv, Finished
<1>5. /\ call.target \in Seq(Names) /\ Parent(call.target) \in Seq(Names) /\ p \in Seq(Names)
      /\ Within(call.target, call.roots) /\ call.roots \subseteq Seq(Names)
    BY <1>1, <1>4, ParentType DEF GuardInv, Safe, Guarded, Calls
<1>6. IsPrefix(p, call.target)
    <2>1. CASE call.pc = "open"
        <3>1. Follows(walk, call.target)
            BY <1>4, <2>1 DEF GuardInv, Safe
        <3> QED  BY <1>1, <1>2, <1>4, <1>5, <3>1, FollowsOn
    <2>2. CASE call.pc = "mkdir"
        <3>1. Follows(walk, Parent(call.target))
            BY <1>4, <2>2 DEF MakeInv
        <3>2. IsPrefix(p, Parent(call.target))
            BY <1>1, <1>2, <1>4, <1>5, <3>1, FollowsOn
        <3> QED  BY <1>5, <3>2, PrefixOfParent
    <2> QED  BY <1>4, <2>1, <2>2
<1>7. PICK r \in call.roots : IsPrefix(r, call.target)
    BY <1>5 DEF Within
<1>8. r \in Seq(Names) /\ (IsPrefix(r, p) \/ IsPrefix(p, r))
    BY <1>5, <1>6, <1>7, PrefixesOfOne
<1>9. CASE IsPrefix(p, r)
    <2>1. Here(fs, r).kind = "none"
        BY <1>1, <1>3, <1>5, <1>8, <1>9, AboveIsThere
    <2>2. since # "nothing"
        BY <1>7, <2>1 DEF MakeInv
    <2> QED  BY <1>7, <1>9, <2>2
<1>10. CASE ~IsPrefix(p, r)
    <2>1. p # r
        BY <1>8, <1>10
    <2> QED  BY <1>7, <1>8, <1>10, <2>1
<1> QED  BY <1>9, <1>10

\* Whoever changes the tree is counted.
Counts(u) == u \in [calls : 0..MaxCalls, changes : 0..MaxChanges]
LEMMA CountsGrow ==
    ASSUME NEW u, Counts(u)
    PROVE  [u EXCEPT !.changes = @ + 1] # u
BY DEF Counts

\* However deep the directories are that a writing tool has to make, and whatever others add
\* or take away between two of them: what mkdir and open() make is below a root that the
\* guard resolved, or it is that root and what is above it, when others took it away; links
\* that others put there while it runs are excepted (write_file, notes_write).
THEOREM MadeWithin == Spec => MadeInside
<1>1. TypeOK /\ GuardInv /\ MakeInv /\ VerdictInv /\ [Next]_vars =>
          [used' = used /\ since # "link" =>
              \A p \in {q \in Places : fs'[q] # fs[q]} :
                 \E r \in call.roots : (IsPrefix(r, p) /\ p # r) \/ (since # "nothing" /\ IsPrefix(p, r))]_vars
    <2> SUFFICES ASSUME TypeOK, GuardInv, MakeInv, Grown(fs), [Next]_vars,
                        used' = used, since # "link", NEW p \in Places, fs'[p] # fs[p]
                 PROVE  \E r \in call.roots : (IsPrefix(r, p) /\ p # r) \/ (since # "nothing" /\ IsPrefix(p, r))
        BY DEF VerdictInv
    <2>1. Lookup
        <3>1. fs' # fs
            OBVIOUS
        <3>2. ASSUME NEW t, Others(t) PROVE FALSE
            <4>1. Counts(used) /\ used' = [used EXCEPT !.changes = @ + 1]
                BY <3>2 DEF Others, TypeOK, Counts
            <4> QED  BY <4>1, CountsGrow
        <3>3. ~Pull /\ ~OthersChange
            BY <3>1, <3>2, Zenon DEF Pull, OthersChange
        <3> QED  BY <3>1, <3>3, TreeChanges
    <2> QED  BY <2>1, LookupMakes
<1> QED  BY <1>1, PathsTypeOK, GuardHolds, MakeHolds, VerdictHolds, PTL DEF Spec, MadeInside
=============================================================================
