---------------------------- MODULE MCPathGuard ----------------------------
(* PathGuard on a small instance: the project "p" (also the link "r") with *)
(* a file, a directory of one file and two places where there may be a     *)
(* link; beside it another directory, whose name begins with the same      *)
(* letter, with one file; and all of it may be taken away.                 *)
EXTENDS PathGuard

MCNames == {"r", "p", "po", "f", "g", "d", "l", "m"}
Dirs == {<<>>, <<"p">>, <<"po">>, <<"p", "d">>}
Files == {<<"p", "f">>, <<"po", "g">>, <<"p", "d", "g">>}
MCPlaces == Dirs \cup Files \cup {<<"r">>, <<"p", "l">>, <<"p", "d", "m">>, <<"p", "d", "f">>}

\* What links say.
Inside == <<"f">>
Up2 == <<"..", "po">>
ToGone == <<"..", "po", "f">>
Away == <<"/", "po", "g">>
ViaDir == <<"d", "m">>
Self == <<"l">>
MCTexts == {Inside, Up2, ToGone, Away, ViaDir, Self, <<"p">>, <<"po">>, <<"..", "l">>}

Link(text) == [kind |-> "link", to |-> text]
Plain(kind) == [kind |-> kind, to |-> <<>>]

\* r, p/l and p/d/m vary, and the file p/f may be too large.
Tree(r, l, m, f) ==
    [p \in MCPlaces |->
        CASE p = <<"r">> -> r [] p = <<"p", "l">> -> l [] p = <<"p", "d", "m">> -> m
          [] p = <<"p", "f">> -> Plain(f) [] p \in Dirs -> Plain("dir")
          [] p \in Files \ {<<"p", "f">>} -> Plain("file") [] OTHER -> Plain("none")]

MCTrees ==
    {Tree(Link(<<"p">>), l, m, f) :
        l \in {Link(t) : t \in {Inside, Up2, ToGone, Away, ViaDir, Self}} \cup {Plain("dir")},
        m \in {Link(<<"..", "l">>), Link(Away)}, f \in {"file"}}
    \cup {Tree(Link(<<"po">>), Link(ViaDir), Link(Away), "big"),
          Tree(Plain("none"), Plain("none"), Plain("none"), "file"),
          [p \in MCPlaces |-> Plain(IF p = <<>> THEN "dir" ELSE "none")]}

MCRequests == {<<>>, <<"f">>, <<"l">>, <<"d", "f">>, <<"l", "..", "f">>, <<"f", "g", "..">>,
               <<"..", "po", "g">>, <<"/", "r", "l">>, <<"/", "p", "l", "g">>}
MCRoot == <<"/", "r">>
MCLogRoots == {<< <<"/", "p", "l">>, <<"/", "p", "d">> >>, <<>>}
MCWriteDirs == {"d", "l"}
=============================================================================
