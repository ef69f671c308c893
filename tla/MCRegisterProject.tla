------------------------- MODULE MCRegisterProject -------------------------
(* RegisterProject on a small instance: two bundles of one name, the second *)
(* with a block the bridge rejects, and one of another name.                *)
EXTENDS RegisterProject, FiniteSets, TLC

CONSTANTS p1, p2, p3, b1, b2, b3, n1, n2

MCRuns == {p1, p2, p3}
MCBundles == {b1, b2, b3}
MCNames == {n1, n2}
MCNameOf == [b \in MCBundles |-> IF b = b3 THEN n2 ELSE n1]
MCRejected == {b2}

\* Bound: of the three runs, at most two overlap.
AtMostTwoAtOnce == Cardinality({p \in Runs : run[p].pc \notin Over}) <= 2

MCSymmetry == Permutations(MCRuns)
=============================================================================
