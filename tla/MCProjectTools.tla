-------------------------- MODULE MCProjectTools --------------------------
(* ProjectTools on a small instance: two files, one of them new, and two   *)
(* branches.                                                              *)
EXTENDS ProjectTools

CONSTANTS f1, f2, main, topic

MCFiles == {f1, f2}
MCTracked == {f1}
MCBranches == {main, topic}
=============================================================================
