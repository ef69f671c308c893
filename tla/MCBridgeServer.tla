--------------------------- MODULE MCBridgeServer ---------------------------
(* Instances of BridgeServer for TLC.                                      *)
EXTENDS BridgeServer, TLC

CONSTANTS r1, r2, r3

MCRequests == {r1, r2, r3}
Symmetric == Permutations(MCRequests)

=============================================================================
