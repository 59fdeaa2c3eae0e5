--------------------------- MODULE MCPresentFence ---------------------------
(* Instances of PresentFence for TLC: the .cfg files give the constants.   *)
EXTENDS PresentFence, TLC

CONSTANTS t1, t2

ThreadSymmetry == Permutations(Thread)
=============================================================================
