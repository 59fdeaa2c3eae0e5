--------------------------- MODULE MCResourceAlloc ---------------------------
(* Instances of ResourceAlloc for TLC.                                     *)
EXTENDS ResourceAlloc, TLC

Symmetry == Permutations(Resource) \union Permutations(Alloc) \union Permutations(Thread)
=============================================================================
