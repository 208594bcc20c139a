--------------------------- MODULE MCKVPlacement ----------------------------
(* An instance of KVPlacement for TLC: blocks of one request, of one unit  *)
(* each, that nothing tells apart, and callers that nothing tells apart.   *)
EXTENDS KVPlacement

MCSize == [b \in Blocks |-> 1]

MCOwnerOf == [b \in Blocks |-> CHOOSE owner \in Owners : TRUE]

Interchangeable == Permutations(Callers) \cup Permutations(Blocks)
=============================================================================
