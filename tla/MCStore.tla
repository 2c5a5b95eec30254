------------------------------ MODULE MCStore ------------------------------
(* Contents and fault sets for model-checking Store. *)
EXTENDS Store, TLC

OneChunk == [c \in Contents |-> 1]
TwoChunks == [c \in Contents |-> 2]

Puts == {"put"}
PutsAndDeletes == {"put", "delete"}
NoFaults == {}
Closes == {"close"}
Crashes == {"crash"}
AllStops == {"close", "crash"}

Symmetry == Permutations(Ids) \cup Permutations(Contents) \cup Permutations(Collections)
=============================================================================
