------------------------------ MODULE MCEngine ------------------------------
(* Requests and faults for model-checking Engine. *)
EXTENDS Engine, TLC

SinglePuts == {<<[key |-> k, val |-> v]>> : k \in Keys, v \in Values}
SingleDeletes == {<<[key |-> k, val |-> Tomb]>> : k \in Keys}

\* The batches the graph store issues write several distinct keys at once.
PairPuts ==
  {<<[key |-> k, val |-> v], [key |-> l, val |-> v]>> :
     k \in Keys, l \in Keys, v \in Values}
ShortPuts == SinglePuts \cup PairPuts
\* DeleteBatch of two pairs, or of one.
ShortDeletes ==
  SingleDeletes \cup
  {<<[key |-> k, val |-> Tomb], [key |-> l, val |-> Tomb]>> :
     k \in Keys, l \in Keys}

NoFaults == {}
TableFaults == {"create", "fill", "merge", "remove"}

Symmetry == Permutations(Keys) \cup Permutations(Values)
=============================================================================
