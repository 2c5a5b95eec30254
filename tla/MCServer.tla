------------------------------ MODULE MCServer ------------------------------
(* Faults and kinds of requests for model-checking Server. *)
EXTENDS Server, TLC

UsersAndTokens == {"users", "tokens"}

Symmetry == Permutations(Handlers) \cup Permutations(UserIds) \cup Permutations(Names)
              \cup Permutations(SessionIds)
=============================================================================
