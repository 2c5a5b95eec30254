------------------------------- MODULE Lists -------------------------------
(* Lists as the indexes and queries make them: sorted, filtered, cut.       *)
EXTENDS Integers, Sequences, FiniteSets, FiniteSetsExt

\* S in the order of the pairs in R: what stands at place r has r - 1 before it.
Sorted(S, R) ==
  LET ahead == [p \in S |-> Cardinality({q \in S : <<q, p>> \in R})]
  IN [r \in 1 .. Cardinality(S) |-> CHOOSE p \in S : ahead[p] = r - 1]

Ranked(S, Before(_, _)) == Sorted(S, {pq \in S \X S : Before(pq[1], pq[2])})

\* The members of S in list, in its order.
Picked(list, S) ==
  LET at == Ranked({k \in DOMAIN list : list[k] \in S}, LAMBDA k, l : k < l)
  IN [k \in DOMAIN at |-> list[at[k]]]

\* The first k of list.
Cut(list, k) == SubSeq(list, 1, Min({k, Len(list)}))
=============================================================================
