------------------------------ MODULE MCSearch ------------------------------
(* Entries, texts and requests for model-checking Search. *)
EXTENDS Search

\* A name in three spellings, two of them the same to the index.
SpelledNames == {"lang", " Lang", "env"}
InLowerCase == [n \in SpelledNames |-> IF n = "env" THEN "env" ELSE "lang"]
SpelledValues == {"go", "go ", "py"}
WithoutSpace == [v \in SpelledValues |-> IF v = "py" THEN "py" ELSE "go"]

Lang(n, v) == [m \in {n} |-> v]

\* One text with one chunk, one with two and a term that occurs twice, one without
\* a term.
SomeTexts == [short |-> <<<<"w">>, <<"w">>>>,
              long |-> <<<<"w", "v", "w">>, <<"w">>, <<"v", "w">>>>,
              signs |-> <<<<>>, <<>>>>]

SomeEntries ==
  {[content |-> "short", coll |-> "l1", attributes |-> Lang(" Lang", "go")],
   [content |-> "long", coll |-> "l2", attributes |-> Lang("lang", "go ")],
   [content |-> "signs", coll |-> "l1", attributes |-> <<>>]}

\* Later chunks first, so that the order differs from that of the identifiers.
\* One part is never found for one of the terms: the index is approximate.
Probes == Terms \cup DOMAIN SomeTexts
SomeOrder ==
  [a \in Probes |-> Ranked(IF a = "v" THEN Parts \ {<<1, 1>>} ELSE Parts,
                           LAMBDA p, q : Precedes(q, p))]

OneBeneath == {<<3, 1>>}

\* A cycle of three, two edges side by side, a way round, a loop.
Edge(m, n, l) == [from |-> m, to |-> n, label |-> l]
SomeEdges == {Edge(1, 2, "a"), Edge(2, 3, "a"), Edge(3, 1, "a"),
              Edge(1, 2, "b"), Edge(1, 3, "b"), Edge(3, 3, "b")}

\* Nothing, or two ways of different lengths from 1 to 5. The identifiers of the
\* second database reach the bound: it is only deleted from.
TwoWays == {<<4, 1, 2>>, <<5, 1, 3>>, <<6, 3, 4>>, <<7, 4, 5>>, <<8, 2, 5>>}
SomeDatabases ==
  {{}, {[edge |-> t[1], from |-> t[2], to |-> t[3], label |-> "a"] : t \in TwoWays}}

Request(q, v, c, f, k, n, d) ==
  [query |-> q, embedded |-> v, coll |-> c, filters |-> f, topK |-> k, focus |-> n, depth |-> d]

SomeRequests ==
  {Request(q, v, None, <<>>, k, None, 0) : q \in {"w", "v"}, v \in BOOLEAN, k \in {1, 2}}
  \cup {Request("w", FALSE, c, Lang("lang", "go"), k, None, 0) : c \in {None, "l1"}, k \in {1, 2}}
  \cup {Request(None, FALSE, c, <<>>, 2, 1, d) : c \in {None, "l1"}, d \in {0, 1}}
  \cup {Request("w", v, None, f, 2, 2, 0) : v \in BOOLEAN, f \in {<<>>, Lang(" Lang", "go")}}
=============================================================================
