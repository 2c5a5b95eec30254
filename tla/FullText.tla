------------------------------ MODULE FullText ------------------------------
(***************************************************************************)
(* The BM25 index of src/internal/index/fulltext.go as operators on one    *)
(* record: the length of each document, the frequency of each term in it,  *)
(* and the number of documents. A document is a part of an entry: <<i, 0>> *)
(* is the whole text of entry i, <<i, n>> its n-th chunk.                  *)
(*                                                                         *)
(* Abstracted: a text is the sequence of terms Tokenize finds in it, and a *)
(* query is one term. With one term the inverse document frequency is a    *)
(* common factor, so that the order of two scores can be told in integers. *)
(* A definition marked "Variant" is a plausible mistake in the definition  *)
(* after it and is used nowhere.                                           *)
(***************************************************************************)
EXTENDS Lists

CONSTANTS
  Ids,        \* the identifiers uuid.New hands out to entries, in their order
  MaxChunks,  \* the largest number of chunks of an entry
  Terms

Parts == Ids \X (0 .. MaxChunks)

\* The order of the identifiers "i" and "i#n".
Precedes(p, q) == p[1] < q[1] \/ (p[1] = q[1] /\ p[2] < q[2])

NoText ==
  [dl |-> [p \in Parts |-> 0], tf |-> [w \in Terms |-> [p \in Parts |-> 0]], N |-> 0]

Count(text, w) == Cardinality({k \in DOMAIN text : text[k] = w})

\* Variant: a part that is not there is removed all the same.
RemoveAlways(f, p) ==
  [f EXCEPT !.dl[p] = 0, !.tf = [w \in Terms |-> [@[w] EXCEPT ![p] = 0]], !.N = @ - 1]

RemoveDocument(f, p) ==
  IF f.dl[p] = 0 THEN f
  ELSE [f EXCEPT !.dl[p] = 0,
                 !.tf = [w \in Terms |-> [@[w] EXCEPT ![p] = 0]],
                 !.N = @ - 1]

\* Variant: a term counts once, however often it occurs.
AddDocumentOnce(f, p, text) ==
  LET g == RemoveDocument(f, p)
  IN IF text = <<>> THEN g
     ELSE [g EXCEPT !.dl[p] = Len(text),
                    !.tf = [w \in Terms |-> [@[w] EXCEPT ![p] = IF Count(text, w) = 0 THEN 0 ELSE 1]],
                    !.N = @ + 1]

\* A text without a term is not indexed.
AddDocument(f, p, text) ==
  LET g == RemoveDocument(f, p)
  IN IF text = <<>> THEN g
     ELSE [g EXCEPT !.dl[p] = Len(text),
                    !.tf = [w \in Terms |-> [@[w] EXCEPT ![p] = Count(text, w)]],
                    !.N = @ + 1]

\* EncodeSnapshot: the documents that are there, the terms of each, the count.
EncodedText(f) ==
  [N |-> f.N,
   dl |-> {<<p, f.dl[p]>> : p \in {q \in Parts : f.dl[q] > 0}},
   terms |-> UNION {{<<w, p, f.tf[w][p]>> : p \in {q \in Parts : f.tf[w][q] > 0}} : w \in Terms}]

\* DecodeSnapshot: what was not written reads as 0.
LoadedText(file) ==
  LET Read(values) == IF values = {} THEN 0 ELSE CHOOSE n \in values : TRUE
  IN [dl |-> [p \in Parts |-> Read({t[2] : t \in {u \in file.dl : u[1] = p}})],
      tf |-> [w \in Terms |-> [p \in Parts |->
                Read({t[3] : t \in {u \in file.terms : u[1] = w /\ u[2] = p}})]],
      N |-> file.N]

-----------------------------------------------------------------------------
(* Ranking. *)

TotalLength(f) == MapThenSumSet(LAMBDA p : f.dl[p], Parts)

\* Ten times the denominator of Score times the total length: k1 is 1.2, b 0.75
\* and avgDL the total length divided by the number of documents.
Denominators(f, w) ==
  LET total == TotalLength(f)
  IN [p \in Parts |-> total * (10 * f.tf[w][p] + 3) + 9 * f.dl[p] * f.N]

\* Score(w, p) compared with Score(w, q), by cross-multiplication; den is
\* Denominators(f, w).
Above(f, w, den, p, q) ==
  LET sp == f.tf[w][p] * den[q]
      sq == f.tf[w][q] * den[p]
  IN sp > sq \/ (sp = sq /\ Precedes(p, q))

TextSearch(f, w, k) ==
  LET den == Denominators(f, w)
  IN Cut(Ranked({p \in Parts : f.tf[w][p] > 0}, LAMBDA p, q : Above(f, w, den, p, q)), k)
=============================================================================
