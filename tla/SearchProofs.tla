---------------------------- MODULE SearchProofs ----------------------------
(***************************************************************************)
(* Search's inductive invariant: the full-text, attribute and adjacency    *)
(* indexes are what their operations would build from the stored entries   *)
(* and edges, and the properties of Search that follow from it at once.    *)
(***************************************************************************)
EXTENDS Search, ListTheorems

-----------------------------------------------------------------------------
(* The full-text index. *)

\* The values of the full-text index.
TextIndexes == [dl : [Parts -> Nat], tf : [Terms -> [Parts -> Nat]], N : Int]

\* The index of the texts T[p], where parts without a term have none.
IndexOf(T) ==
  [dl |-> [p \in Parts |-> Len(T[p])],
   tf |-> [w \in Terms |-> [p \in Parts |-> Count(T[p], w)]],
   N |-> Cardinality({p \in Parts : T[p] # <<>>})]

\* The set of parts is finite.
LEMMA PartsFinite == IsFiniteSet(Parts) /\ IsFiniteSet(Ids)
<1>1. IsFiniteSet(Ids)
  BY SearchAssumption, FS_Subset
<1>2. IsFiniteSet(0 .. MaxChunks)
  BY SearchAssumption, FS_Interval
<1> QED BY <1>1, <1>2, FS_Product DEF Parts

\* A term occurs in a text a number of times.
LEMMA CountType ==
  ASSUME NEW text \in Seq(Terms), NEW w
  PROVE  Count(text, w) \in Nat /\ Count(<<>>, w) = 0
<1>1. IsFiniteSet(DOMAIN text)
  <2>1. Len(text) \in Nat /\ DOMAIN text = 1 .. Len(text)
    OBVIOUS
  <2> QED BY <2>1, FS_Interval
<1>2. IsFiniteSet({k \in DOMAIN text : text[k] = w})
  BY <1>1, FS_Subset
<1>3. {k \in DOMAIN <<>> : <<>>[k] = w} = {}
  OBVIOUS
<1> QED BY <1>2, <1>3, FS_CardinalityType, FS_EmptySet DEF Count

\* An index of texts has the type of an index.
LEMMA IndexType ==
  ASSUME NEW T \in [Parts -> Seq(Terms)]
  PROVE  IndexOf(T) \in TextIndexes /\ IndexOf(T).N \in Nat
<1>1. IsFiniteSet({p \in Parts : T[p] # <<>>})
  BY PartsFinite, FS_Subset
<1>2. Cardinality({p \in Parts : T[p] # <<>>}) \in Nat
  BY <1>1, FS_CardinalityType
<1>3. \A p \in Parts : Len(T[p]) \in Nat /\ \A w \in Terms : Count(T[p], w) \in Nat
  BY CountType
<1> QED BY <1>2, <1>3 DEF IndexOf, TextIndexes

\* RemoveDocument takes one text out.
LEMMA RemoveIndexed ==
  ASSUME NEW T \in [Parts -> Seq(Terms)], NEW p \in Parts
  PROVE  RemoveDocument(IndexOf(T), p) = IndexOf([T EXCEPT ![p] = <<>>])
<1> DEFINE U == [T EXCEPT ![p] = <<>>]
           f == IndexOf(T)
<1>1. CASE T[p] = <<>>
  <2>1. U = T
    BY <1>1
  <2>2. f.dl[p] = 0
    BY <1>1 DEF IndexOf
  <2> QED BY <2>1, <2>2 DEF RemoveDocument
<1>2. CASE T[p] # <<>>
  <2>1. f.dl[p] # 0
    BY <1>2 DEF IndexOf
  <2>2. RemoveDocument(f, p) = [f EXCEPT !.dl[p] = 0,
                                  !.tf = [w \in Terms |-> [f.tf[w] EXCEPT ![p] = 0]],
                                  !.N = f.N - 1]
    BY <2>1 DEF RemoveDocument
  <2>3. [f.dl EXCEPT ![p] = 0] = IndexOf(U).dl
    BY DEF IndexOf
  <2>4. [w \in Terms |-> [f.tf[w] EXCEPT ![p] = 0]] = IndexOf(U).tf
    <3>1. ASSUME NEW w \in Terms PROVE [f.tf[w] EXCEPT ![p] = 0] = IndexOf(U).tf[w]
      <4>1. Count(<<>>, w) = 0
        BY CountType
      <4> QED BY <4>1 DEF IndexOf
    <3>2. IndexOf(U).tf = [w \in Terms |-> IndexOf(U).tf[w]]
      BY DEF IndexOf
    <3> HIDE DEF U, f
    <3> QED BY <3>1, <3>2
  <2>5. f.N - 1 = IndexOf(U).N
    <3> DEFINE P == {q \in Parts : T[q] # <<>>}
    <3>1. {q \in Parts : U[q] # <<>>} = P \ {p}
      OBVIOUS
    <3>2. IsFiniteSet(P) /\ p \in P
      BY PartsFinite, FS_Subset, <1>2
    <3>3. Cardinality(P \ {p}) = Cardinality(P) - 1
      BY <3>2, FS_RemoveElement
    <3> QED BY <3>1, <3>3 DEF IndexOf
  <2>6. IndexOf(U) = [dl |-> IndexOf(U).dl, tf |-> IndexOf(U).tf, N |-> IndexOf(U).N]
    BY DEF IndexOf
  <2>7. f = [dl |-> f.dl, tf |-> f.tf, N |-> f.N]
    BY DEF IndexOf
  <2> HIDE DEF U, f
  <2> QED BY <2>2, <2>3, <2>4, <2>5, <2>6, <2>7 DEF U, f
<1> QED BY <1>1, <1>2

\* AddDocument puts a text in the place of the one that was there.
LEMMA AddIndexed ==
  ASSUME NEW T \in [Parts -> Seq(Terms)], NEW p \in Parts, NEW text \in Seq(Terms)
  PROVE  AddDocument(IndexOf(T), p, text) = IndexOf([T EXCEPT ![p] = text])
<1> DEFINE U == [T EXCEPT ![p] = <<>>]
           W == [T EXCEPT ![p] = text]
           g == IndexOf(U)
<1>1. RemoveDocument(IndexOf(T), p) = g
  BY RemoveIndexed
<1>2. CASE text = <<>>
  BY <1>1, <1>2 DEF AddDocument
<1>3. CASE text # <<>>
  <2>1. AddDocument(IndexOf(T), p, text) =
          [g EXCEPT !.dl[p] = Len(text),
                    !.tf = [w \in Terms |-> [g.tf[w] EXCEPT ![p] = Count(text, w)]],
                    !.N = g.N + 1]
    BY <1>1, <1>3 DEF AddDocument
  <2>2. [g.dl EXCEPT ![p] = Len(text)] = IndexOf(W).dl
    BY DEF IndexOf
  <2>3. [w \in Terms |-> [g.tf[w] EXCEPT ![p] = Count(text, w)]] = IndexOf(W).tf
    <3>1. ASSUME NEW w \in Terms
          PROVE  [g.tf[w] EXCEPT ![p] = Count(text, w)] = IndexOf(W).tf[w]
      BY DEF IndexOf
    <3>2. IndexOf(W).tf = [w \in Terms |-> IndexOf(W).tf[w]]
      BY DEF IndexOf
    <3> HIDE DEF W, g
    <3> QED BY <3>1, <3>2
  <2>4. g.N + 1 = IndexOf(W).N
    <3> DEFINE P == {q \in Parts : U[q] # <<>>}
    <3>1. {q \in Parts : W[q] # <<>>} = P \cup {p}
      BY <1>3
    <3>2. IsFiniteSet(P) /\ p \notin P
      BY PartsFinite, FS_Subset
    <3>3. Cardinality(P \cup {p}) = Cardinality(P) + 1
      BY <3>2, FS_AddElement
    <3> QED BY <3>1, <3>3 DEF IndexOf
  <2>5. IndexOf(W) = [dl |-> IndexOf(W).dl, tf |-> IndexOf(W).tf, N |-> IndexOf(W).N]
    BY DEF IndexOf
  <2>6. g = [dl |-> g.dl, tf |-> g.tf, N |-> g.N]
    BY DEF IndexOf
  <2> HIDE DEF W, g
  <2> QED BY <2>1, <2>2, <2>3, <2>4, <2>5, <2>6 DEF W
<1> QED BY <1>2, <1>3

\* AddDocument and RemoveDocument keep the type.
LEMMA DocumentTypes ==
  ASSUME NEW f \in TextIndexes, NEW p, NEW text \in Seq(Terms)
  PROVE  RemoveDocument(f, p) \in TextIndexes /\ AddDocument(f, p, text) \in TextIndexes
<1>1. ASSUME NEW g \in TextIndexes, NEW d \in Nat, NEW N \in Int, NEW count \in [Terms -> Nat]
      PROVE  [g EXCEPT !.dl[p] = d, !.tf = [w \in Terms |-> [g.tf[w] EXCEPT ![p] = count[w]]], !.N = N]
               \in TextIndexes
  <2>1. [g.dl EXCEPT ![p] = d] \in [Parts -> Nat]
    BY DEF TextIndexes
  <2>2. [w \in Terms |-> [g.tf[w] EXCEPT ![p] = count[w]]] \in [Terms -> [Parts -> Nat]]
    BY DEF TextIndexes
  <2> QED BY <2>1, <2>2 DEF TextIndexes
<1>2. RemoveDocument(f, p) \in TextIndexes
  <2>1. f.N - 1 \in Int
    BY DEF TextIndexes
  <2>2. [f EXCEPT !.dl[p] = 0, !.tf = [w \in Terms |-> [f.tf[w] EXCEPT ![p] = 0]], !.N = f.N - 1]
          \in TextIndexes
    <3>1. [w \in Terms |-> 0] \in [Terms -> Nat]
      OBVIOUS
    <3> QED BY <2>1, <1>1, <3>1
  <2> QED BY <2>2 DEF RemoveDocument
<1>3. Len(text) \in Nat /\ \A w \in Terms : Count(text, w) \in Nat
  BY CountType
<1>4. AddDocument(f, p, text) \in TextIndexes
  <2> DEFINE g == RemoveDocument(f, p)
  <2>1. g \in TextIndexes /\ g.N + 1 \in Int
    BY <1>2 DEF TextIndexes
  <2> HIDE DEF g
  <2>2. [w \in Terms |-> Count(text, w)] \in [Terms -> Nat]
    BY <1>3
  <2>3. [g EXCEPT !.dl[p] = Len(text), !.tf = [w \in Terms |-> [g.tf[w] EXCEPT ![p] = Count(text, w)]],
                  !.N = g.N + 1] \in TextIndexes
    BY <2>1, <2>2, <1>1, <1>3
  <2> QED BY <2>1, <2>3 DEF AddDocument, g
<1> QED BY <1>2, <1>4

\* The indexes between the texts of c, the first f, the last what Indexed makes of it.
IndexSteps(f, i, c) ==
  {it \in [0 .. Len(Texts[c]) -> TextIndexes] :
     /\ it[0] = f
     /\ \A k \in 1 .. Len(Texts[c]) : it[k] = AddDocument(it[k - 1], <<i, k - 1>>, Texts[c][k])
     /\ Indexed(f, i, c) = it[Len(Texts[c])]}

\* Indexed adds one text after the other.
LEMMA IndexedSteps ==
  ASSUME NEW f \in TextIndexes, NEW i, NEW c, Texts[c] \in Seq(Seq(Terms))
  PROVE  IndexSteps(f, i, c) # {}
<1> DEFINE n == Len(Texts[c])
           D == DOMAIN [k \in DOMAIN Texts[c] |-> k]
           sq == [k \in DOMAIN Texts[c] |-> k]
           Solves(g) == g = [s \in SUBSET D |->
                               IF s = {} THEN f
                               ELSE AddDocument(g[s \ {Max(s)}], <<i, sq[Max(s)] - 1>>, Texts[c][sq[Max(s)]])]
           h == CHOOSE g : Solves(g)
           step == [k \in 1 .. n |-> [g \in TextIndexes |-> AddDocument(g, <<i, k - 1>>, Texts[c][k])]]
<1>1. Indexed(f, i, c) = h[D]
  BY DEF Indexed, FoldLeftDomain, FoldLeft, MapThenFoldSet
<1>2. n \in Nat /\ D = 1 .. n /\ \A k \in 1 .. n : sq[k] = k /\ Texts[c][k] \in Seq(Terms)
  OBVIOUS
<1> HIDE DEF D, sq, n
<1>3. step \in [1 .. n -> [TextIndexes -> TextIndexes]]
  BY <1>2, DocumentTypes
<1>4. ASSUME NEW k \in 1 .. n, NEW g \in TextIndexes
      PROVE  step[k][g] = AddDocument(g, <<i, sq[k] - 1>>, Texts[c][sq[k]])
  BY <1>2
<1> HIDE DEF step
<1>5. PICK g \in [SUBSET (1 .. n) -> TextIndexes] : Folds(g, n, f, step)
  BY <1>2, <1>3, FoldExists
<1>6. Solves(g)
  <2>1. ASSUME NEW s \in SUBSET (1 .. n)
        PROVE  g[s] = IF s = {} THEN f ELSE AddDocument(g[s \ {Max(s)}], <<i, sq[Max(s)] - 1>>, Texts[c][sq[Max(s)]])
    <3>1. CASE s = {}
      BY <1>5, <3>1 DEF Folds
    <3>2. CASE s # {}
      <4>1. Max(s) \in 1 .. n
        BY <1>2, <3>2, Greatest
      <4>2. g[s] = step[Max(s)][g[s \ {Max(s)}]] /\ g[s \ {Max(s)}] \in TextIndexes
        BY <1>5, <3>2 DEF Folds
      <4> QED BY <4>1, <4>2, <1>4, <3>2
    <3> QED BY <3>1, <3>2
  <2> QED BY <2>1, <1>2
<1>7. Solves(h)
  BY <1>6
<1> HIDE DEF h
<1>8. h[{}] = f
  BY <1>7
<1>9. ASSUME NEW k \in 1 .. n, h[1 .. k - 1] \in TextIndexes
      PROVE  h[1 .. k] = step[k][h[1 .. k - 1]]
  <2>1. 1 .. k \in SUBSET D /\ 1 .. k # {} /\ Max(1 .. k) = k /\ (1 .. k) \ {k} = 1 .. k - 1
    BY <1>2, LastOf
  <2>2. h[1 .. k] = AddDocument(h[(1 .. k) \ {Max(1 .. k)}], <<i, sq[Max(1 .. k)] - 1>>, Texts[c][sq[Max(1 .. k)]])
    BY <1>7, <2>1
  <2> QED BY <2>1, <2>2, <1>4, <1>9
<1> HIDE DEF Solves
<1>10. PICK it \in [0 .. n -> TextIndexes] : Steps(it, n, f, step) /\ it[n] = h[1 .. n]
  <2>1. Follows(h, TextIndexes, n, step) /\ n \in Nat
    BY <1>2, <1>9 DEF Follows
  <2>2. Stepped(TextIndexes, n, f, step, h)
    BY <2>1, <1>3, <1>8, FoldSteps
  <2> QED BY <2>2 DEF Stepped
<1>11. ASSUME NEW k \in 1 .. n PROVE it[k] = AddDocument(it[k - 1], <<i, k - 1>>, Texts[c][k])
  <2>1. k - 1 \in 0 .. n /\ sq[k] = k
    BY <1>2
  <2>2. it[k] = step[k][it[k - 1]] /\ it[k - 1] \in TextIndexes
    BY <2>1, <1>10, Zenon DEF Steps
  <2>3. step[k][it[k - 1]] = AddDocument(it[k - 1], <<i, sq[k] - 1>>, Texts[c][sq[k]])
    BY <2>2, <1>4, Zenon
  <2> QED BY <2>1, <2>2, <2>3, Zenon
<1>12. it[0] = f /\ Indexed(f, i, c) = it[n]
  BY <1>1, <1>2, <1>10 DEF Steps
<1>13. it \in IndexSteps(f, i, c)
  BY <1>11, <1>12 DEF n, IndexSteps
<1> QED BY <1>13

\* What Indexed makes of an index: the texts of c are those of entry i.
LEMMA IndexedTexts ==
  ASSUME NEW T \in [Parts -> Seq(Terms)], NEW i \in Ids, NEW c,
         Texts[c] \in Seq(Seq(Terms)), Len(Texts[c]) <= MaxChunks + 1
  PROVE  Indexed(IndexOf(T), i, c) =
           IndexOf([p \in Parts |-> IF p[1] = i /\ p[2] < Len(Texts[c]) THEN Texts[c][p[2] + 1] ELSE T[p]])
<1> DEFINE n == Len(Texts[c])
           U(k) == [p \in Parts |-> IF p[1] = i /\ p[2] < k THEN Texts[c][p[2] + 1] ELSE T[p]]
<1>1. IndexOf(T) \in TextIndexes
  BY IndexType
<1>2. PICK it \in [0 .. n -> TextIndexes] :
        /\ it[0] = IndexOf(T)
        /\ \A k \in 1 .. n : it[k] = AddDocument(it[k - 1], <<i, k - 1>>, Texts[c][k])
        /\ Indexed(IndexOf(T), i, c) = it[n]
  <2>1. PICK it \in IndexSteps(IndexOf(T), i, c) : TRUE
    BY <1>1, IndexedSteps
  <2> QED BY <2>1 DEF IndexSteps
<1>3. n \in Nat /\ \A k \in 1 .. n : Texts[c][k] \in Seq(Terms)
  OBVIOUS
<1>4. \A p \in Parts : p[1] \in Ids /\ p[2] \in Nat /\ p = <<p[1], p[2]>>
  BY SearchAssumption DEF Parts
<1> DEFINE K == {k \in 0 .. n : it[k] = IndexOf(U(k))}
<1>5. 0 \in K
  <2>1. U(0) = T
    BY <1>4
  <2> HIDE DEF U
  <2> QED BY <2>1, <1>2, <1>3
<1>6. ASSUME NEW k \in 1 .. n, k - 1 \in K PROVE k \in K
  <2>1. k - 1 \in 0 .. MaxChunks /\ <<i, k - 1>> \in Parts
    BY SearchAssumption, <1>3 DEF Parts
  <2>2. U(k - 1) \in [Parts -> Seq(Terms)]
    <3>1. \A p \in Parts : p[2] < k - 1 => p[2] + 1 \in 1 .. n
      BY <1>3, <1>4
    <3> QED BY <3>1, <1>3
  <2>3. U(k) = [U(k - 1) EXCEPT ![<<i, k - 1>>] = Texts[c][k]]
    <3>1. ASSUME NEW p \in Parts
          PROVE  U(k)[p] = IF p = <<i, k - 1>> THEN Texts[c][k] ELSE U(k - 1)[p]
      <4>1. p[1] \in Ids /\ p[2] \in Nat /\ p = <<p[1], p[2]>> /\ k \in Nat
        BY <1>3, <1>4
      <4>2. CASE p[1] = i /\ p[2] = k - 1
        <5>1. p = <<i, k - 1>> /\ p[2] < k /\ p[2] + 1 = k
          BY <4>1, <4>2
        <5> QED BY <4>2, <5>1
      <4>3. CASE ~(p[1] = i /\ p[2] = k - 1)
        <5>1. p # <<i, k - 1>> /\ (p[1] = i => (p[2] < k <=> p[2] < k - 1))
          BY <4>1, <4>3
        <5> QED BY <5>1
      <4> QED BY <4>2, <4>3
    <3> HIDE DEF U
    <3>2. DOMAIN U(k) = Parts /\ U(k) = [p \in Parts |-> U(k)[p]]
      BY DEF U
    <3> QED BY <3>1, <3>2, <2>2
  <2> HIDE DEF U
  <2>4. it[k - 1] = IndexOf(U(k - 1)) /\ k \in 0 .. n
    BY <1>6
  <2> HIDE DEF K
  <2>5. AddDocument(IndexOf(U(k - 1)), <<i, k - 1>>, Texts[c][k])
          = IndexOf([U(k - 1) EXCEPT ![<<i, k - 1>>] = Texts[c][k]])
    BY <2>1, <2>2, <1>3, AddIndexed
  <2>6. it[k] = IndexOf(U(k))
    BY <2>3, <2>4, <2>5, <1>2
  <2> QED BY <2>4, <2>6 DEF K
<1> HIDE DEF K, U, n
<1>7. 0 .. n \subseteq K
  BY <1>3, <1>5, <1>6, UpTo
<1>8. it[n] = IndexOf(U(n))
  BY <1>3, <1>7 DEF K
<1> QED BY <1>2, <1>8 DEF U, n

\* Unindexed removes one text after the other.
LEMMA UnindexedSteps ==
  ASSUME NEW f \in TextIndexes, NEW i
  PROVE  \E it \in [0 .. MaxChunks + 1 -> TextIndexes] :
           /\ it[0] = f
           /\ \A k \in 1 .. MaxChunks + 1 : it[k] = RemoveDocument(it[k - 1], <<i, k - 1>>)
           /\ Unindexed(f, i) = it[MaxChunks + 1]
<1> DEFINE n == MaxChunks + 1
           D == DOMAIN [k \in 1 .. MaxChunks + 1 |-> k - 1]
           sq == [k \in 1 .. MaxChunks + 1 |-> k - 1]
           Solves(g) == g = [s \in SUBSET D |->
                               IF s = {} THEN f
                               ELSE RemoveDocument(g[s \ {Max(s)}], <<i, sq[Max(s)]>>)]
           h == CHOOSE g : Solves(g)
           step == [k \in 1 .. n |-> [g \in TextIndexes |-> RemoveDocument(g, <<i, k - 1>>)]]
<1>1. Unindexed(f, i) = h[D]
  BY DEF Unindexed, FoldLeft, MapThenFoldSet
<1>2. n \in Nat /\ D = 1 .. n /\ \A k \in 1 .. n : sq[k] = k - 1
  BY SearchAssumption
<1> HIDE DEF D, sq, n
<1>3. step \in [1 .. n -> [TextIndexes -> TextIndexes]]
  <2>1. <<>> \in Seq(Terms)
    OBVIOUS
  <2> QED BY <2>1, <1>2, DocumentTypes
<1>4. ASSUME NEW k \in 1 .. n, NEW g \in TextIndexes
      PROVE  step[k][g] = RemoveDocument(g, <<i, sq[k]>>)
  BY <1>2
<1> HIDE DEF step
<1>5. PICK g \in [SUBSET (1 .. n) -> TextIndexes] : Folds(g, n, f, step)
  BY <1>2, <1>3, FoldExists
<1>6. Solves(g)
  <2>1. ASSUME NEW s \in SUBSET (1 .. n)
        PROVE  g[s] = IF s = {} THEN f ELSE RemoveDocument(g[s \ {Max(s)}], <<i, sq[Max(s)]>>)
    <3>1. CASE s = {}
      BY <1>5, <3>1 DEF Folds
    <3>2. CASE s # {}
      <4>1. Max(s) \in 1 .. n
        BY <1>2, <3>2, Greatest
      <4>2. g[s] = step[Max(s)][g[s \ {Max(s)}]] /\ g[s \ {Max(s)}] \in TextIndexes
        BY <1>5, <3>2 DEF Folds
      <4> QED BY <4>1, <4>2, <1>4, <3>2
    <3> QED BY <3>1, <3>2
  <2> QED BY <2>1, <1>2
<1>7. Solves(h)
  BY <1>6
<1> HIDE DEF h
<1>8. h[{}] = f
  BY <1>7
<1>9. ASSUME NEW k \in 1 .. n, h[1 .. k - 1] \in TextIndexes
      PROVE  h[1 .. k] = step[k][h[1 .. k - 1]]
  <2>1. 1 .. k \in SUBSET D /\ 1 .. k # {} /\ Max(1 .. k) = k /\ (1 .. k) \ {k} = 1 .. k - 1
    BY <1>2, LastOf
  <2>2. h[1 .. k] = RemoveDocument(h[(1 .. k) \ {Max(1 .. k)}], <<i, sq[Max(1 .. k)]>>)
    BY <1>7, <2>1
  <2> QED BY <2>1, <2>2, <1>4, <1>9
<1> HIDE DEF Solves
<1>10. PICK it \in [0 .. n -> TextIndexes] : Steps(it, n, f, step) /\ it[n] = h[1 .. n]
  <2>1. Follows(h, TextIndexes, n, step) /\ n \in Nat
    BY <1>2, <1>9 DEF Follows
  <2>2. Stepped(TextIndexes, n, f, step, h)
    BY <2>1, <1>3, <1>8, FoldSteps
  <2> QED BY <2>2 DEF Stepped
<1>11. ASSUME NEW k \in 1 .. n PROVE it[k] = RemoveDocument(it[k - 1], <<i, k - 1>>)
  <2>1. it[k] = step[k][it[k - 1]] /\ it[k - 1] \in TextIndexes
    BY <1>2, <1>10 DEF Steps
  <2> QED BY <2>1, <1>2, <1>4
<1>12. it[0] = f /\ Unindexed(f, i) = it[n]
  BY <1>1, <1>2, <1>10 DEF Steps
<1> QED BY <1>11, <1>12 DEF n

\* What Unindexed leaves of an index: the entry has no text any more.
LEMMA UnindexedTexts ==
  ASSUME NEW T \in [Parts -> Seq(Terms)], NEW i \in Ids
  PROVE  Unindexed(IndexOf(T), i) = IndexOf([p \in Parts |-> IF p[1] = i THEN <<>> ELSE T[p]])
<1> DEFINE n == MaxChunks + 1
           U(k) == [p \in Parts |-> IF p[1] = i /\ p[2] < k THEN <<>> ELSE T[p]]
<1>1. IndexOf(T) \in TextIndexes
  BY IndexType
<1>2. PICK it \in [0 .. n -> TextIndexes] :
        /\ it[0] = IndexOf(T)
        /\ \A k \in 1 .. n : it[k] = RemoveDocument(it[k - 1], <<i, k - 1>>)
        /\ Unindexed(IndexOf(T), i) = it[n]
  BY <1>1, UnindexedSteps
<1>3. n \in Nat
  BY SearchAssumption
<1>4. \A p \in Parts : p[1] \in Ids /\ p[2] \in Nat /\ p[2] < n /\ p = <<p[1], p[2]>>
  BY SearchAssumption DEF Parts
<1> DEFINE K == {k \in 0 .. n : it[k] = IndexOf(U(k))}
<1>5. 0 \in K
  <2>1. U(0) = T
    BY <1>4
  <2> HIDE DEF U
  <2> QED BY <2>1, <1>2, <1>3
<1>6. ASSUME NEW k \in 1 .. n, k - 1 \in K PROVE k \in K
  <2>1. k - 1 \in 0 .. MaxChunks /\ <<i, k - 1>> \in Parts
    BY SearchAssumption, <1>3 DEF Parts
  <2>2. U(k - 1) \in [Parts -> Seq(Terms)]
    OBVIOUS
  <2>3. U(k) = [U(k - 1) EXCEPT ![<<i, k - 1>>] = <<>>]
    <3>1. ASSUME NEW p \in Parts
          PROVE  U(k)[p] = IF p = <<i, k - 1>> THEN <<>> ELSE U(k - 1)[p]
      <4>1. p[1] \in Ids /\ p[2] \in Nat /\ p = <<p[1], p[2]>> /\ k \in Nat
        BY <1>3, <1>4
      <4>2. CASE p[1] = i /\ p[2] = k - 1
        <5>1. p = <<i, k - 1>> /\ p[2] < k
          BY <4>1, <4>2
        <5> QED BY <4>2, <5>1
      <4>3. CASE ~(p[1] = i /\ p[2] = k - 1)
        <5>1. p # <<i, k - 1>> /\ (p[1] = i => (p[2] < k <=> p[2] < k - 1))
          BY <4>1, <4>3
        <5> QED BY <5>1
      <4> QED BY <4>2, <4>3
    <3> HIDE DEF U
    <3>2. DOMAIN U(k) = Parts /\ U(k) = [p \in Parts |-> U(k)[p]]
      BY DEF U
    <3> QED BY <3>1, <3>2, <2>2
  <2> HIDE DEF U
  <2>4. it[k - 1] = IndexOf(U(k - 1)) /\ k \in 0 .. n
    BY <1>6
  <2> HIDE DEF K
  <2>5. RemoveDocument(IndexOf(U(k - 1)), <<i, k - 1>>) = IndexOf([U(k - 1) EXCEPT ![<<i, k - 1>>] = <<>>])
    BY <2>1, <2>2, RemoveIndexed
  <2>6. it[k] = IndexOf(U(k))
    BY <2>3, <2>4, <2>5, <1>2
  <2> QED BY <2>4, <2>6 DEF K
<1> HIDE DEF K, U
<1>7. 0 .. n \subseteq K
  BY <1>3, <1>5, <1>6, UpTo
<1>8. it[n] = IndexOf(U(n))
  BY <1>3, <1>7 DEF K
<1>9. U(n) = [p \in Parts |-> IF p[1] = i THEN <<>> ELSE T[p]]
  BY <1>4 DEF U
<1> QED BY <1>2, <1>8, <1>9

\* A snapshot of the full-text index reads as what was saved.
LEMMA LoadedIndex ==
  ASSUME NEW T \in [Parts -> Seq(Terms)]
  PROVE  LoadedText(EncodedText(IndexOf(T))) = IndexOf(T)
<1> DEFINE f == IndexOf(T)
           file == EncodedText(f)
           Read(values) == IF values = {} THEN 0 ELSE CHOOSE n \in values : TRUE
<1>1. \A n : Read({n}) = n
  OBVIOUS
<1>2. f \in TextIndexes
  BY IndexType
<1> HIDE DEF f
<1>3. file = [N |-> f.N,
              dl |-> {<<p, f.dl[p]>> : p \in {q \in Parts : f.dl[q] > 0}},
              terms |-> UNION {{<<w, p, f.tf[w][p]>> : p \in {q \in Parts : f.tf[w][q] > 0}} : w \in Terms}]
  BY DEF EncodedText
<1> HIDE DEF file
<1>4. ASSUME NEW p \in Parts
      PROVE  Read({t[2] : t \in {u \in file.dl : u[1] = p}}) = f.dl[p]
  <2>1. f.dl[p] \in Nat
    BY <1>2 DEF TextIndexes
  <2>2. CASE f.dl[p] = 0
    <3>1. {t[2] : t \in {u \in file.dl : u[1] = p}} = {}
      BY <1>3, <2>2
    <3> QED BY <3>1, <2>2
  <2>3. CASE f.dl[p] > 0
    <3>1. {t[2] : t \in {u \in file.dl : u[1] = p}} = {f.dl[p]}
      <4>1. <<p, f.dl[p]>> \in file.dl
        BY <1>3, <2>3
      <4>2. ASSUME NEW u \in file.dl, u[1] = p PROVE u[2] = f.dl[p]
        BY <1>3, <4>2
      <4> QED BY <4>1, <4>2
    <3> HIDE DEF Read
    <3> QED BY <3>1, <1>1
  <2> HIDE DEF Read
  <2> QED BY <2>1, <2>2, <2>3
<1>5. ASSUME NEW w \in Terms, NEW p \in Parts
      PROVE  Read({t[3] : t \in {u \in file.terms : u[1] = w /\ u[2] = p}}) = f.tf[w][p]
  <2>1. f.tf[w][p] \in Nat
    BY <1>2 DEF TextIndexes
  <2>2. CASE f.tf[w][p] = 0
    <3>1. {t[3] : t \in {u \in file.terms : u[1] = w /\ u[2] = p}} = {}
      BY <1>3, <2>2
    <3> QED BY <3>1, <2>2
  <2>3. CASE f.tf[w][p] > 0
    <3>1. {t[3] : t \in {u \in file.terms : u[1] = w /\ u[2] = p}} = {f.tf[w][p]}
      <4>1. <<w, p, f.tf[w][p]>> \in file.terms
        BY <1>3, <2>3
      <4>2. ASSUME NEW u \in file.terms, u[1] = w, u[2] = p PROVE u[3] = f.tf[w][p]
        BY <1>3, <4>2
      <4> QED BY <4>1, <4>2
    <3> HIDE DEF Read
    <3> QED BY <3>1, <1>1
  <2> HIDE DEF Read
  <2> QED BY <2>1, <2>2, <2>3
<1>6. LoadedText(file) =
        [dl |-> [p \in Parts |-> Read({t[2] : t \in {u \in file.dl : u[1] = p}})],
         tf |-> [w \in Terms |-> [p \in Parts |->
                   Read({t[3] : t \in {u \in file.terms : u[1] = w /\ u[2] = p}})]],
         N |-> file.N]
  BY DEF LoadedText
<1> HIDE DEF Read
<1>7. [p \in Parts |-> Read({t[2] : t \in {u \in file.dl : u[1] = p}})] = f.dl
  BY <1>2, <1>4 DEF TextIndexes
<1>8. [w \in Terms |-> [p \in Parts |->
          Read({t[3] : t \in {u \in file.terms : u[1] = w /\ u[2] = p}})]] = f.tf
  <2>1. ASSUME NEW w \in Terms
        PROVE  [p \in Parts |-> Read({t[3] : t \in {u \in file.terms : u[1] = w /\ u[2] = p}})] = f.tf[w]
    BY <1>2, <1>5 DEF TextIndexes
  <2> QED BY <1>2, <2>1 DEF TextIndexes
<1>9. f = [dl |-> f.dl, tf |-> f.tf, N |-> f.N]
  BY <1>2 DEF TextIndexes
<1>10. file.N = f.N
  BY <1>3
<1> QED BY <1>6, <1>7, <1>8, <1>9, <1>10 DEF file, f

\* Indexed keeps the type.
LEMMA IndexedType ==
  ASSUME NEW f \in TextIndexes, NEW i, NEW c, Texts[c] \in Seq(Seq(Terms))
  PROVE  Indexed(f, i, c) \in TextIndexes
<1>1. Len(Texts[c]) \in 0 .. Len(Texts[c])
  OBVIOUS
<1>2. PICK it \in IndexSteps(f, i, c) : TRUE
  BY IndexedSteps
<1> QED BY <1>1, <1>2 DEF IndexSteps

\* The texts of an entry, and how many there may be.
LEMMA EntryTexts ==
  ASSUME NEW e \in Entries
  PROVE  /\ Texts[e.content] \in Seq(Seq(Terms))
         /\ Len(Texts[e.content]) \in Nat /\ Len(Texts[e.content]) <= MaxChunks + 1
BY SearchAssumption

\* The texts of the entries in S, those of their parts.
TextsIn(S) ==
  [p \in Parts |-> IF p[1] \in S /\ p[2] < Len(Texts[docs[p[1]].content])
                     THEN Texts[docs[p[1]].content][p[2] + 1] ELSE <<>>]

\* The attributes of the entries in S.
AttributesIn(S) ==
  [n \in Names |-> [v \in Values |-> {i \in S : Has(docs[i].attributes, n, v)}]]

\* The values of the attribute index.
AttributeIndexes == [Names -> [Values -> SUBSET Ids]]

\* The empty index has no texts.
LEMMA NoTextIndex ==
  NoText = IndexOf([p \in Parts |-> <<>>]) /\ NoText \in TextIndexes
<1>1. \A w \in Terms : Count(<<>>, w) = 0
  <2>1. <<>> \in Seq(Terms)
    OBVIOUS
  <2> QED BY <2>1, CountType
<1>2. {p \in Parts : [q \in Parts |-> <<>>][p] # <<>>} = {}
  OBVIOUS
<1>3. NoText = IndexOf([p \in Parts |-> <<>>])
  BY <1>1, <1>2, FS_EmptySet DEF IndexOf, NoText
<1>4. [p \in Parts |-> <<>>] \in [Parts -> Seq(Terms)]
  OBVIOUS
<1> QED BY <1>3, <1>4, IndexType

\* The table of entries.
DocsType == docs \in [Ids -> Entries \cup {None}]

\* The texts of stored entries are texts.
LEMMA TextsInType ==
  ASSUME DocsType, NEW S \in SUBSET Live
  PROVE  TextsIn(S) \in [Parts -> Seq(Terms)]
<1> SUFFICES ASSUME NEW p \in Parts, p[1] \in S, p[2] < Len(Texts[docs[p[1]].content])
             PROVE  Texts[docs[p[1]].content][p[2] + 1] \in Seq(Terms)
  <2>1. <<>> \in Seq(Terms)
    OBVIOUS
  <2> QED BY <2>1 DEF TextsIn
<1>1. docs[p[1]] \in Entries /\ p[2] \in Nat
  <2>1. p[1] \in Live /\ p[1] \in Ids
    BY DEF Live
  <2>2. p[2] \in 0 .. MaxChunks
    BY DEF Parts
  <2>3. \A i \in Live : docs[i] \in Entries
    BY DEF DocsType, Live
  <2>4. p[2] \in Nat
    BY <2>2, SearchAssumption
  <2> QED BY <2>1, <2>3, <2>4
<1>2. p[2] + 1 \in 1 .. Len(Texts[docs[p[1]].content])
  BY <1>1, EntryTexts
<1> QED BY <1>1, <1>2, EntryTexts

\* rebuildIndexes indexes the texts of one entry after the other.
LEMMA RebuiltSteps ==
  ASSUME DocsType, NEW ids \in Seq(Live)
  PROVE  \E it \in [0 .. Len(ids) -> TextIndexes] :
           /\ it[0] = NoText
           /\ \A k \in 1 .. Len(ids) : it[k] = Indexed(it[k - 1], ids[k], docs[ids[k]].content)
           /\ TextsOf(ids) = it[Len(ids)]
<1> DEFINE n == Len(ids)
           D == DOMAIN ids
           Solves(g) == g = [s \in SUBSET D |->
                               IF s = {} THEN NoText
                               ELSE Indexed(g[s \ {Max(s)}], ids[Max(s)], docs[ids[Max(s)]].content)]
           h == CHOOSE g : Solves(g)
           step == [k \in 1 .. n |-> [g \in TextIndexes |-> Indexed(g, ids[k], docs[ids[k]].content)]]
<1>1. TextsOf(ids) = h[D]
  BY DEF TextsOf, FoldLeft, MapThenFoldSet
<1>2. n \in Nat /\ D = 1 .. n /\ \A k \in 1 .. n : ids[k] \in Live
  OBVIOUS
<1> HIDE DEF D, n
<1>3. step \in [1 .. n -> [TextIndexes -> TextIndexes]]
  <2>1. ASSUME NEW k \in 1 .. n, NEW g \in TextIndexes
        PROVE  Indexed(g, ids[k], docs[ids[k]].content) \in TextIndexes
    <3>1. docs[ids[k]] \in Entries
      BY <1>2 DEF DocsType, Live
    <3> QED BY <3>1, EntryTexts, IndexedType
  <2> QED BY <2>1
<1>4. ASSUME NEW k \in 1 .. n, NEW g \in TextIndexes
      PROVE  step[k][g] = Indexed(g, ids[k], docs[ids[k]].content)
  BY <1>2
<1> HIDE DEF step
<1>5. PICK g \in [SUBSET (1 .. n) -> TextIndexes] : Folds(g, n, NoText, step)
  BY <1>2, <1>3, NoTextIndex, FoldExists
<1>6. Solves(g)
  <2>1. ASSUME NEW s \in SUBSET (1 .. n)
        PROVE  g[s] = IF s = {} THEN NoText ELSE Indexed(g[s \ {Max(s)}], ids[Max(s)], docs[ids[Max(s)]].content)
    <3>1. CASE s = {}
      BY <1>5, <3>1 DEF Folds
    <3>2. CASE s # {}
      <4>1. Max(s) \in 1 .. n
        BY <1>2, <3>2, Greatest
      <4>2. g[s] = step[Max(s)][g[s \ {Max(s)}]] /\ g[s \ {Max(s)}] \in TextIndexes
        BY <1>5, <3>2 DEF Folds
      <4> QED BY <4>1, <4>2, <1>4, <3>2
    <3> QED BY <3>1, <3>2
  <2> QED BY <2>1, <1>2
<1>7. Solves(h)
  BY <1>6
<1> HIDE DEF h
<1>8. h[{}] = NoText
  BY <1>7
<1>9. ASSUME NEW k \in 1 .. n, h[1 .. k - 1] \in TextIndexes
      PROVE  h[1 .. k] = step[k][h[1 .. k - 1]]
  <2>1. 1 .. k \in SUBSET D /\ 1 .. k # {} /\ Max(1 .. k) = k /\ (1 .. k) \ {k} = 1 .. k - 1
    BY <1>2, LastOf
  <2>2. h[1 .. k] = Indexed(h[(1 .. k) \ {Max(1 .. k)}], ids[Max(1 .. k)], docs[ids[Max(1 .. k)]].content)
    BY <1>7, <2>1
  <2> QED BY <2>1, <2>2, <1>4, <1>9
<1> HIDE DEF Solves
<1>10. PICK it \in [0 .. n -> TextIndexes] : Steps(it, n, NoText, step) /\ it[n] = h[1 .. n]
  <2>1. Follows(h, TextIndexes, n, step) /\ n \in Nat
    BY <1>2, <1>9 DEF Follows
  <2>2. Stepped(TextIndexes, n, NoText, step, h)
    BY <2>1, <1>3, <1>8, NoTextIndex, FoldSteps
  <2> QED BY <2>2 DEF Stepped
<1>11. ASSUME NEW k \in 1 .. n PROVE it[k] = Indexed(it[k - 1], ids[k], docs[ids[k]].content)
  <2>1. it[k] = step[k][it[k - 1]] /\ it[k - 1] \in TextIndexes
    BY <1>2, <1>10 DEF Steps
  <2> QED BY <2>1, <1>2, <1>4
<1>12. it[0] = NoText /\ TextsOf(ids) = it[n]
  BY <1>1, <1>2, <1>10 DEF Steps
<1> QED BY <1>11, <1>12 DEF n

\* An index that is built from nothing has the texts of the entries it was given.
LEMMA RebuiltTexts ==
  ASSUME DocsType, NEW ids \in Seq(Live)
  PROVE  TextsOf(ids) = IndexOf(TextsIn({ids[m] : m \in DOMAIN ids}))
<1> DEFINE n == Len(ids)
           Had(k) == {ids[m] : m \in 1 .. k}
<1>1. n \in Nat /\ DOMAIN ids = 1 .. n /\ \A k \in 1 .. n : ids[k] \in Live
  OBVIOUS
<1>2. PICK it \in [0 .. n -> TextIndexes] :
        /\ it[0] = NoText
        /\ \A k \in 1 .. n : it[k] = Indexed(it[k - 1], ids[k], docs[ids[k]].content)
        /\ TextsOf(ids) = it[n]
  BY RebuiltSteps
<1>3. ASSUME NEW k \in 0 .. n PROVE Had(k) \in SUBSET Live
  BY <1>1
<1> DEFINE K == {k \in 0 .. n : it[k] = IndexOf(TextsIn(Had(k)))}
<1>4. 0 \in K
  <2>1. Had(0) = {}
    BY <1>1
  <2>2. TextsIn({}) = [p \in Parts |-> <<>>]
    BY DEF TextsIn
  <2>3. IndexOf([p \in Parts |-> <<>>]) = NoText
    BY NoTextIndex
  <2>4. 0 \in 0 .. n
    BY <1>1
  <2> HIDE DEF Had, n
  <2> QED BY <2>1, <2>2, <2>3, <2>4, <1>2
<1> HIDE DEF n
<1>5. ASSUME NEW k \in 1 .. n, k - 1 \in K PROVE k \in K
  <2> DEFINE i == ids[k]
             c == docs[i].content
             T == TextsIn(Had(k - 1))
  <2>1. k \in 0 .. n /\ k - 1 \in 0 .. n /\ Had(k) = Had(k - 1) \cup {i} /\ i \in Live
    <3>1. 1 .. k = (1 .. k - 1) \cup {k}
      BY <1>1
    <3> QED BY <3>1, <1>1
  <2> HIDE DEF i, Had
  <2>2. docs[i] \in Entries /\ i \in Ids
    BY <2>1 DEF DocsType, Live
  <2>3. T \in [Parts -> Seq(Terms)]
    BY <2>1, <1>3, TextsInType
  <2>4. Texts[c] \in Seq(Seq(Terms)) /\ Len(Texts[c]) <= MaxChunks + 1
    BY <2>2, EntryTexts
  <2> HIDE DEF T, K
  <2>5. Indexed(IndexOf(T), i, c) =
          IndexOf([p \in Parts |-> IF p[1] = i /\ p[2] < Len(Texts[c]) THEN Texts[c][p[2] + 1] ELSE T[p]])
    BY <2>2, <2>3, <2>4, IndexedTexts
  <2>6. [p \in Parts |-> IF p[1] = i /\ p[2] < Len(Texts[c]) THEN Texts[c][p[2] + 1] ELSE T[p]]
          = TextsIn(Had(k))
    BY <2>1 DEF T, TextsIn
  <2>7. it[k - 1] = IndexOf(T)
    BY <1>5 DEF K, T
  <2>8. it[k] = IndexOf(TextsIn(Had(k)))
    BY <2>5, <2>6, <2>7, <1>2 DEF i
  <2> QED BY <2>1, <2>8 DEF K
<1> HIDE DEF K, Had
<1>6. 0 .. n \subseteq K
  BY <1>1, <1>4, <1>5, UpTo
<1>7. it[n] = IndexOf(TextsIn(Had(n)))
  BY <1>1, <1>6 DEF K
<1> QED BY <1>1, <1>2, <1>7 DEF Had

-----------------------------------------------------------------------------
(* The attribute index. *)

\* A snapshot of the attribute index reads as what was saved.
LEMMA LoadedAttributeIndex ==
  ASSUME NEW a \in AttributeIndexes
  PROVE  LoadedAttributes(EncodedAttributes(a)) = a
<1> DEFINE file == EncodedAttributes(a)
<1>1. ASSUME NEW n \in Names, NEW v \in Values
      PROVE  {t[3] : t \in {u \in file : u[1] = n /\ u[2] = v}} = a[n][v]
  <2>1. ASSUME NEW i \in a[n][v] PROVE <<n, v, i>> \in file
    <3>1. {<<n, v, j>> : j \in a[n][v]} \in {{<<m, u, j>> : j \in a[m][u]} : m \in Names, u \in Values}
      OBVIOUS
    <3>2. <<n, v, i>> \in {<<n, v, j>> : j \in a[n][v]}
      OBVIOUS
    <3> DEFINE Postings == {{<<m, u, j>> : j \in a[m][u]} : m \in Names, u \in Values}
    <3>3. file = UNION Postings
      BY DEF EncodedAttributes
    <3>4. {<<n, v, j>> : j \in a[n][v]} \in Postings
      BY <3>1
    <3> HIDE DEF Postings, file
    <3> QED BY <3>2, <3>3, <3>4
  <2>2. ASSUME NEW u \in file, u[1] = n, u[2] = v PROVE u[3] \in a[n][v]
    BY <2>2 DEF EncodedAttributes
  <2> HIDE DEF file
  <2>3. ASSUME NEW i \in a[n][v] PROVE i \in {t[3] : t \in {u \in file : u[1] = n /\ u[2] = v}}
    BY <2>1, <<n, v, i>>[1] = n, <<n, v, i>>[2] = v, <<n, v, i>>[3] = i
  <2> QED BY <2>2, <2>3
<1>2. LoadedAttributes(file) =
        [n \in Names |-> [v \in Values |-> {t[3] : t \in {u \in file : u[1] = n /\ u[2] = v}}]]
  BY DEF LoadedAttributes
<1> HIDE DEF file
<1>3. ASSUME NEW n \in Names
      PROVE  [v \in Values |-> {t[3] : t \in {u \in file : u[1] = n /\ u[2] = v}}] = a[n]
  BY <1>1 DEF AttributeIndexes
<1> QED BY <1>2, <1>3 DEF AttributeIndexes, file

\* Set and Remove keep the type.
LEMMA SetEntryType ==
  ASSUME NEW a \in AttributeIndexes, NEW i \in Ids, NEW md
  PROVE  SetEntry(a, i, md) \in AttributeIndexes /\ RemoveEntry(a, i) \in AttributeIndexes
BY DEF SetEntry, RemoveEntry, AttributeIndexes

\* The empty index has no attributes.
LEMMA NoAttributeIndex ==
  NoAttributes = AttributesIn({}) /\ NoAttributes \in AttributeIndexes
BY DEF NoAttributes, AttributesIn, AttributeIndexes

\* Set puts the attributes of an entry in the place of those it had.
LEMMA SetIndexed ==
  ASSUME NEW S \in SUBSET Ids, NEW i \in Ids
  PROVE  SetEntry(AttributesIn(S), i, docs[i].attributes) = AttributesIn(S \cup {i})
BY DEF SetEntry, RemoveEntry, AttributesIn

\* rebuildIndexes indexes the attributes of one entry after the other.
LEMMA RebuiltAttributeSteps ==
  ASSUME NEW ids \in Seq(Ids)
  PROVE  \E it \in [0 .. Len(ids) -> AttributeIndexes] :
           /\ it[0] = NoAttributes
           /\ \A k \in 1 .. Len(ids) : it[k] = SetEntry(it[k - 1], ids[k], docs[ids[k]].attributes)
           /\ AttributesOf(ids) = it[Len(ids)]
<1> DEFINE n == Len(ids)
           D == DOMAIN ids
           Solves(g) == g = [s \in SUBSET D |->
                               IF s = {} THEN NoAttributes
                               ELSE SetEntry(g[s \ {Max(s)}], ids[Max(s)], docs[ids[Max(s)]].attributes)]
           h == CHOOSE g : Solves(g)
           step == [k \in 1 .. n |-> [g \in AttributeIndexes |-> SetEntry(g, ids[k], docs[ids[k]].attributes)]]
<1>1. AttributesOf(ids) = h[D]
  BY DEF AttributesOf, FoldLeft, MapThenFoldSet
<1>2. n \in Nat /\ D = 1 .. n /\ \A k \in 1 .. n : ids[k] \in Ids
  OBVIOUS
<1> HIDE DEF D, n
<1>3. step \in [1 .. n -> [AttributeIndexes -> AttributeIndexes]]
  BY <1>2, SetEntryType
<1>4. ASSUME NEW k \in 1 .. n, NEW g \in AttributeIndexes
      PROVE  step[k][g] = SetEntry(g, ids[k], docs[ids[k]].attributes)
  BY <1>2
<1> HIDE DEF step
<1>5. PICK g \in [SUBSET (1 .. n) -> AttributeIndexes] : Folds(g, n, NoAttributes, step)
  BY <1>2, <1>3, NoAttributeIndex, FoldExists
<1>6. Solves(g)
  <2>1. ASSUME NEW s \in SUBSET (1 .. n)
        PROVE  g[s] = IF s = {} THEN NoAttributes
                      ELSE SetEntry(g[s \ {Max(s)}], ids[Max(s)], docs[ids[Max(s)]].attributes)
    <3>1. CASE s = {}
      BY <1>5, <3>1 DEF Folds
    <3>2. CASE s # {}
      <4>1. Max(s) \in 1 .. n
        BY <1>2, <3>2, Greatest
      <4>2. g[s] = step[Max(s)][g[s \ {Max(s)}]] /\ g[s \ {Max(s)}] \in AttributeIndexes
        BY <1>5, <3>2 DEF Folds
      <4> QED BY <4>1, <4>2, <1>4, <3>2
    <3> QED BY <3>1, <3>2
  <2> QED BY <2>1, <1>2
<1>7. Solves(h)
  BY <1>6
<1> HIDE DEF h
<1>8. h[{}] = NoAttributes
  BY <1>7
<1>9. ASSUME NEW k \in 1 .. n, h[1 .. k - 1] \in AttributeIndexes
      PROVE  h[1 .. k] = step[k][h[1 .. k - 1]]
  <2>1. 1 .. k \in SUBSET D /\ 1 .. k # {} /\ Max(1 .. k) = k /\ (1 .. k) \ {k} = 1 .. k - 1
    BY <1>2, LastOf
  <2>2. h[1 .. k] = SetEntry(h[(1 .. k) \ {Max(1 .. k)}], ids[Max(1 .. k)], docs[ids[Max(1 .. k)]].attributes)
    BY <1>7, <2>1
  <2> QED BY <2>1, <2>2, <1>4, <1>9
<1> HIDE DEF Solves
<1>10. PICK it \in [0 .. n -> AttributeIndexes] : Steps(it, n, NoAttributes, step) /\ it[n] = h[1 .. n]
  <2>1. Follows(h, AttributeIndexes, n, step) /\ n \in Nat
    BY <1>2, <1>9 DEF Follows
  <2>2. Stepped(AttributeIndexes, n, NoAttributes, step, h)
    BY <2>1, <1>3, <1>8, NoAttributeIndex, FoldSteps
  <2> QED BY <2>2 DEF Stepped
<1>11. ASSUME NEW k \in 1 .. n PROVE it[k] = SetEntry(it[k - 1], ids[k], docs[ids[k]].attributes)
  <2>1. it[k] = step[k][it[k - 1]] /\ it[k - 1] \in AttributeIndexes
    BY <1>2, <1>10 DEF Steps
  <2> QED BY <2>1, <1>2, <1>4
<1>12. it[0] = NoAttributes /\ AttributesOf(ids) = it[n]
  BY <1>1, <1>2, <1>10 DEF Steps
<1> QED BY <1>11, <1>12 DEF n

\* An index that is built from nothing has the attributes of the entries it was given.
LEMMA RebuiltAttributes ==
  ASSUME NEW ids \in Seq(Ids)
  PROVE  AttributesOf(ids) = AttributesIn({ids[m] : m \in DOMAIN ids})
<1> DEFINE n == Len(ids)
           Had(k) == {ids[m] : m \in 1 .. k}
<1>1. n \in Nat /\ DOMAIN ids = 1 .. n /\ \A k \in 1 .. n : ids[k] \in Ids
  OBVIOUS
<1>2. PICK it \in [0 .. n -> AttributeIndexes] :
        /\ it[0] = NoAttributes
        /\ \A k \in 1 .. n : it[k] = SetEntry(it[k - 1], ids[k], docs[ids[k]].attributes)
        /\ AttributesOf(ids) = it[n]
  BY RebuiltAttributeSteps
<1> HIDE DEF n
<1> DEFINE K == {k \in 0 .. n : it[k] = AttributesIn(Had(k))}
<1>3. 0 \in K
  <2>1. Had(0) = {} /\ 0 \in 0 .. n
    BY <1>1
  <2> HIDE DEF Had
  <2> QED BY <2>1, <1>2, NoAttributeIndex
<1>4. ASSUME NEW k \in 1 .. n, k - 1 \in K PROVE k \in K
  <2>1. k \in 0 .. n /\ Had(k - 1) \in SUBSET Ids /\ Had(k) = Had(k - 1) \cup {ids[k]} /\ ids[k] \in Ids
    <3>1. 1 .. k = (1 .. k - 1) \cup {k}
      BY <1>1
    <3> QED BY <3>1, <1>1
  <2>2. it[k - 1] = AttributesIn(Had(k - 1))
    BY <1>4
  <2> HIDE DEF Had
  <2>3. it[k] = AttributesIn(Had(k))
    BY <2>1, <2>2, <1>2, SetIndexed
  <2> QED BY <2>1, <2>3
<1> HIDE DEF K, Had
<1>5. 0 .. n \subseteq K
  BY <1>1, <1>3, <1>4, UpTo
<1>6. it[n] = AttributesIn(Had(n))
  BY <1>1, <1>5 DEF K
<1> QED BY <1>1, <1>2, <1>6 DEF Had

-----------------------------------------------------------------------------
(* The adjacency index. *)

\* The values of the adjacency index.
Adjacency ==
  [forward : [Nodes -> Seq(Refs)], reverse : [Nodes -> Seq(Refs)], meta : [EdgeIds -> Ends \cup {NoEnds}]]

\* The edges, and the tables of them.
EdgeRecords == [from : Nodes, to : Nodes, label : Labels]
EdgeTables == [EdgeIds -> EdgeRecords \cup {None}]

\* The references out of and into a node, one for each edge that is stored in es.
Out(es, n) == {Ref(x, es[x].to, es[x].label) : x \in {y \in EdgeIds : es[y] # None /\ es[y].from = n}}
In(es, n) == {Ref(x, es[x].from, es[x].label) : x \in {y \in EdgeIds : es[y] # None /\ es[y].to = n}}

\* refs lists R, one reference after the other, and no edge twice.
ListsRefs(refs, R) ==
  /\ refs \in Seq(Refs)
  /\ {refs[k] : k \in DOMAIN refs} = R
  /\ \A k, l \in DOMAIN refs : refs[k].edge = refs[l].edge => k = l

\* The index mirrors the edges in es.
Mirrors(g, es) ==
  /\ g \in Adjacency
  /\ \A x \in EdgeIds :
       g.meta[x] = IF es[x] = None THEN NoEnds ELSE [from |-> es[x].from, to |-> es[x].to]
  /\ \A n \in Nodes : ListsRefs(g.forward[n], Out(es, n))
  /\ \A n \in Nodes : ListsRefs(g.reverse[n], In(es, n))

\* Removing the reference of an edge leaves those of the others.
LEMMA RefRemoved ==
  ASSUME NEW refs, NEW R, NEW x, ListsRefs(refs, R)
  PROVE  ListsRefs(RemoveEdgeRef(refs, x), {r \in R : r.edge # x})
<1> DEFINE S == {r \in R : r.edge # x}
           out == Picked(refs, S)
<1>1. refs \in Seq(Refs) /\ {refs[k] : k \in DOMAIN refs} = R
  BY DEF ListsRefs
<1>2. RemoveEdgeRef(refs, x) = out
  BY <1>1 DEF RemoveEdgeRef, ToSet
<1>3. out \in Seq(Refs) /\ \E at : Picks(at, out, refs, S)
  BY <1>1, PickedMembers
<1> HIDE DEF out
<1>4. PICK at : Picks(at, out, refs, S)
  BY <1>3
<1>5. {out[k] : k \in DOMAIN out} = S
  <2>1. ASSUME NEW k \in DOMAIN out PROVE out[k] \in S
    BY <1>4 DEF Picks
  <2>2. ASSUME NEW r \in S PROVE \E k \in DOMAIN out : out[k] = r
    <3>1. PICK m \in DOMAIN refs : refs[m] = r
      BY <1>1
    <3> HIDE DEF S
    <3> QED BY <3>1, <1>4 DEF Picks
  <2> HIDE DEF S
  <2> QED BY <2>1, <2>2
<1> HIDE DEF S
<1>6. ASSUME NEW k \in DOMAIN out, NEW l \in DOMAIN out, out[k].edge = out[l].edge PROVE k = l
  <2>1. at[k] \in DOMAIN refs /\ at[l] \in DOMAIN refs /\ refs[at[k]].edge = refs[at[l]].edge
    BY <1>4, <1>6 DEF Picks
  <2>2. at[k] = at[l]
    BY <2>1 DEF ListsRefs
  <2>3. k \in Int /\ l \in Int /\ at[k] \in Int
    BY <1>1, <1>3, <2>1
  <2>4. ~(k < l) /\ ~(l < k)
    BY <2>2, <2>3, <1>4 DEF Picks
  <2> QED BY <2>3, <2>4
<1> QED BY <1>2, <1>3, <1>5, <1>6 DEF ListsRefs, S

\* Adding the reference of an edge that is not listed yet.
LEMMA RefAdded ==
  ASSUME NEW refs, NEW R, NEW r \in Refs, ListsRefs(refs, R), \A q \in R : q.edge # r.edge
  PROVE  ListsRefs(Append(refs, r), R \cup {r})
<1> DEFINE out == Append(refs, r)
<1>1. refs \in Seq(Refs) /\ {refs[k] : k \in DOMAIN refs} = R
  BY DEF ListsRefs
<1>2. PICK n \in Nat : n = Len(refs) /\ DOMAIN refs = 1 .. n
  BY <1>1
<1>3. out \in Seq(Refs) /\ DOMAIN out = 1 .. n + 1 /\ out[n + 1] = r /\ \A k \in 1 .. n : out[k] = refs[k]
  BY <1>1, <1>2
<1> HIDE DEF out
<1>4. {out[k] : k \in DOMAIN out} = R \cup {r}
  <2>1. 1 .. n + 1 = (1 .. n) \cup {n + 1}
    OBVIOUS
  <2> QED BY <2>1, <1>1, <1>2, <1>3
<1>5. ASSUME NEW k \in DOMAIN out, NEW l \in DOMAIN out, out[k].edge = out[l].edge PROVE k = l
  <2>1. \A m \in 1 .. n : refs[m] \in R
    BY <1>1, <1>2
  <2>2. CASE k = n + 1
    <3>1. l \notin 1 .. n
      BY <2>1, <2>2, <1>3, <1>5
    <3> QED BY <3>1, <2>2, <1>3
  <2>3. CASE l = n + 1
    <3>1. k \notin 1 .. n
      BY <2>1, <2>3, <1>3, <1>5
    <3> QED BY <3>1, <2>3, <1>3
  <2>4. CASE k \in 1 .. n /\ l \in 1 .. n
    BY <2>4, <1>2, <1>3, <1>5 DEF ListsRefs
  <2> QED BY <2>2, <2>3, <2>4, <1>3
<1> QED BY <1>3, <1>4, <1>5 DEF ListsRefs, out

\* A stored edge.
LEMMA EdgeTypes ==
  ASSUME NEW es \in EdgeTables, NEW x \in EdgeIds, es[x] # None
  PROVE  /\ es[x].from \in Nodes /\ es[x].to \in Nodes /\ es[x].label \in Labels
         /\ [from |-> es[x].from, to |-> es[x].to] \in Ends
         /\ [from |-> es[x].from, to |-> es[x].to] # NoEnds
<1>1. es[x] \in EdgeRecords
  BY DEF EdgeTables
<1>2. NoEnds \notin Ends
  BY SearchAssumption
<1> QED BY <1>1, <1>2 DEF EdgeRecords, Ends

\* A reference names its edge.
LEMMA OutIn ==
  ASSUME NEW es \in EdgeTables, NEW n \in Nodes
  PROVE  /\ \A r \in Out(es, n) : r \in Refs /\ es[r.edge] # None /\ es[r.edge].from = n
         /\ \A r \in In(es, n) : r \in Refs /\ es[r.edge] # None /\ es[r.edge].to = n
<1>1. ASSUME NEW x \in EdgeIds, es[x] # None
      PROVE  /\ Ref(x, es[x].to, es[x].label) \in Refs /\ Ref(x, es[x].to, es[x].label).edge = x
             /\ Ref(x, es[x].from, es[x].label) \in Refs /\ Ref(x, es[x].from, es[x].label).edge = x
  BY <1>1, EdgeTypes DEF Ref, Refs
<1> QED BY <1>1 DEF Out, In

\* Remove takes one edge out of the mirror.
LEMMA RemovedMirrors ==
  ASSUME NEW g, NEW es \in EdgeTables, NEW x \in EdgeIds, Mirrors(g, es)
  PROVE  Mirrors(Removed(g, x), [es EXCEPT ![x] = None])
<1> DEFINE fs == [es EXCEPT ![x] = None]
           h == Removed(g, x)
<1>1. CASE es[x] = None
  <2>1. fs = es
    BY <1>1 DEF EdgeTables
  <2>2. g.meta[x] = NoEnds
    BY <1>1 DEF Mirrors
  <2> QED BY <2>1, <2>2 DEF Removed
<1>2. CASE es[x] # None
  <2> DEFINE m == es[x].from
             n == es[x].to
  <2>1. m \in Nodes /\ n \in Nodes /\ g.meta[x] = [from |-> m, to |-> n] /\ g.meta[x] # NoEnds
    BY <1>2, EdgeTypes DEF Mirrors
  <2>2. g.meta[x].from = m /\ g.meta[x].to = n
    BY <2>1
  <2>3. h = [g EXCEPT !.meta = [g.meta EXCEPT ![x] = NoEnds],
                      !.forward = [g.forward EXCEPT ![m] = RemoveEdgeRef(g.forward[m], x)],
                      !.reverse = [g.reverse EXCEPT ![n] = RemoveEdgeRef(g.reverse[n], x)]]
    <3> HIDE DEF m, n
    <3> QED BY <2>1, <2>2 DEF Removed
  <2>4. g = [forward |-> g.forward, reverse |-> g.reverse, meta |-> g.meta]
        /\ g.forward \in [Nodes -> Seq(Refs)] /\ g.reverse \in [Nodes -> Seq(Refs)]
        /\ g.meta \in [EdgeIds -> Ends \cup {NoEnds}]
    BY DEF Mirrors, Adjacency
  <2>5. /\ h.meta = [g.meta EXCEPT ![x] = NoEnds]
        /\ h.forward = [g.forward EXCEPT ![m] = RemoveEdgeRef(g.forward[m], x)]
        /\ h.reverse = [g.reverse EXCEPT ![n] = RemoveEdgeRef(g.reverse[n], x)]
        /\ h = [forward |-> h.forward, reverse |-> h.reverse, meta |-> h.meta]
    <3> HIDE DEF h
    <3> QED BY <2>3, <2>4
  <2> HIDE DEF h
  <2>6. ASSUME NEW k \in Nodes
        PROVE  /\ ListsRefs(h.forward[k], Out(fs, k)) /\ h.forward[k] \in Seq(Refs)
               /\ ListsRefs(h.reverse[k], In(fs, k)) /\ h.reverse[k] \in Seq(Refs)
    <3>1. ListsRefs(g.forward[k], Out(es, k)) /\ ListsRefs(g.reverse[k], In(es, k))
      BY DEF Mirrors
    <3>2. Out(fs, k) = {r \in Out(es, k) : r.edge # x} /\ In(fs, k) = {r \in In(es, k) : r.edge # x}
      <4>1. \A y \in EdgeIds : fs[y] = IF y = x THEN None ELSE es[y]
        BY DEF EdgeTables
      <4> HIDE DEF fs
      <4> QED BY <4>1 DEF Out, In, Ref
    <3>3. ListsRefs(h.forward[k], Out(fs, k))
      <4>1. CASE k = m
        <5>1. h.forward[k] = RemoveEdgeRef(g.forward[k], x)
          BY <4>1, <2>4, <2>5
        <5>2. ListsRefs(RemoveEdgeRef(g.forward[k], x), {r \in Out(es, k) : r.edge # x})
          BY <3>1, RefRemoved
        <5> QED BY <5>1, <5>2, <3>2
      <4>2. CASE k # m
        <5>1. h.forward[k] = g.forward[k]
          BY <4>2, <2>4, <2>5
        <5>2. \A r \in Out(es, k) : r.edge # x
          BY <4>2, OutIn
        <5>3. {r \in Out(es, k) : r.edge # x} = Out(es, k)
          BY <5>2
        <5> QED BY <5>1, <5>3, <3>1, <3>2
      <4> QED BY <4>1, <4>2
    <3>4. ListsRefs(h.reverse[k], In(fs, k))
      <4>1. CASE k = n
        <5>1. h.reverse[k] = RemoveEdgeRef(g.reverse[k], x)
          BY <4>1, <2>4, <2>5
        <5>2. ListsRefs(RemoveEdgeRef(g.reverse[k], x), {r \in In(es, k) : r.edge # x})
          BY <3>1, RefRemoved
        <5> QED BY <5>1, <5>2, <3>2
      <4>2. CASE k # n
        <5>1. h.reverse[k] = g.reverse[k]
          BY <4>2, <2>4, <2>5
        <5>2. \A r \in In(es, k) : r.edge # x
          BY <4>2, OutIn
        <5>3. {r \in In(es, k) : r.edge # x} = In(es, k)
          BY <5>2
        <5> QED BY <5>1, <5>3, <3>1, <3>2
      <4> QED BY <4>1, <4>2
    <3> QED BY <3>3, <3>4 DEF ListsRefs
  <2>7. h \in Adjacency
    <3>1. DOMAIN h.forward = Nodes /\ DOMAIN h.reverse = Nodes
      BY <2>4, <2>5
    <3>2. h.forward \in [Nodes -> Seq(Refs)] /\ h.reverse \in [Nodes -> Seq(Refs)]
      <4>1. h.forward = [k \in Nodes |-> h.forward[k]] /\ h.reverse = [k \in Nodes |-> h.reverse[k]]
        BY <2>4, <2>5
      <4> HIDE DEF fs
      <4> QED BY <2>6, <4>1
    <3>3. h.meta \in [EdgeIds -> Ends \cup {NoEnds}]
      BY <2>4, <2>5
    <3> QED BY <2>5, <3>2, <3>3 DEF Adjacency
  <2>8. ASSUME NEW y \in EdgeIds
        PROVE  h.meta[y] = IF fs[y] = None THEN NoEnds ELSE [from |-> fs[y].from, to |-> fs[y].to]
    <3>1. g.meta[y] = IF es[y] = None THEN NoEnds ELSE [from |-> es[y].from, to |-> es[y].to]
      BY DEF Mirrors
    <3>2. fs[y] = IF y = x THEN None ELSE es[y]
      BY DEF EdgeTables
    <3> HIDE DEF fs
    <3> QED BY <3>1, <3>2, <2>4, <2>5
  <2> HIDE DEF fs
  <2>9. Mirrors(h, fs)
    BY <2>6, <2>7, <2>8 DEF Mirrors
  <2> QED BY <2>9 DEF h, fs
<1> QED BY <1>1, <1>2

\* Add puts an edge in the place of the one that was there.
LEMMA AddedMirrors ==
  ASSUME NEW g, NEW es \in EdgeTables, NEW x \in EdgeIds, NEW e \in EdgeRecords, Mirrors(g, es)
  PROVE  Mirrors(Added(g, x, e.from, e.to, e.label), [es EXCEPT ![x] = e])
<1> DEFINE fs == [es EXCEPT ![x] = e]
           ds == [es EXCEPT ![x] = None]
           d == Removed(g, x)
           h == Added(g, x, e.from, e.to, e.label)
           m == e.from
           n == e.to
           out == Ref(x, e.to, e.label)
           in == Ref(x, e.from, e.label)
<1>1. Mirrors(d, ds)
  BY RemovedMirrors
<1>2. /\ ds \in EdgeTables /\ fs \in EdgeTables
      /\ \A y \in EdgeIds : ds[y] = (IF y = x THEN None ELSE es[y])
      /\ \A y \in EdgeIds : fs[y] = (IF y = x THEN e ELSE es[y])
  BY DEF EdgeTables
<1>3. e # None
  BY SearchAssumption DEF EdgeRecords
<1>4. m \in Nodes /\ n \in Nodes /\ out \in Refs /\ in \in Refs /\ out.edge = x /\ in.edge = x
      /\ [from |-> m, to |-> n] \in Ends
  BY DEF EdgeRecords, Ref, Refs, Ends
<1>5. d = [forward |-> d.forward, reverse |-> d.reverse, meta |-> d.meta]
      /\ d.forward \in [Nodes -> Seq(Refs)] /\ d.reverse \in [Nodes -> Seq(Refs)]
      /\ d.meta \in [EdgeIds -> Ends \cup {NoEnds}]
  BY <1>1 DEF Mirrors, Adjacency
<1>6. h = [d EXCEPT !.meta = [d.meta EXCEPT ![x] = [from |-> m, to |-> n]],
                    !.forward = [d.forward EXCEPT ![m] = Append(d.forward[m], out)],
                    !.reverse = [d.reverse EXCEPT ![n] = Append(d.reverse[n], in)]]
  <2> HIDE DEF d
  <2> QED BY <1>5 DEF Added, d
<1> HIDE DEF h, d, ds, fs, in, out
<1>7. /\ h.meta = [d.meta EXCEPT ![x] = [from |-> m, to |-> n]]
      /\ h.forward = [d.forward EXCEPT ![m] = Append(d.forward[m], out)]
      /\ h.reverse = [d.reverse EXCEPT ![n] = Append(d.reverse[n], in)]
      /\ h = [forward |-> h.forward, reverse |-> h.reverse, meta |-> h.meta]
  BY <1>5, <1>6
<1>8. ASSUME NEW k \in Nodes
      PROVE  ListsRefs(h.forward[k], Out(fs, k)) /\ ListsRefs(h.reverse[k], In(fs, k))
  <2>1. ListsRefs(d.forward[k], Out(ds, k)) /\ ListsRefs(d.reverse[k], In(ds, k))
    BY <1>1 DEF Mirrors
  <2>2. Out(fs, k) = (IF k = m THEN Out(ds, k) \cup {out} ELSE Out(ds, k))
        /\ In(fs, k) = (IF k = n THEN In(ds, k) \cup {in} ELSE In(ds, k))
    BY <1>2, <1>3 DEF Out, In, out, in
  <2>3. (\A r \in Out(ds, k) : r.edge # out.edge) /\ (\A r \in In(ds, k) : r.edge # in.edge)
    BY <1>2, <1>4, OutIn
  <2>4. ListsRefs(h.forward[k], Out(fs, k))
    <3>1. CASE k = m
      <4>1. h.forward[k] = Append(d.forward[k], out)
        BY <3>1, <1>4, <1>5, <1>7
      <4> QED BY <4>1, <2>1, <2>2, <2>3, <3>1, <1>4, RefAdded
    <3>2. CASE k # m
      BY <3>2, <2>1, <2>2, <1>5, <1>7
    <3> QED BY <3>1, <3>2
  <2>5. ListsRefs(h.reverse[k], In(fs, k))
    <3>1. CASE k = n
      <4>1. h.reverse[k] = Append(d.reverse[k], in)
        BY <3>1, <1>4, <1>5, <1>7
      <4> QED BY <4>1, <2>1, <2>2, <2>3, <3>1, <1>4, RefAdded
    <3>2. CASE k # n
      BY <3>2, <2>1, <2>2, <1>5, <1>7
    <3> QED BY <3>1, <3>2
  <2> QED BY <2>4, <2>5
<1>9. h \in Adjacency
  <2>1. h.forward = [k \in Nodes |-> h.forward[k]] /\ h.reverse = [k \in Nodes |-> h.reverse[k]]
    BY <1>5, <1>7
  <2>2. h.forward \in [Nodes -> Seq(Refs)] /\ h.reverse \in [Nodes -> Seq(Refs)]
    BY <1>8, <2>1 DEF ListsRefs
  <2>3. h.meta \in [EdgeIds -> Ends \cup {NoEnds}]
    BY <1>4, <1>5, <1>7
  <2> QED BY <1>7, <2>2, <2>3 DEF Adjacency
<1>10. ASSUME NEW y \in EdgeIds
       PROVE  h.meta[y] = IF fs[y] = None THEN NoEnds ELSE [from |-> fs[y].from, to |-> fs[y].to]
  <2>1. d.meta[y] = IF ds[y] = None THEN NoEnds ELSE [from |-> ds[y].from, to |-> ds[y].to]
    BY <1>1 DEF Mirrors
  <2> QED BY <2>1, <1>2, <1>3, <1>5, <1>7
<1>11. Mirrors(h, fs)
  BY <1>8, <1>9, <1>10 DEF Mirrors
<1> QED BY <1>11 DEF h, fs

\* The edges of a snapshot.
EdgeEntries == [edge : EdgeIds, from : Nodes, to : Nodes, label : Labels]

\* No two entries of D have the same identifier.
Keyed(D) == \A d, e \in D : d.edge = e.edge => d = e

\* The edges in D by their identifiers.
StoredIn(D) ==
  [x \in EdgeIds |->
     IF \E e \in D : e.edge = x
       THEN LET e == CHOOSE f \in D : f.edge = x
            IN [from |-> e.from, to |-> e.to, label |-> e.label]
       ELSE None]

\* What StoredIn gives for an identifier.
LEMMA StoredValues ==
  ASSUME NEW D \in SUBSET EdgeEntries, Keyed(D)
  PROVE  /\ StoredIn(D) \in EdgeTables
         /\ \A e \in D : StoredIn(D)[e.edge] = [from |-> e.from, to |-> e.to, label |-> e.label]
         /\ \A x \in EdgeIds : (StoredIn(D)[x] = None) <=> \A e \in D : e.edge # x
<1>1. ASSUME NEW e \in D
      PROVE  /\ e.edge \in EdgeIds /\ [from |-> e.from, to |-> e.to, label |-> e.label] \in EdgeRecords
             /\ [from |-> e.from, to |-> e.to, label |-> e.label] # None
             /\ (CHOOSE f \in D : f.edge = e.edge) = e
  <2>1. e \in EdgeEntries
    OBVIOUS
  <2>2. [from |-> e.from, to |-> e.to, label |-> e.label] \in EdgeRecords
    BY <2>1 DEF EdgeRecords, EdgeEntries
  <2>3. None \notin EdgeRecords
    BY SearchAssumption DEF EdgeRecords
  <2>4. (CHOOSE f \in D : f.edge = e.edge) = e
    BY DEF Keyed
  <2> QED BY <2>1, <2>2, <2>3, <2>4 DEF EdgeEntries
<1>2. ASSUME NEW e \in D PROVE StoredIn(D)[e.edge] = [from |-> e.from, to |-> e.to, label |-> e.label]
  BY <1>1 DEF StoredIn
<1>3. ASSUME NEW x \in EdgeIds, \A e \in D : e.edge # x PROVE StoredIn(D)[x] = None
  BY <1>3 DEF StoredIn
<1>4. ASSUME NEW x \in EdgeIds
      PROVE  /\ StoredIn(D)[x] \in EdgeRecords \cup {None}
             /\ StoredIn(D)[x] = None <=> \A e \in D : e.edge # x
  <2>1. CASE \A e \in D : e.edge # x
    BY <2>1, <1>3
  <2>2. CASE \E e \in D : e.edge = x
    <3>1. PICK e \in D : e.edge = x
      BY <2>2
    <3>2. StoredIn(D)[x] = [from |-> e.from, to |-> e.to, label |-> e.label]
      BY <3>1, <1>2
    <3> QED BY <3>1, <3>2, <1>1
  <2> QED BY <2>1, <2>2
<1>5. StoredIn(D) = [x \in EdgeIds |-> StoredIn(D)[x]]
  BY DEF StoredIn
<1>6. StoredIn(D) \in EdgeTables
  <2> HIDE DEF StoredIn
  <2> QED BY <1>4, <1>5 DEF EdgeTables
<1> QED BY <1>2, <1>4, <1>6

\* The graph that a start begins with mirrors no edges.
LEMMA NoGraphMirrors ==
  Mirrors(NoGraph, [x \in EdgeIds |-> None])
<1> DEFINE es == [x \in EdgeIds |-> None]
<1>1. <<>> \in Seq(Refs) /\ ListsRefs(<<>>, {})
  BY DEF ListsRefs
<1>2. NoGraph \in Adjacency
  BY <1>1 DEF NoGraph, Adjacency
<1>3. \A n \in Nodes : Out(es, n) = {} /\ In(es, n) = {}
  BY DEF Out, In
<1>4. \A x \in EdgeIds : es[x] = None /\ NoGraph.meta[x] = NoEnds
  BY DEF NoGraph
<1>5. \A n \in Nodes : NoGraph.forward[n] = <<>> /\ NoGraph.reverse[n] = <<>>
  BY DEF NoGraph
<1> HIDE DEF es
<1>6. Mirrors(NoGraph, es)
  BY <1>1, <1>2, <1>3, <1>4, <1>5 DEF Mirrors
<1> QED BY <1>6 DEF es

\* The empty index is a value of the adjacency index.
LEMMA NoGraphType == NoGraph \in Adjacency
BY NoGraphMirrors DEF Mirrors

\* Add and Remove keep the type.
LEMMA AddedType ==
  ASSUME NEW g \in Adjacency, NEW e \in EdgeEntries
  PROVE  Added(g, e.edge, e.from, e.to, e.label) \in Adjacency
<1> DEFINE x == e.edge
           d == Removed(g, x)
           h == Added(g, x, e.from, e.to, e.label)
<1>1. /\ x \in EdgeIds /\ e.from \in Nodes /\ e.to \in Nodes /\ [from |-> e.from, to |-> e.to] \in Ends
      /\ Ref(x, e.to, e.label) \in Refs /\ Ref(x, e.from, e.label) \in Refs
  BY DEF EdgeEntries, Ref, Refs, Ends
<1>2. ASSUME NEW refs \in Seq(Refs) PROVE RemoveEdgeRef(refs, x) \in Seq(Refs)
  BY PickedMembers DEF RemoveEdgeRef
<1>3. g = [forward |-> g.forward, reverse |-> g.reverse, meta |-> g.meta]
      /\ g.forward \in [Nodes -> Seq(Refs)] /\ g.reverse \in [Nodes -> Seq(Refs)]
      /\ g.meta \in [EdgeIds -> Ends \cup {NoEnds}]
  BY DEF Adjacency
<1> HIDE DEF x
<1>4. d \in Adjacency
  <2>1. CASE g.meta[x] = NoEnds
    BY <2>1 DEF Removed
  <2>2. CASE g.meta[x] # NoEnds
    <3> DEFINE m == g.meta[x].from
               n == g.meta[x].to
    <3>1. m \in Nodes /\ n \in Nodes
      <4>1. g.meta[x] \in Ends
        BY <1>1, <1>3, <2>2
      <4> QED BY <4>1 DEF Ends
    <3>2. d = [g EXCEPT !.meta = [g.meta EXCEPT ![x] = NoEnds],
                        !.forward = [g.forward EXCEPT ![m] = RemoveEdgeRef(g.forward[m], x)],
                        !.reverse = [g.reverse EXCEPT ![n] = RemoveEdgeRef(g.reverse[n], x)]]
      BY <2>2 DEF Removed
    <3> HIDE DEF m, n, d
    <3>3. [g.forward EXCEPT ![m] = RemoveEdgeRef(g.forward[m], x)] \in [Nodes -> Seq(Refs)]
      BY <1>2, <1>3, <3>1
    <3>4. [g.reverse EXCEPT ![n] = RemoveEdgeRef(g.reverse[n], x)] \in [Nodes -> Seq(Refs)]
      BY <1>2, <1>3, <3>1
    <3>5. [g.meta EXCEPT ![x] = NoEnds] \in [EdgeIds -> Ends \cup {NoEnds}]
      BY <1>3
    <3> QED BY <3>2, <3>3, <3>4, <3>5, <1>3 DEF Adjacency
  <2> QED BY <2>1, <2>2
<1> DEFINE m == e.from
           n == e.to
<1>5. h = [d EXCEPT !.meta = [d.meta EXCEPT ![x] = [from |-> m, to |-> n]],
                    !.forward = [d.forward EXCEPT ![m] = Append(d.forward[m], Ref(x, n, e.label))],
                    !.reverse = [d.reverse EXCEPT ![n] = Append(d.reverse[n], Ref(x, m, e.label))]]
  <2> HIDE DEF d
  <2> QED BY <1>4 DEF Added, d, Adjacency
<1> HIDE DEF d, h
<1>6. d.forward \in [Nodes -> Seq(Refs)] /\ d.reverse \in [Nodes -> Seq(Refs)]
      /\ d.meta \in [EdgeIds -> Ends \cup {NoEnds}]
  BY <1>4 DEF Adjacency
<1>7. [d.forward EXCEPT ![m] = Append(d.forward[m], Ref(x, n, e.label))] \in [Nodes -> Seq(Refs)]
      /\ [d.reverse EXCEPT ![n] = Append(d.reverse[n], Ref(x, m, e.label))] \in [Nodes -> Seq(Refs)]
  <2>1. Append(d.forward[m], Ref(x, n, e.label)) \in Seq(Refs) /\ Append(d.reverse[n], Ref(x, m, e.label)) \in Seq(Refs)
    BY <1>1, <1>6
  <2> QED BY <2>1, <1>6
<1>8. [d.meta EXCEPT ![x] = [from |-> m, to |-> n]] \in [EdgeIds -> Ends \cup {NoEnds}]
  BY <1>1, <1>6
<1>9. h \in Adjacency
  BY <1>4, <1>5, <1>7, <1>8 DEF Adjacency
<1> QED BY <1>9 DEF h, x

\* Loaded adds one edge after the other.
LEMMA LoadedSteps ==
  ASSUME NEW list \in Seq(EdgeEntries)
  PROVE  \E it \in [0 .. Len(list) -> Adjacency] :
           /\ it[0] = NoGraph
           /\ \A k \in 1 .. Len(list) : it[k] = Added(it[k - 1], list[k].edge, list[k].from, list[k].to, list[k].label)
           /\ Loaded(list) = it[Len(list)]
<1> DEFINE n == Len(list)
           D == DOMAIN list
           Solves(g) == g = [s \in SUBSET D |->
                               IF s = {} THEN NoGraph
                               ELSE Added(g[s \ {Max(s)}], list[Max(s)].edge, list[Max(s)].from, list[Max(s)].to,
                                          list[Max(s)].label)]
           h == CHOOSE g : Solves(g)
           step == [k \in 1 .. n |->
                      [g \in Adjacency |-> Added(g, list[k].edge, list[k].from, list[k].to, list[k].label)]]
<1>1. Loaded(list) = h[D]
  BY DEF Loaded, FoldLeft, MapThenFoldSet
<1>2. n \in Nat /\ D = 1 .. n /\ \A k \in 1 .. n : list[k] \in EdgeEntries
  OBVIOUS
<1> HIDE DEF D, n
<1>3. step \in [1 .. n -> [Adjacency -> Adjacency]]
  BY <1>2, AddedType
<1>4. ASSUME NEW k \in 1 .. n, NEW g \in Adjacency
      PROVE  step[k][g] = Added(g, list[k].edge, list[k].from, list[k].to, list[k].label)
  BY <1>2
<1> HIDE DEF step
<1>5. PICK g \in [SUBSET (1 .. n) -> Adjacency] : Folds(g, n, NoGraph, step)
  BY <1>2, <1>3, NoGraphType, FoldExists
<1>6. Solves(g)
  <2>1. ASSUME NEW s \in SUBSET (1 .. n)
        PROVE  g[s] = IF s = {} THEN NoGraph
                      ELSE Added(g[s \ {Max(s)}], list[Max(s)].edge, list[Max(s)].from, list[Max(s)].to,
                                 list[Max(s)].label)
    <3>1. CASE s = {}
      BY <1>5, <3>1 DEF Folds
    <3>2. CASE s # {}
      <4>1. Max(s) \in 1 .. n
        BY <1>2, <3>2, Greatest
      <4>2. g[s] = step[Max(s)][g[s \ {Max(s)}]] /\ g[s \ {Max(s)}] \in Adjacency
        BY <1>5, <3>2 DEF Folds
      <4> QED BY <4>1, <4>2, <1>4, <3>2
    <3> QED BY <3>1, <3>2
  <2> QED BY <2>1, <1>2
<1>7. Solves(h)
  BY <1>6
<1> HIDE DEF h
<1>8. h[{}] = NoGraph
  BY <1>7
<1>9. ASSUME NEW k \in 1 .. n, h[1 .. k - 1] \in Adjacency
      PROVE  h[1 .. k] = step[k][h[1 .. k - 1]]
  <2>1. 1 .. k \in SUBSET D /\ 1 .. k # {} /\ Max(1 .. k) = k /\ (1 .. k) \ {k} = 1 .. k - 1
    BY <1>2, LastOf
  <2>2. h[1 .. k] = Added(h[(1 .. k) \ {Max(1 .. k)}], list[Max(1 .. k)].edge, list[Max(1 .. k)].from,
                          list[Max(1 .. k)].to, list[Max(1 .. k)].label)
    BY <1>7, <2>1
  <2>3. h[1 .. k] = Added(h[1 .. k - 1], list[k].edge, list[k].from, list[k].to, list[k].label)
    BY <2>1, <2>2, Zenon
  <2> QED BY <2>3, <1>4, <1>9, Zenon
<1> HIDE DEF Solves
<1>10. PICK it \in [0 .. n -> Adjacency] : Steps(it, n, NoGraph, step) /\ it[n] = h[1 .. n]
  <2>1. Follows(h, Adjacency, n, step) /\ n \in Nat
    BY <1>2, <1>9 DEF Follows
  <2>2. Stepped(Adjacency, n, NoGraph, step, h)
    BY <2>1, <1>3, <1>8, NoGraphType, FoldSteps
  <2> QED BY <2>2 DEF Stepped
<1>11. ASSUME NEW k \in 1 .. n PROVE it[k] = Added(it[k - 1], list[k].edge, list[k].from, list[k].to, list[k].label)
  <2>1. k - 1 \in 0 .. n
    BY <1>2
  <2>2. it[k] = step[k][it[k - 1]] /\ it[k - 1] \in Adjacency
    BY <2>1, <1>10, Zenon DEF Steps
  <2> QED BY <2>2, <1>4, Zenon
<1>12. it[0] = NoGraph /\ Loaded(list) = it[n]
  BY <1>1, <1>2, <1>10 DEF Steps
<1> QED BY <1>11, <1>12 DEF n

\* A graph that is loaded from a list mirrors the edges in it.
LEMMA LoadedMirrors ==
  ASSUME NEW list \in Seq(EdgeEntries), Keyed({list[k] : k \in DOMAIN list}),
         \A k, l \in DOMAIN list : list[k] = list[l] => k = l
  PROVE  Mirrors(Loaded(list), StoredIn({list[k] : k \in DOMAIN list}))
<1> DEFINE n == Len(list)
           Had(k) == {list[m] : m \in 1 .. k}
<1>1. n \in Nat /\ DOMAIN list = 1 .. n /\ \A k \in 1 .. n : list[k] \in EdgeEntries
  OBVIOUS
<1>2. PICK it \in [0 .. n -> Adjacency] :
        /\ it[0] = NoGraph
        /\ \A k \in 1 .. n : it[k] = Added(it[k - 1], list[k].edge, list[k].from, list[k].to, list[k].label)
        /\ Loaded(list) = it[n]
  BY LoadedSteps
<1> HIDE DEF n
<1>3. ASSUME NEW k \in 0 .. n PROVE Had(k) \in SUBSET EdgeEntries /\ Keyed(Had(k))
  <2>1. 1 .. k \subseteq 1 .. n
    BY <1>1
  <2> QED BY <1>1, <2>1 DEF Keyed
<1> DEFINE K == {k \in 0 .. n : Mirrors(it[k], StoredIn(Had(k)))}
<1>4. 0 \in K
  <2>1. Had(0) = {} /\ 0 \in 0 .. n
    BY <1>1
  <2>2. StoredIn({}) = [x \in EdgeIds |-> None]
    BY DEF StoredIn
  <2> HIDE DEF Had
  <2> QED BY <2>1, <2>2, <1>2, NoGraphMirrors
<1>5. ASSUME NEW k \in 1 .. n, k - 1 \in K PROVE k \in K
  <2> DEFINE e == list[k]
             r == [from |-> e.from, to |-> e.to, label |-> e.label]
             es == StoredIn(Had(k - 1))
             fs == StoredIn(Had(k))
  <2>1. k \in 0 .. n /\ k - 1 \in 0 .. n /\ Had(k) = Had(k - 1) \cup {e} /\ e \in EdgeEntries
    <3>1. 1 .. k = (1 .. k - 1) \cup {k}
      BY <1>1
    <3> QED BY <3>1, <1>1
  <2>2. Mirrors(it[k - 1], es)
    BY <1>5
  <2>3. \A d \in Had(k - 1) : d.edge # e.edge
    <3>1. ASSUME NEW m \in 1 .. k - 1 PROVE list[m].edge # e.edge
      <4>1. m \in DOMAIN list /\ k \in DOMAIN list /\ m # k
        BY <1>1
      <4>2. list[m] # list[k]
        BY <4>1
      <4>3. list[m] \in {list[l] : l \in DOMAIN list} /\ list[k] \in {list[l] : l \in DOMAIN list}
        BY <4>1
      <4> QED BY <4>2, <4>3 DEF Keyed
    <3> QED BY <3>1
  <2>4. Had(k - 1) \in SUBSET EdgeEntries /\ Keyed(Had(k - 1)) /\ Had(k) \in SUBSET EdgeEntries /\ Keyed(Had(k))
    BY <2>1, <1>3
  <2> HIDE DEF Had, K
  <2>5. es \in EdgeTables /\ fs \in EdgeTables
    BY <2>4, StoredValues
  <2>6. r \in EdgeRecords /\ r.from = e.from /\ r.to = e.to /\ r.label = e.label /\ e.edge \in EdgeIds
    BY <2>1 DEF EdgeEntries, EdgeRecords
  <2>7. fs = [es EXCEPT ![e.edge] = r]
    <3>1. fs[e.edge] = r
      BY <2>1, <2>4, StoredValues
    <3>2. ASSUME NEW x \in EdgeIds, x # e.edge PROVE fs[x] = es[x]
      <4>1. CASE \E d \in Had(k - 1) : d.edge = x
        <5>1. PICK d \in Had(k - 1) : d.edge = x
          BY <4>1
        <5>2. d \in Had(k)
          BY <2>1
        <5>3. fs[d.edge] = [from |-> d.from, to |-> d.to, label |-> d.label]
          BY <5>2, <2>4, StoredValues
        <5>4. es[d.edge] = [from |-> d.from, to |-> d.to, label |-> d.label]
          BY <2>4, StoredValues
        <5> QED BY <5>1, <5>3, <5>4
      <4>2. CASE \A d \in Had(k - 1) : d.edge # x
        <5>1. \A d \in Had(k) : d.edge # x
          BY <4>2, <3>2, <2>1
        <5>2. fs[x] = None
          BY <5>1, <2>4, StoredValues
        <5>3. es[x] = None
          BY <4>2, <2>4, StoredValues
        <5> QED BY <5>2, <5>3
      <4> QED BY <4>1, <4>2
    <3> HIDE DEF fs, es
    <3> QED BY <3>1, <3>2, <2>5 DEF EdgeTables
  <2> HIDE DEF fs, es, r
  <2>8. Mirrors(Added(it[k - 1], e.edge, r.from, r.to, r.label), [es EXCEPT ![e.edge] = r])
    BY <2>2, <2>5, <2>6, AddedMirrors
  <2>9. Mirrors(it[k], fs)
    BY <2>6, <2>7, <2>8, <1>2
  <2> QED BY <2>1, <2>9 DEF K, fs
<1> HIDE DEF K, Had
<1>6. 0 .. n \subseteq K
  BY <1>1, <1>4, <1>5, UpTo
<1>7. Mirrors(it[n], StoredIn(Had(n)))
  BY <1>1, <1>6 DEF K
<1> QED BY <1>1, <1>2, <1>7 DEF Had

\* The edges in es, each with its identifier.
EntriesOf(es) ==
  {[edge |-> x, from |-> es[x].from, to |-> es[x].to, label |-> es[x].label] :
     x \in {y \in EdgeIds : es[y] # None}}

\* They are an entry for each edge, and nothing else.
LEMMA EntriesStored ==
  ASSUME NEW es \in EdgeTables
  PROVE  EntriesOf(es) \in SUBSET EdgeEntries /\ Keyed(EntriesOf(es)) /\ StoredIn(EntriesOf(es)) = es
<1> DEFINE D == EntriesOf(es)
           Entry(x) == [edge |-> x, from |-> es[x].from, to |-> es[x].to, label |-> es[x].label]
<1>1. \A x \in EdgeIds : es[x] # None => Entry(x) \in EdgeEntries /\ Entry(x).edge = x
  BY EdgeTypes DEF EdgeEntries
<1>2. \A e \in D : e.edge \in EdgeIds /\ es[e.edge] # None /\ e = Entry(e.edge)
  BY DEF EntriesOf
<1>3. D \in SUBSET EdgeEntries /\ Keyed(D)
  BY <1>1, <1>2 DEF Keyed
<1>4. ASSUME NEW x \in EdgeIds PROVE StoredIn(D)[x] = es[x]
  <2>1. CASE es[x] # None
    <3>1. Entry(x) \in D /\ Entry(x).edge = x
      BY <2>1 DEF EntriesOf
    <3>2. StoredIn(D)[x] = [from |-> es[x].from, to |-> es[x].to, label |-> es[x].label]
      BY <3>1, <1>3, StoredValues
    <3>3. es[x] \in EdgeRecords
      BY <2>1 DEF EdgeTables
    <3> QED BY <3>2, <3>3 DEF EdgeRecords
  <2>2. CASE es[x] = None
    <3>1. \A e \in D : e.edge # x
      BY <2>2, <1>2
    <3> HIDE DEF D
    <3>2. StoredIn(D)[x] = None
      BY <3>1, <1>3, StoredValues
    <3> QED BY <3>2, <2>2
  <2> QED BY <2>1, <2>2
<1>5. StoredIn(D) \in EdgeTables
  BY <1>3, StoredValues
<1> HIDE DEF D
<1>6. StoredIn(D) = es
  BY <1>4, <1>5 DEF EdgeTables
<1> QED BY <1>3, <1>6 DEF D

\* InOrder lists the edges of a set by their identifiers, each once.
LEMMA InOrderLists ==
  ASSUME NEW D \in SUBSET EdgeEntries, Keyed(D)
  PROVE  /\ InOrder(D) \in Seq(EdgeEntries)
         /\ {InOrder(D)[k] : k \in DOMAIN InOrder(D)} = D
         /\ \A k, l \in DOMAIN InOrder(D) : InOrder(D)[k] = InOrder(D)[l] => k = l
<1> DEFINE R == {pq \in D \X D : pq[1].edge < pq[2].edge}
           list == InOrder(D)
<1>1. \A e \in D : e.edge \in EdgeIds /\ e.edge \in Nat
  BY SearchAssumption DEF EdgeEntries
<1>2. IsFiniteSet(D)
  <2> DEFINE f == [e \in D |-> e.edge]
  <2>1. f \in Injection(D, EdgeIds)
    BY <1>1 DEF Injection, IsInjective, Keyed
  <2>2. IsFiniteSet(EdgeIds)
    BY SearchAssumption
  <2> HIDE DEF f
  <2> QED BY <2>1, <2>2, FS_Injection
<1>3. Orders(R, D)
  <2>1. \A p, q \in D : <<p, q>> \in R <=> p.edge < q.edge
    BY DEF R
  <2> HIDE DEF R
  <2> QED BY <2>1, <1>1 DEF Orders, Keyed
<1>4. list = Sorted(D, R)
  BY DEF InOrder, Ranked
<1> HIDE DEF R, list
<1>5. Arranges(list, D, R)
  BY <1>2, <1>3, <1>4, SortedArranges
<1>6. list \in Seq(D) /\ D = {list[k] : k \in DOMAIN list} /\ \A k, l \in DOMAIN list : list[k] = list[l] => k = l
  BY <1>2, <1>3, <1>5, ArrangedList
<1>7. list \in Seq(EdgeEntries)
  BY <1>6
<1> QED BY <1>6, <1>7 DEF list

\* A graph that is loaded from the list of a set of edges mirrors them.
LEMMA OrderedMirrors ==
  ASSUME NEW D \in SUBSET EdgeEntries, Keyed(D)
  PROVE  Mirrors(Loaded(InOrder(D)), StoredIn(D))
<1> DEFINE list == InOrder(D)
<1>1. list \in Seq(EdgeEntries) /\ {list[k] : k \in DOMAIN list} = D
      /\ \A k, l \in DOMAIN list : list[k] = list[l] => k = l
  BY InOrderLists
<1> HIDE DEF list
<1>2. Mirrors(Loaded(list), StoredIn({list[k] : k \in DOMAIN list}))
  BY <1>1, LoadedMirrors
<1> QED BY <1>1, <1>2 DEF list

\* A mirror finds the label of each edge, and so encodes the edges that are stored.
LEMMA EncodedEdges ==
  ASSUME NEW g, NEW es \in EdgeTables, Mirrors(g, es)
  PROVE  AllEdges(g) = EntriesOf(es)
<1>1. ASSUME NEW x \in EdgeIds, es[x] # None
      PROVE  g.meta[x] # NoEnds /\ g.meta[x].from = es[x].from /\ g.meta[x].to = es[x].to
             /\ FindLabel(g, x) = es[x].label
  <2> DEFINE refs == g.forward[es[x].from]
             I == {i \in 1 .. Len(refs) : refs[i].edge = x}
             r == Ref(x, es[x].to, es[x].label)
  <2>1. g.meta[x] = [from |-> es[x].from, to |-> es[x].to] /\ g.meta[x] # NoEnds
    BY <1>1, EdgeTypes DEF Mirrors
  <2>2. g.meta[x].from = es[x].from /\ g.meta[x].to = es[x].to
    BY <2>1
  <2>3. ListsRefs(refs, Out(es, es[x].from))
    BY <1>1, EdgeTypes DEF Mirrors
  <2>4. r \in Out(es, es[x].from) /\ r.edge = x /\ r.label = es[x].label
    BY <1>1 DEF Out, Ref
  <2> HIDE DEF r, refs
  <2>5. PICK k \in DOMAIN refs : refs[k] = r
    BY <2>3, <2>4 DEF ListsRefs
  <2>6. DOMAIN refs = 1 .. Len(refs) /\ Len(refs) \in Nat
    BY <2>3 DEF ListsRefs
  <2>7. I = {k}
    <3>1. k \in I
      BY <2>4, <2>5, <2>6
    <3>2. \A i \in I : i = k
      BY <2>4, <2>5, <2>6, <2>3 DEF ListsRefs
    <3> QED BY <3>1, <3>2
  <2>8. Min({k}) = k /\ k # 0
    <3>1. k \in Nat /\ k # 0
      BY <2>6
    <3>2. Min({k}) \in {k}
      BY <3>1, Least
    <3> QED BY <3>1, <3>2
  <2>9. FindLabel(g, x) = LET i == IF I # {} THEN Min(I) ELSE 0 IN IF i = 0 THEN NoLabel ELSE refs[i].label
    BY <2>2 DEF FindLabel, SelectInSeq, refs
  <2> QED BY <2>1, <2>2, <2>4, <2>5, <2>7, <2>8, <2>9
<1>2. ASSUME NEW x \in EdgeIds, es[x] = None PROVE g.meta[x] = NoEnds
  BY <1>2 DEF Mirrors
<1>3. {y \in EdgeIds : g.meta[y] # NoEnds} = {y \in EdgeIds : es[y] # None}
  BY <1>1, <1>2
<1> QED BY <1>1, <1>3 DEF AllEdges, EntriesOf

\* A snapshot of the graph reads as a mirror of the same edges.
LEMMA EncodedMirrors ==
  ASSUME NEW g, NEW es \in EdgeTables, Mirrors(g, es)
  PROVE  Mirrors(Loaded(Encoded(g)), es)
<1>1. Encoded(g) = InOrder(EntriesOf(es))
  BY EncodedEdges DEF Encoded
<1>2. Mirrors(Loaded(InOrder(EntriesOf(es))), StoredIn(EntriesOf(es)))
  BY EntriesStored, OrderedMirrors
<1> QED BY <1>1, <1>2, EntriesStored

-----------------------------------------------------------------------------
(* The invariant. *)

\* The identifiers of stored entries and edges have been handed out.
Handed ==
  /\ used \in SUBSET (({"entry"} \X Ids) \cup ({"edge"} \X EdgeIds))
  /\ \A i \in Live : <<"entry", i>> \in used
  /\ \A x \in LiveEdges : <<"edge", x>> \in used
\* The tables have their types, and texts are known of contents only.
StoredTypes ==
  /\ DocsType /\ known \in SUBSET {e.content : e \in Entries}
  /\ edges \in EdgeTables
\* The adjacency keys are those of the stored edges.
KeysStored ==
  /\ fromKeys = {<<edges[x].from, x>> : x \in LiveEdges}
  /\ toKeys = {<<edges[x].to, x>> : x \in LiveEdges}
\* Each index is the one of what is stored.
IndexesFresh ==
  /\ ft = IndexOf(TextsIn(Live))
  /\ attrs = AttributesIn(Live)
  /\ Mirrors(graph, edges)
\* The inductive invariant: every index is the one its own operations would build
\* from what is stored, in whatever order entries and edges came and went.
IndexInv == StoredTypes /\ Handed /\ KeysStored /\ IndexesFresh

\* The indexes are fresh at the start.
LEMMA InitInv ==
  ASSUME Init PROVE IndexInv
<1>1. PICK D \in Databases :
        /\ edges = [x \in EdgeIds |->
                      IF x \in {e.edge : e \in D}
                        THEN [from |-> (CHOOSE e \in D : e.edge = x).from,
                              to |-> (CHOOSE e \in D : e.edge = x).to,
                              label |-> (CHOOSE e \in D : e.edge = x).label]
                        ELSE None]
        /\ fromKeys = {<<e.from, e.edge>> : e \in D} /\ toKeys = {<<e.to, e.edge>> : e \in D}
        /\ graph = Loaded(InOrder(D))
        /\ used = {"edge"} \X {e.edge : e \in D}
  BY DEF Init
<1>2. D \in SUBSET EdgeEntries /\ Keyed(D)
  BY SearchAssumption DEF EdgeEntries, Keyed
<1>3. edges = StoredIn(D)
  <2>1. \A x \in EdgeIds : x \in {e.edge : e \in D} <=> \E e \in D : e.edge = x
    OBVIOUS
  <2> QED BY <1>1, <2>1 DEF StoredIn
<1>4. /\ edges \in EdgeTables
      /\ \A e \in D : edges[e.edge] = [from |-> e.from, to |-> e.to, label |-> e.label]
      /\ \A x \in EdgeIds : edges[x] = None <=> \A e \in D : e.edge # x
  BY <1>2, <1>3, StoredValues
<1>5. LiveEdges = {e.edge : e \in D}
  BY <1>2, <1>4 DEF LiveEdges, EdgeEntries
<1>6. docs = [i \in Ids |-> None] /\ known = {} /\ ft = NoText /\ attrs = NoAttributes
  BY DEF Init
<1>7. Live = {}
  BY <1>6 DEF Live
<1>8. StoredTypes
  BY <1>4, <1>6 DEF StoredTypes, DocsType
<1>9. Handed
  BY <1>1, <1>2, <1>5, <1>7 DEF Handed, EdgeEntries
<1>10. KeysStored
  <2>1. ASSUME NEW e \in D PROVE edges[e.edge].from = e.from /\ edges[e.edge].to = e.to
    <3>1. edges[e.edge] = [from |-> e.from, to |-> e.to, label |-> e.label]
      BY <1>4
    <3> QED BY <3>1
  <2>2. {<<edges[x].from, x>> : x \in LiveEdges} = {<<e.from, e.edge>> : e \in D}
    BY <2>1, <1>5
  <2>3. {<<edges[x].to, x>> : x \in LiveEdges} = {<<e.to, e.edge>> : e \in D}
    BY <2>1, <1>5
  <2> QED BY <2>2, <2>3, <1>1 DEF KeysStored
<1>11. IndexesFresh
  <2>1. TextsIn(Live) = [p \in Parts |-> <<>>]
    BY <1>7 DEF TextsIn
  <2>2. Mirrors(graph, edges)
    BY <1>1, <1>2, <1>3, OrderedMirrors
  <2> QED BY <2>1, <2>2, <1>6, <1>7, NoTextIndex, NoAttributeIndex DEF IndexesFresh
<1> QED BY <1>8, <1>9, <1>10, <1>11 DEF IndexInv

\* Put adds the texts and attributes of an entry whose identifier is new.
LEMMA PutInv ==
  ASSUME IndexInv, NEW i \in Ids, NEW e \in Entries, Put(i, e)
  PROVE  IndexInv'
<1> USE DEF IndexInv, StoredTypes, Handed, KeysStored, IndexesFresh
<1>1. /\ docs' = [docs EXCEPT ![i] = e] /\ known' = known \cup {e.content}
      /\ ft' = Indexed(ft, i, e.content) /\ attrs' = SetEntry(attrs, i, e.attributes)
      /\ UNCHANGED <<edges, fromKeys, toKeys, graph>>
      /\ <<"entry", i>> \notin used /\ used' = used \cup {<<"entry", i>>}
  BY DEF Put, Take, edgeVars
<1>2. e # None
  BY SearchAssumption
<1>3. DocsType /\ i \notin Live
  BY <1>1
<1>4. /\ \A j \in Ids : docs'[j] = IF j = i THEN e ELSE docs[j]
      /\ Live' = Live \cup {i} /\ LiveEdges' = LiveEdges
  BY <1>1, <1>2, <1>3 DEF DocsType, Live, LiveEdges
<1>5. StoredTypes' /\ Handed' /\ KeysStored'
  BY <1>1, <1>3, <1>4 DEF DocsType
<1>6. ft' = IndexOf(TextsIn(Live)')
  <2> DEFINE T == TextsIn(Live)
             c == e.content
  <2>1. T \in [Parts -> Seq(Terms)]
    BY <1>3, TextsInType
  <2>2. \A p \in Parts : p[1] = i => T[p] = <<>>
    BY <1>3 DEF TextsIn
  <2>3. Texts[c] \in Seq(Seq(Terms)) /\ Len(Texts[c]) <= MaxChunks + 1
    BY EntryTexts
  <2> HIDE DEF T
  <2>4. ft' = IndexOf([p \in Parts |-> IF p[1] = i /\ p[2] < Len(Texts[c]) THEN Texts[c][p[2] + 1] ELSE T[p]])
    <3>1. ft = IndexOf(T) /\ ft' = Indexed(ft, i, c)
      BY <1>1 DEF T
    <3>2. Indexed(IndexOf(T), i, c) =
            IndexOf([p \in Parts |-> IF p[1] = i /\ p[2] < Len(Texts[c]) THEN Texts[c][p[2] + 1] ELSE T[p]])
      BY <2>1, <2>3, IndexedTexts
    <3> QED BY <3>1, <3>2
  <2>5. ASSUME NEW p \in Parts
        PROVE  (IF p[1] = i /\ p[2] < Len(Texts[c]) THEN Texts[c][p[2] + 1] ELSE T[p]) = TextsIn(Live)'[p]
    <3>1. p[1] \in Ids
      BY DEF Parts
    <3>2. TextsIn(Live)'[p] = IF p[1] \in Live' /\ p[2] < Len(Texts[docs'[p[1]].content])
                                THEN Texts[docs'[p[1]].content][p[2] + 1] ELSE <<>>
      BY DEF TextsIn
    <3>3. CASE p[1] = i
      BY <3>1, <3>2, <3>3, <2>2, <1>4
    <3>4. CASE p[1] # i
      <4>1. T[p] = IF p[1] \in Live /\ p[2] < Len(Texts[docs[p[1]].content])
                     THEN Texts[docs[p[1]].content][p[2] + 1] ELSE <<>>
        BY DEF T, TextsIn
      <4> QED BY <3>1, <3>2, <3>4, <4>1, <1>4
    <3> QED BY <3>3, <3>4
  <2>6. TextsIn(Live)' = [p \in Parts |-> TextsIn(Live)'[p]]
    BY DEF TextsIn
  <2> QED BY <2>4, <2>5, <2>6
<1>7. attrs' = AttributesIn(Live)'
  BY <1>1, <1>3, <1>4 DEF AttributesIn, SetEntry, RemoveEntry, Live
<1>8. Mirrors(graph, edges)'
  BY <1>1
<1> QED BY <1>5, <1>6, <1>7, <1>8

\* Delete takes the texts and attributes of an entry out again.
LEMMA DeleteInv ==
  ASSUME IndexInv, NEW i \in Ids, Delete(i)
  PROVE  IndexInv'
<1> USE DEF IndexInv, StoredTypes, Handed, KeysStored, IndexesFresh
<1>1. /\ docs' = [docs EXCEPT ![i] = None]
      /\ ft' = Unindexed(ft, i) /\ attrs' = RemoveEntry(attrs, i)
      /\ UNCHANGED <<known, edges, fromKeys, toKeys, graph, used>>
  BY DEF Delete, edgeVars
<1>2. DocsType
  OBVIOUS
<1>3. /\ \A j \in Ids : docs'[j] = IF j = i THEN None ELSE docs[j]
      /\ Live' = Live \ {i} /\ LiveEdges' = LiveEdges
  BY <1>1, <1>2 DEF DocsType, Live, LiveEdges
<1>4. StoredTypes' /\ Handed' /\ KeysStored'
  BY <1>1, <1>2, <1>3 DEF DocsType
<1>5. ft' = IndexOf(TextsIn(Live)')
  <2> DEFINE T == TextsIn(Live)
  <2>1. T \in [Parts -> Seq(Terms)]
    BY <1>2, TextsInType
  <2> HIDE DEF T
  <2>2. ft' = IndexOf([p \in Parts |-> IF p[1] = i THEN <<>> ELSE T[p]])
    BY <2>1, <1>1, UnindexedTexts DEF T
  <2>3. ASSUME NEW p \in Parts PROVE (IF p[1] = i THEN <<>> ELSE T[p]) = TextsIn(Live)'[p]
    <3>1. p[1] \in Ids
      BY DEF Parts
    <3>2. TextsIn(Live)'[p] = IF p[1] \in Live' /\ p[2] < Len(Texts[docs'[p[1]].content])
                                THEN Texts[docs'[p[1]].content][p[2] + 1] ELSE <<>>
      BY DEF TextsIn
    <3>3. T[p] = IF p[1] \in Live /\ p[2] < Len(Texts[docs[p[1]].content])
                   THEN Texts[docs[p[1]].content][p[2] + 1] ELSE <<>>
      BY DEF T, TextsIn
    <3> QED BY <3>1, <3>2, <3>3, <1>3
  <2>4. TextsIn(Live)' = [p \in Parts |-> TextsIn(Live)'[p]]
    BY DEF TextsIn
  <2> QED BY <2>2, <2>3, <2>4
<1>6. attrs' = AttributesIn(Live)'
  BY <1>1, <1>2, <1>3 DEF AttributesIn, RemoveEntry, Live
<1>7. Mirrors(graph, edges)'
  BY <1>1
<1> QED BY <1>4, <1>5, <1>6, <1>7

\* PutEdge stores an edge whose identifier is new, with its keys and references.
LEMMA PutEdgeInv ==
  ASSUME IndexInv, NEW x \in NewEdgeIds, NEW e \in Drawn, PutEdge(x, e)
  PROVE  IndexInv'
<1> USE DEF IndexInv, StoredTypes, Handed, KeysStored, IndexesFresh
<1>1. /\ edges' = [edges EXCEPT ![x] = e]
      /\ fromKeys' = fromKeys \cup {<<e.from, x>>} /\ toKeys' = toKeys \cup {<<e.to, x>>}
      /\ graph' = Added(graph, x, e.from, e.to, e.label)
      /\ UNCHANGED <<docs, known, ft, attrs>>
      /\ <<"edge", x>> \notin used /\ used' = used \cup {<<"edge", x>>}
  BY DEF PutEdge, Take, entryVars
<1>2. x \in EdgeIds /\ e \in EdgeRecords /\ e # None
  BY SearchAssumption DEF EdgeRecords
<1>3. edges \in EdgeTables /\ x \notin LiveEdges
  BY <1>1
<1>4. /\ edges' \in EdgeTables
      /\ \A y \in EdgeIds : edges'[y] = IF y = x THEN e ELSE edges[y]
      /\ LiveEdges' = LiveEdges \cup {x} /\ Live' = Live
  BY <1>1, <1>2, <1>3 DEF EdgeTables, Live, LiveEdges
<1>5. StoredTypes' /\ Handed'
  BY <1>1, <1>2, <1>4 DEF DocsType
<1>6. KeysStored'
  <2>1. \A y \in LiveEdges : y \in EdgeIds /\ y # x
    BY <1>3 DEF LiveEdges
  <2> QED BY <2>1, <1>1, <1>2, <1>4
<1>7. Mirrors(graph', edges')
  BY <1>1, <1>2, <1>3, AddedMirrors
<1>8. TextsIn(Live)' = TextsIn(Live) /\ AttributesIn(Live)' = AttributesIn(Live)
  BY <1>1, <1>4 DEF TextsIn, AttributesIn
<1> QED BY <1>1, <1>5, <1>6, <1>7, <1>8

\* DeleteEdge removes an edge with its keys and references.
LEMMA DeleteEdgeInv ==
  ASSUME IndexInv, NEW x \in EdgeIds, DeleteEdge(x)
  PROVE  IndexInv'
<1> USE DEF IndexInv, StoredTypes, Handed, KeysStored, IndexesFresh
<1>1. /\ x \in LiveEdges /\ edges' = [edges EXCEPT ![x] = None]
      /\ fromKeys' = fromKeys \ {<<edges[x].from, x>>}
      /\ toKeys' = toKeys \ {<<edges[x].to, x>>}
      /\ graph' = Removed(graph, x)
      /\ UNCHANGED <<docs, known, ft, attrs, used>>
  BY DEF DeleteEdge, entryVars
<1>2. edges \in EdgeTables
  OBVIOUS
<1>3. /\ edges' \in EdgeTables
      /\ \A y \in EdgeIds : edges'[y] = IF y = x THEN None ELSE edges[y]
      /\ LiveEdges' = LiveEdges \ {x} /\ Live' = Live
  BY <1>1, <1>2 DEF EdgeTables, Live, LiveEdges
<1>4. StoredTypes' /\ Handed'
  BY <1>1, <1>3 DEF DocsType
<1>5. KeysStored'
  <2>1. \A y \in LiveEdges : y \in EdgeIds
    BY DEF LiveEdges
  <2> QED BY <2>1, <1>1, <1>3
<1>6. Mirrors(graph', edges')
  BY <1>1, <1>2, RemovedMirrors
<1>7. TextsIn(Live)' = TextsIn(Live) /\ AttributesIn(Live)' = AttributesIn(Live)
  BY <1>1, <1>3 DEF TextsIn, AttributesIn
<1> QED BY <1>1, <1>4, <1>5, <1>6, <1>7

\* A start from trusted snapshots.
LEMMA LoadInv ==
  ASSUME IndexInv, LoadSnapshots
  PROVE  IndexInv'
<1> USE DEF IndexInv, StoredTypes, Handed, KeysStored, IndexesFresh
<1>1. /\ ft' = LoadedText(EncodedText(ft))
      /\ attrs' = LoadedAttributes(EncodedAttributes(attrs))
      /\ graph' = Loaded(Encoded(graph))
      /\ UNCHANGED <<docs, known, edges, fromKeys, toKeys, used>>
  BY DEF LoadSnapshots
<1>2. Live' = Live /\ LiveEdges' = LiveEdges
  BY <1>1 DEF Live, LiveEdges
<1>3. TextsIn(Live)' = TextsIn(Live) /\ AttributesIn(Live)' = AttributesIn(Live)
  BY <1>1, <1>2 DEF TextsIn, AttributesIn
<1>4. ft' = ft
  BY <1>1, TextsInType, LoadedIndex
<1>5. attrs' = attrs
  <2>1. attrs \in AttributeIndexes
    BY DEF AttributeIndexes, AttributesIn, Live
  <2> QED BY <2>1, <1>1, LoadedAttributeIndex
<1>6. Mirrors(graph', edges')
  BY <1>1, EncodedMirrors
<1> QED BY <1>1, <1>2, <1>3, <1>4, <1>5, <1>6 DEF DocsType

\* The list of the stored entries in the order of their identifiers.
LEMMA LiveList ==
  LET ids == Ranked(Live, LAMBDA i, j : i < j)
  IN ids \in Seq(Live) /\ {ids[m] : m \in DOMAIN ids} = Live
<1> DEFINE R == {pq \in Live \X Live : pq[1] < pq[2]}
           ids == Sorted(Live, R)
<1>1. IsFiniteSet(Live)
  BY PartsFinite, FS_Subset DEF Live
<1>2. \A i \in Live : i \in Nat
  BY SearchAssumption DEF Live
<1>3. Orders(R, Live)
  <2>1. \A i, j \in Live : <<i, j>> \in R <=> i < j
    BY DEF R
  <2> HIDE DEF R
  <2> QED BY <2>1, <1>2 DEF Orders
<1>4. Ranked(Live, LAMBDA i, j : i < j) = ids
  BY DEF Ranked
<1> HIDE DEF R, ids
<1>5. Arranges(ids, Live, R)
  BY <1>1, <1>3, SortedArranges DEF ids
<1>6. ids \in Seq(Live) /\ Live = {ids[k] : k \in DOMAIN ids}
  BY <1>1, <1>3, <1>5, ArrangedList
<1> QED BY <1>4, <1>6

\* A start without snapshots.
LEMMA RebuildInv ==
  ASSUME IndexInv, RebuildIndexes
  PROVE  IndexInv'
<1> USE DEF IndexInv, StoredTypes, Handed, KeysStored, IndexesFresh
<1> DEFINE ids == Ranked(Live, LAMBDA i, j : i < j)
<1>1. /\ ft' = TextsOf(ids) /\ attrs' = AttributesOf(ids)
      /\ graph' = Loaded(InOrder({[edge |-> x, from |-> edges[x].from, to |-> edges[x].to,
                                   label |-> edges[x].label] : x \in LiveEdges}))
      /\ UNCHANGED <<docs, known, edges, fromKeys, toKeys, used>>
  BY DEF RebuildIndexes
<1>2. Live' = Live /\ LiveEdges' = LiveEdges
  BY <1>1 DEF Live, LiveEdges
<1>3. TextsIn(Live)' = TextsIn(Live) /\ AttributesIn(Live)' = AttributesIn(Live)
  BY <1>1, <1>2 DEF TextsIn, AttributesIn
<1>4. ids \in Seq(Live) /\ {ids[m] : m \in DOMAIN ids} = Live
  BY LiveList
<1> HIDE DEF ids
<1>5. ft' = IndexOf(TextsIn(Live))
  BY <1>1, <1>4, RebuiltTexts
<1>6. attrs' = AttributesIn(Live)
  <2>1. ids \in Seq(Ids)
    BY <1>4 DEF Live
  <2> QED BY <2>1, <1>1, <1>4, RebuiltAttributes
<1>7. Mirrors(graph', edges')
  <2>1. graph' = Loaded(InOrder(EntriesOf(edges)))
    BY <1>1 DEF EntriesOf, LiveEdges
  <2>2. Mirrors(Loaded(InOrder(EntriesOf(edges))), StoredIn(EntriesOf(edges)))
    BY EntriesStored, OrderedMirrors
  <2> QED BY <2>1, <2>2, <1>1, EntriesStored
<1> QED BY <1>1, <1>2, <1>3, <1>5, <1>6, <1>7 DEF DocsType

\* Every step keeps the invariant.
LEMMA NextInv ==
  ASSUME IndexInv, [Next]_vars PROVE IndexInv'
<1>1. ASSUME NEW i \in Ids, NEW e \in Entries, Put(i, e) PROVE IndexInv'
  BY <1>1, PutInv
<1>2. ASSUME NEW i \in Ids, Delete(i) PROVE IndexInv'
  BY <1>2, DeleteInv
<1>3. ASSUME NEW x \in NewEdgeIds, NEW e \in Drawn, PutEdge(x, e) PROVE IndexInv'
  BY <1>3, PutEdgeInv
<1>4. ASSUME NEW x \in EdgeIds, DeleteEdge(x) PROVE IndexInv'
  BY <1>4, DeleteEdgeInv
<1>5. CASE LoadSnapshots
  BY <1>5, LoadInv
<1>6. CASE RebuildIndexes
  BY <1>6, RebuildInv
<1>7. CASE UNCHANGED vars
  <2>1. UNCHANGED <<docs, known, edges, fromKeys, toKeys, ft, attrs, graph, used>>
    BY <1>7 DEF vars, entryVars, edgeVars
  <2>2. UNCHANGED <<Live, LiveEdges>>
    BY <2>1 DEF Live, LiveEdges
  <2>3. TextsIn(Live)' = TextsIn(Live) /\ AttributesIn(Live)' = AttributesIn(Live)
    BY <2>1, <2>2 DEF TextsIn, AttributesIn
  <2> QED BY <2>1, <2>2, <2>3 DEF IndexInv, StoredTypes, DocsType, Handed, KeysStored, IndexesFresh
<1> QED BY <1>1, <1>2, <1>3, <1>4, <1>5, <1>6, <1>7 DEF Next

\* Whatever was put, deleted, saved and rebuilt: the identifiers, keys and indexes
\* are always those of the stored entries and edges.
THEOREM IndexInvariant == Spec => []IndexInv
<1>1. Init => IndexInv
  BY InitInv
<1>2. IndexInv /\ [Next]_vars => IndexInv'
  BY NextInv
<1> QED BY <1>1, <1>2, PTL DEF Spec

-----------------------------------------------------------------------------
(* What the indexes are good for. *)

\* An edge that is stored.
LEMMA LiveEdgeTypes ==
  ASSUME edges \in EdgeTables, NEW x \in LiveEdges
  PROVE  /\ x \in EdgeIds /\ edges[x] # None /\ edges[x].from \in Nodes /\ edges[x].to \in Nodes
         /\ edges[x].label \in Labels
BY EdgeTypes DEF LiveEdges

\* The counts in the full-text index are natural numbers.
LEMMA TextTypes ==
  ASSUME IndexInv
  PROVE  /\ TextsIn(Live) \in [Parts -> Seq(Terms)] /\ ft = IndexOf(TextsIn(Live))
         /\ ft \in TextIndexes /\ ft.N \in Nat
BY TextsInType, IndexType DEF IndexInv, StoredTypes, IndexesFresh

\* The types: of the stores, the keys, the three indexes and the identifiers.
THEOREM SearchTypes == Spec => []TypeOK
<1>1. IndexInv => TypeOK
  <2> SUFFICES ASSUME IndexInv PROVE TypeOK
    OBVIOUS
  <2>1. docs \in [Ids -> Entries \cup {None}] /\ known \in SUBSET {e.content : e \in Entries}
    BY DEF IndexInv, StoredTypes, DocsType
  <2>2. \A x \in EdgeIds : edges[x] = None \/ edges[x] \in [from : Nodes, to : Nodes, label : Labels]
    BY DEF IndexInv, StoredTypes, EdgeTables, EdgeRecords
  <2>3. fromKeys \in SUBSET (Nodes \X EdgeIds) /\ toKeys \in SUBSET (Nodes \X EdgeIds)
    BY LiveEdgeTypes DEF IndexInv, KeysStored, StoredTypes
  <2>4. \A p \in Parts : ft.dl[p] \in Nat /\ \A w \in Terms : ft.tf[w][p] \in Nat
    BY TextTypes DEF TextIndexes
  <2>5. attrs \in [Names -> [Values -> SUBSET Ids]]
    BY DEF IndexInv, IndexesFresh, AttributesIn, Live
  <2>6. \A n \in Nodes : ToSet(graph.forward[n]) \cup ToSet(graph.reverse[n]) \subseteq Refs
    <3>1. graph \in Adjacency
      BY DEF IndexInv, IndexesFresh, Mirrors
    <3>2. ASSUME NEW refs \in Seq(Refs) PROVE ToSet(refs) \subseteq Refs
      BY DEF ToSet
    <3> QED BY <3>1, <3>2 DEF Adjacency
  <2>7. graph.meta \in [EdgeIds -> Ends \cup {NoEnds}]
    BY DEF IndexInv, IndexesFresh, Mirrors, Adjacency
  <2>8. used \in SUBSET (({"entry"} \X Ids) \cup ({"edge"} \X EdgeIds))
    BY DEF IndexInv, Handed
  <2> QED BY <2>1, <2>2, <2>3, <2>4, <2>5, <2>6, <2>7, <2>8, TextTypes DEF TypeOK
<1> QED BY <1>1, IndexInvariant, PTL

\* ListEdgesFrom and ListEdgesTo list every edge of the node they are asked for, and
\* no other edge unless the name of another node begins with its name and a colon.
THEOREM EdgesListed == Spec => []ListsOwnEdges
<1>1. IndexInv => ListsOwnEdges
  <2> SUFFICES ASSUME IndexInv, NEW n \in Nodes
               PROVE  LET out == {x \in LiveEdges : edges[x].from = n}
                          in == {x \in LiveEdges : edges[x].to = n}
                      IN /\ out \subseteq ListEdgesFrom(n) /\ in \subseteq ListEdgesTo(n)
                         /\ (\A m \in Nodes : <<m, n>> \notin Beneath)
                              => ListEdgesFrom(n) = out /\ ListEdgesTo(n) = in
    BY DEF ListsOwnEdges
  <2>1. \A x \in LiveEdges : x \in EdgeIds /\ edges[x].from \in Nodes /\ edges[x].to \in Nodes
    BY LiveEdgeTypes DEF IndexInv, StoredTypes
  <2>2. ASSUME NEW x \in LiveEdges, NEW m
        PROVE  /\ <<m, x>> \in fromKeys <=> m = edges[x].from
               /\ <<m, x>> \in toKeys <=> m = edges[x].to
    BY DEF IndexInv, KeysStored
  <2>3. ASSUME NEW x \in LiveEdges
        PROVE  /\ x \in ListEdgesFrom(n) <=> edges[x].from = n \/ <<edges[x].from, n>> \in Beneath
               /\ x \in ListEdgesTo(n) <=> edges[x].to = n \/ <<edges[x].to, n>> \in Beneath
    <3>1. x \in ListEdgesFrom(n) <=>
            \E m \in Nodes : m = edges[x].from /\ (m = n \/ <<m, n>> \in Beneath)
      BY <2>1, <2>2 DEF ListEdgesFrom, KeysOf
    <3>2. x \in ListEdgesTo(n) <=>
            \E m \in Nodes : m = edges[x].to /\ (m = n \/ <<m, n>> \in Beneath)
      BY <2>1, <2>2 DEF ListEdgesTo, KeysOf
    <3> QED BY <3>1, <3>2, <2>1
  <2>4. ListEdgesFrom(n) \subseteq LiveEdges /\ ListEdgesTo(n) \subseteq LiveEdges
    BY DEF ListEdgesFrom, ListEdgesTo
  <2> QED BY <2>1, <2>3, <2>4
<1> QED BY <1>1, IndexInvariant, PTL

\* A list of references is as long as there are edges in it.
LEMMA RefsCounted ==
  ASSUME NEW refs, NEW R, ListsRefs(refs, R)
  PROVE  ToSet(refs) = R /\ Len(refs) = Cardinality(R) /\ IsFiniteSet(R)
<1>1. refs \in Seq(Refs) /\ \A k, l \in DOMAIN refs : refs[k] = refs[l] => k = l
  BY DEF ListsRefs
<1>2. Cardinality({refs[k] : k \in DOMAIN refs}) = Len(refs) /\ IsFiniteSet({refs[k] : k \in DOMAIN refs})
  BY <1>1, DistinctLength
<1> QED BY <1>2 DEF ListsRefs, ToSet

\* The adjacency index has one reference for each stored edge in either direction.
THEOREM GraphMirrored == Spec => []GraphMirrors
<1>1. IndexInv => GraphMirrors
  <2> SUFFICES ASSUME IndexInv PROVE GraphMirrors
    OBVIOUS
  <2>1. Mirrors(graph, edges)
    BY DEF IndexInv, IndexesFresh
  <2>2. graph.meta = [x \in EdgeIds |-> IF x \in LiveEdges
                                          THEN [from |-> edges[x].from, to |-> edges[x].to] ELSE NoEnds]
    <3>1. graph.meta \in [EdgeIds -> Ends \cup {NoEnds}]
      BY <2>1 DEF Mirrors, Adjacency
    <3>2. \A x \in EdgeIds : graph.meta[x] = IF x \in LiveEdges
                                             THEN [from |-> edges[x].from, to |-> edges[x].to] ELSE NoEnds
      BY <2>1 DEF Mirrors, LiveEdges
    <3> QED BY <3>1, <3>2
  <2>3. ASSUME NEW n \in Nodes
        PROVE  /\ Out(edges, n) = {Ref(x, edges[x].to, edges[x].label) : x \in {y \in LiveEdges : edges[y].from = n}}
               /\ In(edges, n) = {Ref(x, edges[x].from, edges[x].label) : x \in {y \in LiveEdges : edges[y].to = n}}
               /\ ToSet(graph.forward[n]) = Out(edges, n) /\ Len(graph.forward[n]) = Cardinality(Out(edges, n))
               /\ ToSet(graph.reverse[n]) = In(edges, n) /\ Len(graph.reverse[n]) = Cardinality(In(edges, n))
    <3>1. Out(edges, n) = {Ref(x, edges[x].to, edges[x].label) : x \in {y \in LiveEdges : edges[y].from = n}}
      BY DEF Out, LiveEdges
    <3>2. In(edges, n) = {Ref(x, edges[x].from, edges[x].label) : x \in {y \in LiveEdges : edges[y].to = n}}
      BY DEF In, LiveEdges
    <3>3. ListsRefs(graph.forward[n], Out(edges, n)) /\ ListsRefs(graph.reverse[n], In(edges, n))
      BY <2>1 DEF Mirrors
    <3> QED BY <3>1, <3>2, <3>3, RefsCounted
  <2> QED BY <2>2, <2>3 DEF GraphMirrors
<1> QED BY <1>1, IndexInvariant, PTL

\* The parts of the stored entries.
LEMMA LiveParts ==
  ASSUME IndexInv
  PROVE  \A p : p \in UNION {PartsOf(i, docs[i].content) : i \in Live} <=>
                  p \in Parts /\ p[1] \in Live /\ p[2] < Len(Texts[docs[p[1]].content])
<1>1. ASSUME NEW i \in Live
      PROVE  /\ i \in Ids /\ Len(Texts[docs[i].content]) \in Nat
             /\ Len(Texts[docs[i].content]) <= MaxChunks + 1
  BY EntryTexts DEF IndexInv, StoredTypes, DocsType, Live
<1>2. MaxChunks \in Nat
  BY SearchAssumption
<1>3. ASSUME NEW p, NEW i \in Live, p \in PartsOf(i, docs[i].content)
      PROVE  p \in Parts /\ p[1] \in Live /\ p[2] < Len(Texts[docs[p[1]].content])
  <2>1. PICK m \in 0 .. Len(Texts[docs[i].content]) - 1 : p = <<i, m>>
    BY <1>3 DEF PartsOf
  <2>2. m \in 0 .. MaxChunks /\ m < Len(Texts[docs[i].content])
    BY <2>1, <1>1, <1>2
  <2> QED BY <2>1, <2>2, <1>1 DEF Parts
<1>4. ASSUME NEW p \in Parts, p[1] \in Live, p[2] < Len(Texts[docs[p[1]].content])
      PROVE  p \in PartsOf(p[1], docs[p[1]].content)
  <2>1. p = <<p[1], p[2]>> /\ p[2] \in 0 .. MaxChunks
    BY DEF Parts
  <2>2. p[2] \in 0 .. Len(Texts[docs[p[1]].content]) - 1
    BY <2>1, <1>1, <1>2, <1>4
  <2> QED BY <2>1, <2>2 DEF PartsOf
<1> QED BY <1>3, <1>4

\* The index is that of the stored texts, part by part.
LEMMA Counted ==
  ASSUME IndexInv PROVE TextCounted
<1> DEFINE T == TextsIn(Live)
<1>1. T \in [Parts -> Seq(Terms)] /\ ft = IndexOf(T)
  BY TextTypes
<1>2. \A p \in Parts : T[p] = TextAt(p)
  BY DEF TextsIn, TextAt
<1> HIDE DEF T
<1>3. \A p \in Parts : ft.dl[p] = Len(T[p]) /\ \A w \in Terms : ft.tf[w][p] = Count(T[p], w)
  BY <1>1 DEF IndexOf
<1>4. ft.N = Cardinality({p \in Parts : T[p] # <<>>})
  BY <1>1 DEF IndexOf
<1>5. {p \in Parts : T[p] # <<>>} = {p \in Parts : TextAt(p) # <<>>}
  BY <1>2
<1> QED BY <1>2, <1>3, <1>4, <1>5 DEF TextCounted

\* In every state the full-text index has the frequencies and the length of each
\* stored text, and their number, and nothing of a text that is gone: after any
\* puts, deletes, snapshots and rebuilds (AddDocument, RemoveDocument).
THEOREM TextsCounted == Spec => []TextCounted
<1>1. IndexInv => TextCounted
  BY Counted
<1> QED BY <1>1, IndexInvariant, PTL
=============================================================================
