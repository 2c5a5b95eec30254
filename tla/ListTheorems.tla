---------------------------- MODULE ListTheorems ----------------------------
(***************************************************************************)
(* Lemmas about the lists that the full-text, vector and graph indexes and *)
(* Search keep: folds over a list, sums over a set, recursion on the       *)
(* naturals, sorting, and the cutting and picking of Lists. Induction is   *)
(* done on a set of naturals: one that has 0 and with each number the next *)
(* holds them all.                                                         *)
(***************************************************************************)
EXTENDS Lists, FiniteSetTheorems, TLAPS

-----------------------------------------------------------------------------
(* Induction. *)

\* A set of numbers that is not empty has a least member.
LEMMA LeastNatural ==
  ASSUME NEW T \in SUBSET Nat, T # {}
  PROVE  \E n \in T : \A m \in T : n <= m
<1> DEFINE F == {0 .. k : k \in T}
<1>1. F \subseteq FiniteSubsetsOf(Nat) /\ F # {}
  <2>1. \A k \in Nat : IsFiniteSet(0 .. k)
    BY FS_Interval
  <2>2. \A k \in Nat : 0 .. k \in FiniteSubsetsOf(Nat)
    BY <2>1 DEF FiniteSubsetsOf
  <2> QED BY <2>2
<1>2. IsWellFoundedOn(StrictSubsetOrdering(Nat), FiniteSubsetsOf(Nat))
  BY FS_StrictSubsetOrderingWellFounded
<1> HIDE DEF F
<1>3. PICK x \in F : \A y \in F : <<y, x>> \notin StrictSubsetOrdering(Nat)
  BY <1>1, <1>2, WFMin
<1>4. PICK n \in T : x = 0 .. n
  BY DEF F
<1>5. ASSUME NEW m \in T, m < n PROVE FALSE
  <2>1. 0 .. m \in F
    BY DEF F
  <2>2. 0 .. m \subseteq 0 .. n /\ 0 .. m # 0 .. n
    BY <1>5
  <2>3. <<0 .. m, 0 .. n>> \in StrictSubsetOrdering(Nat)
    BY <2>2 DEF StrictSubsetOrdering
  <2> QED BY <2>1, <2>3, <1>3, <1>4
<1> QED BY <1>5

\* Induction, for a property that is given as the set T of what has it.
LEMMA SetInduction ==
  ASSUME NEW T, 0 \in T, \A n \in Nat : n \in T => n + 1 \in T
  PROVE  Nat \subseteq T
<1> SUFFICES ASSUME Nat \ T # {} PROVE FALSE
  OBVIOUS
<1>1. PICK n \in Nat \ T : \A m \in Nat \ T : n <= m
  BY LeastNatural
<1> QED BY <1>1

\* Induction up to n.
LEMMA UpTo ==
  ASSUME NEW n \in Nat, NEW T, 0 \in T, \A k \in 1 .. n : k - 1 \in T => k \in T
  PROVE  0 .. n \subseteq T
<1> DEFINE U == T \cup {k \in Nat : k > n}
<1>1. 0 \in U
  OBVIOUS
<1>2. ASSUME NEW k \in Nat, k \in U PROVE k + 1 \in U
  BY <1>2
<1> HIDE DEF U
<1>3. Nat \subseteq U
  BY <1>1, <1>2, SetInduction
<1> QED BY <1>3 DEF U

\* A finite set of numbers that is not empty has a greatest member.
LEMMA Greatest ==
  ASSUME NEW n \in Nat, NEW S \in SUBSET (1 .. n), S # {}
  PROVE  Max(S) \in S /\ \A m \in S : m <= Max(S)
<1> DEFINE B == {k \in Nat : \A m \in S : m <= k}
<1>1. n \in B
  OBVIOUS
<1> HIDE DEF B
<1>2. PICK b \in B : \A k \in B : b <= k
  BY <1>1, LeastNatural DEF B
<1>3. b \in S
  <2> SUFFICES ASSUME b \notin S PROVE FALSE
    OBVIOUS
  <2>1. \A m \in S : m <= b - 1
    BY <1>2 DEF B
  <2>2. PICK s \in S : TRUE
    OBVIOUS
  <2>3. b - 1 \in B
    BY <2>1, <2>2 DEF B
  <2> QED BY <2>3, <1>2 DEF B
<1>4. \A m \in S : b >= m
  BY <1>2 DEF B
<1> QED BY <1>3, <1>4 DEF Max

\* A set of numbers that is not empty has a least one.
LEMMA Least ==
  ASSUME NEW S \in SUBSET Nat, S # {}
  PROVE  Min(S) \in S /\ \A m \in S : Min(S) <= m
BY LeastNatural DEF Min

-----------------------------------------------------------------------------
(* Folds. *)

\* f is the fold of step over each subset of 1 .. n, the greatest number last.
Folds(f, n, base, step) ==
  \A s \in SUBSET (1 .. n) :
    f[s] = IF s = {} THEN base ELSE step[Max(s)][f[s \ {Max(s)}]]

\* it[k] is the fold of the first k steps.
Steps(it, n, base, step) ==
  it[0] = base /\ \A k \in 1 .. n : it[k] = step[k][it[k - 1]]

\* A fold exists: it is extended from the subsets of 1 .. k - 1 to those of 1 .. k.
LEMMA FoldExists ==
  ASSUME NEW V, NEW base \in V, NEW n \in Nat, NEW step \in [1 .. n -> [V -> V]]
  PROVE  \E f \in [SUBSET (1 .. n) -> V] : Folds(f, n, base, step)
<1> DEFINE T == {k \in 0 .. n : \E f \in [SUBSET (1 .. k) -> V] : Folds(f, k, base, step)}
<1>1. 0 \in T
  <2> DEFINE f == [s \in SUBSET (1 .. 0) |-> base]
  <2>1. \A s \in SUBSET (1 .. 0) : s = {}
    OBVIOUS
  <2>2. f \in [SUBSET (1 .. 0) -> V] /\ Folds(f, 0, base, step)
    BY <2>1 DEF Folds
  <2> HIDE DEF f
  <2>3. 0 \in 0 .. n
    OBVIOUS
  <2> QED BY <2>2, <2>3
<1>2. ASSUME NEW k \in 1 .. n, k - 1 \in T PROVE k \in T
  <2>1. PICK f \in [SUBSET (1 .. k - 1) -> V] : Folds(f, k - 1, base, step)
    BY <1>2
  <2> DEFINE g == [s \in SUBSET (1 .. k) |->
                     IF k \in s THEN step[k][f[s \ {k}]] ELSE f[s]]
  <2>2. ASSUME NEW s \in SUBSET (1 .. k) PROVE s \ {k} \in SUBSET (1 .. k - 1)
    OBVIOUS
  <2>3. g \in [SUBSET (1 .. k) -> V]
    <3> SUFFICES ASSUME NEW s \in SUBSET (1 .. k) PROVE g[s] \in V
      OBVIOUS
    <3>1. CASE k \in s
      <4>1. f[s \ {k}] \in V
        BY <2>1, <2>2
      <4> QED BY <4>1, <3>1
    <3>2. CASE k \notin s
      <4>1. s = s \ {k}
        BY <3>2
      <4> QED BY <4>1, <2>1, <2>2, <3>2
    <3> QED BY <3>1, <3>2
  <2>4. ASSUME NEW s \in SUBSET (1 .. k)
        PROVE  g[s] = IF s = {} THEN base ELSE step[Max(s)][g[s \ {Max(s)}]]
    <3>1. CASE k \in s
      <4>1. Max(s) = k
        <5>1. k \in Nat /\ s # {}
          BY <3>1
        <5> HIDE DEF g, T
        <5>2. Max(s) \in s /\ \A m \in s : m <= Max(s)
          BY <5>1, Greatest
        <5>3. \A m \in s : m \in Int /\ m <= k
          OBVIOUS
        <5>4. Max(s) \in Int /\ Max(s) <= k
          BY <5>2, <5>3
        <5>5. k <= Max(s)
          BY <5>2, <3>1
        <5> QED BY <5>4, <5>5
      <4>2. g[s \ {k}] = f[s \ {k}]
        OBVIOUS
      <4> QED BY <3>1, <4>1, <4>2
    <3>2. CASE k \notin s
      <4>1. s \in SUBSET (1 .. k - 1)
        BY <3>2
      <4>2. CASE s = {}
        BY <4>1, <4>2, <2>1, <3>2 DEF Folds
      <4>3. CASE s # {}
        <5>1. s \ {Max(s)} \in SUBSET (1 .. k) /\ k \notin s \ {Max(s)}
          BY <3>2
        <5>2. g[s \ {Max(s)}] = f[s \ {Max(s)}]
          BY <5>1
        <5>3. f[s] = step[Max(s)][f[s \ {Max(s)}]]
          BY <2>1, <4>1, <4>3 DEF Folds
        <5> QED BY <5>2, <5>3, <3>2, <4>3
      <4> QED BY <4>2, <4>3
    <3> QED BY <3>1, <3>2
  <2> HIDE DEF g
  <2>5. Folds(g, k, base, step)
    BY <2>4 DEF Folds
  <2>6. k \in 0 .. n
    OBVIOUS
  <2> QED BY <2>3, <2>5, <2>6
<1> HIDE DEF T
<1>3. 0 .. n \subseteq T
  BY <1>1, <1>2, UpTo
<1>4. n \in T
  BY <1>3
<1> QED BY <1>4 DEF T

\* The last of the numbers from 1 to k.
LEMMA LastOf ==
  ASSUME NEW n \in Nat, NEW k \in 1 .. n
  PROVE  /\ 1 .. k \in SUBSET (1 .. n) /\ 1 .. k # {}
         /\ Max(1 .. k) = k /\ (1 .. k) \ {k} = 1 .. k - 1
<1>1. (1 .. k) \in SUBSET (1 .. n) /\ 1 .. k # {}
  OBVIOUS
<1>2. Max(1 .. k) \in 1 .. k /\ \A m \in 1 .. k : m <= Max(1 .. k)
  BY <1>1, Greatest
<1>3. Max(1 .. k) \in Int /\ Max(1 .. k) <= k /\ k <= Max(1 .. k)
  BY <1>2
<1> QED BY <1>1, <1>3

\* As long as its values are in V, h follows step.
Follows(h, V, n, step) ==
  \A k \in 1 .. n : h[1 .. k - 1] \in V => h[1 .. k] = step[k][h[1 .. k - 1]]

\* There are such steps, and they end with what h has for 1 .. n.
Stepped(V, n, base, step, h) ==
  \E it \in [0 .. n -> V] : Steps(it, n, base, step) /\ it[n] = h[1 .. n]

\* What a fold over 1 .. n makes of the numbers up to each k, given that its values
\* follow step as long as they are in V.
LEMMA FoldSteps ==
  ASSUME NEW V, NEW base \in V, NEW n \in Nat, NEW step \in [1 .. n -> [V -> V]], NEW h,
         h[{}] = base, Follows(h, V, n, step)
  PROVE  Stepped(V, n, base, step, h)
<1> DEFINE T == {k \in 0 .. n : h[1 .. k] \in V}
           it == [k \in 0 .. n |-> h[1 .. k]]
<1>1. h[1 .. 0] = base
  <2>1. 1 .. 0 = {}
    OBVIOUS
  <2> QED BY <2>1
<1>2. 0 .. n \subseteq T
  <2>1. 0 \in T
    BY <1>1
  <2>2. ASSUME NEW k \in 1 .. n, k - 1 \in T PROVE k \in T
    <3>1. h[1 .. k - 1] \in V
      BY <2>2
    <3>2. h[1 .. k] = step[k][h[1 .. k - 1]]
      BY <3>1 DEF Follows
    <3>3. step[k] \in [V -> V]
      OBVIOUS
    <3> QED BY <3>1, <3>2, <3>3
  <2> HIDE DEF T
  <2> QED BY <2>1, <2>2, UpTo
<1>3. it \in [0 .. n -> V]
  BY <1>2
<1>4. Steps(it, n, base, step)
  <2>1. it[0] = base
    BY <1>1
  <2>2. ASSUME NEW k \in 1 .. n PROVE it[k] = step[k][it[k - 1]]
    <3>1. k - 1 \in 0 .. n /\ k \in 0 .. n
      OBVIOUS
    <3>2. h[1 .. k - 1] \in V
      BY <3>1, <1>2
    <3> QED BY <3>1, <3>2 DEF Follows
  <2> HIDE DEF it
  <2> QED BY <2>1, <2>2 DEF Steps
<1> QED BY <1>3, <1>4 DEF Stepped

-----------------------------------------------------------------------------
(* Sorted and filtered lists. *)

\* R orders S strictly, and any two members of it.
Orders(R, S) ==
  /\ \A p \in S : <<p, p>> \notin R
  /\ \A p, q, r \in S : <<p, q>> \in R /\ <<q, r>> \in R => <<p, r>> \in R
  /\ \A p, q \in S : p = q \/ <<p, q>> \in R \/ <<q, p>> \in R

\* list has each member of S once, in the order of R.
Arranges(list, S, R) ==
  /\ list \in [1 .. Cardinality(S) -> S]
  /\ \A p \in S : \E k \in 1 .. Cardinality(S) : list[k] = p
  /\ \A k, l \in 1 .. Cardinality(S) : k < l => <<list[k], list[l]>> \in R

\* Sorted arranges a finite set in any strict and total order: a member has fewer
\* members ahead of it than those it is ahead of, so that every number of members
\* below the size of the set occurs.
LEMMA SortedArranges ==
  ASSUME NEW S, IsFiniteSet(S), NEW R, Orders(R, S)
  PROVE  Arranges(Sorted(S, R), S, R)
<1> DEFINE n == Cardinality(S)
           Ahead(p) == {q \in S : <<q, p>> \in R}
           ahead == [p \in S |-> Cardinality(Ahead(p))]
<1>1. n \in Nat
  BY FS_CardinalityType
<1>2. ASSUME NEW p \in S
      PROVE  IsFiniteSet(Ahead(p)) /\ Cardinality(Ahead(p)) \in 0 .. n - 1
  <2>1. Ahead(p) \in SUBSET S /\ Ahead(p) # S
    BY DEF Orders
  <2>2. IsFiniteSet(Ahead(p)) /\ Cardinality(Ahead(p)) <= n /\ Cardinality(Ahead(p)) # n
    BY <2>1, FS_Subset
  <2>3. Cardinality(Ahead(p)) \in Nat
    BY <2>2, FS_CardinalityType
  <2> QED BY <2>2, <2>3, <1>1
<1>3. ASSUME NEW p \in S, NEW q \in S, <<p, q>> \in R
      PROVE  ahead[p] < ahead[q]
  <2>1. Ahead(p) \in SUBSET Ahead(q) /\ Ahead(p) # Ahead(q)
    BY <1>3 DEF Orders
  <2>2. IsFiniteSet(Ahead(q))
    BY <1>2
  <2> HIDE DEF Ahead
  <2>3. Cardinality(Ahead(p)) <= Cardinality(Ahead(q)) /\ Cardinality(Ahead(p)) # Cardinality(Ahead(q))
    BY <2>1, <2>2, FS_Subset
  <2>4. Cardinality(Ahead(p)) \in Int /\ Cardinality(Ahead(q)) \in Int
    BY <1>2, <1>1
  <2> QED BY <2>3, <2>4
<1>4. ahead \in Injection(S, 0 .. n - 1)
  <2>1. ahead \in [S -> 0 .. n - 1]
    BY <1>2
  <2>2. ASSUME NEW p \in S, NEW q \in S, ahead[p] = ahead[q] PROVE p = q
    <3> HIDE DEF ahead
    <3>1. ahead[p] \in Int
      BY <2>1, <1>1
    <3>2. <<p, q>> \notin R /\ <<q, p>> \notin R
      BY <1>3, <2>2, <3>1
    <3> QED BY <3>2 DEF Orders
  <2> QED BY <2>1, <2>2 DEF Injection, IsInjective
<1>5. ahead \in Surjection(S, 0 .. n - 1)
  <2>1. IsFiniteSet(0 .. n - 1) /\ Cardinality(0 .. n - 1) = n
    BY <1>1, FS_Interval
  <2> HIDE DEF ahead
  <2> QED BY <1>4, <2>1, FS_Injection
<1>6. ASSUME NEW k \in 1 .. n PROVE \E p \in S : ahead[p] = k - 1
  <2>1. k - 1 \in 0 .. n - 1
    BY <1>1
  <2> HIDE DEF ahead
  <2> QED BY <2>1, <1>5 DEF Surjection
<1> DEFINE list == [k \in 1 .. n |-> CHOOSE p \in S : ahead[p] = k - 1]
<1>7. Sorted(S, R) = list
  BY DEF Sorted
<1> HIDE DEF ahead
<1>8. \A k \in 1 .. n : list[k] \in S /\ ahead[list[k]] = k - 1
  BY <1>6
<1>9. list \in [1 .. n -> S]
  BY <1>8
<1> HIDE DEF list
<1>10. ASSUME NEW p \in S PROVE \E k \in 1 .. n : list[k] = p
  <2>1. ahead[p] \in 0 .. n - 1
    BY <1>4 DEF Injection
  <2>2. ahead[p] + 1 \in 1 .. n
    BY <2>1, <1>1
  <2>3. ahead[list[ahead[p] + 1]] = ahead[p] /\ list[ahead[p] + 1] \in S
    BY <2>1, <2>2, <1>8
  <2>4. list[ahead[p] + 1] = p
    BY <2>3, <1>4 DEF Injection, IsInjective
  <2> QED BY <2>2, <2>4
<1>11. ASSUME NEW k \in 1 .. n, NEW l \in 1 .. n, k < l PROVE <<list[k], list[l]>> \in R
  <2>1. list[k] \in S /\ list[l] \in S /\ ahead[list[k]] = k - 1 /\ ahead[list[l]] = l - 1
    BY <1>8
  <2>2. list[k] # list[l]
    BY <2>1, <1>11, <1>1
  <2>3. <<list[l], list[k]>> \notin R
    <3> SUFFICES ASSUME <<list[l], list[k]>> \in R PROVE FALSE
      OBVIOUS
    <3>1. ahead[list[l]] < ahead[list[k]]
      BY <2>1, <1>3
    <3>2. l - 1 < k - 1
      BY <3>1, <2>1
    <3> QED BY <3>2, <1>11, <1>1
  <2> QED BY <2>1, <2>2, <2>3 DEF Orders
<1> QED BY <1>7, <1>9, <1>10, <1>11 DEF Arranges

\* What is arranged is a sequence without repetition.
LEMMA ArrangedList ==
  ASSUME NEW S, NEW R, NEW list, IsFiniteSet(S), Orders(R, S), Arranges(list, S, R)
  PROVE  /\ list \in Seq(S) /\ Len(list) = Cardinality(S) /\ Cardinality(S) \in Nat
         /\ DOMAIN list = 1 .. Cardinality(S)
         /\ \A k, l \in DOMAIN list : list[k] = list[l] => k = l
         /\ S = {list[k] : k \in DOMAIN list}
<1>1. Cardinality(S) \in Nat
  BY FS_CardinalityType
<1>2. list \in Seq(S) /\ Len(list) = Cardinality(S) /\ DOMAIN list = 1 .. Cardinality(S)
  BY <1>1 DEF Arranges
<1>3. ASSUME NEW k \in DOMAIN list, NEW l \in DOMAIN list, list[k] = list[l] PROVE k = l
  <2>1. list[k] \in S /\ <<list[k], list[k]>> \notin R
    BY <1>2, <1>3 DEF Orders
  <2> QED BY <2>1, <1>1, <1>2, <1>3 DEF Arranges
<1>4. S = {list[k] : k \in DOMAIN list}
  BY <1>2 DEF Arranges
<1> QED BY <1>1, <1>2, <1>3, <1>4

\* The members of S in list, each at its place: at gives the places in list.
Picks(at, out, list, S) ==
  /\ Len(out) \in Nat /\ Len(out) <= Len(list)
  /\ DOMAIN out = 1 .. Len(out)
  /\ at \in [1 .. Len(out) -> DOMAIN list]
  /\ \A k \in DOMAIN out : out[k] = list[at[k]] /\ out[k] \in S
  /\ \A k, l \in DOMAIN out : k < l => at[k] < at[l]
  /\ \A m \in DOMAIN list : list[m] \in S => \E k \in DOMAIN out : at[k] = m

\* Picked keeps exactly the members of S, in the order of the list.
LEMMA PickedMembers ==
  ASSUME NEW V, NEW list \in Seq(V), NEW S
  PROVE  /\ Picked(list, S) \in Seq(V)
         /\ \E at : Picks(at, Picked(list, S), list, S)
<1> DEFINE I == {k \in DOMAIN list : list[k] \in S}
           R == {kl \in I \X I : kl[1] < kl[2]}
           at == Sorted(I, R)
           out == Picked(list, S)
<1>1. I \subseteq 1 .. Len(list) /\ Len(list) \in Nat /\ DOMAIN list = 1 .. Len(list)
  OBVIOUS
<1>2. IsFiniteSet(I) /\ Cardinality(I) <= Len(list)
  <2>1. PICK n \in Nat : n = Len(list)
    BY <1>1
  <2>2. IsFiniteSet(1 .. n) /\ Cardinality(1 .. n) = n
    BY FS_Interval
  <2>3. I \in SUBSET (1 .. n)
    BY <2>1
  <2> HIDE DEF I
  <2>4. IsFiniteSet(I) /\ Cardinality(I) <= Cardinality(1 .. n)
    BY <2>2, <2>3, FS_Subset
  <2> QED BY <2>1, <2>2, <2>4
<1>3. Orders(R, I)
  BY <1>1 DEF Orders
<1>4. out = [k \in DOMAIN at |-> list[at[k]]]
  BY DEF Picked, Ranked
<1> HIDE DEF R, at, out
<1>5. Arranges(at, I, R)
  BY <1>2, <1>3, SortedArranges DEF at
<1>6. at \in Seq(I) /\ Len(at) = Cardinality(I) /\ Cardinality(I) \in Nat /\ DOMAIN at = 1 .. Cardinality(I)
  BY <1>2, <1>3, <1>5, ArrangedList
<1>7. out \in Seq(V) /\ Len(out) = Cardinality(I) /\ DOMAIN out = 1 .. Len(out)
  <2>1. ASSUME NEW k \in 1 .. Cardinality(I) PROVE list[at[k]] \in V
    <3>1. at[k] \in DOMAIN list
      BY <1>6, <1>1
    <3> QED BY <3>1
  <2>2. out \in [1 .. Cardinality(I) -> V]
    BY <2>1, <1>4, <1>6
  <2>3. out \in Seq(V)
    <3>1. PICK n \in Nat : n = Cardinality(I)
      BY <1>6
    <3>2. out \in [1 .. n -> V]
      BY <2>2, <3>1
    <3> QED BY <3>2
  <2>4. DOMAIN out = 1 .. Cardinality(I)
    BY <2>2
  <2>5. Len(out) = Cardinality(I)
    BY <2>3, <2>4, <1>6
  <2> QED BY <2>3, <2>4, <2>5
<1>8. Picks(at, out, list, S)
  <2>1. \A k \in 1 .. Cardinality(I) : at[k] \in I
    BY <1>6
  <2>2. at \in [1 .. Len(out) -> DOMAIN list]
    BY <1>5, <1>7 DEF Arranges
  <2>3. \A k \in DOMAIN out : out[k] = list[at[k]] /\ out[k] \in S
    BY <2>1, <1>4, <1>6, <1>7
  <2>4. ASSUME NEW k \in DOMAIN out, NEW l \in DOMAIN out, k < l PROVE at[k] < at[l]
    <3>1. <<at[k], at[l]>> \in R
      BY <2>4, <1>5, <1>6, <1>7 DEF Arranges
    <3> QED BY <3>1 DEF R
  <2>5. ASSUME NEW m \in DOMAIN list, list[m] \in S PROVE \E k \in DOMAIN out : at[k] = m
    <3>1. m \in I
      BY <2>5
    <3> QED BY <3>1, <1>5, <1>7 DEF Arranges
  <2> QED BY <2>2, <2>3, <2>4, <2>5, <1>2, <1>7 DEF Picks
<1> QED BY <1>7, <1>8 DEF out

\* The first k of a list.
LEMMA CutList ==
  ASSUME NEW V, NEW list \in Seq(V), NEW k \in Nat
  PROVE  /\ Cut(list, k) \in Seq(V)
         /\ Len(Cut(list, k)) = IF k <= Len(list) THEN k ELSE Len(list)
         /\ \A n \in 1 .. Len(Cut(list, k)) : Cut(list, k)[n] = list[n]
<1>1. Len(list) \in Nat
  OBVIOUS
<1>2. Min({k, Len(list)}) = IF k <= Len(list) THEN k ELSE Len(list)
  <2>1. Min({k, Len(list)}) \in {k, Len(list)}
        /\ Min({k, Len(list)}) <= k /\ Min({k, Len(list)}) <= Len(list)
    BY <1>1, Least
  <2> QED BY <2>1, <1>1
<1>3. PICK n \in 0 .. Len(list) : n = IF k <= Len(list) THEN k ELSE Len(list)
  BY <1>1
<1>4. Cut(list, k) = SubSeq(list, 1, n)
  BY <1>2, <1>3 DEF Cut
<1>5. SubSeq(list, 1, n) = [m \in 1 .. n |-> list[m]]
  BY <1>1, <1>3
<1>6. \A m \in 1 .. n : list[m] \in V
  BY <1>1, <1>3
<1>7. Cut(list, k) \in Seq(V) /\ Len(Cut(list, k)) = n
  BY <1>4, <1>5, <1>6
<1> QED BY <1>3, <1>4, <1>5, <1>7

\* Lists with the same members at the same places are the same.
LEMMA SameList ==
  ASSUME NEW V, NEW p \in Seq(V), NEW q \in Seq(V), Len(p) = Len(q), \A k \in 1 .. Len(q) : p[k] = q[k]
  PROVE  p = q
OBVIOUS

\* A member behind the joined lists a and b is one behind b.
Joined(a, b, h) == Append(a \o b, h) = a \o Append(b, h)

\* So it is for every two lists.
LEMMA AppendConcat ==
  ASSUME NEW V, NEW a \in Seq(V), NEW b \in Seq(V), NEW h \in V
  PROVE  Joined(a, b, h)
<1> DEFINE p == Append(a \o b, h)
           q == a \o Append(b, h)
<1>1. a \o b \in Seq(V) /\ Append(b, h) \in Seq(V)
  OBVIOUS
<1>2. p \in Seq(V) /\ q \in Seq(V) /\ Len(p) = Len(q)
  BY <1>1
<1>3. ASSUME NEW k \in 1 .. Len(q) PROVE p[k] = q[k]
  <2>1. CASE k <= Len(a)
    BY <1>1, <2>1
  <2>2. CASE k = Len(a) + Len(b) + 1
    BY <1>1, <2>2
  <2>3. CASE k > Len(a) /\ k <= Len(a) + Len(b)
    BY <1>1, <2>3
  <2> QED BY <2>1, <2>2, <2>3, <1>1
<1> HIDE DEF p, q
<1>4. p = q
  BY <1>2, <1>3, SameList
<1> QED BY <1>4 DEF p, q, Joined

\* A list without repetition is as long as the set of its members is large.
LEMMA DistinctLength ==
  ASSUME NEW V, NEW list \in Seq(V), \A k, l \in DOMAIN list : list[k] = list[l] => k = l
  PROVE  /\ IsFiniteSet({list[k] : k \in DOMAIN list})
         /\ Cardinality({list[k] : k \in DOMAIN list}) = Len(list)
<1> DEFINE S == {list[k] : k \in DOMAIN list}
<1>1. PICK n \in Nat : n = Len(list) /\ DOMAIN list = 1 .. n
  OBVIOUS
<1>2. list \in [1 .. n -> S]
  BY <1>1
<1>3. list \in Bijection(1 .. n, S)
  BY <1>1, <1>2 DEF Bijection, Injection, Surjection, IsInjective
<1>4. ExistsBijection(1 .. n, S)
  BY <1>3 DEF ExistsBijection
<1>5. IsFiniteSet(1 .. n)
  BY FS_Interval
<1> HIDE DEF S
<1>6. IsFiniteSet(S) /\ Cardinality(S) = n
  BY <1>4, <1>5, FS_Bijection, FS_CountingElements
<1> QED BY <1>1, <1>6 DEF S

-----------------------------------------------------------------------------
(* Sums. *)

\* h is the sum of f over each subset of S, any member of it first.
Sums(h, f, S) ==
  \A s \in SUBSET S :
    h[s] = IF s = {} THEN 0 ELSE f[CHOOSE x \in s : TRUE] + h[s \ {CHOOSE x \in s : TRUE}]

\* sum adds up f over the subsets of S, whichever member is taken first.
AddsUp(sum, f, S) ==
  sum[{}] = 0 /\ \A s \in SUBSET S : \A x \in s : sum[s] = f[x] + sum[s \ {x}]

\* A subset without one member is smaller.
LEMMA SmallerSubset ==
  ASSUME NEW S, IsFiniteSet(S), NEW s \in SUBSET S
  PROVE  /\ IsFiniteSet(s) /\ Cardinality(s) \in Nat /\ Cardinality(s) <= Cardinality(S)
         /\ Cardinality(S) \in Nat
         /\ Cardinality(s) = 0 <=> s = {}
         /\ s # {} => /\ (CHOOSE x \in s : TRUE) \in s
                      /\ s \ {CHOOSE x \in s : TRUE} \in SUBSET S
                      /\ Cardinality(s \ {CHOOSE x \in s : TRUE}) = Cardinality(s) - 1
<1>1. IsFiniteSet(s) /\ Cardinality(s) <= Cardinality(S)
  BY FS_Subset
<1>2. Cardinality(s) \in Nat /\ Cardinality(S) \in Nat /\ (Cardinality(s) = 0 <=> s = {})
  BY <1>1, FS_CardinalityType, FS_EmptySet
<1>3. ASSUME s # {}
      PROVE  /\ (CHOOSE x \in s : TRUE) \in s
             /\ s \ {CHOOSE x \in s : TRUE} \in SUBSET S
             /\ Cardinality(s \ {CHOOSE x \in s : TRUE}) = Cardinality(s) - 1
  <2>1. (CHOOSE x \in s : TRUE) \in s
    BY <1>3
  <2> QED BY <2>1, <1>1, FS_RemoveElement
<1> QED BY <1>1, <1>2, <1>3

\* A sum exists: it is extended from the subsets with fewer than k members to those
\* with k.
LEMMA SumExists ==
  ASSUME NEW S, IsFiniteSet(S), NEW f \in [S -> Nat]
  PROVE  \E h \in [SUBSET S -> Nat] : Sums(h, f, S)
<1> DEFINE n == Cardinality(S)
           pick(s) == CHOOSE x \in s : TRUE
           Right(h, s) == h[s] = IF s = {} THEN 0 ELSE f[pick(s)] + h[s \ {pick(s)}]
           K == {k \in 0 .. n : \E h \in [SUBSET S -> Nat] :
                   \A s \in SUBSET S : Cardinality(s) <= k => Right(h, s)}
<1>1. \A s \in SUBSET S :
        /\ Cardinality(s) \in Nat /\ Cardinality(s) <= n /\ n \in Nat
        /\ Cardinality(s) = 0 <=> s = {}
        /\ s # {} => /\ pick(s) \in S /\ s \ {pick(s)} \in SUBSET S
                     /\ Cardinality(s \ {pick(s)}) = Cardinality(s) - 1
  BY SmallerSubset
<1>2. n \in Nat
  BY FS_CardinalityType
<1> HIDE DEF pick, n
<1>3. 0 \in K
  <2> DEFINE h == [s \in SUBSET S |-> 0]
  <2>1. h \in [SUBSET S -> Nat] /\ 0 \in 0 .. n
    BY <1>2
  <2>2. ASSUME NEW s \in SUBSET S, Cardinality(s) <= 0 PROVE Right(h, s)
    <3>1. Cardinality(s) \in Nat /\ (Cardinality(s) = 0 <=> s = {})
      BY <1>1
    <3>2. s = {}
      BY <2>2, <3>1
    <3> QED BY <3>2
  <2> HIDE DEF h, Right
  <2> QED BY <2>1, <2>2
<1>4. ASSUME NEW k \in 1 .. n, k - 1 \in K PROVE k \in K
  <2>1. PICK h \in [SUBSET S -> Nat] : \A s \in SUBSET S : Cardinality(s) <= k - 1 => Right(h, s)
    BY <1>4
  <2> DEFINE g == [s \in SUBSET S |->
                     IF Cardinality(s) <= k - 1 \/ s = {} THEN h[s] ELSE f[pick(s)] + h[s \ {pick(s)}]]
  <2>2. g \in [SUBSET S -> Nat]
    BY <1>1
  <2>3. ASSUME NEW s \in SUBSET S, Cardinality(s) <= k PROVE Right(g, s)
    <3>1. CASE s = {}
      <4>1. Cardinality(s) = 0
        BY <3>1, FS_EmptySet
      <4>2. Cardinality(s) <= k - 1
        BY <4>1, <1>2
      <4>3. g[s] = h[s]
        BY <3>1
      <4>4. Right(h, s)
        BY <4>2, <2>1
      <4> QED BY <4>3, <4>4, <3>1
    <3>2. CASE s # {}
      <4> DEFINE t == s \ {pick(s)}
      <4>1. t \in SUBSET S /\ Cardinality(t) = Cardinality(s) - 1 /\ Cardinality(s) \in Nat
        BY <3>2, <1>1
      <4>2. Cardinality(t) <= k - 1
        BY <4>1, <2>3, <1>2
      <4>3. g[t] = h[t]
        BY <4>1, <4>2
      <4>4. g[s] = f[pick(s)] + h[t]
        <5>1. CASE Cardinality(s) <= k - 1
          BY <5>1, <3>2, <2>1
        <5>2. CASE ~(Cardinality(s) <= k - 1)
          BY <5>2, <3>2
        <5> QED BY <5>1, <5>2
      <4> QED BY <3>2, <4>3, <4>4
    <3> QED BY <3>1, <3>2
  <2>4. k \in 0 .. n
    BY <1>2
  <2> HIDE DEF g, Right
  <2> QED BY <2>2, <2>3, <2>4
<1> HIDE DEF K
<1>5. 0 .. n \subseteq K
  BY <1>2, <1>3, <1>4, UpTo
<1>6. n \in K
  BY <1>2, <1>5
<1> QED BY <1>1, <1>6 DEF K, Sums, pick

\* A sum is what adds up.
LEMMA SumUnique ==
  ASSUME NEW S, IsFiniteSet(S), NEW f, NEW h, Sums(h, f, S), NEW sum, AddsUp(sum, f, S)
  PROVE  h[S] = sum[S]
<1> DEFINE n == Cardinality(S)
           K == {k \in 0 .. n : \A s \in SUBSET S : Cardinality(s) = k => h[s] = sum[s]}
<1>1. n \in Nat
  BY FS_CardinalityType
<1>2. 0 \in K
  <2>1. ASSUME NEW s \in SUBSET S, Cardinality(s) = 0 PROVE h[s] = sum[s]
    <3>1. s = {}
      BY <2>1, SmallerSubset
    <3> QED BY <3>1 DEF Sums, AddsUp
  <2> QED BY <2>1, <1>1
<1>3. ASSUME NEW k \in 1 .. n, k - 1 \in K PROVE k \in K
  <2>1. ASSUME NEW s \in SUBSET S, Cardinality(s) = k PROVE h[s] = sum[s]
    <3> DEFINE x == CHOOSE x \in s : TRUE
    <3>1. s # {} /\ x \in s /\ s \ {x} \in SUBSET S /\ Cardinality(s \ {x}) = k - 1
      BY <2>1, <1>1, SmallerSubset
    <3>2. h[s] = f[x] + h[s \ {x}]
      BY <3>1 DEF Sums
    <3>3. sum[s] = f[x] + sum[s \ {x}]
      BY <3>1 DEF AddsUp
    <3>4. h[s \ {x}] = sum[s \ {x}]
      BY <3>1, <1>3
    <3> QED BY <3>2, <3>3, <3>4
  <2>2. k \in 0 .. n
    BY <1>1
  <2> QED BY <2>1, <2>2
<1> HIDE DEF K
<1>4. 0 .. n \subseteq K
  BY <1>1, <1>2, <1>3, UpTo
<1>5. n \in K
  BY <1>1, <1>4
<1> QED BY <1>5 DEF K

\* f is a sequence of values, each made from the one before it.
Recursion(f, base, step) == f[0] = base /\ \A k \in Nat : f[k + 1] = step[f[k]]

\* There is one.
LEMMA RecursionExists ==
  ASSUME NEW V, NEW base \in V, NEW step \in [V -> V]
  PROVE  \E f \in [Nat -> V] : Recursion(f, base, step)
<1> DEFINE Starts(f, n) == f[0] = base /\ \A k \in 1 .. n : f[k] = step[f[k - 1]]
           K == {n \in Nat : \E f \in [0 .. n -> V] : Starts(f, n)}
<1>1. 0 \in K
  <2> DEFINE f == [k \in 0 .. 0 |-> base]
  <2>1. f \in [0 .. 0 -> V] /\ Starts(f, 0)
    OBVIOUS
  <2> HIDE DEF f, Starts
  <2> QED BY <2>1
<1>2. ASSUME NEW n \in Nat, n \in K PROVE n + 1 \in K
  <2>1. PICK f \in [0 .. n -> V] : Starts(f, n)
    BY <1>2
  <2> DEFINE g == [k \in 0 .. n + 1 |-> IF k = n + 1 THEN step[f[n]] ELSE f[k]]
  <2>2. f[n] \in V
    OBVIOUS
  <2>3. g \in [0 .. n + 1 -> V]
    BY <2>2
  <2>4. Starts(g, n + 1)
    <3>1. g[0] = base
      BY <2>1
    <3>2. ASSUME NEW k \in 1 .. n + 1 PROVE g[k] = step[g[k - 1]]
      <4>1. k - 1 \in 0 .. n /\ g[k - 1] = f[k - 1]
        OBVIOUS
      <4>2. CASE k = n + 1
        BY <4>1, <4>2
      <4>3. CASE k # n + 1
        <5>1. k \in 1 .. n /\ g[k] = f[k]
          BY <4>3
        <5> QED BY <5>1, <4>1, <2>1
      <4> QED BY <4>2, <4>3
    <3> QED BY <3>1, <3>2
  <2> HIDE DEF g, Starts
  <2> QED BY <2>3, <2>4
<1> HIDE DEF K
<1>3. Nat \subseteq K
  BY <1>1, <1>2, SetInduction
<1> DEFINE P(n) == CHOOSE f \in [0 .. n -> V] : Starts(f, n)
           F == [n \in Nat |-> P(n)[n]]
<1>4. ASSUME NEW n \in Nat PROVE P(n) \in [0 .. n -> V] /\ Starts(P(n), n)
  <2>1. \E f \in [0 .. n -> V] : Starts(f, n)
    BY <1>3 DEF K
  <2> HIDE DEF Starts
  <2> QED BY <2>1
<1> HIDE DEF P
<1>5. ASSUME NEW n \in Nat, NEW k \in 0 .. n PROVE P(n)[k] = P(k)[k]
  <2> DEFINE L == {j \in 0 .. k : P(n)[j] = P(k)[j]}
  <2>1. 0 \in L
    BY <1>4
  <2>2. ASSUME NEW j \in 1 .. k, j - 1 \in L PROVE j \in L
    <3>1. P(n)[j] = step[P(n)[j - 1]] /\ P(k)[j] = step[P(k)[j - 1]]
      <4>1. j \in 1 .. n /\ k \in Nat
        OBVIOUS
      <4> QED BY <4>1, <1>4
    <3>2. P(n)[j - 1] = P(k)[j - 1] /\ j \in 0 .. k
      BY <2>2
    <3> QED BY <3>1, <3>2
  <2> HIDE DEF L
  <2>3. 0 .. k \subseteq L
    BY <2>1, <2>2, UpTo
  <2>4. k \in L
    BY <2>3
  <2> QED BY <2>4 DEF L
<1>6. F \in [Nat -> V]
  <2>1. \A n \in Nat : P(n)[n] \in V
    BY <1>4
  <2> QED BY <2>1
<1>7. F[0] = base
  BY <1>4
<1>8. ASSUME NEW k \in Nat PROVE F[k + 1] = step[F[k]]
  <2>1. k + 1 \in 1 .. k + 1 /\ (k + 1) - 1 = k
    OBVIOUS
  <2>2. P(k + 1)[k + 1] = step[P(k + 1)[(k + 1) - 1]]
    BY <2>1, <1>4
  <2>3. P(k + 1)[k] = P(k)[k]
    BY <1>5
  <2> QED BY <2>1, <2>2, <2>3
<1> HIDE DEF F
<1>9. Recursion(F, base, step)
  BY <1>7, <1>8 DEF Recursion
<1> QED BY <1>6, <1>9
=============================================================================
