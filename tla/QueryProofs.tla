---------------------------- MODULE QueryProofs ----------------------------
(***************************************************************************)
(* What Search answers, from the invariant of SearchProofs: the distances  *)
(* and the subtrees that breadth-first search finds, the links that are    *)
(* suggested, the order of rank fusion, and that an answer is sound and    *)
(* misses nothing.                                                         *)
(***************************************************************************)
EXTENDS SearchProofs

-----------------------------------------------------------------------------
(* Distances. *)

\* near[k] are the nodes at most k steps from n, where next gives the steps.
Balls(near, next, n) ==
  /\ near \in [Nat -> SUBSET Nodes]
  /\ near[0] = {n}
  /\ \A k \in Nat : near[k + 1] = near[k] \cup UNION {next[m] : m \in near[k]}

\* The nodes that are near.
LEMMA BallsExist ==
  ASSUME NEW next \in [Nodes -> SUBSET Nodes], NEW n \in Nodes
  PROVE  \E near : Balls(near, next, n)
<1> DEFINE step == [S \in SUBSET Nodes |-> S \cup UNION {next[m] : m \in S}]
<1>1. step \in [SUBSET Nodes -> SUBSET Nodes]
  OBVIOUS
<1>2. \A S \in SUBSET Nodes : step[S] = S \cup UNION {next[m] : m \in S}
  OBVIOUS
<1>3. {n} \in SUBSET Nodes
  OBVIOUS
<1> HIDE DEF step
<1>4. PICK f \in [Nat -> SUBSET Nodes] : Recursion(f, {n}, step)
  BY <1>1, <1>3, RecursionExists
<1>5. Balls(f, next, n)
  BY <1>2, <1>4 DEF Balls, Recursion
<1> QED BY <1>5

\* One step further is nearer than none, and so are more.
LEMMA BallsGrow ==
  ASSUME NEW near, NEW next, NEW n, Balls(near, next, n), NEW k \in Nat, NEW l \in Nat, k <= l
  PROVE  near[k] \subseteq near[l]
<1> DEFINE K == {j \in Nat : near[k] \subseteq near[k + j]}
<1>1. 0 \in K
  OBVIOUS
<1>2. ASSUME NEW j \in Nat, j \in K PROVE j + 1 \in K
  <2>1. near[(k + j) + 1] = near[k + j] \cup UNION {next[m] : m \in near[k + j]}
    BY DEF Balls
  <2>2. (k + j) + 1 = k + (j + 1)
    OBVIOUS
  <2> QED BY <2>1, <2>2, <1>2
<1> HIDE DEF K
<1>3. Nat \subseteq K
  BY <1>1, <1>2, SetInduction
<1>4. l - k \in Nat /\ k + (l - k) = l
  OBVIOUS
<1> QED BY <1>3, <1>4 DEF K

\* Ball is what it says: the nodes that are near over the stored edges, whatever their direction.
LEMMA BesideBalls ==
  ASSUME edges \in EdgeTables, NEW n \in Nodes, NEW near, Balls(near, [m \in Nodes |-> Beside(m)], n),
         NEW k \in Nat
  PROVE  Ball(Beside, n, k) = near[k]
<1> DEFINE Solves(b) == b = [j \in Nat |->
                               IF j = 0 THEN {n}
                               ELSE b[j - 1] \cup UNION {Beside(m) : m \in b[j - 1]}]
           ball == CHOOSE b : Solves(b)
           K == {j \in Nat : ball[j] = near[j]}
<1>1. Ball(Beside, n, k) = ball[k]
  BY DEF Ball
<1>2. near \in [Nat -> SUBSET Nodes] /\ near[0] = {n}
      /\ \A j \in Nat : near[j + 1] = near[j] \cup UNION {Beside(m) : m \in near[j]}
  <2>1. ASSUME NEW S \in SUBSET Nodes
        PROVE  {[m \in Nodes |-> Beside(m)][l] : l \in S} = {Beside(m) : m \in S}
    OBVIOUS
  <2> QED BY <2>1 DEF Balls
<1>3. Solves(near)
  <2>1. ASSUME NEW j \in Nat, j # 0 PROVE near[j] = near[j - 1] \cup UNION {Beside(m) : m \in near[j - 1]}
    <3>1. j - 1 \in Nat /\ (j - 1) + 1 = j
      BY <2>1
    <3> QED BY <3>1, <1>2
  <2>2. \A j \in Nat : near[j] = IF j = 0 THEN {n} ELSE near[j - 1] \cup UNION {Beside(m) : m \in near[j - 1]}
    BY <2>1, <1>2
  <2> QED BY <2>2, <1>2
<1>4. Solves(ball)
  <2> HIDE DEF Solves
  <2> QED BY <1>3
<1> HIDE DEF ball
<1>5. 0 \in K
  BY <1>2, <1>4
<1>6. ASSUME NEW j \in Nat, j \in K PROVE j + 1 \in K
  <2>1. j + 1 \in Nat /\ j + 1 # 0 /\ (j + 1) - 1 = j
    OBVIOUS
  <2>2. ball[j + 1] = ball[(j + 1) - 1] \cup UNION {Beside(m) : m \in ball[(j + 1) - 1]}
    BY <2>1, <1>4
  <2>3. ball[j] = near[j]
    BY <1>6
  <2>4. ball[j + 1] = near[j + 1]
    BY <2>1, <2>2, <2>3, <1>2
  <2> QED BY <2>1, <2>4
<1> HIDE DEF K
<1>7. Nat \subseteq K
  BY <1>5, <1>6, SetInduction
<1> QED BY <1>1, <1>7 DEF K

\* Ball is what it says: the nodes that are near over the stored edges, in their direction.
LEMMA TargetBalls ==
  ASSUME edges \in EdgeTables, NEW n \in Nodes, NEW near, Balls(near, [m \in Nodes |-> Targets(m)], n),
         NEW k \in Nat
  PROVE  Ball(Targets, n, k) = near[k]
<1> DEFINE Solves(b) == b = [j \in Nat |->
                               IF j = 0 THEN {n}
                               ELSE b[j - 1] \cup UNION {Targets(m) : m \in b[j - 1]}]
           ball == CHOOSE b : Solves(b)
           K == {j \in Nat : ball[j] = near[j]}
<1>1. Ball(Targets, n, k) = ball[k]
  BY DEF Ball
<1>2. near \in [Nat -> SUBSET Nodes] /\ near[0] = {n}
      /\ \A j \in Nat : near[j + 1] = near[j] \cup UNION {Targets(m) : m \in near[j]}
  <2>1. ASSUME NEW S \in SUBSET Nodes
        PROVE  {[m \in Nodes |-> Targets(m)][l] : l \in S} = {Targets(m) : m \in S}
    OBVIOUS
  <2> QED BY <2>1 DEF Balls
<1>3. Solves(near)
  <2>1. ASSUME NEW j \in Nat, j # 0 PROVE near[j] = near[j - 1] \cup UNION {Targets(m) : m \in near[j - 1]}
    <3>1. j - 1 \in Nat /\ (j - 1) + 1 = j
      BY <2>1
    <3> QED BY <3>1, <1>2
  <2>2. \A j \in Nat : near[j] = IF j = 0 THEN {n} ELSE near[j - 1] \cup UNION {Targets(m) : m \in near[j - 1]}
    BY <2>1, <1>2
  <2> QED BY <2>2, <1>2
<1>4. Solves(ball)
  <2> HIDE DEF Solves
  <2> QED BY <1>3
<1> HIDE DEF ball
<1>5. 0 \in K
  BY <1>2, <1>4
<1>6. ASSUME NEW j \in Nat, j \in K PROVE j + 1 \in K
  <2>1. j + 1 \in Nat /\ j + 1 # 0 /\ (j + 1) - 1 = j
    OBVIOUS
  <2>2. ball[j + 1] = ball[(j + 1) - 1] \cup UNION {Targets(m) : m \in ball[(j + 1) - 1]}
    BY <2>1, <1>4
  <2>3. ball[j] = near[j]
    BY <1>6
  <2>4. ball[j + 1] = near[j + 1]
    BY <2>1, <2>2, <2>3, <1>2
  <2> QED BY <2>1, <2>4
<1> HIDE DEF K
<1>7. Nat \subseteq K
  BY <1>5, <1>6, SetInduction
<1> QED BY <1>1, <1>7 DEF K

-----------------------------------------------------------------------------
(* Breadth-first search. *)

\* The nodes a search meets, with their distances, and the states of a search that
\* lists members of O.
Hits == [id : Nodes, depth : Nat]
Searches(O) == [visited : SUBSET Nodes, queue : Seq(Hits), out : Seq(O)]

\* new are the nodes in T that s has not visited, each once, at depth d.
Fresh(new, s, T, d) ==
  /\ new \in Seq(Hits)
  /\ {new[k].id : k \in DOMAIN new} = T \ s.visited
  /\ \A k \in DOMAIN new : new[k].depth = d
  /\ \A k, l \in DOMAIN new : new[k].id = new[l].id => k = l

\* t is s after the nodes in T are met at depth d.
Met(s, t, T, d) ==
  /\ t.visited = s.visited \cup T /\ t.out = s.out
  /\ \E new : Fresh(new, s, T, d) /\ t.queue = s.queue \o new

\* Meeting one node more.
LEMMA VisitMet ==
  ASSUME NEW O, NEW s \in Searches(O), NEW t \in Searches(O), NEW T \in SUBSET Nodes, NEW d \in Nat,
         NEW r \in Refs, Met(s, t, T, d)
  PROVE  Visit(t, r, d) \in Searches(O) /\ Met(s, Visit(t, r, d), T \cup {r.target}, d)
<1> DEFINE m == r.target
           h == [id |-> m, depth |-> d]
           u == Visit(t, r, d)
<1>1. m \in Nodes /\ h \in Hits /\ h.id = m /\ h.depth = d
  BY DEF Refs, Hits
<1>2. t = [visited |-> t.visited, queue |-> t.queue, out |-> t.out]
      /\ t.visited \in SUBSET Nodes /\ t.queue \in Seq(Hits) /\ t.out \in Seq(O) /\ s.queue \in Seq(Hits)
  BY DEF Searches
<1> HIDE DEF h, m
<1>3. PICK new : Fresh(new, s, T, d) /\ t.queue = s.queue \o new
  BY DEF Met
<1>4. t.visited = s.visited \cup T /\ t.out = s.out
  BY DEF Met
<1>5. CASE m \in t.visited
  <2>1. u = t
    BY <1>5 DEF Visit, m
  <2>2. T \cup {m} \subseteq s.visited \cup T
    BY <1>4, <1>5
  <2>3. s.visited \cup (T \cup {m}) = s.visited \cup T
    BY <2>2
  <2>4. CASE m \in T
    <3>1. T \cup {m} = T
      BY <2>4
    <3> QED BY <2>1, <3>1 DEF m
  <2>5. CASE m \notin T
    <3>1. (T \cup {m}) \ s.visited = T \ s.visited
      BY <1>4, <1>5, <2>5
    <3>2. Fresh(new, s, T \cup {m}, d)
      BY <3>1, <1>3 DEF Fresh
    <3>3. Met(s, t, T \cup {m}, d)
      BY <3>2, <2>3, <1>3, <1>4 DEF Met
    <3> QED BY <2>1, <3>3 DEF m
  <2> QED BY <2>4, <2>5
<1>6. CASE m \notin t.visited
  <2> DEFINE more == Append(new, h)
  <2>1. u = [t EXCEPT !.visited = t.visited \cup {m}, !.queue = Append(t.queue, h)]
    BY <1>6 DEF Visit, m, h
  <2>2. u = [visited |-> t.visited \cup {m}, queue |-> Append(t.queue, h), out |-> t.out]
    BY <2>1, <1>2
  <2>3. new \in Seq(Hits)
    BY <1>3 DEF Fresh
  <2>4. PICK n \in Nat : n = Len(new) /\ DOMAIN new = 1 .. n
    BY <2>3
  <2>5. more \in Seq(Hits) /\ DOMAIN more = 1 .. n + 1 /\ more[n + 1] = h /\ \A k \in 1 .. n : more[k] = new[k]
    BY <2>3, <2>4, <1>1
  <2>6. Append(t.queue, h) = s.queue \o more
    <3>1. s.queue \in Seq(Hits) /\ h \in Hits
      BY <1>1, <1>2
    <3>2. Joined(s.queue, new, h)
      BY <3>1, <2>3, AppendConcat
    <3> QED BY <3>2, <1>3 DEF Joined
  <2> HIDE DEF more
  <2>7. \A k \in 1 .. n : new[k].id \in T /\ new[k].id # m
    <3>1. {new[k].id : k \in 1 .. n} = T \ s.visited /\ m \notin T
      BY <1>3, <1>4, <1>6, <2>4 DEF Fresh
    <3> QED BY <3>1
  <2>8. Fresh(more, s, T \cup {m}, d)
    <3>1. {more[k].id : k \in DOMAIN more} = (T \cup {m}) \ s.visited
      <4>1. 1 .. n + 1 = (1 .. n) \cup {n + 1}
        BY <2>4
      <4>2. {more[k].id : k \in DOMAIN more} = {new[k].id : k \in DOMAIN new} \cup {m}
        BY <4>1, <2>4, <2>5, <1>1
      <4> QED BY <4>2, <1>3, <1>4, <1>6 DEF Fresh
    <3>2. \A k \in DOMAIN more : more[k].depth = d
      <4>1. \A k \in DOMAIN more : k \in 1 .. n \/ k = n + 1
        BY <2>4, <2>5
      <4> QED BY <4>1, <1>1, <1>3, <2>4, <2>5 DEF Fresh
    <3>3. ASSUME NEW k \in DOMAIN more, NEW l \in DOMAIN more, more[k].id = more[l].id PROVE k = l
      <4>1. (k \in 1 .. n \/ k = n + 1) /\ (l \in 1 .. n \/ l = n + 1)
        BY <2>4, <2>5
      <4>2. CASE k \in 1 .. n /\ l \in 1 .. n
        BY <4>2, <3>3, <1>3, <2>4, <2>5 DEF Fresh
      <4> QED BY <4>1, <4>2, <3>3, <2>5, <2>7, <1>1
    <3> QED BY <3>1, <3>2, <3>3, <2>5 DEF Fresh
  <2>9. u.visited = s.visited \cup (T \cup {m}) /\ u.out = s.out /\ u.queue = s.queue \o more
    BY <2>2, <2>6, <1>4
  <2>10. Met(s, u, T \cup {m}, d)
    BY <2>8, <2>9 DEF Met
  <2>11. u \in Searches(O)
    <3>1. Append(t.queue, h) \in Seq(Hits)
      BY <1>1, <1>2
    <3> QED BY <2>2, <3>1, <1>1, <1>2 DEF Searches
  <2> QED BY <2>10, <2>11 DEF u, m
<1> QED BY <1>5, <1>6

\* Meeting no node.
LEMMA NoneMet ==
  ASSUME NEW O, NEW s \in Searches(O), NEW d \in Nat
  PROVE  Met(s, s, {}, d)
<1>1. Fresh(<<>>, s, {}, d)
  BY DEF Fresh
<1>2. s.queue = s.queue \o <<>>
  BY DEF Searches
<1> QED BY <1>1, <1>2 DEF Met

\* Meeting a node keeps a state of a search.
LEMMA VisitType ==
  ASSUME NEW O, NEW s \in Searches(O), NEW r \in Refs, NEW d \in Nat
  PROVE  Visit(s, r, d) \in Searches(O)
<1>1. {} \in SUBSET Nodes
  OBVIOUS
<1> QED BY <1>1, NoneMet, VisitMet

\* VisitAll follows one reference after the other.
LEMMA VisitSteps ==
  ASSUME NEW O, NEW start \in Searches(O), NEW refs \in Seq(Refs), NEW d \in Nat
  PROVE  \E it \in [0 .. Len(refs) -> Searches(O)] :
           /\ it[0] = start
           /\ \A k \in 1 .. Len(refs) : it[k] = Visit(it[k - 1], refs[k], d)
           /\ VisitAll(start, refs, d) = it[Len(refs)]
<1> DEFINE n == Len(refs)
           D == DOMAIN refs
           Solves(g) == g = [s \in SUBSET D |->
                               IF s = {} THEN start
                               ELSE Visit(g[s \ {Max(s)}], refs[Max(s)], d)]
           h == CHOOSE g : Solves(g)
           step == [k \in 1 .. n |-> [g \in Searches(O) |-> Visit(g, refs[k], d)]]
<1>1. VisitAll(start, refs, d) = h[D]
  BY DEF VisitAll, FoldLeft, MapThenFoldSet
<1>2. n \in Nat /\ D = 1 .. n /\ \A k \in 1 .. n : refs[k] \in Refs
  OBVIOUS
<1> HIDE DEF D, n
<1>3. step \in [1 .. n -> [Searches(O) -> Searches(O)]]
  BY <1>2, VisitType
<1>4. ASSUME NEW k \in 1 .. n, NEW g \in Searches(O)
      PROVE  step[k][g] = Visit(g, refs[k], d)
  BY <1>2
<1> HIDE DEF step
<1>5. PICK g \in [SUBSET (1 .. n) -> Searches(O)] : Folds(g, n, start, step)
  BY <1>2, <1>3, FoldExists
<1>6. Solves(g)
  <2>1. ASSUME NEW s \in SUBSET (1 .. n)
        PROVE  g[s] = IF s = {} THEN start ELSE Visit(g[s \ {Max(s)}], refs[Max(s)], d)
    <3>1. CASE s = {}
      BY <1>5, <3>1 DEF Folds
    <3>2. CASE s # {}
      <4>1. Max(s) \in 1 .. n
        BY <1>2, <3>2, Greatest
      <4>2. g[s] = step[Max(s)][g[s \ {Max(s)}]] /\ g[s \ {Max(s)}] \in Searches(O)
        BY <1>5, <3>2 DEF Folds
      <4> QED BY <4>1, <4>2, <1>4, <3>2
    <3> QED BY <3>1, <3>2
  <2> QED BY <2>1, <1>2
<1>7. Solves(h)
  BY <1>6
<1> HIDE DEF h
<1>8. h[{}] = start
  BY <1>7
<1>9. ASSUME NEW k \in 1 .. n, h[1 .. k - 1] \in Searches(O)
      PROVE  h[1 .. k] = step[k][h[1 .. k - 1]]
  <2>1. 1 .. k \in SUBSET D /\ 1 .. k # {} /\ Max(1 .. k) = k /\ (1 .. k) \ {k} = 1 .. k - 1
    BY <1>2, LastOf
  <2>2. h[1 .. k] = Visit(h[(1 .. k) \ {Max(1 .. k)}], refs[Max(1 .. k)], d)
    BY <1>7, <2>1
  <2> QED BY <2>1, <2>2, <1>4, <1>9
<1> HIDE DEF Solves
<1>10. PICK it \in [0 .. n -> Searches(O)] : Steps(it, n, start, step) /\ it[n] = h[1 .. n]
  <2>1. Follows(h, Searches(O), n, step) /\ n \in Nat
    BY <1>2, <1>9 DEF Follows
  <2>2. Stepped(Searches(O), n, start, step, h)
    BY <2>1, <1>3, <1>8, FoldSteps
  <2> QED BY <2>2 DEF Stepped
<1>11. ASSUME NEW k \in 1 .. n PROVE it[k] = Visit(it[k - 1], refs[k], d)
  <2>1. it[k] = step[k][it[k - 1]] /\ it[k - 1] \in Searches(O)
    BY <1>2, <1>10 DEF Steps
  <2> QED BY <2>1, <1>2, <1>4
<1>12. it[0] = start /\ VisitAll(start, refs, d) = it[n]
  BY <1>1, <1>2, <1>10 DEF Steps
<1> QED BY <1>11, <1>12 DEF n

\* VisitAll meets the targets of the references.
LEMMA VisitAllMet ==
  ASSUME NEW O, NEW s \in Searches(O), NEW refs \in Seq(Refs), NEW d \in Nat
  PROVE  /\ VisitAll(s, refs, d) \in Searches(O)
         /\ Met(s, VisitAll(s, refs, d), {refs[k].target : k \in DOMAIN refs}, d)
<1> DEFINE n == Len(refs)
           T(k) == {refs[m].target : m \in 1 .. k}
<1>1. n \in Nat /\ DOMAIN refs = 1 .. n /\ \A k \in 1 .. n : refs[k] \in Refs /\ refs[k].target \in Nodes
  <2>1. n \in Nat /\ DOMAIN refs = 1 .. n /\ \A k \in 1 .. n : refs[k] \in Refs
    OBVIOUS
  <2>2. \A r \in Refs : r.target \in Nodes
    BY DEF Refs
  <2> QED BY <2>1, <2>2
<1>2. PICK it \in [0 .. n -> Searches(O)] :
        /\ it[0] = s
        /\ \A k \in 1 .. n : it[k] = Visit(it[k - 1], refs[k], d)
        /\ VisitAll(s, refs, d) = it[n]
  BY VisitSteps
<1> HIDE DEF n
<1> DEFINE K == {k \in 0 .. n : Met(s, it[k], T(k), d)}
<1>3. 0 \in K
  <2>1. T(0) = {} /\ 0 \in 0 .. n
    BY <1>1
  <2> HIDE DEF T
  <2> QED BY <2>1, <1>2, NoneMet
<1>4. ASSUME NEW k \in 1 .. n, k - 1 \in K PROVE k \in K
  <2>1. k \in 0 .. n /\ k - 1 \in 0 .. n /\ T(k) = T(k - 1) \cup {refs[k].target} /\ T(k - 1) \in SUBSET Nodes
    <3>1. 1 .. k = (1 .. k - 1) \cup {k} /\ 1 .. k - 1 \subseteq 1 .. n
      BY <1>1
    <3> QED BY <3>1, <1>1
  <2> HIDE DEF T
  <2>2. Met(s, it[k - 1], T(k - 1), d) /\ it[k - 1] \in Searches(O) /\ refs[k] \in Refs
    BY <1>1, <1>4, <2>1
  <2>3. Met(s, Visit(it[k - 1], refs[k], d), T(k - 1) \cup {refs[k].target}, d)
    BY <2>1, <2>2, VisitMet
  <2> QED BY <2>1, <2>3, <1>2
<1> HIDE DEF K, T
<1>5. 0 .. n \subseteq K
  BY <1>1, <1>3, <1>4, UpTo
<1>6. Met(s, it[n], T(n), d) /\ it[n] \in Searches(O)
  BY <1>1, <1>5 DEF K
<1> QED BY <1>1, <1>2, <1>6 DEF T

-----------------------------------------------------------------------------
(* The rounds of the two searches. *)

\* The head of the queue is taken off.
Taken(t) == [t EXCEPT !.queue = Tail(@)]

\* One round of Neighborhood: the head of the queue is listed, unless it is the
\* start, and its neighbours are met unless it is at the limit.
ServedNear(a, d, t, cur) ==
  LET listed == IF cur.depth = 0 THEN t ELSE [t EXCEPT !.out = Append(@, cur)]
  IN IF AtLimit(cur.depth, d) THEN listed
     ELSE VisitAll(listed, a.forward[cur.id] \o a.reverse[cur.id], cur.depth + 1)
RoundNear(a, d, t) ==
  IF t.queue = <<>> THEN t
  ELSE Taken(ServedNear(a, d, t, Head(t.queue)))

\* One round of SubtreeEdges: unless the head of the queue is at the limit its
\* edges are listed and their ends are met.
ServedTree(a, d, t, cur) ==
  IF AtLimit(cur.depth, d) THEN t
  ELSE VisitAll([t EXCEPT !.out = @ \o a.forward[cur.id]], a.forward[cur.id], cur.depth + 1)
RoundTree(a, d, t) ==
  IF t.queue = <<>> THEN t
  ELSE Taken(ServedTree(a, d, t, Head(t.queue)))

\* The start of a search.
LEMMA StartType ==
  ASSUME NEW O, NEW n \in Nodes
  PROVE  Start(n) \in Searches(O)
BY DEF Start, Searches, Hits

\* Taking the head off the queue.
LEMMA TailType ==
  ASSUME NEW O, NEW t \in Searches(O), t.queue # <<>>
  PROVE  /\ Taken(t) \in Searches(O)
         /\ Taken(t) = [visited |-> t.visited, queue |-> Tail(t.queue), out |-> t.out]
<1>1. t = [visited |-> t.visited, queue |-> t.queue, out |-> t.out]
      /\ t.visited \in SUBSET Nodes /\ t.queue \in Seq(Hits) /\ t.out \in Seq(O)
  BY DEF Searches
<1>2. Tail(t.queue) \in Seq(Hits)
  BY <1>1
<1> DEFINE q == Tail(t.queue)
<1>3. Taken(t) = [t EXCEPT !.queue = q]
  BY DEF Taken
<1> HIDE DEF q
<1>4. [t EXCEPT !.queue = q] = [visited |-> t.visited, queue |-> q, out |-> t.out]
  BY <1>1
<1>5. Taken(t) = [visited |-> t.visited, queue |-> Tail(t.queue), out |-> t.out]
  BY <1>3, <1>4 DEF q
<1> QED BY <1>1, <1>2, <1>5 DEF Searches

\* u has met the nodes in T, behind those that wait in t.
Reached(t, u, T, c) ==
  /\ u.visited = t.visited \cup T
  /\ \E new : Fresh(new, t, T, c) /\ u.queue = t.queue \o new

\* What is met from a hit: the nodes beside it, and none at the limit.
From(next, cur, d) == IF AtLimit(cur.depth, d) THEN {} ELSE next[cur.id]

\* The references of a node lead to its neighbours.
LEMMA RefTargets ==
  ASSUME NEW a \in Adjacency, NEW n \in Nodes
  PROVE  /\ a.forward[n] \in Seq(Refs) /\ a.reverse[n] \in Seq(Refs)
         /\ a.forward[n] \o a.reverse[n] \in Seq(Refs)
         /\ LET refs == a.forward[n] \o a.reverse[n]
            IN {refs[k].target : k \in DOMAIN refs} = AllNeighborIDs(a, n)
<1> DEFINE f == a.forward[n]
           r == a.reverse[n]
           refs == f \o r
<1>1. f \in Seq(Refs) /\ r \in Seq(Refs)
  BY DEF Adjacency
<1>2. AllNeighborIDs(a, n) = {f[k].target : k \in DOMAIN f} \cup {r[k].target : k \in DOMAIN r}
  BY DEF AllNeighborIDs
<1> HIDE DEF f, r
<1>3. refs \in Seq(Refs) /\ DOMAIN f = 1 .. Len(f) /\ DOMAIN r = 1 .. Len(r)
      /\ DOMAIN refs = 1 .. Len(f) + Len(r) /\ Len(f) \in Nat /\ Len(r) \in Nat
  BY <1>1
<1>4. /\ \A k \in 1 .. Len(f) : refs[k] = f[k]
      /\ \A k \in 1 .. Len(r) : refs[k + Len(f)] = r[k]
  BY <1>1
<1> HIDE DEF refs
<1>5. ASSUME NEW k \in DOMAIN refs
      PROVE  refs[k].target \in {f[l].target : l \in DOMAIN f} \cup {r[l].target : l \in DOMAIN r}
  <2>1. CASE k <= Len(f)
    BY <1>3, <1>4, <2>1
  <2>2. CASE k > Len(f)
    <3>1. k - Len(f) \in 1 .. Len(r) /\ (k - Len(f)) + Len(f) = k
      BY <1>3, <2>2
    <3>2. refs[k] = r[k - Len(f)]
      BY <3>1, <1>4
    <3> QED BY <3>1, <3>2, <1>3
  <2> QED BY <2>1, <2>2, <1>3
<1>6. ASSUME NEW l \in DOMAIN f PROVE f[l].target \in {refs[k].target : k \in DOMAIN refs}
  <2>1. l \in DOMAIN refs /\ refs[l] = f[l]
    BY <1>3, <1>4
  <2> QED BY <2>1
<1>7. ASSUME NEW l \in DOMAIN r PROVE r[l].target \in {refs[k].target : k \in DOMAIN refs}
  <2>1. l + Len(f) \in DOMAIN refs /\ refs[l + Len(f)] = r[l]
    BY <1>3, <1>4
  <2> QED BY <2>1
<1>8. {refs[k].target : k \in DOMAIN refs} = AllNeighborIDs(a, n)
  BY <1>2, <1>5, <1>6, <1>7
<1> QED BY <1>1, <1>3, <1>8 DEF f, r, refs

\* Nothing is met at the limit.
LEMMA NoneReached ==
  ASSUME NEW O, NEW t \in Searches(O), NEW u \in Searches(O), u.visited = t.visited, u.queue = t.queue,
         NEW c \in Nat
  PROVE  Reached(t, u, {}, c)
<1>1. Fresh(<<>>, t, {}, c)
  BY DEF Fresh
<1>2. t.queue = t.queue \o <<>>
  BY DEF Searches
<1> QED BY <1>1, <1>2 DEF Reached

\* Following all references meets their targets.
LEMMA AllReached ==
  ASSUME NEW O, NEW t \in Searches(O), NEW v \in Searches(O), v.visited = t.visited, v.queue = t.queue,
         NEW refs \in Seq(Refs), NEW c \in Nat, NEW T, T = {refs[k].target : k \in DOMAIN refs}
  PROVE  /\ VisitAll(v, refs, c) \in Searches(O) /\ VisitAll(v, refs, c).out = v.out
         /\ Reached(t, VisitAll(v, refs, c), T, c)
<1> DEFINE u == VisitAll(v, refs, c)
<1>1. u \in Searches(O) /\ Met(v, u, T, c)
  BY VisitAllMet
<1> HIDE DEF u
<1>2. PICK new : Fresh(new, v, T, c) /\ u.queue = v.queue \o new
  BY <1>1 DEF Met
<1>3. Fresh(new, t, T, c)
  BY <1>2 DEF Fresh
<1>4. u.visited = t.visited \cup T /\ u.out = v.out
  BY <1>1 DEF Met
<1>5. Reached(t, u, T, c)
  BY <1>2, <1>3, <1>4 DEF Reached
<1> QED BY <1>1, <1>4, <1>5 DEF u

\* The nodes beside a node, in the index.
Around(a) == [n \in Nodes |-> AllNeighborIDs(a, n)]
Ahead(a) == [n \in Nodes |-> {a.forward[n][k].target : k \in DOMAIN a.forward[n]}]

\* What serving a hit meets and lists.
LEMMA ServedNearReached ==
  ASSUME NEW a \in Adjacency, NEW d \in Nat, NEW t \in Searches(Hits), NEW cur \in Hits
  PROVE  LET u == ServedNear(a, d, t, cur)
         IN /\ u \in Searches(Hits)
            /\ u.out = IF cur.depth = 0 THEN t.out ELSE Append(t.out, cur)
            /\ Reached(t, u, From(Around(a), cur, d), cur.depth + 1)
<1> DEFINE v == IF cur.depth = 0 THEN t ELSE [t EXCEPT !.out = Append(@, cur)]
           refs == a.forward[cur.id] \o a.reverse[cur.id]
           u == ServedNear(a, d, t, cur)
           out == IF cur.depth = 0 THEN t.out ELSE Append(t.out, cur)
<1>1. t = [visited |-> t.visited, queue |-> t.queue, out |-> t.out]
      /\ t.visited \in SUBSET Nodes /\ t.queue \in Seq(Hits) /\ t.out \in Seq(Hits)
  BY DEF Searches
<1>2. v = [visited |-> t.visited, queue |-> t.queue, out |-> out] /\ out \in Seq(Hits)
  <2>1. out \in Seq(Hits)
    BY <1>1
  <2> DEFINE more == Append(t.out, cur)
  <2>2. cur.depth # 0 => v = [t EXCEPT !.out = more] /\ out = more
    OBVIOUS
  <2> HIDE DEF more
  <2>3. [t EXCEPT !.out = more] = [visited |-> t.visited, queue |-> t.queue, out |-> more]
    BY <1>1
  <2> QED BY <2>1, <2>2, <2>3, <1>1
<1>3. cur.id \in Nodes /\ cur.depth + 1 \in Nat
  BY DEF Hits
<1>4. u = IF AtLimit(cur.depth, d) THEN v ELSE VisitAll(v, refs, cur.depth + 1)
  BY DEF ServedNear
<1>5. refs \in Seq(Refs) /\ {refs[k].target : k \in DOMAIN refs} = Around(a)[cur.id]
  BY <1>3, RefTargets DEF Around
<1> HIDE DEF v, refs, u, out
<1>6. v \in Searches(Hits) /\ v.visited = t.visited /\ v.queue = t.queue /\ v.out = out
  BY <1>1, <1>2 DEF Searches
<1>7. CASE AtLimit(cur.depth, d)
  <2>1. u = v /\ From(Around(a), cur, d) = {}
    BY <1>4, <1>7 DEF From
  <2>2. Reached(t, u, {}, cur.depth + 1)
    BY <2>1, <1>3, <1>6, NoneReached
  <2> QED BY <2>1, <2>2, <1>6 DEF u, out
<1>8. CASE ~AtLimit(cur.depth, d)
  <2>1. u = VisitAll(v, refs, cur.depth + 1) /\ From(Around(a), cur, d) = Around(a)[cur.id]
    BY <1>4, <1>8 DEF From
  <2>2. u \in Searches(Hits) /\ u.out = v.out /\ Reached(t, u, Around(a)[cur.id], cur.depth + 1)
    BY <2>1, <1>3, <1>5, <1>6, AllReached
  <2> QED BY <2>1, <2>2, <1>6 DEF u, out
<1> QED BY <1>7, <1>8

\* The same for a subtree.
LEMMA ServedTreeReached ==
  ASSUME NEW a \in Adjacency, NEW d \in Nat, NEW t \in Searches(Refs), NEW cur \in Hits
  PROVE  LET u == ServedTree(a, d, t, cur)
         IN /\ u \in Searches(Refs)
            /\ u.out = IF AtLimit(cur.depth, d) THEN t.out ELSE t.out \o a.forward[cur.id]
            /\ Reached(t, u, From(Ahead(a), cur, d), cur.depth + 1)
<1> DEFINE refs == a.forward[cur.id]
           v == [t EXCEPT !.out = @ \o refs]
           u == ServedTree(a, d, t, cur)
           joined == t.out \o refs
           out == IF AtLimit(cur.depth, d) THEN t.out ELSE t.out \o a.forward[cur.id]
<1>1. t = [visited |-> t.visited, queue |-> t.queue, out |-> t.out]
      /\ t.visited \in SUBSET Nodes /\ t.queue \in Seq(Hits) /\ t.out \in Seq(Refs)
  BY DEF Searches
<1>2. v = [visited |-> t.visited, queue |-> t.queue, out |-> joined]
  <2>1. v = [t EXCEPT !.out = joined]
    OBVIOUS
  <2> HIDE DEF joined
  <2>2. [t EXCEPT !.out = joined] = [visited |-> t.visited, queue |-> t.queue, out |-> joined]
    BY <1>1
  <2> QED BY <2>1, <2>2
<1>3. cur.id \in Nodes /\ cur.depth + 1 \in Nat
  BY DEF Hits
<1>4. u = IF AtLimit(cur.depth, d) THEN t ELSE VisitAll(v, refs, cur.depth + 1)
  BY DEF ServedTree
<1>5. refs \in Seq(Refs) /\ {refs[k].target : k \in DOMAIN refs} = Ahead(a)[cur.id]
  BY <1>3, RefTargets DEF Ahead
<1>6. out = IF AtLimit(cur.depth, d) THEN t.out ELSE joined
  OBVIOUS
<1> HIDE DEF v, refs, u, out
<1>7. joined \in Seq(Refs)
  BY <1>1, <1>5
<1> HIDE DEF joined
<1>8. v \in Searches(Refs) /\ v.visited = t.visited /\ v.queue = t.queue /\ v.out = joined
  BY <1>1, <1>2, <1>7 DEF Searches
<1>9. CASE AtLimit(cur.depth, d)
  <2>1. u = t /\ From(Ahead(a), cur, d) = {} /\ out = t.out
    BY <1>4, <1>6, <1>9 DEF From
  <2>2. Reached(t, u, {}, cur.depth + 1)
    BY <2>1, <1>3, NoneReached
  <2> QED BY <2>1, <2>2 DEF u, out
<1>10. CASE ~AtLimit(cur.depth, d)
  <2>1. u = VisitAll(v, refs, cur.depth + 1) /\ From(Ahead(a), cur, d) = Ahead(a)[cur.id] /\ out = joined
    BY <1>4, <1>6, <1>10 DEF From
  <2>2. u \in Searches(Refs) /\ u.out = v.out /\ Reached(t, u, Ahead(a)[cur.id], cur.depth + 1)
    <3> DEFINE T == Ahead(a)[cur.id]
               c == cur.depth + 1
    <3>1. T = {refs[k].target : k \in DOMAIN refs} /\ c \in Nat /\ refs \in Seq(Refs) /\ u = VisitAll(v, refs, c)
      BY <2>1, <1>3, <1>5
    <3> HIDE DEF T, c
    <3>2. u \in Searches(Refs) /\ u.out = v.out /\ Reached(t, u, T, c)
      BY <3>1, <1>8, AllReached
    <3> QED BY <3>2 DEF T, c
  <2> QED BY <2>1, <2>2, <1>8 DEF u, out
<1> QED BY <1>9, <1>10

\* The head of a queue that is not empty.
LEMMA HeadType ==
  ASSUME NEW O, NEW t \in Searches(O), t.queue # <<>>
  PROVE  Head(t.queue) \in Hits /\ Head(t.queue) = t.queue[1]
<1>1. t.queue \in Seq(Hits)
  BY DEF Searches
<1> QED BY <1>1

\* Appending keeps the head.
LEMMA ReachedHead ==
  ASSUME NEW O, NEW t \in Searches(O), NEW u \in Searches(O), NEW T, NEW c, t.queue # <<>>, Reached(t, u, T, c)
  PROVE  u.queue # <<>>
<1>1. PICK new : Fresh(new, t, T, c) /\ u.queue = t.queue \o new
  BY DEF Reached
<1>2. t.queue \in Seq(Hits) /\ new \in Seq(Hits)
  BY <1>1 DEF Searches, Fresh
<1> QED BY <1>1, <1>2

\* A round keeps the type.
LEMMA RoundNearType ==
  ASSUME NEW a \in Adjacency, NEW d \in Nat, NEW t \in Searches(Hits)
  PROVE  RoundNear(a, d, t) \in Searches(Hits)
<1>1. CASE t.queue = <<>>
  BY <1>1 DEF RoundNear
<1>2. CASE t.queue # <<>>
  <2> DEFINE cur == Head(t.queue)
             u == ServedNear(a, d, t, cur)
  <2>1. cur \in Hits
    BY <1>2, HeadType
  <2> HIDE DEF cur
  <2>2. u \in Searches(Hits) /\ Reached(t, u, From(Around(a), cur, d), cur.depth + 1)
    BY <2>1, ServedNearReached
  <2>3. RoundNear(a, d, t) = Taken(u)
    BY <1>2 DEF RoundNear, cur
  <2> HIDE DEF u
  <2>4. u.queue # <<>>
    BY <1>2, <2>2, ReachedHead
  <2> QED BY <2>2, <2>3, <2>4, TailType
<1> QED BY <1>1, <1>2

\* The same for a subtree.
LEMMA RoundTreeType ==
  ASSUME NEW a \in Adjacency, NEW d \in Nat, NEW t \in Searches(Refs)
  PROVE  RoundTree(a, d, t) \in Searches(Refs)
<1>1. CASE t.queue = <<>>
  BY <1>1 DEF RoundTree
<1>2. CASE t.queue # <<>>
  <2> DEFINE cur == Head(t.queue)
             u == ServedTree(a, d, t, cur)
  <2>1. cur \in Hits
    BY <1>2, HeadType
  <2> HIDE DEF cur
  <2>2. u \in Searches(Refs) /\ Reached(t, u, From(Ahead(a), cur, d), cur.depth + 1)
    BY <2>1, ServedTreeReached
  <2>3. RoundTree(a, d, t) = Taken(u)
    BY <1>2 DEF RoundTree, cur
  <2> HIDE DEF u
  <2>4. u.queue # <<>>
    BY <1>2, <2>2, ReachedHead
  <2> QED BY <2>2, <2>3, <2>4, TailType
<1> QED BY <1>1, <1>2

\* Neighborhood is as many rounds as there are nodes.
LEMMA NearSteps ==
  ASSUME NEW a \in Adjacency, NEW m \in Nodes, NEW d \in Nat
  PROVE  \E it \in [0 .. Cardinality(Nodes) -> Searches(Hits)] :
           /\ it[0] = Start(m)
           /\ \A k \in 1 .. Cardinality(Nodes) : it[k] = RoundNear(a, d, it[k - 1])
           /\ Neighborhood(a, m, d) = ToSet(it[Cardinality(Nodes)].out)
<1> DEFINE n == Cardinality(Nodes)
           D == DOMAIN [k \in 1 .. Cardinality(Nodes) |-> k]
           Solves(g) == g = [s \in SUBSET D |->
                               IF s = {} THEN Start(m)
                               ELSE RoundNear(a, d, g[s \ {Max(s)}])]
           h == CHOOSE g : Solves(g)
           step == [k \in 1 .. n |-> [g \in Searches(Hits) |-> RoundNear(a, d, g)]]
<1>1. Neighborhood(a, m, d) = ToSet(h[D].out)
  BY DEF Neighborhood, Rounds, FoldLeft, MapThenFoldSet, RoundNear, ServedNear, Taken
<1>2. n \in Nat /\ D = 1 .. n /\ Start(m) \in Searches(Hits)
  BY FS_CardinalityType, SearchAssumption, StartType
<1> HIDE DEF D, n
<1>3. step \in [1 .. n -> [Searches(Hits) -> Searches(Hits)]]
  BY <1>2, RoundNearType
<1>4. ASSUME NEW k \in 1 .. n, NEW g \in Searches(Hits)
      PROVE  step[k][g] = RoundNear(a, d, g)
  BY <1>2
<1> HIDE DEF step
<1>5. PICK g \in [SUBSET (1 .. n) -> Searches(Hits)] : Folds(g, n, Start(m), step)
  BY <1>2, <1>3, FoldExists
<1>6. Solves(g)
  <2>1. ASSUME NEW s \in SUBSET (1 .. n)
        PROVE  g[s] = IF s = {} THEN Start(m) ELSE RoundNear(a, d, g[s \ {Max(s)}])
    <3>1. CASE s = {}
      BY <1>5, <3>1 DEF Folds
    <3>2. CASE s # {}
      <4>1. Max(s) \in 1 .. n
        BY <1>2, <3>2, Greatest
      <4>2. g[s] = step[Max(s)][g[s \ {Max(s)}]] /\ g[s \ {Max(s)}] \in Searches(Hits)
        BY <1>5, <3>2 DEF Folds
      <4> QED BY <4>1, <4>2, <1>4, <3>2
    <3> QED BY <3>1, <3>2
  <2> QED BY <2>1, <1>2
<1>7. Solves(h)
  BY <1>6
<1> HIDE DEF h
<1>8. h[{}] = Start(m)
  BY <1>7
<1>9. ASSUME NEW k \in 1 .. n, h[1 .. k - 1] \in Searches(Hits)
      PROVE  h[1 .. k] = step[k][h[1 .. k - 1]]
  <2>1. 1 .. k \in SUBSET D /\ 1 .. k # {} /\ Max(1 .. k) = k /\ (1 .. k) \ {k} = 1 .. k - 1
    BY <1>2, LastOf
  <2>2. h[1 .. k] = RoundNear(a, d, h[(1 .. k) \ {Max(1 .. k)}])
    BY <1>7, <2>1
  <2> QED BY <2>1, <2>2, <1>4, <1>9
<1> HIDE DEF Solves
<1>10. PICK it \in [0 .. n -> Searches(Hits)] : Steps(it, n, Start(m), step) /\ it[n] = h[1 .. n]
  <2>1. Follows(h, Searches(Hits), n, step) /\ n \in Nat
    BY <1>2, <1>9 DEF Follows
  <2>2. Stepped(Searches(Hits), n, Start(m), step, h)
    BY <2>1, <1>2, <1>3, <1>8, FoldSteps
  <2> QED BY <2>2 DEF Stepped
<1>11. ASSUME NEW k \in 1 .. n PROVE it[k] = RoundNear(a, d, it[k - 1])
  <2>1. it[k] = step[k][it[k - 1]] /\ it[k - 1] \in Searches(Hits)
    BY <1>2, <1>10 DEF Steps
  <2> QED BY <2>1, <1>2, <1>4
<1>12. it[0] = Start(m) /\ Neighborhood(a, m, d) = ToSet(it[n].out)
  BY <1>1, <1>2, <1>10 DEF Steps
<1> QED BY <1>11, <1>12 DEF n

\* SubtreeEdges is as many rounds as there are nodes.
LEMMA TreeSteps ==
  ASSUME NEW a \in Adjacency, NEW m \in Nodes, NEW d \in Nat
  PROVE  \E it \in [0 .. Cardinality(Nodes) -> Searches(Refs)] :
           /\ it[0] = Start(m)
           /\ \A k \in 1 .. Cardinality(Nodes) : it[k] = RoundTree(a, d, it[k - 1])
           /\ SubtreeEdges(a, m, d) = it[Cardinality(Nodes)].out
<1> DEFINE n == Cardinality(Nodes)
           D == DOMAIN [k \in 1 .. Cardinality(Nodes) |-> k]
           Solves(g) == g = [s \in SUBSET D |->
                               IF s = {} THEN Start(m)
                               ELSE RoundTree(a, d, g[s \ {Max(s)}])]
           h == CHOOSE g : Solves(g)
           step == [k \in 1 .. n |-> [g \in Searches(Refs) |-> RoundTree(a, d, g)]]
<1>1. SubtreeEdges(a, m, d) = h[D].out
  BY DEF SubtreeEdges, Rounds, FoldLeft, MapThenFoldSet, RoundTree, ServedTree, Taken
<1>2. n \in Nat /\ D = 1 .. n /\ Start(m) \in Searches(Refs)
  BY FS_CardinalityType, SearchAssumption, StartType
<1> HIDE DEF D, n
<1>3. step \in [1 .. n -> [Searches(Refs) -> Searches(Refs)]]
  BY <1>2, RoundTreeType
<1>4. ASSUME NEW k \in 1 .. n, NEW g \in Searches(Refs)
      PROVE  step[k][g] = RoundTree(a, d, g)
  BY <1>2
<1> HIDE DEF step
<1>5. PICK g \in [SUBSET (1 .. n) -> Searches(Refs)] : Folds(g, n, Start(m), step)
  BY <1>2, <1>3, FoldExists
<1>6. Solves(g)
  <2>1. ASSUME NEW s \in SUBSET (1 .. n)
        PROVE  g[s] = IF s = {} THEN Start(m) ELSE RoundTree(a, d, g[s \ {Max(s)}])
    <3>1. CASE s = {}
      BY <1>5, <3>1 DEF Folds
    <3>2. CASE s # {}
      <4>1. Max(s) \in 1 .. n
        BY <1>2, <3>2, Greatest
      <4>2. g[s] = step[Max(s)][g[s \ {Max(s)}]] /\ g[s \ {Max(s)}] \in Searches(Refs)
        BY <1>5, <3>2 DEF Folds
      <4> QED BY <4>1, <4>2, <1>4, <3>2
    <3> QED BY <3>1, <3>2
  <2> QED BY <2>1, <1>2
<1>7. Solves(h)
  BY <1>6
<1> HIDE DEF h
<1>8. h[{}] = Start(m)
  BY <1>7
<1>9. ASSUME NEW k \in 1 .. n, h[1 .. k - 1] \in Searches(Refs)
      PROVE  h[1 .. k] = step[k][h[1 .. k - 1]]
  <2>1. 1 .. k \in SUBSET D /\ 1 .. k # {} /\ Max(1 .. k) = k /\ (1 .. k) \ {k} = 1 .. k - 1
    BY <1>2, LastOf
  <2>2. h[1 .. k] = RoundTree(a, d, h[(1 .. k) \ {Max(1 .. k)}])
    BY <1>7, <2>1
  <2> QED BY <2>1, <2>2, <1>4, <1>9
<1> HIDE DEF Solves
<1>10. PICK it \in [0 .. n -> Searches(Refs)] : Steps(it, n, Start(m), step) /\ it[n] = h[1 .. n]
  <2>1. Follows(h, Searches(Refs), n, step) /\ n \in Nat
    BY <1>2, <1>9 DEF Follows
  <2>2. Stepped(Searches(Refs), n, Start(m), step, h)
    BY <2>1, <1>2, <1>3, <1>8, FoldSteps
  <2> QED BY <2>2 DEF Stepped
<1>11. ASSUME NEW k \in 1 .. n PROVE it[k] = RoundTree(a, d, it[k - 1])
  <2>1. it[k] = step[k][it[k - 1]] /\ it[k - 1] \in Searches(Refs)
    BY <1>2, <1>10 DEF Steps
  <2> QED BY <2>1, <1>2, <1>4
<1>12. it[0] = Start(m) /\ SubtreeEdges(a, m, d) = it[n].out
  BY <1>1, <1>2, <1>10 DEF Steps
<1> QED BY <1>11, <1>12 DEF n

-----------------------------------------------------------------------------
(* The hits that wait. *)

\* The hits in the queue, and the nodes of a set of hits.
Waiting(t) == {t.queue[k] : k \in DOMAIN t.queue}
Named(W) == {h.id : h \in W}

\* Each node waits once, nearer nodes first, and the distances differ by one at most.
Line(queue) ==
  /\ \A k, l \in DOMAIN queue : queue[k].id = queue[l].id => k = l
  /\ \A k, l \in DOMAIN queue :
       k <= l => queue[k].depth <= queue[l].depth /\ queue[l].depth <= queue[k].depth + 1

\* Hits of the nodes in T at depth c.
HitsAt(T, c) == {h \in Hits : h.id \in T /\ h.depth = c}

\* Hits with the same node and depth are the same.
LEMMA SameHit ==
  ASSUME NEW g \in Hits, NEW h \in Hits, g.id = h.id, g.depth = h.depth
  PROVE  g = h
BY DEF Hits

\* p has the members of q without its head and those of new behind them.
Rejoined(p, q, new, a, b) ==
  /\ DOMAIN q = 1 .. a + 1 /\ DOMAIN new = 1 .. b
  /\ p \in Seq(Hits) /\ DOMAIN p = 1 .. a + b /\ (p # <<>> => a + b > 0)
  /\ \A k \in 1 .. a : p[k] = q[k + 1]
  /\ \A k \in 1 .. b : p[a + k] = new[k]

\* Such is the tail of a queue that hits are put behind.
LEMMA TailOfJoined ==
  ASSUME NEW q \in Seq(Hits), NEW new \in Seq(Hits), q # <<>>
  PROVE  \E a \in Nat, b \in Nat : Rejoined(Tail(q \o new), q, new, a, b)
<1> DEFINE j == q \o new
           p == Tail(j)
           a == Len(q) - 1
           b == Len(new)
<1>1. a \in Nat /\ b \in Nat /\ a + 1 = Len(q) /\ DOMAIN q = 1 .. a + 1 /\ DOMAIN new = 1 .. b
  OBVIOUS
<1>2. j \in Seq(Hits) /\ Len(j) = a + 1 + b
  BY <1>1
<1>3. /\ \A k \in 1 .. a + 1 : j[k] = q[k]
      /\ \A k \in 1 .. b : j[a + 1 + k] = new[k]
  BY <1>1
<1> HIDE DEF j, a, b
<1>4. p \in Seq(Hits) /\ DOMAIN p = 1 .. a + b /\ Len(p) = a + b /\ \A k \in 1 .. a + b : p[k] = j[k + 1]
  BY <1>1, <1>2
<1> HIDE DEF p
<1>5. p # <<>> => a + b > 0
  BY <1>1, <1>4
<1>6. ASSUME NEW k \in 1 .. a PROVE p[k] = q[k + 1]
  <2>1. k \in 1 .. a + b /\ k + 1 \in 1 .. a + 1
    BY <1>1
  <2> QED BY <2>1, <1>3, <1>4
<1>7. ASSUME NEW k \in 1 .. b PROVE p[a + k] = new[k]
  <2>1. a + k \in 1 .. a + b /\ (a + k) + 1 = a + 1 + k
    BY <1>1
  <2> QED BY <2>1, <1>3, <1>4
<1>8. Rejoined(p, q, new, a, b)
  BY <1>1, <1>4, <1>5, <1>6, <1>7 DEF Rejoined
<1> QED BY <1>1, <1>8 DEF p, j

\* v is t after cur has been served and the nodes in T have been met.
Advanced(t, v, cur, T) ==
  /\ v.visited = t.visited \cup T
  /\ Waiting(v) = (Waiting(t) \ {cur}) \cup HitsAt(T \ t.visited, cur.depth + 1)
  /\ Line(v.queue)

\* Those that wait after a round.
LEMMA LineServed ==
  ASSUME NEW O, NEW t \in Searches(O), NEW u \in Searches(O), t.queue # <<>>, NEW T \in SUBSET Nodes,
         NEW cur, cur = t.queue[1], Reached(t, u, T, cur.depth + 1),
         Line(t.queue), Named(Waiting(t)) \subseteq t.visited
  PROVE  /\ Taken(u) \in Searches(O) /\ Taken(u).out = u.out
         /\ Advanced(t, Taken(u), cur, T)
<1> DEFINE q == t.queue
           c == cur.depth + 1
           v == Taken(u)
<1> HIDE DEF v
<1>1. PICK new : Fresh(new, t, T, c) /\ u.queue = q \o new
  BY DEF Reached
<1>2. q \in Seq(Hits) /\ new \in Seq(Hits)
  BY <1>1 DEF Searches, Fresh
<1>3. u.queue # <<>>
  BY ReachedHead
<1>4. v \in Searches(O) /\ v.out = u.out /\ v.visited = u.visited /\ v.queue = Tail(u.queue)
  <2>1. Taken(u) \in Searches(O)
    BY <1>3, TailType
  <2>2. Taken(u) = [visited |-> u.visited, queue |-> Tail(u.queue), out |-> u.out]
    BY <1>3, TailType
  <2> QED BY <2>1, <2>2 DEF v
<1>5. v.visited = t.visited \cup T
  BY <1>4 DEF Reached
<1> DEFINE p == v.queue
<1>6. p = Tail(q \o new)
  BY <1>1, <1>4
<1>7. PICK a \in Nat, b \in Nat :
        /\ DOMAIN q = 1 .. a + 1 /\ DOMAIN new = 1 .. b
        /\ p \in Seq(Hits) /\ DOMAIN p = 1 .. a + b /\ (p # <<>> => a + b > 0)
        /\ \A k \in 1 .. a : p[k] = q[k + 1]
        /\ \A k \in 1 .. b : p[a + k] = new[k]
  <2> HIDE DEF p, q
  <2>1. q # <<>>
    BY DEF q
  <2>2. PICK a \in Nat, b \in Nat : Rejoined(Tail(q \o new), q, new, a, b)
    BY <2>1, <1>2, TailOfJoined
  <2>3. Rejoined(p, q, new, a, b)
    BY <2>2, <1>6
  <2> QED BY <2>3 DEF Rejoined
<1>8. cur = q[1] /\ cur \in Waiting(t) /\ Waiting(t) = {q[k] : k \in DOMAIN q} /\ Waiting(v) = {p[k] : k \in DOMAIN p}
  <2>1. Waiting(t) = {q[k] : k \in DOMAIN q} /\ Waiting(v) = {p[k] : k \in DOMAIN p} /\ cur = q[1]
    BY DEF Waiting
  <2>2. 1 \in DOMAIN q
    BY <1>7
  <2> QED BY <2>1, <2>2
<1>9. \A k \in DOMAIN q : q[k] \in Hits /\ q[k].id \in t.visited /\ q[k].depth \in Nat
  <2>1. ASSUME NEW k \in DOMAIN q PROVE q[k] \in Hits /\ q[k].id \in t.visited /\ q[k].depth \in Nat
    <3>1. q[k] \in Waiting(t) /\ q[k] \in Hits
      BY <1>2, <1>8
    <3> QED BY <3>1 DEF Named, Hits
  <2> QED BY <2>1
<1>10. \A k \in DOMAIN new : new[k] \in Hits /\ new[k].id \in T \ t.visited /\ new[k].depth = c
  BY <1>1, <1>2 DEF Fresh
<1>11. \A k, l \in DOMAIN q : q[k].id = q[l].id => k = l
  BY DEF Line
<1>12. \A k, l \in DOMAIN q : k <= l => q[k].depth <= q[l].depth /\ q[l].depth <= q[k].depth + 1
  BY DEF Line
<1>13. \A k, l \in DOMAIN new : new[k].id = new[l].id => k = l
  BY <1>1 DEF Fresh
<1>14. T \ t.visited = {new[k].id : k \in DOMAIN new}
  BY <1>1 DEF Fresh
<1>15. c \in Nat /\ c = q[1].depth + 1
  BY <1>7, <1>8, <1>9
<1> HIDE DEF p, q, c
<1>16. ASSUME NEW k \in DOMAIN p
       PROVE  \/ k \in 1 .. a /\ p[k] = q[k + 1] /\ k + 1 \in DOMAIN q
              \/ k - a \in DOMAIN new /\ p[k] = new[k - a]
  <2>1. CASE k <= a
    BY <2>1, <1>7
  <2>2. CASE k > a
    <3>1. k - a \in 1 .. b /\ a + (k - a) = k
      BY <2>2, <1>7
    <3> QED BY <3>1, <1>7
  <2> QED BY <2>1, <2>2, <1>7
<1>17. Waiting(v) = (Waiting(t) \ {cur}) \cup HitsAt(T \ t.visited, c)
  <2>1. ASSUME NEW k \in DOMAIN p PROVE p[k] \in (Waiting(t) \ {cur}) \cup HitsAt(T \ t.visited, c)
    <3>1. CASE k \in 1 .. a /\ p[k] = q[k + 1] /\ k + 1 \in DOMAIN q
      <4>1. 1 \in DOMAIN q /\ k + 1 # 1
        BY <1>7, <3>1
      <4>2. q[k + 1] # cur
        BY <4>1, <3>1, <1>8, <1>11
      <4> QED BY <4>2, <3>1, <1>8
    <3>2. CASE k - a \in DOMAIN new /\ p[k] = new[k - a]
      BY <3>2, <1>10 DEF HitsAt
    <3> QED BY <3>1, <3>2, <1>16
  <2>2. ASSUME NEW h \in Waiting(t) \ {cur} PROVE h \in Waiting(v)
    <3>1. PICK k \in DOMAIN q : h = q[k]
      BY <1>8
    <3>2. k # 1
      BY <3>1, <1>8
    <3>3. k - 1 \in 1 .. a /\ (k - 1) + 1 = k /\ k - 1 \in DOMAIN p
      BY <3>2, <1>7
    <3>4. p[k - 1] = h
      BY <3>1, <3>3, <1>7
    <3> QED BY <3>3, <3>4, <1>8
  <2>3. ASSUME NEW h \in HitsAt(T \ t.visited, c) PROVE h \in Waiting(v)
    <3>1. h \in Hits /\ h.id \in T \ t.visited /\ h.depth = c
      BY DEF HitsAt
    <3>2. PICK k \in DOMAIN new : h.id = new[k].id
      BY <3>1, <1>14
    <3>3. h = new[k]
      BY <3>1, <3>2, <1>10, SameHit
    <3>4. k \in 1 .. b /\ a + k \in DOMAIN p
      BY <1>7
    <3> QED BY <3>3, <3>4, <1>7, <1>8
  <2> QED BY <2>1, <2>2, <2>3, <1>8
<1>18. Line(p)
  <2>1. ASSUME NEW k \in DOMAIN p, NEW l \in DOMAIN p
        PROVE  /\ p[k].id = p[l].id => k = l
               /\ k <= l => p[k].depth <= p[l].depth /\ p[l].depth <= p[k].depth + 1
    <3>1. k \in Nat /\ l \in Nat /\ 1 \in DOMAIN q /\ 1 \in Nat
      BY <1>7
    <3>2. CASE /\ k \in 1 .. a /\ p[k] = q[k + 1] /\ k + 1 \in DOMAIN q
               /\ l \in 1 .. a /\ p[l] = q[l + 1] /\ l + 1 \in DOMAIN q
      <4>1. k + 1 = l + 1 => k = l
        BY <3>1
      <4>2. k <= l => k + 1 <= l + 1
        BY <3>1
      <4> QED BY <4>1, <4>2, <3>2, <1>11, <1>12
    <3>3. CASE /\ k - a \in DOMAIN new /\ p[k] = new[k - a]
               /\ l - a \in DOMAIN new /\ p[l] = new[l - a]
      <4>1. k - a = l - a => k = l
        BY <3>1
      <4> QED BY <4>1, <3>3, <1>10, <1>13, <1>15
    <3>4. CASE /\ k \in 1 .. a /\ p[k] = q[k + 1] /\ k + 1 \in DOMAIN q
               /\ l - a \in DOMAIN new /\ p[l] = new[l - a]
      <4>1. p[k].id # p[l].id
        BY <3>4, <1>9, <1>10
      <4>2. q[1].depth <= q[k + 1].depth /\ q[k + 1].depth <= q[1].depth + 1
        BY <3>1, <3>4, <1>12
      <4>3. q[1].depth \in Nat /\ q[k + 1].depth \in Nat /\ new[l - a].depth = q[1].depth + 1
        BY <3>1, <3>4, <1>9, <1>10, <1>15
      <4> QED BY <4>1, <4>2, <4>3, <3>4
    <3>5. CASE /\ k - a \in DOMAIN new /\ p[k] = new[k - a]
               /\ l \in 1 .. a /\ p[l] = q[l + 1] /\ l + 1 \in DOMAIN q
      <4>1. p[k].id # p[l].id
        BY <3>5, <1>9, <1>10
      <4>2. ~(k <= l)
        BY <3>1, <3>5, <1>7
      <4> QED BY <4>1, <4>2
    <3> QED BY <3>2, <3>3, <3>4, <3>5, <1>16
  <2> QED BY <2>1 DEF Line
<1>19. Advanced(t, v, cur, T)
  BY <1>5, <1>17, <1>18 DEF p, c, Advanced
<1> QED BY <1>4, <1>19 DEF v

-----------------------------------------------------------------------------
(* How far a search is. *)

\* The depth of h is its distance.
Exact(near, h) == h.id \in near[h.depth] /\ (h.depth > 0 => h.id \notin near[h.depth - 1])

\* No hit of t waits that is nearer than h.
First(t, h) == h \in Waiting(t) /\ \A g \in Waiting(t) : h.depth <= g.depth

\* The hits in W have been served in j rounds, those of t.queue wait: all are at
\* their distance; what is nearer than the head of the queue has been met.
Progress(t, W, near, next, d, n, j) ==
  /\ W \in SUBSET Hits
  /\ n \in t.visited /\ t.visited = Named(W \cup Waiting(t))
  /\ \A h \in W \cup Waiting(t) :
       Exact(near, h) /\ (d > 0 => h.depth <= d) /\ h.depth <= Cardinality(Named(W))
  /\ \A h \in W : h.depth < Cardinality(Named(W))
  /\ Line(t.queue)
  /\ \A g \in W, h \in Waiting(t) : g.id # h.id /\ g.depth <= h.depth
  /\ \A h \in W : ~AtLimit(h.depth, d) => next[h.id] \subseteq t.visited
  /\ \A h \in Waiting(t) : First(t, h) => near[h.depth] \subseteq t.visited
  /\ t.queue # <<>> => Cardinality(Named(W)) = j

\* An exact depth is the least.
LEMMA ExactLeast ==
  ASSUME NEW near, NEW next, NEW n, Balls(near, next, n), NEW h \in Hits, Exact(near, h),
         NEW k \in Nat, h.id \in near[k]
  PROVE  h.depth <= k
<1> SUFFICES ASSUME h.depth > k PROVE FALSE
  BY DEF Hits
<1>1. h.depth \in Nat /\ h.depth - 1 \in Nat /\ k <= h.depth - 1 /\ h.depth > 0
  BY DEF Hits
<1>2. near[k] \subseteq near[h.depth - 1]
  BY <1>1, BallsGrow
<1> QED BY <1>1, <1>2 DEF Exact

\* A node has one exact depth.
LEMMA ExactOnce ==
  ASSUME NEW near, NEW next, NEW n, Balls(near, next, n),
         NEW g \in Hits, NEW h \in Hits, Exact(near, g), Exact(near, h), g.id = h.id
  PROVE  g = h
<1>1. g.depth \in Nat /\ h.depth \in Nat
  BY DEF Hits
<1>2. g.depth <= h.depth
  BY <1>1, ExactLeast DEF Exact
<1>3. h.depth <= g.depth
  BY <1>1, ExactLeast DEF Exact
<1> QED BY <1>1, <1>2, <1>3, SameHit

\* The names of hits that are met.
LEMMA NamedHits ==
  ASSUME NEW S \in SUBSET Nodes, NEW c \in Nat
  PROVE  Named(HitsAt(S, c)) = S /\ HitsAt(S, c) \subseteq Hits
<1>1. ASSUME NEW m \in S PROVE m \in Named(HitsAt(S, c))
  <2>1. [id |-> m, depth |-> c] \in HitsAt(S, c)
    BY DEF HitsAt, Hits
  <2> QED BY <2>1 DEF Named
<1> QED BY <1>1 DEF Named, HitsAt

\* The names of a set of hits are finitely many.
LEMMA NamedFinite ==
  ASSUME NEW W \in SUBSET Hits
  PROVE  /\ Named(W) \in SUBSET Nodes /\ IsFiniteSet(Named(W))
         /\ Cardinality(Named(W)) \in Nat /\ Cardinality(Named(W)) <= Cardinality(Nodes)
<1>1. Named(W) \in SUBSET Nodes
  BY DEF Named, Hits
<1>2. IsFiniteSet(Nodes)
  BY SearchAssumption
<1> HIDE DEF Named
<1> QED BY <1>1, <1>2, FS_Subset, FS_CardinalityType

\* The types of what a search has found.
LEMMA ProgressTypes ==
  ASSUME NEW O, NEW t \in Searches(O), NEW W \in SUBSET Hits
  PROVE  /\ Waiting(t) \subseteq Hits
         /\ \A h \in W \cup Waiting(t) : h \in Hits /\ h.id \in Nodes /\ h.depth \in Nat
<1>1. t.queue \in Seq(Hits)
  BY DEF Searches
<1>2. Waiting(t) \subseteq Hits
  BY <1>1 DEF Waiting
<1> QED BY <1>2 DEF Hits

\* One round more.
LEMMA ProgressMade ==
  ASSUME NEW near, NEW next \in [Nodes -> SUBSET Nodes], NEW n, Balls(near, next, n), NEW d \in Nat, NEW j \in Nat,
         NEW O, NEW t \in Searches(O), NEW u \in Searches(O), t.queue # <<>>,
         NEW W, Progress(t, W, near, next, d, n, j),
         NEW cur, cur = t.queue[1], Reached(t, u, From(next, cur, d), cur.depth + 1)
  PROVE  /\ Progress(Taken(u), W \cup {cur}, near, next, d, n, j + 1)
         /\ cur \in Hits /\ cur \notin W
<1> DEFINE T == From(next, cur, d)
           c == cur.depth
           v == Taken(u)
           V == W \cup {cur}
           met == HitsAt(T \ t.visited, c + 1)
<1>1. W \in SUBSET Hits /\ n \in t.visited /\ t.visited = Named(W \cup Waiting(t)) /\ Line(t.queue)
      /\ Cardinality(Named(W)) = j
  BY DEF Progress
<1>2. \A h \in W \cup Waiting(t) :
        Exact(near, h) /\ (d > 0 => h.depth <= d) /\ h.depth <= Cardinality(Named(W))
  BY DEF Progress
<1>3. \A g \in W, h \in Waiting(t) : g.id # h.id /\ g.depth <= h.depth
  BY DEF Progress
<1>4. \A h \in W : ~AtLimit(h.depth, d) => next[h.id] \subseteq t.visited
  BY DEF Progress
<1>5. \A h \in Waiting(t) : First(t, h) => near[h.depth] \subseteq t.visited
  BY DEF Progress
<1>6. \A h \in W \cup Waiting(t) : h \in Hits /\ h.id \in Nodes /\ h.depth \in Nat /\ h.id \in t.visited
  BY <1>1, ProgressTypes DEF Named
<1>7. cur \in Waiting(t) /\ First(t, cur) /\ \A h \in Waiting(t) : h.depth <= c + 1 /\ (h.id = cur.id => h = cur)
  <2>1. t.queue \in Seq(Hits) /\ 1 \in DOMAIN t.queue /\ \A k \in DOMAIN t.queue : 1 <= k
    BY DEF Searches
  <2>2. cur \in Waiting(t)
    BY <2>1 DEF Waiting
  <2>3. ASSUME NEW h \in Waiting(t) PROVE c <= h.depth /\ h.depth <= c + 1 /\ (h.id = cur.id => h = cur)
    <3>1. PICK k \in DOMAIN t.queue : h = t.queue[k]
      BY DEF Waiting
    <3> QED BY <3>1, <2>1, <1>1 DEF Line
  <2> QED BY <2>2, <2>3 DEF First
<1>8. T \in SUBSET Nodes /\ (AtLimit(c, d) => T = {}) /\ (~AtLimit(c, d) => T = next[cur.id]) /\ c \in Nat
      /\ cur \in Hits /\ cur.id \in Nodes
  BY <1>6, <1>7 DEF From
<1>9. Named(Waiting(t)) \subseteq t.visited
  BY <1>6 DEF Named
<1> HIDE DEF T, v
<1>10. /\ v \in Searches(O) /\ v.visited = t.visited \cup T
       /\ Waiting(v) = (Waiting(t) \ {cur}) \cup met
       /\ Line(v.queue)
  <2>1. v = Taken(u) /\ Reached(t, u, T, cur.depth + 1)
    BY DEF v, T
  <2> HIDE DEF met
  <2>2. Line(t.queue) /\ T \in SUBSET Nodes
    BY <1>1, <1>8
  <2>3. Taken(u) \in Searches(O) /\ Advanced(t, Taken(u), cur, T)
    BY <2>1, <2>2, <1>9, LineServed
  <2> QED BY <2>1, <2>3 DEF met, Advanced
<1>11. ASSUME NEW h \in met
       PROVE  h \in Hits /\ h.id \in T /\ h.id \notin t.visited /\ h.depth = c + 1 /\ h.depth \in Nat
  BY <1>8 DEF HitsAt
<1>12. Named(met) = T \ t.visited /\ met \subseteq Hits
  <2> DEFINE S == T \ t.visited
             e == c + 1
  <2>1. S \in SUBSET Nodes /\ e \in Nat
    BY <1>8
  <2> HIDE DEF S, e
  <2>2. Named(HitsAt(S, e)) = S /\ HitsAt(S, e) \subseteq Hits
    BY <2>1, NamedHits
  <2> QED BY <2>2 DEF S, e
<1> HIDE DEF met, c
<1>13. V \in SUBSET Hits
  BY <1>1, <1>8
<1>14. n \in v.visited /\ v.visited = Named(V \cup Waiting(v))
  <2>1. V \cup Waiting(v) = (W \cup Waiting(t)) \cup met
    BY <1>7, <1>10
  <2>2. Named(V \cup Waiting(v)) = Named(W \cup Waiting(t)) \cup Named(met)
    BY <2>1 DEF Named
  <2> QED BY <2>2, <1>1, <1>10, <1>12
<1>15. cur \notin W /\ cur.id \notin Named(W)
  BY <1>3, <1>7 DEF Named
<1>16. Cardinality(Named(V)) = j + 1 /\ Cardinality(Named(W)) = j
  <2>1. Named(V) = Named(W) \cup {cur.id}
    BY DEF Named
  <2>2. IsFiniteSet(Named(W))
    BY <1>1, NamedFinite
  <2> QED BY <2>1, <2>2, <1>1, <1>15, FS_AddElement
<1>17. ASSUME NEW h \in V \cup Waiting(v)
       PROVE  Exact(near, h) /\ (d > 0 => h.depth <= d) /\ h.depth <= Cardinality(Named(V))
  <2>1. CASE h \in W \cup Waiting(t)
    BY <2>1, <1>1, <1>2, <1>6, <1>16
  <2>2. CASE h \in met
    <3>1. h \in Hits /\ h.id \in T /\ h.id \notin t.visited /\ h.depth = c + 1 /\ h.depth \in Nat
      BY <2>2, <1>11
    <3>2. ~AtLimit(c, d) /\ h.id \in next[cur.id]
      BY <3>1, <1>8
    <3>3. cur.id \in near[c]
      BY <1>2, <1>7 DEF Exact, c
    <3>4. h.id \in near[c + 1]
      <4>1. near[c + 1] = near[c] \cup UNION {next[m] : m \in near[c]}
        BY <1>8 DEF Balls
      <4> QED BY <4>1, <3>2, <3>3
    <3>5. h.id \notin near[c]
      BY <3>1, <1>5, <1>7 DEF c
    <3>6. (c + 1) - 1 = c
      BY <1>8
    <3>7. Exact(near, h)
      BY <3>1, <3>4, <3>5, <3>6 DEF Exact
    <3>8. c <= j
      BY <1>2, <1>7, <1>16 DEF c
    <3>9. d > 0 => c + 1 <= d
      BY <3>2, <1>8 DEF AtLimit
    <3> QED BY <3>1, <3>7, <3>8, <3>9, <1>8, <1>16
  <2> QED BY <2>1, <2>2, <1>7, <1>10
<1>18. ASSUME NEW g \in V, NEW h \in Waiting(v) PROVE g.id # h.id /\ g.depth <= h.depth
  <2>1. g \in W \cup Waiting(t) /\ g.id \in t.visited /\ g.depth \in Nat /\ g.depth <= c
    <3>1. g \in W => g.depth <= c
      BY <1>3, <1>7 DEF c
    <3>2. g = cur => g.depth <= c
      BY <1>8 DEF c
    <3> QED BY <3>1, <3>2, <1>6, <1>7
  <2>2. CASE h \in met
    <3>1. h.id \notin t.visited /\ h.depth = c + 1
      BY <2>2, <1>11
    <3> QED BY <2>1, <3>1, <1>8
  <2>3. CASE h \in Waiting(t) /\ h # cur
    <3>1. CASE g \in W
      BY <3>1, <2>3, <1>3
    <3>2. CASE g = cur
      BY <3>2, <2>3, <1>7 DEF First
    <3> QED BY <3>1, <3>2
  <2> QED BY <2>2, <2>3, <1>10
<1>19. ASSUME NEW h \in V, ~AtLimit(h.depth, d) PROVE next[h.id] \subseteq v.visited
  <2>1. CASE h \in W
    BY <2>1, <1>4, <1>10, <1>19
  <2>2. CASE h = cur
    BY <2>2, <1>8, <1>10, <1>19 DEF c
  <2> QED BY <2>1, <2>2
<1>20. ASSUME NEW h \in Waiting(v), First(v, h) PROVE near[h.depth] \subseteq v.visited
  <2>1. near[c] \subseteq t.visited
    BY <1>5, <1>7 DEF c
  <2>2. h.depth \in Nat /\ (h.depth = c \/ h.depth = c + 1)
    <3>1. CASE h \in met
      BY <3>1, <1>11
    <3>2. CASE h \in Waiting(t)
      <4>1. h.depth \in Nat /\ c <= h.depth /\ h.depth <= c + 1
        BY <3>2, <1>6, <1>7 DEF First, c
      <4> QED BY <4>1, <1>8
    <3> QED BY <3>1, <3>2, <1>10
  <2>3. CASE h.depth = c
    BY <2>1, <2>3, <1>10
  <2>4. CASE h.depth = c + 1
    <3>1. near[c + 1] = near[c] \cup UNION {next[m] : m \in near[c]}
      BY <1>8 DEF Balls
    <3>2. ASSUME NEW m \in near[c] PROVE next[m] \subseteq v.visited
      <4>1. PICK g \in W \cup Waiting(t) : g.id = m
        BY <2>1, <1>1 DEF Named
      <4>2. g \in Hits /\ g.depth \in Nat /\ Exact(near, g)
        BY <1>2, <1>6
      <4>3. g.depth <= c
        BY <4>1, <4>2, <1>8, ExactLeast
      <4>4. g \in V
        <5>1. CASE g \in Waiting(v)
          <6>1. c + 1 <= g.depth
            BY <5>1, <2>4, <1>20 DEF First
          <6> QED BY <6>1, <4>2, <4>3, <1>8
        <5> QED BY <5>1, <4>1, <1>10
      <4>5. d > 0 => c + 1 <= d
        BY <2>4, <1>17
      <4>6. ~AtLimit(g.depth, d)
        BY <4>2, <4>3, <4>5, <1>8 DEF AtLimit
      <4> QED BY <4>1, <4>4, <4>6, <1>19
    <3> QED BY <2>1, <2>4, <3>1, <3>2, <1>10
  <2> QED BY <2>2, <2>3, <2>4
<1>21. ASSUME NEW h \in V PROVE h.depth < Cardinality(Named(V))
  <2>1. CASE h \in W
    <3>1. h.depth < Cardinality(Named(W))
      BY <2>1 DEF Progress
    <3> QED BY <2>1, <3>1, <1>6, <1>16
  <2>2. CASE h = cur
    BY <2>2, <1>2, <1>6, <1>7, <1>16
  <2> QED BY <2>1, <2>2
<1> HIDE DEF V
<1>22. Progress(v, V, near, next, d, n, j + 1)
  BY <1>10, <1>13, <1>14, <1>16, <1>17, <1>18, <1>19, <1>20, <1>21 DEF Progress
<1> QED BY <1>8, <1>15, <1>22 DEF v, V

\* The start of a search.
LEMMA ProgressStart ==
  ASSUME NEW near, NEW next, NEW n \in Nodes, Balls(near, next, n), NEW d \in Nat
  PROVE  Progress(Start(n), {}, near, next, d, n, 0)
<1> DEFINE t == Start(n)
           h == [id |-> n, depth |-> 0]
<1>1. t.visited = {n} /\ t.queue = <<h>> /\ DOMAIN t.queue = {1} /\ t.queue[1] = h
  BY DEF Start
<1>2. h.id = n /\ h.depth = 0
  OBVIOUS
<1> HIDE DEF t, h
<1>3. Waiting(t) = {h}
  BY <1>1 DEF Waiting
<1>4. Named({}) = {} /\ Named({} \cup Waiting(t)) = {n} /\ Cardinality({}) = 0
  BY <1>2, <1>3, FS_EmptySet DEF Named
<1>5. near[0] = {n}
  BY DEF Balls
<1>6. Exact(near, h)
  BY <1>2, <1>5 DEF Exact
<1>7. Line(t.queue)
  BY <1>1, <1>2 DEF Line
<1>8. Progress(t, {}, near, next, d, n, 0)
  BY <1>1, <1>2, <1>3, <1>4, <1>5, <1>6, <1>7 DEF Progress
<1> QED BY <1>8 DEF t

\* A search that waits for nothing goes no further.
LEMMA ProgressKept ==
  ASSUME NEW t, NEW W, NEW near, NEW next, NEW d, NEW n, NEW j, NEW k, Progress(t, W, near, next, d, n, j),
         t.queue = <<>>
  PROVE  Progress(t, W, near, next, d, n, k)
BY DEF Progress

\* The hits within the limit.
Within(near, d) == {h \in Hits : Exact(near, h) /\ h.depth <= Limit(d)}

\* After as many rounds as there are nodes every hit within the limit has been served.
LEMMA ProgressDone ==
  ASSUME NEW near, NEW next \in [Nodes -> SUBSET Nodes], NEW n, Balls(near, next, n), NEW d \in Nat,
         NEW O, NEW t \in Searches(O), NEW W, Progress(t, W, near, next, d, n, Cardinality(Nodes))
  PROVE  W = Within(near, d) /\ \A h \in W : h.depth < Cardinality(Nodes)
<1>1. W \in SUBSET Hits /\ n \in t.visited /\ t.visited = Named(W \cup Waiting(t))
  BY DEF Progress
<1>2. \A h \in W \cup Waiting(t) :
        Exact(near, h) /\ (d > 0 => h.depth <= d) /\ h.depth <= Cardinality(Named(W))
  BY DEF Progress
<1>3. \A h \in W : ~AtLimit(h.depth, d) => next[h.id] \subseteq t.visited
  BY DEF Progress
<1>4. \A h \in W \cup Waiting(t) : h \in Hits /\ h.id \in Nodes /\ h.depth \in Nat
  BY <1>1, ProgressTypes
<1>5. /\ Named(W) \in SUBSET Nodes /\ IsFiniteSet(Nodes) /\ Cardinality(Nodes) \in Nat
      /\ Cardinality(Named(W)) \in Nat /\ Cardinality(Named(W)) <= Cardinality(Nodes)
  BY <1>1, NamedFinite, SearchAssumption, FS_CardinalityType
<1>6. Waiting(t) = {}
  <2> SUFFICES ASSUME Waiting(t) # {} PROVE FALSE
    OBVIOUS
  <2>1. PICK h \in Waiting(t) : TRUE
    OBVIOUS
  <2>2. t.queue # <<>>
    BY DEF Waiting
  <2>3. Cardinality(Named(W)) = Cardinality(Nodes)
    BY <2>2 DEF Progress
  <2>4. Named(W) = Nodes
    BY <2>3, <1>5, FS_Subset
  <2>5. h.id \in Named(W)
    BY <2>4, <1>4
  <2>6. PICK g \in W : g.id = h.id
    BY <2>5 DEF Named
  <2> QED BY <2>6 DEF Progress
<1>7. t.visited = Named(W)
  BY <1>1, <1>6
<1>8. ASSUME NEW h \in W PROVE h \in Within(near, d)
  <2>1. h.depth <= Limit(d)
    <3>1. CASE d = 0
      BY <3>1, <1>2, <1>4, <1>5 DEF Limit
    <3>2. CASE d # 0
      BY <3>2, <1>2 DEF Limit
    <3> QED BY <3>1, <3>2
  <2> QED BY <2>1, <1>2, <1>4 DEF Within
<1>9. ASSUME NEW h \in Within(near, d) PROVE h \in W
  <2>1. h \in Hits /\ Exact(near, h) /\ h.depth <= Limit(d) /\ h.depth \in Nat
    BY DEF Within, Hits
  <2> DEFINE K == {k \in 0 .. h.depth : near[k] \subseteq t.visited}
  <2>2. 0 \in K
    BY <2>1, <1>1 DEF Balls
  <2>3. ASSUME NEW k \in 1 .. h.depth, k - 1 \in K PROVE k \in K
    <3>1. k \in 0 .. h.depth /\ k - 1 \in Nat /\ (k - 1) + 1 = k
      BY <2>1
    <3>2. near[k] = near[k - 1] \cup UNION {next[m] : m \in near[k - 1]}
      BY <3>1 DEF Balls
    <3>3. ASSUME NEW m \in near[k - 1] PROVE next[m] \subseteq t.visited
      <4>1. PICK g \in W : g.id = m
        BY <2>3, <1>7 DEF Named
      <4>2. g \in Hits /\ g.depth \in Nat /\ Exact(near, g)
        BY <1>2, <1>4
      <4>3. g.depth <= k - 1
        BY <4>1, <4>2, <3>1, ExactLeast
      <4>4. d > 0 => k <= d
        BY <2>1 DEF Limit
      <4>5. ~AtLimit(g.depth, d)
        BY <4>2, <4>3, <4>4, <3>1 DEF AtLimit
      <4> QED BY <4>1, <4>5, <1>3
    <3> QED BY <2>3, <3>1, <3>2, <3>3
  <2> HIDE DEF K
  <2>4. 0 .. h.depth \subseteq K
    BY <2>1, <2>2, <2>3, UpTo
  <2>5. near[h.depth] \subseteq t.visited
    BY <2>1, <2>4 DEF K
  <2>6. PICK g \in W : g.id = h.id
    BY <2>1, <2>5, <1>7 DEF Exact, Named
  <2>7. g = h
    BY <2>1, <2>6, <1>2, <1>4, ExactOnce
  <2> QED BY <2>7
<1>10. ASSUME NEW h \in W PROVE h.depth < Cardinality(Nodes)
  <2>1. h.depth < Cardinality(Named(W))
    BY DEF Progress
  <2> QED BY <2>1, <1>4, <1>5
<1> QED BY <1>8, <1>9, <1>10

\* The hits that are listed: all that have been served but the start.
ListsHits(out, W) == ToSet(out) = {h \in W : h.depth # 0}

\* Listing a hit.
LEMMA HitListed ==
  ASSUME NEW out \in Seq(Hits), NEW W, NEW h \in Hits, ListsHits(out, W)
  PROVE  ListsHits(IF h.depth = 0 THEN out ELSE Append(out, h), W \cup {h})
<1>1. CASE h.depth = 0
  BY <1>1 DEF ListsHits
<1>2. CASE h.depth # 0
  <2> DEFINE more == Append(out, h)
             n == Len(out)
  <2>1. n \in Nat /\ DOMAIN out = 1 .. n /\ DOMAIN more = 1 .. n + 1
        /\ more[n + 1] = h /\ \A k \in 1 .. n : more[k] = out[k]
    OBVIOUS
  <2> HIDE DEF more, n
  <2>2. ToSet(more) = ToSet(out) \cup {h}
    <3>1. 1 .. n + 1 = (1 .. n) \cup {n + 1}
      BY <2>1
    <3> QED BY <2>1, <3>1 DEF ToSet
  <2>3. ListsHits(more, W \cup {h})
    BY <2>2, <1>2 DEF ListsHits
  <2> QED BY <2>3, <1>2 DEF more
<1> QED BY <1>1, <1>2

\* What is beside a node are nodes.
LEMMA AroundType ==
  ASSUME NEW a \in Adjacency
  PROVE  Around(a) \in [Nodes -> SUBSET Nodes] /\ Ahead(a) \in [Nodes -> SUBSET Nodes]
<1>1. ASSUME NEW m \in Nodes
      PROVE  /\ AllNeighborIDs(a, m) \in SUBSET Nodes
             /\ {a.forward[m][k].target : k \in DOMAIN a.forward[m]} \in SUBSET Nodes
  <2>1. a.forward[m] \in Seq(Refs) /\ a.reverse[m] \in Seq(Refs) /\ \A r \in Refs : r.target \in Nodes
    BY DEF Adjacency, Refs
  <2> QED BY <2>1 DEF AllNeighborIDs
<1> QED BY <1>1 DEF Around, Ahead

\* The state of Neighborhood after j rounds.
NearProgress(t, near, a, d, n, j) ==
  \E W : Progress(t, W, near, Around(a), d, n, j) /\ ListsHits(t.out, W)

\* A round of Neighborhood makes progress.
LEMMA NearProgressMade ==
  ASSUME NEW a \in Adjacency, NEW n \in Nodes, NEW near, Balls(near, Around(a), n), NEW d \in Nat, NEW j \in Nat,
         NEW t \in Searches(Hits), NearProgress(t, near, a, d, n, j)
  PROVE  NearProgress(RoundNear(a, d, t), near, a, d, n, j + 1)
<1>1. PICK W : Progress(t, W, near, Around(a), d, n, j) /\ ListsHits(t.out, W)
  BY DEF NearProgress
<1>2. CASE t.queue = <<>>
  <2>1. Progress(t, W, near, Around(a), d, n, j + 1)
    BY <1>1, <1>2, ProgressKept
  <2> QED BY <2>1, <1>1, <1>2 DEF RoundNear, NearProgress
<1>3. CASE t.queue # <<>>
  <2> DEFINE cur == t.queue[1]
             u == ServedNear(a, d, t, cur)
             next == Around(a)
  <2>1. cur \in Hits /\ RoundNear(a, d, t) = Taken(u)
    BY <1>3, HeadType DEF RoundNear
  <2> HIDE DEF cur
  <2>2. /\ u \in Searches(Hits)
        /\ u.out = IF cur.depth = 0 THEN t.out ELSE Append(t.out, cur)
        /\ Reached(t, u, From(next, cur, d), cur.depth + 1)
    BY <2>1, ServedNearReached
  <2>3. next \in [Nodes -> SUBSET Nodes]
    BY AroundType
  <2> HIDE DEF u, next
  <2>4. cur = t.queue[1] /\ Progress(t, W, near, next, d, n, j) /\ Balls(near, next, n)
    BY <1>1 DEF cur, next
  <2>5. Progress(Taken(u), W \cup {cur}, near, next, d, n, j + 1)
    BY <1>3, <2>2, <2>3, <2>4, ProgressMade
  <2>6. Taken(u).out = u.out
    <3>1. u.queue # <<>>
      BY <1>3, <2>2, ReachedHead
    <3>2. Taken(u) = [visited |-> u.visited, queue |-> Tail(u.queue), out |-> u.out]
      BY <2>2, <3>1, TailType
    <3> QED BY <3>2
  <2>7. t.out \in Seq(Hits)
    BY DEF Searches
  <2>8. ListsHits(u.out, W \cup {cur})
    BY <1>1, <2>1, <2>2, <2>7, HitListed
  <2> QED BY <2>1, <2>5, <2>6, <2>8 DEF NearProgress, next
<1> QED BY <1>2, <1>3

\* Neighborhood finds the hits within the limit but the start.
LEMMA NeighborhoodFound ==
  ASSUME NEW a \in Adjacency, NEW n \in Nodes, NEW near, Balls(near, Around(a), n), NEW d \in Nat
  PROVE  Neighborhood(a, n, d) = {h \in Within(near, d) : h.depth # 0}
<1> DEFINE N == Cardinality(Nodes)
<1>1. N \in Nat
  BY SearchAssumption, FS_CardinalityType
<1>2. PICK it \in [0 .. N -> Searches(Hits)] :
        /\ it[0] = Start(n)
        /\ \A k \in 1 .. N : it[k] = RoundNear(a, d, it[k - 1])
        /\ Neighborhood(a, n, d) = ToSet(it[N].out)
  BY NearSteps
<1> HIDE DEF N
<1> DEFINE K == {k \in 0 .. N : NearProgress(it[k], near, a, d, n, k)}
<1>3. 0 \in K
  <2>1. Progress(Start(n), {}, near, Around(a), d, n, 0)
    BY ProgressStart
  <2>2. ListsHits(Start(n).out, {})
    BY DEF ListsHits, Start, ToSet
  <2> QED BY <2>1, <2>2, <1>1, <1>2 DEF NearProgress
<1>4. ASSUME NEW k \in 1 .. N, k - 1 \in K PROVE k \in K
  <2>1. k - 1 \in Nat /\ k \in 0 .. N /\ (k - 1) + 1 = k /\ it[k - 1] \in Searches(Hits)
    BY <1>1, <1>2
  <2>2. NearProgress(RoundNear(a, d, it[k - 1]), near, a, d, n, (k - 1) + 1)
    BY <2>1, <1>4, NearProgressMade
  <2> QED BY <2>1, <2>2, <1>2
<1> HIDE DEF K
<1>5. 0 .. N \subseteq K
  BY <1>1, <1>3, <1>4, UpTo
<1>6. NearProgress(it[N], near, a, d, n, N) /\ it[N] \in Searches(Hits)
  BY <1>1, <1>2, <1>5 DEF K
<1>7. PICK W : Progress(it[N], W, near, Around(a), d, n, N) /\ ListsHits(it[N].out, W)
  BY <1>6 DEF NearProgress
<1>8. Around(a) \in [Nodes -> SUBSET Nodes]
  BY AroundType
<1>9. W = Within(near, d)
  BY <1>6, <1>7, <1>8, ProgressDone DEF N
<1> QED BY <1>2, <1>7, <1>9 DEF ListsHits

\* Two lists of references to different edges, joined.
LEMMA RefsJoined ==
  ASSUME NEW p, NEW P, NEW q, NEW Q, ListsRefs(p, P), ListsRefs(q, Q), \A r \in P, s \in Q : r.edge # s.edge
  PROVE  ListsRefs(p \o q, P \cup Q)
<1> DEFINE j == p \o q
           a == Len(p)
           b == Len(q)
<1>1. p \in Seq(Refs) /\ q \in Seq(Refs) /\ P = {p[k] : k \in DOMAIN p} /\ Q = {q[k] : k \in DOMAIN q}
  BY DEF ListsRefs
<1>2. a \in Nat /\ b \in Nat /\ DOMAIN p = 1 .. a /\ DOMAIN q = 1 .. b
      /\ j \in Seq(Refs) /\ DOMAIN j = 1 .. a + b
  BY <1>1
<1>3. /\ \A k \in 1 .. a : j[k] = p[k]
      /\ \A k \in 1 .. b : j[a + k] = q[k]
  BY <1>1
<1>4. /\ \A k, l \in DOMAIN p : p[k].edge = p[l].edge => k = l
      /\ \A k, l \in DOMAIN q : q[k].edge = q[l].edge => k = l
  BY DEF ListsRefs
<1> HIDE DEF j, a, b
<1>5. ASSUME NEW k \in DOMAIN j
      PROVE  \/ k \in DOMAIN p /\ j[k] = p[k]
             \/ k - a \in DOMAIN q /\ j[k] = q[k - a]
  <2>1. CASE k > a
    <3>1. k - a \in 1 .. b /\ a + (k - a) = k
      BY <2>1, <1>2
    <3> QED BY <3>1, <1>2, <1>3
  <2>2. CASE k <= a
    BY <2>2, <1>2, <1>3
  <2> QED BY <2>1, <2>2, <1>2
<1>6. {j[k] : k \in DOMAIN j} = P \cup Q
  <2>1. ASSUME NEW k \in DOMAIN p PROVE p[k] \in {j[l] : l \in DOMAIN j}
    <3>1. k \in DOMAIN j /\ j[k] = p[k]
      BY <1>2, <1>3
    <3> QED BY <3>1
  <2>2. ASSUME NEW k \in DOMAIN q PROVE q[k] \in {j[l] : l \in DOMAIN j}
    <3>1. a + k \in DOMAIN j /\ j[a + k] = q[k]
      BY <1>2, <1>3
    <3> QED BY <3>1
  <2>3. ASSUME NEW k \in DOMAIN j PROVE j[k] \in P \cup Q
    BY <1>1, <1>5
  <2> QED BY <2>1, <2>2, <2>3, <1>1
<1>7. ASSUME NEW k \in DOMAIN j, NEW l \in DOMAIN j, j[k].edge = j[l].edge PROVE k = l
  <2>1. k \in Nat /\ l \in Nat
    BY <1>2
  <2>2. CASE k \in DOMAIN p /\ j[k] = p[k] /\ l \in DOMAIN p /\ j[l] = p[l]
    BY <2>2, <1>4, <1>7
  <2>3. CASE k - a \in DOMAIN q /\ j[k] = q[k - a] /\ l - a \in DOMAIN q /\ j[l] = q[l - a]
    <3>1. k - a = l - a
      BY <2>3, <1>4, <1>7
    <3> QED BY <3>1, <2>1, <1>2
  <2>4. CASE k \in DOMAIN p /\ j[k] = p[k] /\ l - a \in DOMAIN q /\ j[l] = q[l - a]
    BY <2>4, <1>1, <1>7
  <2>5. CASE k - a \in DOMAIN q /\ j[k] = q[k - a] /\ l \in DOMAIN p /\ j[l] = p[l]
    BY <2>5, <1>1, <1>7
  <2> QED BY <2>2, <2>3, <2>4, <2>5, <1>5
<1>8. ListsRefs(j, P \cup Q)
  BY <1>2, <1>6, <1>7 DEF ListsRefs
<1> QED BY <1>8 DEF j

\* The references that leave the hits in W above the limit.
Leaving(es, W, d) == UNION {Out(es, h.id) : h \in {g \in W : ~AtLimit(g.depth, d)}}

\* The state of SubtreeEdges after j rounds.
TreeProgress(t, near, a, es, d, n, j) ==
  \E W : Progress(t, W, near, Ahead(a), d, n, j) /\ ListsRefs(t.out, Leaving(es, W, d))

\* Serving a hit lists its references.
LEMMA TreeListed ==
  ASSUME NEW a, NEW es \in EdgeTables, Mirrors(a, es), NEW d \in Nat, NEW W \in SUBSET Hits, NEW cur \in Hits,
         cur.id \notin Named(W), NEW out, ListsRefs(out, Leaving(es, W, d))
  PROVE  ListsRefs(IF AtLimit(cur.depth, d) THEN out ELSE out \o a.forward[cur.id], Leaving(es, W \cup {cur}, d))
<1>1. cur.id \in Nodes
  BY DEF Hits
<1>2. CASE AtLimit(cur.depth, d)
  <2>1. Leaving(es, W \cup {cur}, d) = Leaving(es, W, d)
    BY <1>2 DEF Leaving
  <2> QED BY <2>1, <1>2
<1>3. CASE ~AtLimit(cur.depth, d)
  <2>1. Leaving(es, W \cup {cur}, d) = Leaving(es, W, d) \cup Out(es, cur.id)
    BY <1>3 DEF Leaving
  <2>2. ListsRefs(a.forward[cur.id], Out(es, cur.id))
    BY <1>1 DEF Mirrors
  <2>3. ASSUME NEW r \in Leaving(es, W, d), NEW s \in Out(es, cur.id) PROVE r.edge # s.edge
    <3>1. PICK h \in W : r \in Out(es, h.id)
      BY DEF Leaving
    <3>2. h.id \in Nodes /\ h.id # cur.id
      BY <3>1 DEF Named, Hits
    <3>3. es[r.edge].from = h.id /\ es[s.edge].from = cur.id
      BY <3>1, <3>2, <1>1, OutIn
    <3> QED BY <3>2, <3>3
  <2> DEFINE refs == a.forward[cur.id]
             P == Leaving(es, W, d)
             Q == Out(es, cur.id)
  <2>4. ListsRefs(refs, Q) /\ ListsRefs(out, P) /\ \A r \in P, s \in Q : r.edge # s.edge
    BY <2>2, <2>3
  <2> HIDE DEF refs, P, Q
  <2>5. ListsRefs(out \o refs, P \cup Q)
    BY <2>4, RefsJoined
  <2> QED BY <2>1, <2>5, <1>3 DEF refs, P, Q
<1> QED BY <1>2, <1>3

\* A round of SubtreeEdges makes progress.
LEMMA TreeProgressMade ==
  ASSUME NEW a, NEW es \in EdgeTables, Mirrors(a, es), NEW n \in Nodes, NEW near, Balls(near, Ahead(a), n),
         NEW d \in Nat, NEW j \in Nat, NEW t \in Searches(Refs), TreeProgress(t, near, a, es, d, n, j)
  PROVE  TreeProgress(RoundTree(a, d, t), near, a, es, d, n, j + 1)
<1>0. a \in Adjacency
  BY DEF Mirrors
<1>1. PICK W : Progress(t, W, near, Ahead(a), d, n, j) /\ ListsRefs(t.out, Leaving(es, W, d))
  BY DEF TreeProgress
<1>2. CASE t.queue = <<>>
  <2>1. Progress(t, W, near, Ahead(a), d, n, j + 1)
    BY <1>1, <1>2, ProgressKept
  <2> QED BY <2>1, <1>1, <1>2 DEF RoundTree, TreeProgress
<1>3. CASE t.queue # <<>>
  <2> DEFINE cur == t.queue[1]
             u == ServedTree(a, d, t, cur)
             next == Ahead(a)
  <2>1. cur \in Hits /\ RoundTree(a, d, t) = Taken(u)
    BY <1>3, HeadType DEF RoundTree
  <2> HIDE DEF cur
  <2>2. /\ u \in Searches(Refs)
        /\ u.out = IF AtLimit(cur.depth, d) THEN t.out ELSE t.out \o a.forward[cur.id]
        /\ Reached(t, u, From(next, cur, d), cur.depth + 1)
    BY <2>1, <1>0, ServedTreeReached
  <2>3. next \in [Nodes -> SUBSET Nodes]
    BY <1>0, AroundType
  <2> HIDE DEF u, next
  <2>4. cur = t.queue[1] /\ Progress(t, W, near, next, d, n, j) /\ Balls(near, next, n)
    BY <1>1 DEF cur, next
  <2>5. Progress(Taken(u), W \cup {cur}, near, next, d, n, j + 1)
    BY <1>3, <2>2, <2>3, <2>4, ProgressMade
  <2>6. Taken(u).out = u.out
    <3>1. u.queue # <<>>
      BY <1>3, <2>2, ReachedHead
    <3>2. Taken(u) = [visited |-> u.visited, queue |-> Tail(u.queue), out |-> u.out]
      BY <2>2, <3>1, TailType
    <3> QED BY <3>2
  <2>7. W \in SUBSET Hits /\ cur.id \notin Named(W)
    <3>1. cur \in Waiting(t)
      <4>1. 1 \in DOMAIN t.queue
        BY <1>3 DEF Searches
      <4> QED BY <4>1, <2>4 DEF Waiting
    <3> QED BY <3>1, <2>4 DEF Progress, Named
  <2>8. ListsRefs(u.out, Leaving(es, W \cup {cur}, d))
    BY <1>1, <2>1, <2>2, <2>7, TreeListed
  <2> QED BY <2>1, <2>5, <2>6, <2>8 DEF TreeProgress, next
<1> QED BY <1>2, <1>3

\* SubtreeEdges lists what leaves the hits above the limit, each edge once.
LEMMA SubtreeFound ==
  ASSUME NEW a, NEW es \in EdgeTables, Mirrors(a, es), NEW n \in Nodes, NEW near, Balls(near, Ahead(a), n),
         NEW d \in Nat
  PROVE  /\ ListsRefs(SubtreeEdges(a, n, d), Leaving(es, Within(near, d), d))
         /\ \A h \in Within(near, d) : h.depth < Cardinality(Nodes)
<1> DEFINE N == Cardinality(Nodes)
<1>0. a \in Adjacency
  BY DEF Mirrors
<1>1. N \in Nat
  BY SearchAssumption, FS_CardinalityType
<1>2. PICK it \in [0 .. N -> Searches(Refs)] :
        /\ it[0] = Start(n)
        /\ \A k \in 1 .. N : it[k] = RoundTree(a, d, it[k - 1])
        /\ SubtreeEdges(a, n, d) = it[N].out
  BY <1>0, TreeSteps
<1> HIDE DEF N
<1> DEFINE K == {k \in 0 .. N : TreeProgress(it[k], near, a, es, d, n, k)}
<1>3. 0 \in K
  <2>1. Progress(Start(n), {}, near, Ahead(a), d, n, 0)
    BY ProgressStart
  <2>2. ListsRefs(Start(n).out, Leaving(es, {}, d))
    BY DEF ListsRefs, Start, Leaving
  <2> QED BY <2>1, <2>2, <1>1, <1>2 DEF TreeProgress
<1>4. ASSUME NEW k \in 1 .. N, k - 1 \in K PROVE k \in K
  <2>1. k - 1 \in Nat /\ k \in 0 .. N /\ (k - 1) + 1 = k /\ it[k - 1] \in Searches(Refs)
    BY <1>1, <1>2
  <2>2. TreeProgress(RoundTree(a, d, it[k - 1]), near, a, es, d, n, (k - 1) + 1)
    BY <2>1, <1>4, TreeProgressMade
  <2> QED BY <2>1, <2>2, <1>2
<1> HIDE DEF K
<1>5. 0 .. N \subseteq K
  BY <1>1, <1>3, <1>4, UpTo
<1>6. TreeProgress(it[N], near, a, es, d, n, N) /\ it[N] \in Searches(Refs)
  BY <1>1, <1>2, <1>5 DEF K
<1>7. PICK W : Progress(it[N], W, near, Ahead(a), d, n, N) /\ ListsRefs(it[N].out, Leaving(es, W, d))
  BY <1>6 DEF TreeProgress
<1>8. Ahead(a) \in [Nodes -> SUBSET Nodes]
  BY <1>0, AroundType
<1>9. W = Within(near, d) /\ \A h \in W : h.depth < Cardinality(Nodes)
  BY <1>6, <1>7, <1>8, ProgressDone DEF N
<1> QED BY <1>2, <1>7, <1>9

-----------------------------------------------------------------------------
(* The queries of the graph. *)

\* The index knows what is beside a node.
LEMMA BesideNodes ==
  ASSUME IndexInv
  PROVE  /\ edges \in EdgeTables /\ graph \in Adjacency
         /\ Around(graph) = [m \in Nodes |-> Beside(m)] /\ Ahead(graph) = [m \in Nodes |-> Targets(m)]
         /\ \A m \in Nodes : Beside(m) \in SUBSET Nodes /\ Targets(m) \in SUBSET Nodes
<1>1. edges \in EdgeTables /\ Mirrors(graph, edges)
  BY DEF IndexInv, StoredTypes, IndexesFresh
<1>2. graph \in Adjacency
  BY <1>1 DEF Mirrors
<1>3. ASSUME NEW m \in Nodes
      PROVE  /\ {graph.forward[m][k].target : k \in DOMAIN graph.forward[m]} = Targets(m)
             /\ {graph.reverse[m][k].target : k \in DOMAIN graph.reverse[m]} = Sources(m)
             /\ Targets(m) \in SUBSET Nodes /\ Sources(m) \in SUBSET Nodes
  <2> DEFINE f == graph.forward[m]
             r == graph.reverse[m]
  <2>1. {f[k] : k \in DOMAIN f} = Out(edges, m) /\ {r[k] : k \in DOMAIN r} = In(edges, m)
    BY <1>1 DEF Mirrors, ListsRefs
  <2> HIDE DEF f, r
  <2>2. {f[k].target : k \in DOMAIN f} = {q.target : q \in Out(edges, m)}
    BY <2>1
  <2>3. {r[k].target : k \in DOMAIN r} = {q.target : q \in In(edges, m)}
    BY <2>1
  <2>4. {q.target : q \in Out(edges, m)} = Targets(m)
    <3>1. ASSUME NEW q \in Out(edges, m) PROVE q.target \in Targets(m)
      <4>1. PICK x \in EdgeIds : edges[x] # None /\ edges[x].from = m /\ q = Ref(x, edges[x].to, edges[x].label)
        BY DEF Out
      <4> QED BY <4>1 DEF Targets, LiveEdges, Ref
    <3>2. ASSUME NEW y \in Targets(m) PROVE \E q \in Out(edges, m) : q.target = y
      <4>1. PICK x \in EdgeIds : edges[x] # None /\ edges[x].from = m /\ y = edges[x].to
        BY DEF Targets, LiveEdges
      <4>2. Ref(x, y, edges[x].label) \in Out(edges, m)
        BY <4>1 DEF Out
      <4> QED BY <4>2 DEF Ref
    <3> QED BY <3>1, <3>2
  <2>5. {q.target : q \in In(edges, m)} = Sources(m)
    <3>1. ASSUME NEW q \in In(edges, m) PROVE q.target \in Sources(m)
      <4>1. PICK x \in EdgeIds : edges[x] # None /\ edges[x].to = m /\ q = Ref(x, edges[x].from, edges[x].label)
        BY DEF In
      <4> QED BY <4>1 DEF Sources, LiveEdges, Ref
    <3>2. ASSUME NEW y \in Sources(m) PROVE \E q \in In(edges, m) : q.target = y
      <4>1. PICK x \in EdgeIds : edges[x] # None /\ edges[x].to = m /\ y = edges[x].from
        BY DEF Sources, LiveEdges
      <4>2. Ref(x, y, edges[x].label) \in In(edges, m)
        BY <4>1 DEF In
      <4> QED BY <4>2 DEF Ref
    <3> QED BY <3>1, <3>2
  <2>6. Targets(m) \in SUBSET Nodes /\ Sources(m) \in SUBSET Nodes
    BY <1>1, LiveEdgeTypes DEF Targets, Sources
  <2> QED BY <2>2, <2>3, <2>4, <2>5, <2>6 DEF f, r
<1>4. \A m \in Nodes : AllNeighborIDs(graph, m) = Beside(m)
  BY <1>3 DEF AllNeighborIDs, Beside
<1>5. Around(graph) = [m \in Nodes |-> Beside(m)] /\ Ahead(graph) = [m \in Nodes |-> Targets(m)]
  BY <1>3, <1>4 DEF Around, Ahead
<1>6. \A m \in Nodes : Beside(m) \in SUBSET Nodes /\ Targets(m) \in SUBSET Nodes
  BY <1>3 DEF Beside
<1> QED BY <1>1, <1>2, <1>5, <1>6

\* The hits within the limit, by their distance.
LEMMA WithinBalls ==
  ASSUME NEW near, NEW next, NEW n, Balls(near, next, n), NEW d \in Nat
  PROVE  {h \in Within(near, d) : h.depth # 0} =
           UNION {{[id |-> m, depth |-> k] : m \in near[k] \ near[k - 1]} : k \in 1 .. Limit(d)}
<1> DEFINE H == {h \in Within(near, d) : h.depth # 0}
           At(k) == {[id |-> m, depth |-> k] : m \in near[k] \ near[k - 1]}
<1>1. Limit(d) \in Nat
  BY SearchAssumption, FS_CardinalityType DEF Limit
<1>2. ASSUME NEW h \in H PROVE \E k \in 1 .. Limit(d) : h \in At(k)
  <2>1. h \in Hits /\ Exact(near, h) /\ h.depth <= Limit(d) /\ h.depth \in Nat /\ h.depth # 0
        /\ h = [id |-> h.id, depth |-> h.depth]
    BY DEF Within, Hits
  <2>2. h.depth \in 1 .. Limit(d) /\ h.id \in near[h.depth] \ near[h.depth - 1]
    BY <2>1, <1>1 DEF Exact
  <2> QED BY <2>1, <2>2
<1>3. ASSUME NEW k \in 1 .. Limit(d), NEW h \in At(k) PROVE h \in H
  <2>1. PICK m \in near[k] \ near[k - 1] : h = [id |-> m, depth |-> k]
    OBVIOUS
  <2>2. k \in Nat /\ near[k] \in SUBSET Nodes /\ k <= Limit(d) /\ k # 0
    BY <1>1 DEF Balls
  <2>3. h \in Hits /\ h.id = m /\ h.depth = k
    BY <2>1, <2>2 DEF Hits
  <2>4. Exact(near, h)
    BY <2>1, <2>3 DEF Exact
  <2> QED BY <2>2, <2>3, <2>4 DEF Within
<1> DEFINE U == {At(k) : k \in 1 .. Limit(d)}
<1>4. \A X : X \in U <=> \E k \in 1 .. Limit(d) : X = At(k)
  OBVIOUS
<1> HIDE DEF H, At
<1>5. H = UNION U
  BY <1>2, <1>3, <1>4
<1> QED BY <1>5 DEF H, At

\* Neighborhood finds each node within the limit at its least distance.
LEMMA Distances ==
  ASSUME IndexInv PROVE DistancesExact
<1> SUFFICES ASSUME NEW n \in Nodes, NEW d \in Depths
             PROVE  Neighborhood(graph, n, d) =
                      UNION {{[id |-> m, depth |-> k] : m \in Ball(Beside, n, k) \ Ball(Beside, n, k - 1)} :
                               k \in 1 .. Limit(d)}
  BY DEF DistancesExact
<1>1. d \in Nat /\ Limit(d) \in Nat
  BY SearchAssumption, FS_CardinalityType DEF Limit
<1> DEFINE next == [m \in Nodes |-> Beside(m)]
           ball(k) == Ball(Beside, n, k)
<1>2. edges \in EdgeTables /\ graph \in Adjacency /\ Around(graph) = next
  BY BesideNodes
<1>3. next \in [Nodes -> SUBSET Nodes]
  BY BesideNodes
<1>4. PICK near : Balls(near, next, n)
  <2> HIDE DEF next
  <2> QED BY <1>3, BallsExist
<1>5. \A k \in Nat : ball(k) = near[k]
  BY <1>2, <1>4, BesideBalls
<1> HIDE DEF next, ball
<1>6. Neighborhood(graph, n, d) = {h \in Within(near, d) : h.depth # 0}
  BY <1>1, <1>2, <1>4, NeighborhoodFound
<1>7. {h \in Within(near, d) : h.depth # 0} =
        UNION {{[id |-> m, depth |-> k] : m \in near[k] \ near[k - 1]} : k \in 1 .. Limit(d)}
  BY <1>1, <1>4, WithinBalls
<1>8. ASSUME NEW k \in 1 .. Limit(d) PROVE ball(k) = near[k] /\ ball(k - 1) = near[k - 1]
  BY <1>1, <1>5
<1>9. {{[id |-> m, depth |-> k] : m \in near[k] \ near[k - 1]} : k \in 1 .. Limit(d)}
        = {{[id |-> m, depth |-> k] : m \in ball(k) \ ball(k - 1)} : k \in 1 .. Limit(d)}
  BY <1>8
<1>10. Neighborhood(graph, n, d) =
         UNION {{[id |-> m, depth |-> k] : m \in ball(k) \ ball(k - 1)} : k \in 1 .. Limit(d)}
  BY <1>6, <1>7, <1>9
<1> QED BY <1>10 DEF ball

\* A node that is near has a distance.
LEMMA HasDistance ==
  ASSUME NEW near, NEW next, NEW n, Balls(near, next, n), NEW k \in Nat, NEW m \in near[k]
  PROVE  \E h \in Hits : h.id = m /\ Exact(near, h) /\ h.depth <= k
<1> DEFINE D == {j \in Nat : m \in near[j]}
<1>1. D \in SUBSET Nat /\ D # {}
  OBVIOUS
<1>2. PICK j \in D : \A i \in D : j <= i
  BY <1>1, LeastNatural
<1>3. j \in Nat /\ m \in near[j] /\ j <= k /\ near[j] \in SUBSET Nodes
  BY <1>2 DEF Balls
<1>4. j > 0 => m \notin near[j - 1]
  <2> SUFFICES ASSUME j > 0, m \in near[j - 1] PROVE FALSE
    OBVIOUS
  <2>1. j - 1 \in D
    BY <1>3
  <2>2. j <= j - 1
    BY <1>2, <2>1
  <2> QED BY <2>2, <1>3
<1> DEFINE h == [id |-> m, depth |-> j]
<1>5. h \in Hits /\ h.id = m /\ h.depth = j
  BY <1>3 DEF Hits
<1>6. Exact(near, h)
  BY <1>3, <1>4, <1>5 DEF Exact
<1> QED BY <1>3, <1>5, <1>6

\* The edges that leave the hits above the limit are those that leave the nodes
\* nearer than the limit.
LEMMA LeavingEdges ==
  ASSUME NEW near, NEW next, NEW n \in Nodes, Balls(near, next, n), NEW d \in Nat,
         \A h \in Within(near, d) : h.depth < Cardinality(Nodes)
  PROVE  {r.edge : r \in Leaving(edges, Within(near, d), d)} = {x \in LiveEdges : edges[x].from \in near[Limit(d) - 1]}
<1>1. Limit(d) \in Nat /\ Limit(d) - 1 \in Nat /\ Cardinality(Nodes) \in Nat /\ (d = 0 => Limit(d) = Cardinality(Nodes))
      /\ (d > 0 => Limit(d) = d)
  <2>1. IsFiniteSet(Nodes) /\ Cardinality(Nodes) \in Nat
    BY SearchAssumption, FS_CardinalityType
  <2>2. Cardinality(Nodes) # 0
    BY <2>1, FS_EmptySet
  <2> QED BY <2>1, <2>2 DEF Limit
<1>2. ASSUME NEW r \in Leaving(edges, Within(near, d), d)
      PROVE  r.edge \in LiveEdges /\ edges[r.edge].from \in near[Limit(d) - 1]
  <2>1. PICK h \in Within(near, d) : ~AtLimit(h.depth, d) /\ r \in Out(edges, h.id)
    BY DEF Leaving
  <2>2. PICK x \in EdgeIds : edges[x] # None /\ edges[x].from = h.id /\ r = Ref(x, edges[x].to, edges[x].label)
    BY <2>1 DEF Out
  <2>3. r.edge = x /\ x \in LiveEdges
    BY <2>2 DEF Ref, LiveEdges
  <2>4. h.depth \in Nat /\ h.id \in near[h.depth]
    BY <2>1 DEF Within, Hits, Exact
  <2>5. h.depth <= Limit(d) - 1
    BY <2>1, <2>4, <1>1 DEF AtLimit
  <2>6. near[h.depth] \subseteq near[Limit(d) - 1]
    BY <2>4, <2>5, <1>1, BallsGrow
  <2> QED BY <2>2, <2>3, <2>4, <2>6
<1>3. ASSUME NEW x \in LiveEdges, edges[x].from \in near[Limit(d) - 1]
      PROVE  \E r \in Leaving(edges, Within(near, d), d) : r.edge = x
  <2>1. PICK h \in Hits : h.id = edges[x].from /\ Exact(near, h) /\ h.depth <= Limit(d) - 1
    BY <1>1, <1>3, HasDistance
  <2>2. h.depth \in Nat
    BY DEF Hits
  <2>3. h \in Within(near, d) /\ ~AtLimit(h.depth, d)
    BY <2>1, <2>2, <1>1 DEF Within, AtLimit
  <2> DEFINE r == Ref(x, edges[x].to, edges[x].label)
  <2>4. r \in Out(edges, h.id) /\ r.edge = x
    BY <2>1 DEF Out, LiveEdges, Ref
  <2> HIDE DEF r
  <2>5. r \in Leaving(edges, Within(near, d), d)
    BY <2>3, <2>4 DEF Leaving
  <2> QED BY <2>4, <2>5
<1> QED BY <1>2, <1>3

\* A list of references to different edges has as many members as edges.
LEMMA EdgesCounted ==
  ASSUME NEW list, NEW R, ListsRefs(list, R)
  PROVE  /\ {list[k].edge : k \in DOMAIN list} = {r.edge : r \in R}
         /\ Len(list) = Cardinality({r.edge : r \in R})
<1>1. list \in Seq(Refs) /\ {list[k] : k \in DOMAIN list} = R
      /\ \A k, l \in DOMAIN list : list[k].edge = list[l].edge => k = l
  BY DEF ListsRefs
<1> DEFINE m == Len(list)
           es == [k \in 1 .. m |-> list[k].edge]
<1>2. m \in Nat /\ DOMAIN list = 1 .. m /\ \A k \in 1 .. m : list[k].edge \in EdgeIds
  <2>1. \A r \in Refs : r.edge \in EdgeIds
    BY DEF Refs
  <2> QED BY <2>1, <1>1
<1>3. es \in Seq(EdgeIds) /\ Len(es) = m /\ DOMAIN es = 1 .. m /\ \A k \in 1 .. m : es[k] = list[k].edge
  BY <1>2
<1> HIDE DEF es
<1>4. Cardinality({es[k] : k \in DOMAIN es}) = m
  <2>1. \A k, l \in DOMAIN es : es[k] = es[l] => k = l
    BY <1>1, <1>2, <1>3
  <2> QED BY <2>1, <1>3, DistinctLength
<1>5. {es[k] : k \in DOMAIN es} = {list[k].edge : k \in DOMAIN list}
  BY <1>2, <1>3
<1>6. {list[k].edge : k \in DOMAIN list} = {r.edge : r \in R}
  BY <1>1
<1> QED BY <1>4, <1>5, <1>6

\* SubtreeEdges lists each edge that leaves a node nearer than the limit, once.
LEMMA Subtrees ==
  ASSUME IndexInv PROVE SubtreeExact
<1> SUFFICES ASSUME NEW n \in Nodes, NEW d \in Depths
             PROVE  LET listed == SubtreeEdges(graph, n, d)
                        wanted == {x \in LiveEdges : edges[x].from \in Ball(Targets, n, Limit(d) - 1)}
                    IN /\ {listed[k].edge : k \in DOMAIN listed} = wanted
                       /\ Len(listed) = Cardinality(wanted)
  BY DEF SubtreeExact
<1>1. d \in Nat /\ Limit(d) - 1 \in Nat
  <2>1. IsFiniteSet(Nodes) /\ Cardinality(Nodes) \in Nat
    BY SearchAssumption, FS_CardinalityType
  <2>2. Cardinality(Nodes) # 0
    BY <2>1, FS_EmptySet
  <2> QED BY <2>1, <2>2, SearchAssumption DEF Limit
<1> DEFINE next == [m \in Nodes |-> Targets(m)]
           ball == Ball(Targets, n, Limit(d) - 1)
           listed == SubtreeEdges(graph, n, d)
<1>2. edges \in EdgeTables /\ Mirrors(graph, edges) /\ Ahead(graph) = next
  BY BesideNodes DEF IndexInv, IndexesFresh
<1>3. next \in [Nodes -> SUBSET Nodes]
  BY BesideNodes
<1>4. PICK near : Balls(near, next, n)
  <2> HIDE DEF next
  <2> QED BY <1>3, BallsExist
<1>5. ball = near[Limit(d) - 1]
  BY <1>1, <1>2, <1>4, TargetBalls
<1> HIDE DEF next, ball, listed
<1>6. ListsRefs(listed, Leaving(edges, Within(near, d), d)) /\ \A h \in Within(near, d) : h.depth < Cardinality(Nodes)
  BY <1>1, <1>2, <1>4, SubtreeFound DEF listed
<1>7. {r.edge : r \in Leaving(edges, Within(near, d), d)} = {x \in LiveEdges : edges[x].from \in ball}
  BY <1>1, <1>4, <1>5, <1>6, LeavingEdges
<1> DEFINE R == Leaving(edges, Within(near, d), d)
<1>8. /\ {listed[k].edge : k \in DOMAIN listed} = {r.edge : r \in R}
      /\ Len(listed) = Cardinality({r.edge : r \in R})
  <2> HIDE DEF R
  <2> QED BY <1>6, EdgesCounted DEF R
<1> QED BY <1>7, <1>8 DEF ball, listed

\* Neighborhood finds each node within the limit at its least distance over the
\* stored edges, and no other node, whatever was put, deleted, saved and loaded.
THEOREM NeighborhoodExact == Spec => []DistancesExact
<1>1. IndexInv => DistancesExact
  BY Distances
<1> QED BY <1>1, IndexInvariant, PTL

\* SubtreeEdges lists each edge that leaves a node nearer than the limit exactly once.
THEOREM SubtreesExact == Spec => []SubtreeExact
<1>1. IndexInv => SubtreeExact
  BY Subtrees
<1> QED BY <1>1, IndexInvariant, PTL

-----------------------------------------------------------------------------
(* Arithmetic. *)

\* The product of two natural numbers is one.
LEMMA ProductType ==
  ASSUME NEW a \in Nat, NEW b \in Nat
  PROVE  a * b \in Nat
OBVIOUS

\* Two quotients compared by cross-multiplication are ordered.
LEMMA CrossLess ==
  ASSUME NEW a \in Nat, NEW b \in Nat, NEW c \in Nat,
         NEW x \in Nat \ {0}, NEW y \in Nat \ {0}, NEW z \in Nat \ {0},
         a * y >= b * x, b * z >= c * y
  PROVE  /\ a * z >= c * x
         /\ a * y > b * x \/ b * z > c * y => a * z > c * x
<1>1. (a * y) * z >= (b * x) * z /\ (a * y > b * x => (a * y) * z > (b * x) * z)
  OBVIOUS
<1>2. (b * z) * x >= (c * y) * x /\ (b * z > c * y => (b * z) * x > (c * y) * x)
  OBVIOUS
<1>3. (a * y) * z = (a * z) * y /\ (b * x) * z = (b * z) * x /\ (c * y) * x = (c * x) * y
  OBVIOUS
<1>4. (a * z) * y >= (c * x) * y /\ (a * y > b * x \/ b * z > c * y => (a * z) * y > (c * x) * y)
  BY <1>1, <1>2, <1>3
<1> QED BY <1>4

\* Of two divisors of n the smaller one has the greater quotient.
LEMMA Quotients ==
  ASSUME NEW n \in Nat \ {0}, NEW x \in Nat \ {0}, NEW y \in Nat \ {0}, n % x = 0, n % y = 0, x < y
  PROVE  n \div x \in Nat /\ n \div y \in Nat /\ n \div y > 0 /\ n \div x > n \div y
<1>1. n \div x \in Nat /\ n \div y \in Nat
  OBVIOUS
<1>2. n = x * (n \div x) /\ n = y * (n \div y)
  OBVIOUS
<1> DEFINE p == n \div x
           q == n \div y
<1> HIDE DEF p, q
<1>3. x * p = y * q /\ y * q > 0 /\ p \in Nat /\ q \in Nat
  BY <1>1, <1>2 DEF p, q
<1>4. q > 0
  BY <1>3
<1>5. x * q < y * q
  BY <1>3, <1>4
<1>6. p > q
  <2> SUFFICES ASSUME p <= q PROVE FALSE
    BY <1>3
  <2>1. x * p <= x * q
    BY <1>3
  <2> QED BY <2>1, <1>5, <1>3
<1> QED BY <1>1, <1>4, <1>6 DEF p, q

-----------------------------------------------------------------------------
(* Listings without repetition. *)

\* No member is listed twice.
Distinct(list) == \A k, l \in DOMAIN list : list[k] = list[l] => k = l

\* list has members of S, each once.
ListsOnce(list, S) == list \in Seq(S) /\ Distinct(list)

\* Such a list is as long as it has members.
LEMMA ListSize ==
  ASSUME NEW S, NEW list, ListsOnce(list, S)
  PROVE  /\ ToSet(list) \subseteq S /\ IsFiniteSet(ToSet(list))
         /\ Len(list) = Cardinality(ToSet(list)) /\ Len(list) \in Nat
         /\ DOMAIN list = 1 .. Len(list)
         /\ ListsOnce(list, ToSet(list))
         /\ \A T : S \subseteq T => ListsOnce(list, T)
<1>1. list \in Seq(S) /\ \A k, l \in DOMAIN list : list[k] = list[l] => k = l
  BY DEF ListsOnce, Distinct
<1>2. ToSet(list) = {list[k] : k \in DOMAIN list}
  BY DEF ToSet
<1>3. IsFiniteSet(ToSet(list)) /\ Cardinality(ToSet(list)) = Len(list)
  BY <1>1, <1>2, DistinctLength
<1>4. list \in Seq(ToSet(list)) /\ \A T : S \subseteq T => list \in Seq(T)
  BY <1>1, <1>2
<1> QED BY <1>1, <1>2, <1>3, <1>4 DEF ListsOnce, Distinct

\* Picked keeps the members of T.
LEMMA PickedList ==
  ASSUME NEW S, NEW list, ListsOnce(list, S), NEW T
  PROVE  /\ ListsOnce(Picked(list, T), S) /\ ToSet(Picked(list, T)) = ToSet(list) \cap T
         /\ Len(Picked(list, T)) <= Len(list)
<1> DEFINE out == Picked(list, T)
<1>1. list \in Seq(S) /\ Distinct(list)
  BY DEF ListsOnce
<1>2. out \in Seq(S) /\ \E at : Picks(at, out, list, T)
  BY <1>1, PickedMembers
<1>3. PICK at : Picks(at, out, list, T)
  BY <1>2
<1> HIDE DEF out
<1>4. /\ Len(out) <= Len(list) /\ DOMAIN out = 1 .. Len(out) /\ Len(out) \in Nat
      /\ at \in [1 .. Len(out) -> DOMAIN list]
      /\ \A k \in DOMAIN out : out[k] = list[at[k]] /\ out[k] \in T
      /\ \A k, l \in DOMAIN out : k < l => at[k] < at[l]
      /\ \A m \in DOMAIN list : list[m] \in T => \E k \in DOMAIN out : at[k] = m
  BY <1>3 DEF Picks
<1>5. \A k \in DOMAIN out : at[k] \in DOMAIN list /\ at[k] \in Int
  BY <1>1, <1>4
<1>6. ASSUME NEW k \in DOMAIN out, NEW l \in DOMAIN out, out[k] = out[l] PROVE k = l
  <2>1. at[k] = at[l]
    BY <1>1, <1>4, <1>5, <1>6 DEF Distinct
  <2>2. k \in Int /\ l \in Int
    BY <1>4
  <2>3. ~(k < l) /\ ~(l < k)
    BY <1>4, <1>5, <2>1
  <2> QED BY <2>2, <2>3
<1>7. ASSUME NEW h PROVE h \in ToSet(out) <=> h \in ToSet(list) /\ h \in T
  <2>1. ASSUME h \in ToSet(out) PROVE h \in ToSet(list) /\ h \in T
    BY <2>1, <1>4, <1>5 DEF ToSet
  <2>2. ASSUME h \in ToSet(list), h \in T PROVE h \in ToSet(out)
    <3>1. PICK m \in DOMAIN list : h = list[m]
      BY <2>2 DEF ToSet
    <3>2. PICK k \in DOMAIN out : at[k] = m
      <4>1. list[m] \in T
        BY <3>1, <2>2
      <4> QED BY <4>1, <1>3 DEF Picks
    <3> QED BY <3>1, <3>2, <1>4 DEF ToSet
  <2> QED BY <2>1, <2>2
<1>8. ListsOnce(out, S)
  BY <1>2, <1>6 DEF ListsOnce, Distinct
<1> QED BY <1>4, <1>7, <1>8 DEF out

\* Cut keeps no more than k members, and all if there are no more.
LEMMA CutMembers ==
  ASSUME NEW S, NEW list, ListsOnce(list, S), NEW k \in Nat
  PROVE  /\ ListsOnce(Cut(list, k), S) /\ ToSet(Cut(list, k)) \subseteq ToSet(list)
         /\ Len(Cut(list, k)) <= k
         /\ Len(list) <= k => ToSet(Cut(list, k)) = ToSet(list)
         /\ \A n \in DOMAIN Cut(list, k) : n \in DOMAIN list /\ Cut(list, k)[n] = list[n]
<1> DEFINE out == Cut(list, k)
<1>1. list \in Seq(S) /\ Distinct(list) /\ Len(list) \in Nat /\ DOMAIN list = 1 .. Len(list)
  BY DEF ListsOnce
<1>2. /\ out \in Seq(S)
      /\ Len(out) = IF k <= Len(list) THEN k ELSE Len(list)
      /\ \A n \in 1 .. Len(out) : out[n] = list[n]
  BY <1>1, CutList
<1> HIDE DEF out
<1>3. DOMAIN out = 1 .. Len(out) /\ Len(out) \in Nat /\ Len(out) <= Len(list) /\ Len(out) <= k
  BY <1>1, <1>2
<1>4. \A n \in DOMAIN out : n \in DOMAIN list /\ out[n] = list[n]
  BY <1>1, <1>2, <1>3
<1>5. ListsOnce(out, S)
  BY <1>1, <1>2, <1>4 DEF ListsOnce, Distinct
<1>6. ToSet(out) \subseteq ToSet(list)
  BY <1>4 DEF ToSet
<1>7. ASSUME Len(list) <= k PROVE ToSet(out) = ToSet(list)
  <2>1. DOMAIN out = DOMAIN list
    <3>1. Len(out) = Len(list)
      <4> DEFINE m == Len(out)
                 n == Len(list)
      <4>1. n \in Nat /\ m = IF k <= n THEN k ELSE n
        BY <1>1, <1>2
      <4>2. n <= k
        BY <1>7
      <4> HIDE DEF m, n
      <4>3. m = n
        BY <4>1, <4>2
      <4> QED BY <4>3 DEF m, n
    <3> QED BY <3>1, <1>1, <1>3
  <2>2. \A n \in DOMAIN out : out[n] = list[n]
    BY <1>4
  <2> QED BY <2>1, <2>2 DEF ToSet
<1> QED BY <1>3, <1>4, <1>5, <1>6, <1>7 DEF out

\* Ranked lists all of S, in the order of R.
LEMMA RankedList ==
  ASSUME NEW S, IsFiniteSet(S), NEW R, Orders(R, S)
  PROVE  /\ ListsOnce(Sorted(S, R), S) /\ ToSet(Sorted(S, R)) = S
         /\ Len(Sorted(S, R)) = Cardinality(S)
         /\ \A k, l \in DOMAIN Sorted(S, R) : k < l => <<Sorted(S, R)[k], Sorted(S, R)[l]>> \in R
<1> DEFINE list == Sorted(S, R)
<1>1. Arranges(list, S, R)
  BY SortedArranges
<1> HIDE DEF list
<1>2. /\ list \in Seq(S) /\ Len(list) = Cardinality(S)
      /\ DOMAIN list = 1 .. Cardinality(S)
      /\ \A k, l \in DOMAIN list : list[k] = list[l] => k = l
      /\ S = {list[k] : k \in DOMAIN list}
  BY <1>1, ArrangedList
<1>3. \A k, l \in DOMAIN list : k < l => <<list[k], list[l]>> \in R
  BY <1>1, <1>2 DEF Arranges
<1>4. ToSet(list) = S
  BY <1>2 DEF ToSet
<1> QED BY <1>2, <1>3, <1>4 DEF ListsOnce, Distinct, list

-----------------------------------------------------------------------------
(* The order of scores. *)

\* The texts have a number of terms between them.
LEMMA TotalType ==
  ASSUME NEW f \in TextIndexes
  PROVE  TotalLength(f) \in Nat
<1> DEFINE pick(s) == CHOOSE x \in s : TRUE
           Solves(g) == g = [s \in SUBSET Parts |-> IF s = {} THEN 0 ELSE f.dl[pick(s)] + g[s \ {pick(s)}]]
           h == CHOOSE g : Solves(g)
           dl == f.dl
<1>1. TotalLength(f) = h[Parts]
  BY DEF TotalLength, MapThenSumSet, MapThenFoldSet
<1>2. IsFiniteSet(Parts) /\ dl \in [Parts -> Nat]
  BY PartsFinite DEF TextIndexes
<1>3. PICK g \in [SUBSET Parts -> Nat] : Sums(g, dl, Parts)
  BY <1>2, SumExists
<1> HIDE DEF dl
<1>4. \A s \in SUBSET Parts : g[s] = IF s = {} THEN 0 ELSE dl[pick(s)] + g[s \ {pick(s)}]
  BY <1>3 DEF Sums
<1> HIDE DEF pick
<1>5. Solves(g)
  BY <1>3, <1>4 DEF dl
<1>6. Solves(h)
  BY <1>5
<1> HIDE DEF h
<1>7. \A s \in SUBSET Parts : h[s] = IF s = {} THEN 0 ELSE dl[pick(s)] + h[s \ {pick(s)}]
  BY <1>6 DEF dl
<1> HIDE DEF Solves
<1>8. Sums(h, dl, Parts)
  BY <1>7 DEF Sums, pick
<1>9. \A s \in SUBSET Parts : s # {} => pick(s) \in s
  BY DEF pick
<1> DEFINE K == {k \in 0 .. Cardinality(Parts) : \A s \in SUBSET Parts : Cardinality(s) = k => h[s] \in Nat}
<1>10. Cardinality(Parts) \in Nat
  BY <1>2, FS_CardinalityType
<1>11. 0 \in K
  <2>1. ASSUME NEW s \in SUBSET Parts, Cardinality(s) = 0 PROVE h[s] \in Nat
    <3>1. s = {}
      BY <1>2, <2>1, SmallerSubset
    <3>2. h[{}] = 0
      BY <1>8 DEF Sums
    <3> QED BY <3>1, <3>2
  <2> QED BY <2>1, <1>10
<1>12. ASSUME NEW k \in 1 .. Cardinality(Parts), k - 1 \in K PROVE k \in K
  <2>1. ASSUME NEW s \in SUBSET Parts, Cardinality(s) = k PROVE h[s] \in Nat
    <3>1. s # {} /\ s \ {pick(s)} \in SUBSET Parts /\ Cardinality(s \ {pick(s)}) = k - 1
      BY <1>2, <2>1, <1>10, SmallerSubset DEF pick
    <3>2. h[s \ {pick(s)}] \in Nat /\ dl[pick(s)] \in Nat
      BY <3>1, <1>12, <1>9, <1>2
    <3>3. h[s] = dl[pick(s)] + h[s \ {pick(s)}]
      BY <3>1, <1>8 DEF Sums, pick
    <3> QED BY <3>2, <3>3
  <2> QED BY <2>1
<1> HIDE DEF K
<1>13. 0 .. Cardinality(Parts) \subseteq K
  BY <1>10, <1>11, <1>12, UpTo
<1>14. h[Parts] \in Nat
  BY <1>10, <1>13 DEF K
<1> QED BY <1>1, <1>14

\* The order of the identifiers.
LEMMA PrecedesOrders ==
  ASSUME NEW p \in Nat \X Nat, NEW q \in Nat \X Nat, NEW r \in Nat \X Nat
  PROVE  /\ ~Precedes(p, p)
         /\ Precedes(p, q) /\ Precedes(q, r) => Precedes(p, r)
         /\ p = q \/ Precedes(p, q) \/ Precedes(q, p)
<1>1. p[1] \in Nat /\ p[2] \in Nat /\ q[1] \in Nat /\ q[2] \in Nat /\ r[1] \in Nat /\ r[2] \in Nat
  OBVIOUS
<1>2. p = <<p[1], p[2]>> /\ q = <<q[1], q[2]>>
  OBVIOUS
<1> QED BY <1>1, <1>2 DEF Precedes

\* Parts are named by numbers.
LEMMA PartNumbers ==
  Parts \subseteq Nodes \X (0 .. MaxChunks) /\ Nodes \X (0 .. MaxChunks) \subseteq Nat \X Nat
<1>1. Ids \subseteq Nodes /\ Nodes \subseteq Nat /\ 0 .. MaxChunks \subseteq Nat
  BY SearchAssumption
<1> QED BY <1>1 DEF Parts

\* The scores of a query order the parts that have its term.
LEMMA AboveOrders ==
  ASSUME NEW T \in [Parts -> Seq(Terms)], NEW w \in Terms, NEW S, S = {p \in Parts : IndexOf(T).tf[w][p] > 0},
         NEW R, R = {pq \in S \X S : Above(IndexOf(T), w, Denominators(IndexOf(T), w), pq[1], pq[2])}
  PROVE  Orders(R, S)
<1> DEFINE f == IndexOf(T)
           den == Denominators(f, w)
<1>1. f \in TextIndexes /\ f.N \in Nat /\ TotalLength(f) \in Nat
  BY IndexType, TotalType
<1>2. ASSUME NEW p \in S
      PROVE  f.tf[w][p] \in Nat /\ den[p] \in Nat \ {0} /\ p \in Parts /\ p \in Nat \X Nat
  <2>1. p \in Parts /\ f.tf[w][p] = Count(T[p], w) /\ f.dl[p] = Len(T[p])
        /\ f.N = Cardinality({q \in Parts : T[q] # <<>>})
    BY DEF IndexOf
  <2>2. T[p] # <<>>
    <3>1. <<>> \in Seq(Terms)
      OBVIOUS
    <3>2. Count(<<>>, w) = 0
      BY <3>1, CountType
    <3>3. Count(T[p], w) > 0
      BY DEF IndexOf
    <3> QED BY <3>2, <3>3
  <2>3. f.dl[p] \in Nat \ {0}
    BY <2>1, <2>2
  <2>4. f.N # 0
    <3>1. IsFiniteSet({q \in Parts : T[q] # <<>>})
      BY PartsFinite, FS_Subset
    <3>2. {q \in Parts : T[q] # <<>>} # {}
      BY <2>1, <2>2
    <3> QED BY <3>1, <3>2, <2>1, FS_EmptySet
  <2>5. f.tf[w][p] \in Nat
    BY <1>1, <2>1 DEF TextIndexes
  <2>6. den[p] = TotalLength(f) * (10 * f.tf[w][p] + 3) + 9 * f.dl[p] * f.N
    BY <2>1 DEF Denominators
  <2> DEFINE a == TotalLength(f)
             b == f.tf[w][p]
             c == f.dl[p]
             d == f.N
  <2>7. a \in Nat /\ b \in Nat /\ c \in Nat \ {0} /\ d \in Nat \ {0} /\ den[p] = a * (10 * b + 3) + 9 * c * d
    BY <1>1, <2>3, <2>4, <2>5, <2>6
  <2> HIDE DEF a, b, c, d, den
  <2>8. a * (10 * b + 3) \in Nat
    BY <2>7
  <2>9. c * d \in Nat /\ c * d > 0 /\ 9 * c * d = 9 * (c * d)
    BY <2>7
  <2>10. den[p] \in Nat \ {0}
    <3> DEFINE u == a * (10 * b + 3)
               v == c * d
    <3>1. den[p] = u + 9 * v /\ u \in Nat /\ v \in Nat /\ v > 0
      BY <2>7, <2>8, <2>9
    <3> HIDE DEF u, v
    <3> QED BY <3>1
  <2> QED BY <2>1, <2>5, <2>10, PartNumbers
<1>3. ASSUME NEW p \in S, NEW q \in S
      PROVE  <<p, q>> \in R <=> \/ f.tf[w][p] * den[q] > f.tf[w][q] * den[p]
                                \/ f.tf[w][p] * den[q] = f.tf[w][q] * den[p] /\ Precedes(p, q)
  <2>1. <<p, q>> \in R <=> Above(f, w, den, p, q)
    OBVIOUS
  <2> HIDE DEF f, den
  <2> QED BY <2>1 DEF Above
<1> DEFINE tf == f.tf[w]
<1>4. \A p \in S : tf[p] \in Nat /\ den[p] \in Nat \ {0} /\ p \in Nat \X Nat
  BY <1>2
<1>5. \A p, q \in S : <<p, q>> \in R <=> \/ tf[p] * den[q] > tf[q] * den[p]
                                         \/ tf[p] * den[q] = tf[q] * den[p] /\ Precedes(p, q)
  BY <1>3
<1> HIDE DEF tf, den, f
<1>6. ASSUME NEW p \in S PROVE <<p, p>> \notin R
  BY <1>4, <1>5, PrecedesOrders
<1>7. ASSUME NEW p \in S, NEW q \in S, NEW r \in S, <<p, q>> \in R, <<q, r>> \in R PROVE <<p, r>> \in R
  <2> DEFINE a == tf[p]
             b == tf[q]
             c == tf[r]
             x == den[p]
             y == den[q]
             z == den[r]
  <2>1. a \in Nat /\ b \in Nat /\ c \in Nat /\ x \in Nat \ {0} /\ y \in Nat \ {0} /\ z \in Nat \ {0}
    BY <1>4
  <2>2. /\ a * y > b * x \/ (a * y = b * x /\ Precedes(p, q))
        /\ b * z > c * y \/ (b * z = c * y /\ Precedes(q, r))
    BY <1>5, <1>7
  <2>3. Precedes(p, q) /\ Precedes(q, r) => Precedes(p, r)
    BY <1>4, PrecedesOrders
  <2> HIDE DEF a, b, c, x, y, z
  <2>4. a * y >= b * x /\ b * z >= c * y
    <3>1. a * y \in Nat /\ b * x \in Nat /\ b * z \in Nat /\ c * y \in Nat
      BY <2>1
    <3> QED BY <3>1, <2>2
  <2>5. a * z >= c * x /\ (a * y > b * x \/ b * z > c * y => a * z > c * x)
    BY <2>1, <2>4, CrossLess
  <2>6. a * z > c * x \/ (a * z = c * x /\ Precedes(p, r))
    <3>1. a * z \in Nat /\ c * x \in Nat
      BY <2>1
    <3>2. a * z > c * x \/ a * z = c * x
      BY <3>1, <2>5
    <3>3. a * y > b * x \/ b * z > c * y \/ Precedes(p, r)
      BY <2>2, <2>3
    <3> QED BY <3>2, <3>3, <2>5
  <2> QED BY <2>6, <1>5 DEF a, c, x, z
<1>8. ASSUME NEW p \in S, NEW q \in S PROVE p = q \/ <<p, q>> \in R \/ <<q, p>> \in R
  <2>1. tf[p] * den[q] \in Nat /\ tf[q] * den[p] \in Nat
    <3>1. tf[p] \in Nat /\ den[q] \in Nat /\ tf[q] \in Nat /\ den[p] \in Nat
      BY <1>4
    <3> QED BY <3>1, ProductType, Zenon
  <2>2. p = q \/ Precedes(p, q) \/ Precedes(q, p)
    BY <1>4, PrecedesOrders
  <2>3. tf[p] * den[q] > tf[q] * den[p] \/ tf[p] * den[q] = tf[q] * den[p] \/ tf[q] * den[p] > tf[p] * den[q]
    BY <2>1
  <2> QED BY <2>2, <2>3, <1>5
<1> QED BY <1>6, <1>7, <1>8 DEF Orders

-----------------------------------------------------------------------------
(* What the signals find. *)

\* The nodes, and the parts of those that are entries.
Places == Nodes \X (0 .. MaxChunks)

\* The parts of the stored entries.
StoredParts == UNION {PartsOf(i, docs[i].content) : i \in Live}

\* list has at most k members of S, each once, and all if there are no more.
Finds(list, S, k) ==
  /\ ListsOnce(list, Places) /\ Len(list) <= k /\ ToSet(list) \subseteq S
  /\ Cardinality(S) <= k => ToSet(list) = S

\* Every set of places is finite.
LEMMA PlacesFinite ==
  /\ IsFiniteSet(Places) /\ Parts \subseteq Places /\ Places \subseteq Nat \X Nat
  /\ \A S \in SUBSET Places : IsFiniteSet(S) /\ Cardinality(S) \in Nat
<1>1. IsFiniteSet(0 .. MaxChunks) /\ IsFiniteSet(Nodes)
  BY SearchAssumption, FS_Interval
<1>2. IsFiniteSet(Places)
  BY <1>1, FS_Product DEF Places
<1>3. ASSUME NEW S \in SUBSET Places PROVE IsFiniteSet(S) /\ Cardinality(S) \in Nat
  <2>1. IsFiniteSet(S)
    BY <1>2, FS_Subset
  <2> QED BY <2>1, FS_CardinalityType
<1> QED BY <1>2, <1>3, PartNumbers DEF Places

\* The first k of a list of all of S.
LEMMA CutFinds ==
  ASSUME NEW S \in SUBSET Places, NEW list, ListsOnce(list, S), ToSet(list) = S, NEW k \in Nat
  PROVE  Finds(Cut(list, k), S, k)
<1>1. ListsOnce(list, Places) /\ Len(list) = Cardinality(S) /\ Len(list) \in Nat
  BY ListSize
<1>2. /\ ListsOnce(Cut(list, k), Places) /\ ToSet(Cut(list, k)) \subseteq ToSet(list)
      /\ Len(Cut(list, k)) <= k
      /\ Len(list) <= k => ToSet(Cut(list, k)) = ToSet(list)
  BY <1>1, CutMembers
<1> QED BY <1>1, <1>2 DEF Finds

\* A part of the full-text index that has a term is one that has it.
LEMMA TermParts ==
  ASSUME IndexInv, NEW w \in Terms
  PROVE  {p \in Parts : ft.tf[w][p] > 0} = PartsWith(w)
<1>1. \A p \in Parts : ft.tf[w][p] = Count(TextAt(p), w)
  BY Counted DEF TextCounted
<1>2. Count(<<>>, w) = 0
  <2>1. <<>> \in Seq(Terms)
    OBVIOUS
  <2> QED BY <2>1, CountType
<1>3. \A p \in Parts : Count(TextAt(p), w) > 0 =>
        /\ p[1] \in Live /\ p[2] < Len(Texts[docs[p[1]].content])
        /\ TextAt(p) = Texts[docs[p[1]].content][p[2] + 1]
  BY <1>2 DEF TextAt
<1> QED BY <1>1, <1>3, LiveParts DEF PartsWith, TextAt

\* TextSearch finds the parts that have the term.
LEMMA TextFound ==
  ASSUME IndexInv, NEW w \in Terms, NEW k \in Nat
  PROVE  Finds(TextSearch(ft, w, k), PartsWith(w), k) /\ PartsWith(w) \subseteq StoredParts
<1> DEFINE T == TextsIn(Live)
           S == {p \in Parts : ft.tf[w][p] > 0}
           R == {pq \in S \X S : Above(ft, w, Denominators(ft, w), pq[1], pq[2])}
<1>1. T \in [Parts -> Seq(Terms)] /\ ft = IndexOf(T)
  BY TextTypes
<1>2. TextSearch(ft, w, k) = Cut(Sorted(S, R), k)
  BY DEF TextSearch, Ranked
<1> HIDE DEF T
<1>3. Orders(R, S)
  <2>1. S = {p \in Parts : IndexOf(T).tf[w][p] > 0}
    BY <1>1
  <2>2. R = {pq \in S \X S : Above(IndexOf(T), w, Denominators(IndexOf(T), w), pq[1], pq[2])}
    BY <1>1
  <2> HIDE DEF S, R
  <2> QED BY <1>1, <2>1, <2>2, AboveOrders
<1>4. S \in SUBSET Places /\ IsFiniteSet(S)
  <2>1. S \in SUBSET Places
    BY PlacesFinite
  <2> QED BY <2>1, PlacesFinite
<1>5. S = PartsWith(w)
  BY TermParts
<1> HIDE DEF S, R
<1>6. ListsOnce(Sorted(S, R), S) /\ ToSet(Sorted(S, R)) = S
  BY <1>3, <1>4, RankedList
<1>7. Finds(Cut(Sorted(S, R), k), S, k)
  BY <1>4, <1>6, CutFinds
<1> QED BY <1>2, <1>5, <1>7 DEF PartsWith, StoredParts

\* The vector index finds each part once.
LEMMA NearList ==
  ASSUME NEW a \in Terms \cup {e.content : e \in Entries}
  PROVE  ListsOnce(NearOrder[a], Parts)
BY SearchAssumption DEF ListsOnce, Distinct

\* VectorSearch finds stored parts, of those that the index finds at all.
LEMMA VectorFound ==
  ASSUME IndexInv, NEW a \in Terms \cup {e.content : e \in Entries}, NEW k \in Nat
  PROVE  Finds(VectorSearch(a, k), ToSet(NearOrder[a]) \cap StoredParts, k)
<1> DEFINE S == ToSet(NearOrder[a]) \cap StoredParts
           list == Picked(NearOrder[a], StoredParts)
<1>1. VectorSearch(a, k) = Cut(list, k)
  BY DEF VectorSearch, StoredParts
<1>2. ListsOnce(NearOrder[a], Parts)
  BY NearList
<1>3. ListsOnce(list, Parts) /\ ToSet(list) = S
  BY <1>2, PickedList
<1> HIDE DEF list, S
<1>4. ListsOnce(list, S) /\ S \in SUBSET Places
  BY <1>3, ListSize, PlacesFinite
<1>5. Finds(Cut(list, k), S, k)
  BY <1>3, <1>4, CutFinds
<1> QED BY <1>1, <1>5 DEF S

\* Links are suggested to other stored entries that no edge joins.
LEMMA Suggestions ==
  ASSUME IndexInv PROVE SuggestionsNew
<1> SUFFICES ASSUME NEW i \in Live, NEW k \in 1 .. 2, NEW h \in ToSet(SuggestLinks(i, Cardinality(Parts), k))
             PROVE  h[1] \in Live \ ({i} \cup Beside(i))
  BY DEF SuggestionsNew
<1> DEFINE c == docs[i].content
           n == Cardinality(Parts)
           near == ToSet(Cut(NearOrder[c], n))
           T == {g \in near : g[1] # i /\ ~Linked(g, i)}
           found == VectorSearch(c, 3 * k)
<1>1. SuggestLinks(i, n, k) = Cut(Picked(found, T), k)
  BY DEF SuggestLinks
<1>2. i \in Ids /\ c \in {e.content : e \in Entries} /\ i \in Nodes
  BY SearchAssumption DEF IndexInv, StoredTypes, DocsType, Live
<1> HIDE DEF c, n
<1>3. 3 * k \in Nat /\ k \in Nat
  OBVIOUS
<1>4. Finds(found, ToSet(NearOrder[c]) \cap StoredParts, 3 * k)
  BY <1>2, <1>3, VectorFound
<1> HIDE DEF found, T
<1>5. ListsOnce(found, Places) /\ ToSet(found) \subseteq StoredParts
  BY <1>4 DEF Finds
<1>6. ListsOnce(Picked(found, T), Places) /\ ToSet(Picked(found, T)) = ToSet(found) \cap T
  BY <1>5, PickedList
<1>7. ToSet(Cut(Picked(found, T), k)) \subseteq ToSet(Picked(found, T))
  BY <1>3, <1>6, CutMembers
<1>8. h \in StoredParts /\ h \in T
  BY <1>1, <1>5, <1>6, <1>7 DEF n
<1>9. h[1] \in Live
  BY <1>8, LiveParts DEF StoredParts
<1>10. AllNeighborIDs(graph, i) = Beside(i)
  <2>1. Around(graph)[i] = [m \in Nodes |-> Beside(m)][i]
    BY BesideNodes
  <2> QED BY <2>1, <1>2 DEF Around
<1> QED BY <1>8, <1>9, <1>10 DEF T, Linked

\* A suggested link leads to another stored entry that no stored edge joins to the
\* one it is suggested for, in either direction.
THEOREM SuggestedNew == Spec => []SuggestionsNew
<1>1. IndexInv => SuggestionsNew
  BY Suggestions
<1> QED BY <1>1, IndexInvariant, PTL

-----------------------------------------------------------------------------
(* The neighbourhood as a signal. *)

\* The neighbourhood has each node within the limit but the start itself, once.
LEMMA HoodNodes ==
  ASSUME IndexInv, NEW n \in Nodes, NEW d \in Nat, NEW H, H = Neighborhood(graph, n, d)
  PROVE  /\ H \subseteq Hits /\ IsFiniteSet(H) /\ Cardinality(H) <= Cardinality(Nodes)
         /\ \A g, h \in H : g.id = h.id => g = h
         /\ {h.id : h \in H} = Ball(Beside, n, Limit(d)) \ {n}
         /\ {h.id : h \in H} \subseteq Nodes
<1> DEFINE next == [m \in Nodes |-> Beside(m)]
<1>1. Limit(d) \in Nat
  BY SearchAssumption, FS_CardinalityType DEF Limit
<1>2. edges \in EdgeTables /\ graph \in Adjacency /\ Around(graph) = next /\ next \in [Nodes -> SUBSET Nodes]
  BY BesideNodes
<1>3. PICK near : Balls(near, next, n)
  <2> HIDE DEF next
  <2> QED BY <1>2, BallsExist
<1>4. Ball(Beside, n, Limit(d)) = near[Limit(d)]
  BY <1>1, <1>2, <1>3, BesideBalls
<1> HIDE DEF next
<1>5. H = {h \in Within(near, d) : h.depth # 0}
  BY <1>2, <1>3, NeighborhoodFound
<1>6. \A h \in H : h \in Hits /\ Exact(near, h) /\ h.depth <= Limit(d) /\ h.depth # 0
  BY <1>5 DEF Within
<1>7. ASSUME NEW g \in H, NEW h \in H, g.id = h.id PROVE g = h
  BY <1>3, <1>6, <1>7, ExactOnce
<1>8. IsFiniteSet(H) /\ Cardinality(H) <= Cardinality(Nodes)
  <2> DEFINE f == [h \in H |-> h.id]
  <2>1. f \in [H -> Nodes]
    BY <1>6 DEF Hits
  <2>2. f \in Injection(H, Nodes)
    BY <2>1, <1>7 DEF Injection, IsInjective
  <2> HIDE DEF f
  <2> QED BY <2>2, FS_Injection, SearchAssumption
<1>9. ASSUME NEW m \in near[Limit(d)], m # n PROVE \E h \in H : h.id = m
  <2>1. PICK h \in Hits : h.id = m /\ Exact(near, h) /\ h.depth <= Limit(d)
    BY <1>1, <1>3, HasDistance
  <2>2. h.depth # 0
    BY <2>1, <1>9, <1>3 DEF Exact, Balls
  <2> QED BY <2>1, <2>2, <1>5 DEF Within
<1>10. ASSUME NEW h \in H PROVE h.id \in near[Limit(d)] /\ h.id # n /\ h.id \in Nodes
  <2>1. h \in Hits /\ h.id \in near[h.depth] /\ h.depth \in Nat /\ h.depth <= Limit(d)
    BY <1>6 DEF Exact, Hits
  <2>2. h.id \in near[Limit(d)]
    BY <2>1, <1>1, <1>3, BallsGrow
  <2>3. h.depth - 1 \in Nat /\ h.id \notin near[h.depth - 1]
    BY <2>1, <1>6 DEF Exact
  <2>4. near[0] \subseteq near[h.depth - 1]
    BY <2>3, <1>3, BallsGrow
  <2>5. n \in near[0]
    BY <1>3 DEF Balls
  <2> QED BY <2>1, <2>2, <2>3, <2>4, <2>5 DEF Hits
<1>11. {h.id : h \in H} = near[Limit(d)] \ {n}
  BY <1>9, <1>10
<1> QED BY <1>4, <1>6, <1>7, <1>8, <1>10, <1>11

\* The places of a list of hits.
Located(hits) == [k \in DOMAIN hits |-> <<hits[k].id, 0>>]

\* They are as many places, those of the nodes met.
LEMMA HitsLocated ==
  ASSUME NEW H \in SUBSET Hits, \A g, h \in H : g.id = h.id => g = h, NEW hits, ListsOnce(hits, H), ToSet(hits) = H
  PROVE  /\ ListsOnce(Located(hits), Places) /\ Len(Located(hits)) = Len(hits)
         /\ ToSet(Located(hits)) = {<<m, 0>> : m \in {h.id : h \in H}}
<1> DEFINE out == Located(hits)
<1>1. hits \in Seq(H) /\ Distinct(hits)
  BY DEF ListsOnce
<1>2. PICK n \in Nat : n = Len(hits) /\ DOMAIN hits = 1 .. n
  BY <1>1
<1>3. \A k \in 1 .. n : hits[k] \in H /\ hits[k].id \in Nodes
  BY <1>1, <1>2 DEF Hits
<1>4. 0 \in 0 .. MaxChunks
  BY SearchAssumption
<1>5. out = [k \in 1 .. n |-> <<hits[k].id, 0>>]
  BY <1>2 DEF Located
<1>6. out \in Seq(Places) /\ Len(out) = n /\ DOMAIN out = 1 .. n
  BY <1>3, <1>4, <1>5 DEF Places
<1>7. ASSUME NEW k \in DOMAIN out, NEW l \in DOMAIN out, out[k] = out[l] PROVE k = l
  <2>1. hits[k].id = hits[l].id /\ hits[k] \in H /\ hits[l] \in H
    BY <1>3, <1>5, <1>6, <1>7
  <2>2. hits[k] = hits[l]
    BY <2>1
  <2> QED BY <2>2, <1>1, <1>2, <1>6 DEF Distinct
<1>8. H = {hits[k] : k \in 1 .. n}
  BY <1>2 DEF ToSet
<1>9. ToSet(out) = {<<hits[k].id, 0>> : k \in 1 .. n}
  <2>1. ToSet(out) = {out[k] : k \in 1 .. n}
    BY <1>6 DEF ToSet
  <2>2. \A k \in 1 .. n : out[k] = <<hits[k].id, 0>>
    BY <1>5
  <2> HIDE DEF out
  <2>3. ASSUME NEW x PROVE x \in {out[k] : k \in 1 .. n} <=> x \in {<<hits[k].id, 0>> : k \in 1 .. n}
    BY <2>2
  <2> QED BY <2>1, <2>3
<1>10. {<<hits[k].id, 0>> : k \in 1 .. n} = {<<m, 0>> : m \in {h.id : h \in H}}
  BY <1>8
<1> HIDE DEF out
<1>11. ListsOnce(out, Places)
  BY <1>6, <1>7 DEF ListsOnce, Distinct
<1> QED BY <1>2, <1>6, <1>9, <1>10, <1>11 DEF out

\* Nearest lists them.
LEMMA NearestFound ==
  ASSUME IndexInv, NEW n \in Nodes, NEW d \in Nat
  PROVE  /\ ListsOnce(Nearest(n, d), Places) /\ Len(Nearest(n, d)) <= Cardinality(Nodes)
         /\ ToSet(Nearest(n, d)) = {<<m, 0>> : m \in Ball(Beside, n, Limit(d)) \ {n}}
<1> DEFINE H == Neighborhood(graph, n, d)
           R == {gh \in H \X H : \/ gh[1].depth < gh[2].depth
                                 \/ (gh[1].depth = gh[2].depth /\ gh[1].id < gh[2].id)}
           hits == Sorted(H, R)
           ids == Ball(Beside, n, Limit(d)) \ {n}
<1>1. Nearest(n, d) = Located(hits)
  BY DEF Nearest, Ranked, Located
<1>2. /\ H \subseteq Hits /\ IsFiniteSet(H) /\ Cardinality(H) <= Cardinality(Nodes)
      /\ \A g, h \in H : g.id = h.id => g = h
      /\ {h.id : h \in H} = ids
  BY HoodNodes
<1> HIDE DEF H, ids
<1>3. \A h \in H : h.depth \in Nat /\ h.id \in Nat
  BY <1>2, SearchAssumption DEF Hits
<1>4. Orders(R, H)
  BY <1>2, <1>3 DEF Orders
<1> HIDE DEF R
<1>5. ListsOnce(hits, H) /\ ToSet(hits) = H /\ Len(hits) = Cardinality(H)
  BY <1>2, <1>4, RankedList
<1> HIDE DEF hits
<1>6. /\ ListsOnce(Located(hits), Places) /\ Len(Located(hits)) = Len(hits)
      /\ ToSet(Located(hits)) = {<<m, 0>> : m \in {h.id : h \in H}}
  BY <1>2, <1>5, HitsLocated
<1> QED BY <1>1, <1>2, <1>5, <1>6 DEF ids

-----------------------------------------------------------------------------
(* The filters. *)

\* The entries a request lets through, all if it has no filter.
Allowed(r) == IF r.filters = <<>> THEN {} ELSE Match(attrs, r.filters)
\* The hits the filters keep.
Passed(r, hits) ==
  IF r.filters = <<>> THEN hits ELSE Picked(hits, {h \in ToSet(hits) : h[1] \in Allowed(r)})
\* A hit passes the filters.
Passes(r, h) == r.filters = <<>> \/ (h[1] \in Live /\ Satisfies(h[1], r.filters))

\* The parts of a request.
LEMMA RequestTypes ==
  ASSUME NEW r \in Requests
  PROVE  /\ r.topK \in Nat \ {0} /\ Slots(r) = 2 * r.topK /\ Slots(r) \in Nat
         /\ (r.query # None => r.query \in Terms) /\ (r.embedded => r.query # None)
         /\ (r.focus # None => r.focus \in Nodes) /\ r.depth \in Nat
         /\ DOMAIN r.filters \subseteq Names /\ \A n \in DOMAIN r.filters : r.filters[n] \in Values
         /\ r.filters # <<>> => DOMAIN r.filters # {}
<1>1. /\ r.topK \in Nat \ {0} /\ r.query \in Terms \cup {None} /\ (r.embedded => r.query # None)
      /\ r.focus \in Nodes \cup {None} /\ r.depth \in Nat
      /\ r.filters \in UNION {[N -> Values] : N \in SUBSET Names}
  BY SearchAssumption
<1>2. PICK N \in SUBSET Names : r.filters \in [N -> Values]
  BY <1>1
<1>3. DOMAIN r.filters = N /\ \A n \in N : r.filters[n] \in Values
  BY <1>2
<1>4. N = {} => r.filters = <<>>
  <2> SUFFICES ASSUME N = {} PROVE r.filters = <<>>
    OBVIOUS
  <2>1. r.filters \in [{} -> Values]
    BY <1>2
  <2> QED BY <2>1
<1>5. 2 * r.topK \in Nat
  BY <1>1
<1> QED BY <1>1, <1>3, <1>4, <1>5 DEF Slots

\* The index finds the entries that satisfy the filters.
LEMMA Matched ==
  ASSUME IndexInv, NEW r \in Requests, r.filters # <<>>
  PROVE  Allowed(r) = {i \in Live : Satisfies(i, r.filters)}
<1> DEFINE F == r.filters
<1>1. DOMAIN F \subseteq Names /\ DOMAIN F # {} /\ \A n \in DOMAIN F : F[n] \in Values
  BY RequestTypes
<1>2. Allowed(r) = Match(attrs, F)
  BY DEF Allowed
<1> HIDE DEF F
<1>3. attrs = AttributesIn(Live)
  BY DEF IndexInv, IndexesFresh
<1>4. \A n \in Names : Canonical[n] \in Names \cup {Blank}
  BY MetadataAssumption
<1>5. \A v \in Values : Trimmed[v] \in Values
  BY MetadataAssumption
<1>6. ASSUME NEW n \in DOMAIN F, NEW i
      PROVE  i \in Found(attrs, F, n) <=>
               i \in Live /\ Canonical[n] # Blank /\ Has(docs[i].attributes, Canonical[n], Trimmed[F[n]])
  <2>1. n \in Names /\ Canonical[n] \in Names \cup {Blank} /\ Trimmed[F[n]] \in Values
    BY <1>1, <1>4, <1>5
  <2>2. CASE Canonical[n] = Blank
    BY <2>2 DEF Found, Posting
  <2>3. CASE Canonical[n] # Blank
    <3>1. Found(attrs, F, n) = {j \in Live : Has(docs[j].attributes, Canonical[n], Trimmed[F[n]])}
      BY <1>3, <2>1, <2>3 DEF Found, Posting, AttributesIn
    <3> QED BY <3>1, <2>3
  <2> QED BY <2>2, <2>3
<1>7. ASSUME NEW i PROVE i \in Match(attrs, F) <=> i \in Live /\ Satisfies(i, F)
  <2>1. i \in Match(attrs, F) <=> \A n \in DOMAIN F : i \in Found(attrs, F, n)
    BY <1>1 DEF Match
  <2> QED BY <2>1, <1>1, <1>6 DEF Satisfies
<1> QED BY <1>2, <1>7 DEF F

\* The filters keep what passes.
LEMMA PassedList ==
  ASSUME IndexInv, NEW r \in Requests, NEW S, NEW hits, ListsOnce(hits, S)
  PROVE  /\ ListsOnce(Passed(r, hits), S) /\ Len(Passed(r, hits)) <= Len(hits)
         /\ ToSet(Passed(r, hits)) = {h \in ToSet(hits) : Passes(r, h)}
<1>1. CASE r.filters = <<>>
  <2>1. Passed(r, hits) = hits /\ \A h : Passes(r, h)
    BY <1>1 DEF Passed, Passes
  <2> QED BY <2>1, ListSize
<1>2. CASE r.filters # <<>>
  <2> DEFINE T == {h \in ToSet(hits) : h[1] \in Allowed(r)}
  <2>1. Passed(r, hits) = Picked(hits, T)
    BY <1>2 DEF Passed
  <2>2. T = {h \in ToSet(hits) : Passes(r, h)}
    BY <1>2, Matched DEF Passes
  <2> HIDE DEF T
  <2>3. /\ ListsOnce(Picked(hits, T), S) /\ ToSet(Picked(hits, T)) = ToSet(hits) \cap T
        /\ Len(Picked(hits, T)) <= Len(hits)
    BY PickedList
  <2>4. ToSet(hits) \cap T = T
    BY <2>2
  <2> QED BY <2>1, <2>2, <2>3, <2>4
<1> QED BY <1>1, <1>2

\* The hits of the signals, filtered.
LEMMA SignalLists ==
  ASSUME NEW r
  PROVE  Signals(r) =
           << IF r.query = None THEN <<>> ELSE Passed(r, TextSearch(ft, r.query, Slots(r))),
              IF ~r.embedded THEN <<>> ELSE Passed(r, VectorSearch(r.query, Slots(r))),
              IF r.focus = None THEN <<>> ELSE Passed(r, Nearest(r.focus, r.depth)) >>
BY DEF Signals, Passed, Allowed

\* list has at most k hits of S that pass the filters, all of them if S has no more.
Signal(r, list, S, k) ==
  /\ ListsOnce(list, Places) /\ Len(list) <= k /\ S \subseteq Places
  /\ \A h \in ToSet(list) : h \in S /\ Passes(r, h)
  /\ Cardinality(S) <= k => \A h \in S : Passes(r, h) => h \in ToSet(list)

\* A signal that is not asked for finds nothing.
LEMMA NoSignal ==
  ASSUME NEW r, NEW k \in Nat PROVE Signal(r, <<>>, {}, k)
<1>1. <<>> \in Seq(Places) /\ Len(<<>>) = 0 /\ DOMAIN <<>> = {}
  OBVIOUS
<1>2. ToSet(<<>>) = {}
  BY <1>1 DEF ToSet
<1> QED BY <1>1, <1>2 DEF Signal, ListsOnce, Distinct

\* What is found, filtered.
LEMMA SignalPassed ==
  ASSUME IndexInv, NEW r \in Requests, NEW hits, NEW S \in SUBSET Places, NEW k \in Nat, Finds(hits, S, k)
  PROVE  Signal(r, Passed(r, hits), S, k)
<1>1. ListsOnce(hits, Places) /\ Len(hits) <= k /\ ToSet(hits) \subseteq S
      /\ (Cardinality(S) <= k => ToSet(hits) = S)
  BY DEF Finds
<1>2. /\ ListsOnce(Passed(r, hits), Places) /\ Len(Passed(r, hits)) <= Len(hits)
      /\ ToSet(Passed(r, hits)) = {h \in ToSet(hits) : Passes(r, h)}
  BY <1>1, PassedList
<1>3. Len(hits) \in Nat /\ Len(Passed(r, hits)) \in Nat
  BY <1>1, <1>2, ListSize
<1>4. Len(Passed(r, hits)) <= k
  BY <1>1, <1>2, <1>3
<1> QED BY <1>1, <1>2, <1>4 DEF Signal

\* The three signals: the texts, the vectors and the neighbourhood, which is not cut.
LEMMA SignalsFound ==
  ASSUME IndexInv, NEW r \in Requests
  PROVE  /\ DOMAIN Signals(r) = 1 .. 3
         /\ Signal(r, Signals(r)[1], Findable(r)[1], 2 * r.topK)
         /\ Signal(r, Signals(r)[2], Findable(r)[2], 2 * r.topK)
         /\ Signal(r, Signals(r)[3], Findable(r)[3], Cardinality(Nodes))
         /\ Cardinality(Findable(r)[3]) <= Cardinality(Nodes)
         /\ \A h \in Findable(r)[1] \cup Findable(r)[2] : h[1] \in Live
<1> DEFINE k == Slots(r)
           N == Cardinality(Nodes)
           L == Signals(r)
           F == Findable(r)
<1>1. /\ k = 2 * r.topK /\ k \in Nat
      /\ (r.query # None => r.query \in Terms) /\ (r.embedded => r.query # None)
      /\ (r.focus # None => r.focus \in Nodes) /\ r.depth \in Nat
  BY RequestTypes
<1>2. N \in Nat
  BY SearchAssumption, FS_CardinalityType
<1>3. /\ DOMAIN L = 1 .. 3
      /\ L[1] = IF r.query = None THEN <<>> ELSE Passed(r, TextSearch(ft, r.query, k))
      /\ L[2] = IF ~r.embedded THEN <<>> ELSE Passed(r, VectorSearch(r.query, k))
      /\ L[3] = IF r.focus = None THEN <<>> ELSE Passed(r, Nearest(r.focus, r.depth))
  BY SignalLists
<1>4. /\ F[1] = IF r.query = None THEN {} ELSE PartsWith(r.query)
      /\ F[2] = IF ~r.embedded THEN {} ELSE ToSet(NearOrder[r.query]) \cap StoredParts
      /\ F[3] = IF r.focus = None THEN {}
                ELSE {<<n, 0>> : n \in Ball(Beside, r.focus, Limit(r.depth)) \ {r.focus}}
  BY DEF Findable, StoredParts
<1> HIDE DEF k, N, L, F
<1>5. StoredParts \subseteq Places /\ \A h \in StoredParts : h[1] \in Live
  BY LiveParts, PlacesFinite DEF StoredParts
<1>6. Signal(r, L[1], F[1], k) /\ \A h \in F[1] : h[1] \in Live
  <2>1. CASE r.query = None
    BY <2>1, <1>1, <1>3, <1>4, NoSignal
  <2>2. CASE r.query # None
    <3>1. Finds(TextSearch(ft, r.query, k), PartsWith(r.query), k) /\ PartsWith(r.query) \subseteq StoredParts
      BY <2>2, <1>1, TextFound
    <3>2. PartsWith(r.query) \in SUBSET Places
      BY <3>1, <1>5
    <3>3. Signal(r, Passed(r, TextSearch(ft, r.query, k)), PartsWith(r.query), k)
      BY <3>1, <3>2, <1>1, SignalPassed
    <3> QED BY <3>1, <3>3, <2>2, <1>3, <1>4, <1>5
  <2> QED BY <2>1, <2>2
<1>7. Signal(r, L[2], F[2], k) /\ \A h \in F[2] : h[1] \in Live
  <2>1. CASE ~r.embedded
    BY <2>1, <1>1, <1>3, <1>4, NoSignal
  <2>2. CASE r.embedded
    <3> DEFINE S == ToSet(NearOrder[r.query]) \cap StoredParts
    <3>1. Finds(VectorSearch(r.query, k), S, k)
      BY <2>2, <1>1, VectorFound
    <3>2. S \in SUBSET Places
      BY <1>5
    <3>3. L[2] = Passed(r, VectorSearch(r.query, k)) /\ F[2] = S /\ S \subseteq StoredParts
      BY <2>2, <1>3, <1>4
    <3> HIDE DEF S
    <3>4. Signal(r, Passed(r, VectorSearch(r.query, k)), S, k)
      BY <3>1, <3>2, <1>1, SignalPassed
    <3> QED BY <3>3, <3>4, <1>5
  <2> QED BY <2>1, <2>2
<1>8. Signal(r, L[3], F[3], N) /\ Cardinality(F[3]) <= N
  <2>1. CASE r.focus = None
    <3>1. Cardinality({}) = 0
      BY FS_EmptySet
    <3> QED BY <3>1, <2>1, <1>2, <1>3, <1>4, NoSignal
  <2>2. CASE r.focus # None
    <3> DEFINE S == {<<n, 0>> : n \in Ball(Beside, r.focus, Limit(r.depth)) \ {r.focus}}
               hits == Nearest(r.focus, r.depth)
    <3>1. L[3] = Passed(r, hits) /\ F[3] = S
      BY <2>2, <1>3, <1>4
    <3>2. ListsOnce(hits, Places) /\ Len(hits) <= N /\ ToSet(hits) = S
      BY <2>2, <1>1, NearestFound DEF N
    <3> HIDE DEF S, hits
    <3>3. S \in SUBSET Places /\ Len(hits) = Cardinality(S)
      BY <3>2, ListSize
    <3>4. Finds(hits, S, N)
      BY <3>2, <3>3 DEF Finds
    <3>5. Signal(r, Passed(r, hits), S, N)
      BY <3>3, <3>4, <1>2, SignalPassed
    <3> QED BY <3>1, <3>2, <3>3, <3>5
  <2> QED BY <2>1, <2>2
<1> QED BY <1>1, <1>3, <1>6, <1>7, <1>8 DEF k, N, L, F

-----------------------------------------------------------------------------
(* Rank fusion. *)

\* What one list contributes to the score of h.
Share(list, h) == LET r == RankIn(list, h) IN IF r = 0 THEN 0 ELSE Scale \div (60 + r)

\* The rank of a hit is its place, and 0 if it is not in the list.
LEMMA Ranks ==
  ASSUME NEW S, NEW list, ListsOnce(list, S), NEW h
  PROVE  /\ RankIn(list, h) \in 0 .. Len(list) /\ Len(list) \in Nat
         /\ RankIn(list, h) = 0 <=> h \notin ToSet(list)
<1> DEFINE I == {i \in 1 .. Len(list) : list[i] = h}
<1>1. Len(list) \in Nat /\ DOMAIN list = 1 .. Len(list)
  BY DEF ListsOnce
<1>2. RankIn(list, h) = IF I # {} THEN Min(I) ELSE 0
  BY DEF RankIn, SelectInSeq
<1>3. I # {} <=> h \in ToSet(list)
  BY <1>1 DEF ToSet
<1>4. I # {} => Min(I) \in I
  <2>1. I \in SUBSET Nat
    BY <1>1
  <2> HIDE DEF I
  <2> QED BY <2>1, Least
<1>5. CASE I # {}
  <2>1. RankIn(list, h) \in I
    BY <1>2, <1>4, <1>5
  <2> QED BY <2>1, <1>1, <1>3, <1>5
<1>6. CASE I = {}
  BY <1>1, <1>2, <1>3, <1>6
<1> QED BY <1>5, <1>6

\* A share is a natural number.
LEMMA ShareType ==
  ASSUME NEW S, NEW list, ListsOnce(list, S), NEW h
  PROVE  Share(list, h) \in Nat
<1>1. RankIn(list, h) \in Nat
  BY Ranks
<1>2. Scale \in Nat
  BY SearchAssumption
<1> HIDE DEF RankIn
<1>3. CASE RankIn(list, h) = 0
  BY <1>3 DEF Share
<1>4. CASE RankIn(list, h) # 0
  <2>1. 60 + RankIn(list, h) \in Nat \ {0}
    BY <1>1
  <2>2. \A n \in Nat, m \in Nat \ {0} : n \div m \in Nat
    OBVIOUS
  <2>3. Scale \div (60 + RankIn(list, h)) \in Nat
    BY <2>1, <2>2, <1>2
  <2> QED BY <2>3, <1>4 DEF Share
<1> QED BY <1>3, <1>4

\* The score of a hit is the sum of the three shares.
LEMMA ThreeShares ==
  ASSUME NEW lists, DOMAIN lists = 1 .. 3, \A j \in 1 .. 3 : ListsOnce(lists[j], Places), NEW h
  PROVE  /\ FusedScore(lists, h) = Share(lists[1], h) + Share(lists[2], h) + Share(lists[3], h)
         /\ FusedScore(lists, h) \in Nat
<1> DEFINE D == DOMAIN lists
           f == [j \in 1 .. 3 |-> Share(lists[j], h)]
           pick(s) == CHOOSE x \in s : TRUE
           Solves(g) == g = [s \in SUBSET D |-> IF s = {} THEN 0 ELSE Share(lists[pick(s)], h) + g[s \ {pick(s)}]]
           c == CHOOSE g : Solves(g)
<1>1. FusedScore(lists, h) = c[D]
  BY DEF FusedScore, MapThenSumSet, MapThenFoldSet, Share
<1>2. D = 1 .. 3
  OBVIOUS
<1> HIDE DEF D
<1>3. IsFiniteSet(1 .. 3) /\ f \in [1 .. 3 -> Nat]
  <2>1. IsFiniteSet(1 .. 3)
    <3>1. 1 \in Int /\ 3 \in Int
      OBVIOUS
    <3> QED BY <3>1, FS_Interval
  <2>2. ASSUME NEW j \in 1 .. 3 PROVE Share(lists[j], h) \in Nat
    BY ShareType
  <2> QED BY <2>1, <2>2
<1>4. PICK g \in [SUBSET (1 .. 3) -> Nat] : Sums(g, f, 1 .. 3)
  BY <1>3, SumExists
<1>5. \A s \in SUBSET (1 .. 3) : s # {} => pick(s) \in 1 .. 3
  OBVIOUS
<1>6. \A s \in SUBSET (1 .. 3) : g[s] = IF s = {} THEN 0 ELSE f[pick(s)] + g[s \ {pick(s)}]
  BY <1>4 DEF Sums
<1>7. \A j \in 1 .. 3 : f[j] = Share(lists[j], h)
  OBVIOUS
<1> HIDE DEF pick, f
<1>8. Solves(g)
  BY <1>2, <1>4, <1>5, <1>6, <1>7
<1>9. Solves(c)
  BY <1>8
<1> HIDE DEF c
<1>10. \A s \in SUBSET (1 .. 3) : c[s] = IF s = {} THEN 0 ELSE f[pick(s)] + c[s \ {pick(s)}]
  <2>1. \A s \in SUBSET (1 .. 3) : c[s] = IF s = {} THEN 0 ELSE Share(lists[pick(s)], h) + c[s \ {pick(s)}]
    BY <1>2, <1>9
  <2> HIDE DEF Solves
  <2> QED BY <2>1, <1>5, <1>7
<1> HIDE DEF Solves
<1>11. Sums(c, f, 1 .. 3)
  BY <1>10 DEF Sums, pick
<1> DEFINE part(s, j) == IF j \in s THEN f[j] ELSE 0
           sum == [s \in SUBSET (1 .. 3) |-> part(s, 1) + part(s, 2) + part(s, 3)]
<1>12. AddsUp(sum, f, 1 .. 3)
  <2>1. sum[{}] = 0
    OBVIOUS
  <2>2. ASSUME NEW s \in SUBSET (1 .. 3), NEW x \in s PROVE sum[s] = f[x] + sum[s \ {x}]
    <3>1. x = 1 \/ x = 2 \/ x = 3
      OBVIOUS
    <3>2. f[1] \in Nat /\ f[2] \in Nat /\ f[3] \in Nat
      BY <1>3
    <3>3. s \ {x} \in SUBSET (1 .. 3)
      OBVIOUS
    <3> QED BY <3>1, <3>2, <3>3
  <2> HIDE DEF sum
  <2> QED BY <2>1, <2>2 DEF AddsUp
<1>13. sum[1 .. 3] = f[1] + f[2] + f[3]
  OBVIOUS
<1> HIDE DEF sum
<1>14. c[1 .. 3] = sum[1 .. 3]
  BY <1>3, <1>11, <1>12, SumUnique
<1>15. FusedScore(lists, h) = f[1] + f[2] + f[3]
  BY <1>1, <1>2, <1>13, <1>14
<1>16. f[1] \in Nat /\ f[2] \in Nat /\ f[3] \in Nat
  BY <1>3
<1> QED BY <1>7, <1>15, <1>16

\* The hits of the lists.
HitsOf(lists) == UNION {ToSet(lists[j]) : j \in DOMAIN lists}
\* Their order: by score, and by name where the scores agree.
BetterThan(lists) ==
  {gh \in HitsOf(lists) \X HitsOf(lists) :
     Better([h \in HitsOf(lists) |-> FusedScore(lists, h)], gh[1], gh[2])}

\* The better hits of two are told by their scores, and by their names if these agree.
LEMMA BetterHits ==
  ASSUME NEW lists, DOMAIN lists = 1 .. 3, \A j \in 1 .. 3 : ListsOnce(lists[j], Places)
  PROVE  /\ HitsOf(lists) \in SUBSET Places
         /\ \A g, h \in HitsOf(lists) :
              <<g, h>> \in BetterThan(lists) <=>
                \/ FusedScore(lists, g) > FusedScore(lists, h)
                \/ FusedScore(lists, g) = FusedScore(lists, h) /\ Precedes(g, h)
         /\ Orders(BetterThan(lists), HitsOf(lists))
<1> DEFINE H == HitsOf(lists)
           R == BetterThan(lists)
           score == [h \in H |-> FusedScore(lists, h)]
<1>1. H \in SUBSET Places
  <2>1. \A j \in DOMAIN lists : ToSet(lists[j]) \subseteq Places
    BY ListSize
  <2> QED BY <2>1 DEF HitsOf
<1>2. R = {gh \in H \X H : Better(score, gh[1], gh[2])}
  BY DEF BetterThan
<1>3. \A h \in H : score[h] = FusedScore(lists, h) /\ score[h] \in Nat /\ h \in Nat \X Nat
  <2>1. \A h \in H : FusedScore(lists, h) \in Nat
    BY ThreeShares
  <2> QED BY <2>1, <1>1, PlacesFinite
<1> HIDE DEF H, R, score
<1>4. \A g, h \in H : <<g, h>> \in R <=> \/ score[g] > score[h]
                                         \/ score[g] = score[h] /\ Precedes(g, h)
  BY <1>2 DEF Better
<1>5. Orders(R, H)
  <2>1. ASSUME NEW p \in H PROVE <<p, p>> \notin R
    BY <1>3, <1>4, PrecedesOrders
  <2>2. ASSUME NEW p \in H, NEW q \in H, NEW r \in H, <<p, q>> \in R, <<q, r>> \in R PROVE <<p, r>> \in R
    <3>1. Precedes(p, q) /\ Precedes(q, r) => Precedes(p, r)
      BY <1>3, PrecedesOrders
    <3>2. score[p] \in Nat /\ score[q] \in Nat /\ score[r] \in Nat
      BY <1>3
    <3> QED BY <3>1, <3>2, <1>4, <2>2
  <2>3. ASSUME NEW p \in H, NEW q \in H PROVE p = q \/ <<p, q>> \in R \/ <<q, p>> \in R
    <3>1. p = q \/ Precedes(p, q) \/ Precedes(q, p)
      BY <1>3, PrecedesOrders
    <3>2. score[p] \in Nat /\ score[q] \in Nat
      BY <1>3
    <3> QED BY <3>1, <3>2, <1>4
  <2> QED BY <2>1, <2>2, <2>3 DEF Orders
<1>6. \A g, h \in H : <<g, h>> \in R <=> \/ FusedScore(lists, g) > FusedScore(lists, h)
                                         \/ FusedScore(lists, g) = FusedScore(lists, h) /\ Precedes(g, h)
  BY <1>3, <1>4
<1> QED BY <1>1, <1>5, <1>6 DEF H, R

\* The merged list has the best k hits, the better ones first.
LEMMA Merged ==
  ASSUME NEW lists, DOMAIN lists = 1 .. 3, \A j \in 1 .. 3 : ListsOnce(lists[j], Places), NEW k \in Nat
  PROVE  /\ Finds(RRF(lists, k), HitsOf(lists), k) /\ HitsOf(lists) \in SUBSET Places
         /\ \A m, n \in DOMAIN RRF(lists, k) : m < n => <<RRF(lists, k)[m], RRF(lists, k)[n]>> \in BetterThan(lists)
<1> DEFINE H == HitsOf(lists)
           R == BetterThan(lists)
           all == Sorted(H, R)
           out == RRF(lists, k)
<1>1. out = Cut(all, k)
  BY DEF RRF, Ranked, HitsOf, BetterThan
<1>2. H \in SUBSET Places /\ Orders(R, H)
  BY BetterHits
<1> HIDE DEF H, R, all
<1>3. IsFiniteSet(H)
  BY <1>2, PlacesFinite
<1>4. /\ ListsOnce(all, H) /\ ToSet(all) = H
      /\ \A m, n \in DOMAIN all : m < n => <<all[m], all[n]>> \in R
  BY <1>2, <1>3, RankedList DEF all
<1>5. Finds(Cut(all, k), H, k)
  BY <1>2, <1>4, CutFinds
<1>6. \A n \in DOMAIN Cut(all, k) : n \in DOMAIN all /\ Cut(all, k)[n] = all[n]
  BY <1>4, CutMembers
<1>7. \A m, n \in DOMAIN out : m < n => <<out[m], out[n]>> \in R
  BY <1>1, <1>4, <1>6
<1> QED BY <1>1, <1>2, <1>5, <1>7 DEF H, R

\* A hit that a list does not place lower than another gets no lower share of it,
\* and a higher one where it is placed higher.
LEMMA SharesAgree ==
  ASSUME NEW list, ListsOnce(list, Places), NEW n \in Nat, Len(list) <= n,
         \A k \in 1 .. n : Scale % (60 + k) = 0, NEW g, NEW h
  PROVE  /\ Share(list, g) \in Nat /\ Share(list, h) \in Nat
         /\ RankIn(list, g) # 0 /\ (RankIn(list, h) = 0 \/ RankIn(list, g) < RankIn(list, h))
              => Share(list, g) > Share(list, h)
         /\ ~(RankIn(list, h) # 0 /\ (RankIn(list, g) = 0 \/ RankIn(list, h) < RankIn(list, g)))
              => Share(list, g) >= Share(list, h)
<1> DEFINE a == RankIn(list, g)
           b == RankIn(list, h)
           x == Share(list, g)
           y == Share(list, h)
<1>1. a \in 0 .. n /\ b \in 0 .. n
  <2>1. a \in 0 .. Len(list) /\ b \in 0 .. Len(list) /\ Len(list) \in Nat
    BY Ranks
  <2> QED BY <2>1
<1>2. x \in Nat /\ y \in Nat
  BY ShareType
<1>3. Scale \in Nat \ {0}
  BY SearchAssumption
<1>4. x = (IF a = 0 THEN 0 ELSE Scale \div (60 + a)) /\ y = (IF b = 0 THEN 0 ELSE Scale \div (60 + b))
  BY DEF Share
<1> HIDE DEF a, b, x, y
<1>5. ASSUME NEW k \in 1 .. n PROVE Scale \div (60 + k) \in Nat /\ Scale \div (60 + k) > 0
  <2>1. 60 + k \in Nat \ {0} /\ Scale % (60 + k) = 0
    OBVIOUS
  <2> DEFINE q == Scale \div (60 + k)
             m == 60 + k
  <2>2. Scale = m * q /\ q \in Nat
    BY <2>1, <1>3
  <2>3. m \in Nat
    OBVIOUS
  <2> HIDE DEF q, m
  <2>4. q # 0
    <3> SUFFICES ASSUME q = 0 PROVE FALSE
      OBVIOUS
    <3>1. m * 0 = 0
      BY <2>3
    <3> QED BY <3>1, <2>2, <1>3
  <2> QED BY <2>2, <2>4 DEF q
<1>6. ASSUME NEW k \in 1 .. n, NEW l \in 1 .. n, k < l PROVE Scale \div (60 + k) > Scale \div (60 + l)
  <2>1. 60 + k \in Nat \ {0} /\ 60 + l \in Nat \ {0} /\ 60 + k < 60 + l
        /\ Scale % (60 + k) = 0 /\ Scale % (60 + l) = 0
    BY <1>6
  <2> QED BY <2>1, <1>3, Quotients
<1>7. ASSUME a # 0, b = 0 \/ a < b PROVE x > y
  <2>1. CASE b = 0
    <3>1. y = 0 /\ x = Scale \div (60 + a) /\ a \in 1 .. n
      BY <1>1, <1>4, <1>7, <2>1
    <3> QED BY <3>1, <1>5
  <2>2. CASE b # 0
    <3>1. a \in 1 .. n /\ b \in 1 .. n /\ a < b /\ x = Scale \div (60 + a) /\ y = Scale \div (60 + b)
      BY <1>1, <1>4, <1>7, <2>2
    <3>2. Scale \div (60 + a) > Scale \div (60 + b)
      BY <3>1, <1>6
    <3> QED BY <3>1, <3>2
  <2> QED BY <2>1, <2>2
<1>8. ASSUME ~(b # 0 /\ (a = 0 \/ b < a)) PROVE x >= y
  <2>1. CASE b = 0
    BY <1>2, <1>4, <2>1
  <2>2. CASE b # 0 /\ a = b
    BY <1>2, <1>4, <2>2
  <2>3. CASE b # 0 /\ a < b /\ a # 0
    BY <1>2, <1>7, <2>3
  <2> QED BY <2>1, <2>2, <2>3, <1>1, <1>8
<1> QED BY <1>2, <1>7, <1>8 DEF a, b, x, y

\* list places g above h.
PlacedAbove(list, g, h) ==
  RankIn(list, g) # 0 /\ (RankIn(list, h) = 0 \/ RankIn(list, g) < RankIn(list, h))

\* A hit behind one that it is placed above by some signal is placed below it by
\* another: every rank that occurs has an exact share of the score.
LEMMA FusedAgree ==
  ASSUME IndexInv PROVE FusionAgrees
<1> SUFFICES ASSUME NEW r \in Requests,
                    NEW m \in DOMAIN RRF(Signals(r), Slots(r)), NEW n \in DOMAIN RRF(Signals(r), Slots(r)), m < n,
                    \E j \in DOMAIN Signals(r) :
                      PlacedAbove(Signals(r)[j], RRF(Signals(r), Slots(r))[n], RRF(Signals(r), Slots(r))[m]),
                    \A j \in DOMAIN Signals(r) :
                      ~PlacedAbove(Signals(r)[j], RRF(Signals(r), Slots(r))[m], RRF(Signals(r), Slots(r))[n])
             PROVE  FALSE
  BY DEF FusionAgrees, PlacedAbove
<1> DEFINE L == Signals(r)
           merged == RRF(L, Slots(r))
           g == merged[n]
           h == merged[m]
           N == Cardinality(Nodes)
<1>1. /\ DOMAIN L = 1 .. 3
      /\ Signal(r, L[1], Findable(r)[1], 2 * r.topK)
      /\ Signal(r, L[2], Findable(r)[2], 2 * r.topK)
      /\ Signal(r, L[3], Findable(r)[3], N)
  BY SignalsFound
<1>2. (\E j \in DOMAIN L : PlacedAbove(L[j], g, h)) /\ \A j \in DOMAIN L : ~PlacedAbove(L[j], h, g)
  OBVIOUS
<1>3. m \in DOMAIN merged /\ n \in DOMAIN merged
  OBVIOUS
<1>4. N \in Nat /\ (\A k \in 1 .. N : Scale % (60 + k) = 0)
  BY SearchAssumption, FS_CardinalityType
<1>5. /\ Slots(r) \in Nat /\ 2 * r.topK \in Nat
      /\ \A k \in 1 .. 2 * r.topK : Scale % (60 + k) = 0
  BY SearchAssumption, RequestTypes
<1> HIDE DEF L
<1>6. \A j \in 1 .. 3 : ListsOnce(L[j], Places)
  BY <1>1 DEF Signal
<1>7. /\ Finds(merged, HitsOf(L), Slots(r))
      /\ \A k, l \in DOMAIN merged : k < l => <<merged[k], merged[l]>> \in BetterThan(L)
  BY <1>1, <1>5, <1>6, Merged
<1>8. <<h, g>> \in BetterThan(L)
  BY <1>3, <1>7
<1>9. g \in HitsOf(L) /\ h \in HitsOf(L)
  BY <1>8 DEF BetterThan
<1>10. FusedScore(L, h) >= FusedScore(L, g)
  <2>1. \/ FusedScore(L, h) > FusedScore(L, g)
        \/ FusedScore(L, h) = FusedScore(L, g) /\ Precedes(h, g)
    BY <1>1, <1>6, <1>8, <1>9, BetterHits
  <2>2. FusedScore(L, h) \in Nat /\ FusedScore(L, g) \in Nat
    BY <1>1, <1>6, ThreeShares
  <2> QED BY <2>1, <2>2
<1> HIDE DEF merged, g, h, N
<1>11. ASSUME NEW j \in 1 .. 3
       PROVE  /\ Share(L[j], g) \in Nat /\ Share(L[j], h) \in Nat
              /\ PlacedAbove(L[j], g, h) => Share(L[j], g) > Share(L[j], h)
              /\ ~PlacedAbove(L[j], h, g) => Share(L[j], g) >= Share(L[j], h)
  <2>1. \E k \in Nat : Len(L[j]) <= k /\ \A i \in 1 .. k : Scale % (60 + i) = 0
    <3>1. CASE j = 1
      BY <3>1, <1>1, <1>5 DEF Signal
    <3>2. CASE j = 2
      BY <3>2, <1>1, <1>5 DEF Signal
    <3>3. CASE j = 3
      BY <3>3, <1>1, <1>4 DEF Signal
    <3> QED BY <3>1, <3>2, <3>3
  <2>2. PICK k \in Nat : Len(L[j]) <= k /\ \A i \in 1 .. k : Scale % (60 + i) = 0
    BY <2>1
  <2>3. ListsOnce(L[j], Places)
    BY <1>6
  <2> QED BY <2>2, <2>3, SharesAgree DEF PlacedAbove
<1>12. /\ FusedScore(L, g) = Share(L[1], g) + Share(L[2], g) + Share(L[3], g)
       /\ FusedScore(L, h) = Share(L[1], h) + Share(L[2], h) + Share(L[3], h)
  BY <1>1, <1>6, ThreeShares
<1>13. \A j \in 1 .. 3 : Share(L[j], g) >= Share(L[j], h)
  BY <1>1, <1>2, <1>11
<1>14. \E j \in 1 .. 3 : Share(L[j], g) > Share(L[j], h)
  BY <1>1, <1>2, <1>11
<1> DEFINE a1 == Share(L[1], g)
           a2 == Share(L[2], g)
           a3 == Share(L[3], g)
           b1 == Share(L[1], h)
           b2 == Share(L[2], h)
           b3 == Share(L[3], h)
<1>15. a1 \in Nat /\ a2 \in Nat /\ a3 \in Nat /\ b1 \in Nat /\ b2 \in Nat /\ b3 \in Nat
  BY <1>11
<1>16. a1 >= b1 /\ a2 >= b2 /\ a3 >= b3
  BY <1>13
<1>17. a1 > b1 \/ a2 > b2 \/ a3 > b3
  BY <1>14
<1>18. a1 + a2 + a3 <= b1 + b2 + b3
  BY <1>10, <1>12, <1>15
<1> HIDE DEF a1, a2, a3, b1, b2, b3
<1> QED BY <1>15, <1>16, <1>17, <1>18

\* The merged list never places a hit behind another one that no signal placed
\* above it and some signal placed below it.
THEOREM FusionAgreed == Spec => []FusionAgrees
<1>1. IndexInv => FusionAgrees
  BY FusedAgree
<1> QED BY <1>1, IndexInvariant, PTL

-----------------------------------------------------------------------------
(* The answer. *)

\* One hit of the merged list: its entry is shown if there is room for it.
NextShown(r, shown, h) ==
  IF Len(shown) < r.topK /\ Shown(h, r, shown) THEN Append(shown, h[1]) ELSE shown

\* The merged list.
Fused(r) == RRF(Signals(r), Slots(r))

\* It is a list of places.
LEMMA FusedList ==
  ASSUME IndexInv, NEW r \in Requests
  PROVE  /\ DOMAIN Signals(r) = 1 .. 3
         /\ Finds(Fused(r), HitsOf(Signals(r)), 2 * r.topK) /\ HitsOf(Signals(r)) \in SUBSET Places
         /\ Fused(r) \in Seq(Places)
<1>1. DOMAIN Signals(r) = 1 .. 3 /\ \A j \in 1 .. 3 : ListsOnce(Signals(r)[j], Places)
  BY SignalsFound DEF Signal
<1>2. Slots(r) \in Nat /\ Slots(r) = 2 * r.topK
  BY RequestTypes
<1>3. Finds(Fused(r), HitsOf(Signals(r)), 2 * r.topK) /\ HitsOf(Signals(r)) \in SUBSET Places
  BY <1>1, <1>2, Merged DEF Fused
<1> QED BY <1>1, <1>3 DEF Finds, ListsOnce

\* Another hit keeps a list of stored entries.
LEMMA NextShownType ==
  ASSUME NEW r, NEW shown \in Seq(Live), NEW h
  PROVE  NextShown(r, shown, h) \in Seq(Live)
BY DEF NextShown, Shown

\* The answer takes in the hits of the merged list one by one.
LEMMA ShownSteps ==
  ASSUME IndexInv, NEW r \in Requests
  PROVE  \E it \in [0 .. Len(Fused(r)) -> Seq(Live)] :
           /\ it[0] = <<>>
           /\ \A k \in 1 .. Len(Fused(r)) : it[k] = NextShown(r, it[k - 1], Fused(r)[k])
           /\ Results(r) = it[Len(Fused(r))]
<1> DEFINE n == Len(Fused(r))
           D == DOMAIN Fused(r)
           sq == Fused(r)
           Solves(g) == g = [s \in SUBSET D |->
                               IF s = {} THEN <<>>
                               ELSE NextShown(r, g[s \ {Max(s)}], sq[Max(s)])]
           h == CHOOSE g : Solves(g)
           step == [k \in 1 .. n |-> [g \in Seq(Live) |-> NextShown(r, g, Fused(r)[k])]]
<1>1. Results(r) = h[D]
  BY DEF Results, NextShown, Fused, FoldLeft, MapThenFoldSet
<1>2. n \in Nat /\ D = 1 .. n /\ <<>> \in Seq(Live)
  BY FusedList
<1> HIDE DEF D, sq, n
<1>3. step \in [1 .. n -> [Seq(Live) -> Seq(Live)]]
  BY <1>2, NextShownType
<1>4. ASSUME NEW k \in 1 .. n, NEW g \in Seq(Live)
      PROVE  step[k][g] = NextShown(r, g, sq[k])
  BY <1>2 DEF sq
<1> HIDE DEF step
<1>5. PICK g \in [SUBSET (1 .. n) -> Seq(Live)] : Folds(g, n, <<>>, step)
  BY <1>2, <1>3, FoldExists
<1>6. Solves(g)
  <2>1. ASSUME NEW s \in SUBSET (1 .. n)
        PROVE  g[s] = IF s = {} THEN <<>> ELSE NextShown(r, g[s \ {Max(s)}], sq[Max(s)])
    <3>1. CASE s = {}
      BY <1>5, <3>1 DEF Folds
    <3>2. CASE s # {}
      <4>1. Max(s) \in 1 .. n
        BY <1>2, <3>2, Greatest
      <4>2. g[s] = step[Max(s)][g[s \ {Max(s)}]] /\ g[s \ {Max(s)}] \in Seq(Live)
        BY <1>5, <3>2 DEF Folds
      <4> QED BY <4>1, <4>2, <1>4, <3>2
    <3> QED BY <3>1, <3>2
  <2> QED BY <2>1, <1>2
<1>7. Solves(h)
  BY <1>6
<1> HIDE DEF h
<1>8. h[{}] = <<>>
  BY <1>7
<1>9. ASSUME NEW k \in 1 .. n, h[1 .. k - 1] \in Seq(Live)
      PROVE  h[1 .. k] = step[k][h[1 .. k - 1]]
  <2>1. 1 .. k \in SUBSET D /\ 1 .. k # {} /\ Max(1 .. k) = k /\ (1 .. k) \ {k} = 1 .. k - 1
    BY <1>2, LastOf
  <2>2. h[1 .. k] = NextShown(r, h[(1 .. k) \ {Max(1 .. k)}], sq[Max(1 .. k)])
    BY <1>7, <2>1
  <2> QED BY <2>1, <2>2, <1>4, <1>9
<1> HIDE DEF Solves
<1>10. PICK it \in [0 .. n -> Seq(Live)] : Steps(it, n, <<>>, step) /\ it[n] = h[1 .. n]
  <2>1. Follows(h, Seq(Live), n, step)
    BY <1>9 DEF Follows
  <2> DEFINE V == Seq(Live)
             e == <<>>
  <2>2. e \in V /\ step \in [1 .. n -> [V -> V]] /\ h[{}] = e /\ Follows(h, V, n, step) /\ n \in Nat
    BY <2>1, <1>2, <1>3, <1>8
  <2> HIDE DEF V, e
  <2>3. Stepped(V, n, e, step, h)
    BY <2>2, FoldSteps
  <2> QED BY <2>3 DEF Stepped, V, e
<1>11. ASSUME NEW k \in 1 .. n PROVE it[k] = NextShown(r, it[k - 1], Fused(r)[k])
  <2>1. it[k] = step[k][it[k - 1]] /\ it[k - 1] \in Seq(Live)
    BY <1>2, <1>10 DEF Steps
  <2> QED BY <2>1, <1>2, <1>4 DEF sq
<1>12. it[0] = <<>> /\ Results(r) = it[n]
  BY <1>1, <1>2, <1>10 DEF Steps
<1> QED BY <1>11, <1>12 DEF n

\* What is shown after k hits: entries of the collection, each once, no more than
\* asked for, that these hits lead to, and all of them as long as there is room.
Answered(r, shown, k) ==
  /\ ListsOnce(shown, Live) /\ Len(shown) <= r.topK
  /\ \A i \in ToSet(shown) : InCollection(i, r) /\ \E j \in 1 .. k : Fused(r)[j][1] = i
  /\ Len(shown) < r.topK =>
       \A j \in 1 .. k :
         Fused(r)[j][1] \in Live /\ InCollection(Fused(r)[j][1], r) => Fused(r)[j][1] \in ToSet(shown)

\* A list with one more member.
LEMMA Appended ==
  ASSUME NEW S, NEW list, ListsOnce(list, S), NEW x \in S, x \notin ToSet(list)
  PROVE  /\ ListsOnce(Append(list, x), S) /\ Len(Append(list, x)) = Len(list) + 1
         /\ \A i : i \in ToSet(Append(list, x)) <=> i \in ToSet(list) \/ i = x
<1> DEFINE out == Append(list, x)
<1>1. list \in Seq(S) /\ Distinct(list)
  BY DEF ListsOnce
<1>2. PICK n \in Nat : n = Len(list) /\ DOMAIN list = 1 .. n
  BY <1>1
<1>3. /\ out \in Seq(S) /\ Len(out) = n + 1 /\ DOMAIN out = 1 .. n + 1
      /\ out[n + 1] = x /\ \A k \in 1 .. n : out[k] = list[k]
  BY <1>1, <1>2
<1> HIDE DEF out
<1>4. \A k \in 1 .. n : list[k] # x
  BY <1>2 DEF ToSet
<1>5. ASSUME NEW k \in DOMAIN out, NEW l \in DOMAIN out, out[k] = out[l] PROVE k = l
  <2>1. (k \in 1 .. n \/ k = n + 1) /\ (l \in 1 .. n \/ l = n + 1)
    BY <1>3
  <2> QED BY <2>1, <1>1, <1>2, <1>3, <1>4, <1>5 DEF Distinct
<1>6. ASSUME NEW i PROVE i \in ToSet(out) <=> i \in ToSet(list) \/ i = x
  <2>1. ASSUME i \in ToSet(out) PROVE i \in ToSet(list) \/ i = x
    <3>1. PICK k \in 1 .. n + 1 : i = out[k]
      BY <2>1, <1>3 DEF ToSet
    <3>2. k \in 1 .. n \/ k = n + 1
      OBVIOUS
    <3> QED BY <3>1, <3>2, <1>2, <1>3 DEF ToSet
  <2>2. ASSUME i \in ToSet(list) PROVE i \in ToSet(out)
    <3>1. PICK k \in 1 .. n : i = list[k]
      BY <2>2, <1>2 DEF ToSet
    <3>2. k \in DOMAIN out
      BY <1>3
    <3> QED BY <3>1, <3>2, <1>3 DEF ToSet
  <2>3. n + 1 \in DOMAIN out
    BY <1>3
  <2> QED BY <2>1, <2>2, <2>3, <1>3 DEF ToSet
<1>7. ListsOnce(out, S)
  BY <1>3, <1>5 DEF ListsOnce, Distinct
<1> QED BY <1>2, <1>3, <1>6, <1>7 DEF out

\* Each hit keeps this.
LEMMA AnsweredNext ==
  ASSUME NEW r \in Requests, NEW shown, NEW k \in Nat, Answered(r, shown, k)
  PROVE  Answered(r, NextShown(r, shown, Fused(r)[k + 1]), k + 1)
<1> DEFINE h == Fused(r)[k + 1]
           m == Fused(r)
<1>1. /\ ListsOnce(shown, Live) /\ Len(shown) <= r.topK
      /\ \A i \in ToSet(shown) : InCollection(i, r) /\ \E j \in 1 .. k : m[j][1] = i
      /\ Len(shown) < r.topK =>
           \A j \in 1 .. k : m[j][1] \in Live /\ InCollection(m[j][1], r) => m[j][1] \in ToSet(shown)
  BY DEF Answered
<1>2. Len(shown) \in Nat /\ r.topK \in Nat
  BY <1>1, ListSize, RequestTypes
<1>3. Shown(h, r, shown) <=> h[1] \in Live /\ InCollection(h[1], r) /\ h[1] \notin ToSet(shown)
  BY DEF Shown, ToSet
<1>4. \A j \in 1 .. k + 1 : j \in 1 .. k \/ j = k + 1
  OBVIOUS
<1>5. k + 1 \in 1 .. k + 1 /\ \A j \in 1 .. k : j \in 1 .. k + 1
  OBVIOUS
<1>6. CASE Len(shown) < r.topK /\ Shown(h, r, shown)
  <2> DEFINE out == Append(shown, h[1])
  <2>1. NextShown(r, shown, h) = out
    BY <1>6 DEF NextShown
  <2>2. /\ ListsOnce(out, Live) /\ Len(out) = Len(shown) + 1
        /\ \A i : i \in ToSet(out) <=> i \in ToSet(shown) \/ i = h[1]
    BY <1>1, <1>3, <1>6, Appended
  <2> HIDE DEF out
  <2>3. Len(out) <= r.topK
    BY <2>2, <1>2, <1>6
  <2>4. ASSUME NEW i \in ToSet(out) PROVE InCollection(i, r) /\ \E j \in 1 .. k + 1 : m[j][1] = i
    BY <2>2, <1>1, <1>3, <1>5, <1>6
  <2>5. ASSUME NEW j \in 1 .. k + 1, m[j][1] \in Live, InCollection(m[j][1], r) PROVE m[j][1] \in ToSet(out)
    BY <2>2, <2>5, <1>1, <1>4, <1>6
  <2>6. Answered(r, out, k + 1)
    BY <2>2, <2>3, <2>4, <2>5 DEF Answered
  <2> QED BY <2>1, <2>6
<1>7. CASE ~(Len(shown) < r.topK /\ Shown(h, r, shown))
  <2>1. NextShown(r, shown, h) = shown
    BY <1>7 DEF NextShown
  <2>2. \A i \in ToSet(shown) : InCollection(i, r) /\ \E j \in 1 .. k + 1 : m[j][1] = i
    BY <1>1, <1>5
  <2>3. ASSUME Len(shown) < r.topK,
               NEW j \in 1 .. k + 1, m[j][1] \in Live, InCollection(m[j][1], r)
        PROVE  m[j][1] \in ToSet(shown)
    BY <2>3, <1>1, <1>3, <1>4, <1>7
  <2>4. Answered(r, shown, k + 1)
    BY <2>2, <2>3, <1>1 DEF Answered
  <2> QED BY <2>1, <2>4
<1> QED BY <1>6, <1>7

\* The answer to a request.
LEMMA AnswerGiven ==
  ASSUME IndexInv, NEW r \in Requests
  PROVE  Answered(r, Results(r), Len(Fused(r)))
<1> DEFINE n == Len(Fused(r))
<1>1. PICK it \in [0 .. n -> Seq(Live)] :
        /\ it[0] = <<>>
        /\ \A k \in 1 .. n : it[k] = NextShown(r, it[k - 1], Fused(r)[k])
        /\ Results(r) = it[n]
  BY ShownSteps
<1>2. n \in Nat
  BY FusedList
<1> HIDE DEF n
<1> DEFINE K == {k \in 0 .. n : Answered(r, it[k], k)}
<1>3. 0 \in K
  <2>1. ListsOnce(<<>>, Live) /\ Len(<<>>) = 0 /\ ToSet(<<>>) = {}
    BY DEF ListsOnce, Distinct, ToSet
  <2>2. r.topK \in Nat
    BY RequestTypes
  <2>3. Answered(r, <<>>, 0)
    BY <2>1, <2>2 DEF Answered
  <2> QED BY <2>3, <1>1, <1>2
<1>4. ASSUME NEW k \in 1 .. n, k - 1 \in K PROVE k \in K
  <2>1. k - 1 \in Nat /\ (k - 1) + 1 = k /\ k \in 0 .. n
    BY <1>2
  <2>2. Answered(r, NextShown(r, it[k - 1], Fused(r)[(k - 1) + 1]), (k - 1) + 1)
    BY <2>1, <1>4, AnsweredNext
  <2> QED BY <2>1, <2>2, <1>1
<1> HIDE DEF K
<1>5. 0 .. n \subseteq K
  BY <1>2, <1>3, <1>4, UpTo
<1> QED BY <1>1, <1>2, <1>5 DEF K, n

\* Without a filter every entry satisfies the filters.
LEMMA PassedSatisfies ==
  ASSUME NEW r, NEW h, Passes(r, h)
  PROVE  Satisfies(h[1], r.filters)
<1>1. CASE r.filters = <<>>
  <2>1. DOMAIN r.filters = {}
    BY <1>1
  <2> QED BY <2>1 DEF Satisfies
<1> QED BY <1>1 DEF Passes

\* A hit of the merged list is one that a signal finds and that passes the filters.
LEMMA HitsFound ==
  ASSUME IndexInv, NEW r \in Requests, NEW h \in HitsOf(Signals(r))
  PROVE  Passes(r, h) /\ \E j \in 1 .. 3 : h \in Findable(r)[j]
<1>1. DOMAIN Signals(r) = 1 .. 3
      /\ \A j \in 1 .. 3 : \A g \in ToSet(Signals(r)[j]) : g \in Findable(r)[j] /\ Passes(r, g)
  BY SignalsFound DEF Signal
<1> QED BY <1>1 DEF HitsOf

\* What is answered is wanted.
LEMMA Sound ==
  ASSUME IndexInv, NEW r \in Requests
  PROVE  /\ ListsOnce(Results(r), Live) /\ ToSet(Results(r)) \subseteq Candidates(r)
         /\ Len(Results(r)) <= r.topK
<1>1. Answered(r, Results(r), Len(Fused(r)))
  BY AnswerGiven
<1>2. /\ ListsOnce(Results(r), Live) /\ Len(Results(r)) <= r.topK
      /\ \A i \in ToSet(Results(r)) : InCollection(i, r) /\ \E j \in 1 .. Len(Fused(r)) : Fused(r)[j][1] = i
  BY <1>1 DEF Answered
<1>3. ToSet(Fused(r)) \subseteq HitsOf(Signals(r)) /\ DOMAIN Fused(r) = 1 .. Len(Fused(r))
  <2>1. Fused(r) \in Seq(Places) /\ ToSet(Fused(r)) \subseteq HitsOf(Signals(r))
    BY FusedList DEF Finds
  <2> QED BY <2>1
<1>4. ASSUME NEW i \in ToSet(Results(r)) PROVE i \in Candidates(r)
  <2>1. i \in Live /\ InCollection(i, r)
    BY <1>2, ListSize
  <2>2. PICK j \in 1 .. Len(Fused(r)) : Fused(r)[j][1] = i
    BY <1>2
  <2> DEFINE h == Fused(r)[j]
  <2>3. h \in HitsOf(Signals(r)) /\ h[1] = i
    BY <2>2, <1>3 DEF ToSet
  <2> HIDE DEF h
  <2>4. Passes(r, h) /\ \E k \in 1 .. 3 : h \in Findable(r)[k]
    BY <2>3, HitsFound
  <2>5. Satisfies(i, r.filters)
    BY <2>3, <2>4, PassedSatisfies
  <2> QED BY <2>1, <2>3, <2>4, <2>5 DEF Candidates, Wanted
<1> QED BY <1>2, <1>4

\* Search answers with distinct stored entries of the collection that satisfy the
\* filters and that one of its signals finds, as many as were asked for at most.
THEOREM SearchAnswers == Spec => []SearchSound
<1>1. IndexInv => SearchSound
  <2> SUFFICES ASSUME IndexInv, NEW r \in Requests
               PROVE  /\ ToSet(Results(r)) \subseteq Candidates(r)
                      /\ Len(Results(r)) = Cardinality(ToSet(Results(r)))
                      /\ Len(Results(r)) <= r.topK
    BY DEF SearchSound
  <2> QED BY Sound, ListSize
<1> QED BY <1>1, IndexInvariant, PTL

\* The smaller of two numbers.
LEMMA Smaller ==
  ASSUME NEW a \in Nat, NEW b \in Nat, a <= b
  PROVE  Min({a, b}) = a /\ Min({b, a}) = a
<1>1. {a, b} = {b, a} /\ {a, b} \in SUBSET Nat /\ {a, b} # {}
  OBVIOUS
<1>2. Min({a, b}) \in {a, b} /\ \A m \in {a, b} : Min({a, b}) <= m
  BY <1>1, Least
<1>3. Min({a, b}) = a
  BY <1>2
<1> QED BY <1>1, <1>3

\* The hits a search may have to merge: those of stored entries that satisfy the
\* filters.
AllowedHits(r) ==
  {h \in UNION {Findable(r)[j] : j \in 1 .. 3} : h[1] \in Live /\ Satisfies(h[1], r.filters)}
\* Without filters, the nodes a search finds that are no entries to show.
OtherHits(r) == IF r.filters # <<>> THEN {} ELSE Findable(r)[3] \ AllowedHits(r)

\* When the signals are not cut these are the hits.
LEMMA NothingCut ==
  ASSUME IndexInv, NEW r \in Requests,
         Cardinality(Findable(r)[1]) <= 2 * r.topK, Cardinality(Findable(r)[2]) <= 2 * r.topK,
         Cardinality(AllowedHits(r) \cup OtherHits(r)) <= 2 * r.topK
  PROVE  AllowedHits(r) \subseteq ToSet(Fused(r))
<1> DEFINE L == Signals(r)
           F == Findable(r)
           H == HitsOf(L)
           A == AllowedHits(r)
           B == OtherHits(r)
<1>1. /\ DOMAIN L = 1 .. 3
      /\ Signal(r, L[1], F[1], 2 * r.topK)
      /\ Signal(r, L[2], F[2], 2 * r.topK)
      /\ Signal(r, L[3], F[3], Cardinality(Nodes))
      /\ Cardinality(F[3]) <= Cardinality(Nodes)
      /\ \A h \in F[1] \cup F[2] : h[1] \in Live
  BY SignalsFound
<1>2. \A h \in H : Passes(r, h) /\ \E j \in 1 .. 3 : h \in F[j]
  BY HitsFound
<1>3. Cardinality(F[1]) <= 2 * r.topK /\ Cardinality(F[2]) <= 2 * r.topK
      /\ Cardinality(A \cup B) <= 2 * r.topK
  OBVIOUS
<1>4. A = {h \in UNION {F[j] : j \in 1 .. 3} : h[1] \in Live /\ Satisfies(h[1], r.filters)}
  BY DEF AllowedHits
<1>5. B = IF r.filters # <<>> THEN {} ELSE F[3] \ A
  BY DEF OtherHits
<1>6. H = UNION {ToSet(L[j]) : j \in 1 .. 3}
  BY <1>1 DEF HitsOf
<1>7. Finds(Fused(r), H, 2 * r.topK) /\ H \in SUBSET Places
  BY FusedList
<1> HIDE DEF L, F, H, A, B
<1>8. F[1] \subseteq Places /\ F[2] \subseteq Places /\ F[3] \subseteq Places
  BY <1>1 DEF Signal
<1>9. A \subseteq H
  <2>1. ASSUME NEW h \in A PROVE h \in H
    <3>1. PICK j \in 1 .. 3 : h \in F[j]
      BY <1>4
    <3>2. Passes(r, h)
      BY <1>4 DEF Passes
    <3>3. h \in ToSet(L[j])
      <4>1. CASE j = 1
        BY <4>1, <3>1, <3>2, <1>1, <1>3 DEF Signal
      <4>2. CASE j = 2
        BY <4>2, <3>1, <3>2, <1>1, <1>3 DEF Signal
      <4>3. CASE j = 3
        BY <4>3, <3>1, <3>2, <1>1 DEF Signal
      <4> QED BY <4>1, <4>2, <4>3
    <3> QED BY <3>3, <1>6
  <2> QED BY <2>1
<1>10. H \subseteq A \cup B
  <2>1. ASSUME NEW h \in H PROVE h \in A \cup B
    <3>1. PICK j \in 1 .. 3 : h \in F[j]
      BY <1>2
    <3>2. Satisfies(h[1], r.filters) /\ Passes(r, h)
      BY <1>2, PassedSatisfies
    <3>3. h \in UNION {F[i] : i \in 1 .. 3}
      BY <3>1
    <3>4. CASE h[1] \in Live
      BY <3>2, <3>3, <3>4, <1>4
    <3>5. CASE h[1] \notin Live
      <4>1. r.filters = <<>>
        BY <3>2, <3>5 DEF Passes
      <4>2. j = 3
        BY <3>1, <3>5, <1>1
      <4>3. h \notin A
        BY <3>5, <1>4
      <4> QED BY <4>1, <4>2, <4>3, <3>1, <1>5
    <3> QED BY <3>4, <3>5
  <2> QED BY <2>1
<1>11. A \cup B \in SUBSET Places
  <2>1. A \subseteq Places
    BY <1>7, <1>9
  <2>2. B \subseteq Places
    BY <1>5, <1>8
  <2> QED BY <2>1, <2>2
<1>12. Cardinality(H) <= 2 * r.topK
  <2>1. IsFiniteSet(A \cup B) /\ Cardinality(A \cup B) \in Nat /\ Cardinality(H) \in Nat
    BY <1>7, <1>11, PlacesFinite
  <2>2. Cardinality(H) <= Cardinality(A \cup B)
    BY <2>1, <1>10, FS_Subset
  <2>3. 2 * r.topK \in Nat
    BY RequestTypes
  <2> QED BY <2>1, <2>2, <2>3, <1>3
<1>13. ToSet(Fused(r)) = H
  BY <1>7, <1>12 DEF Finds
<1> QED BY <1>9, <1>13 DEF A

\* Search misses nothing when nothing is cut.
LEMMA Complete ==
  ASSUME IndexInv, NEW r \in Requests,
         Cardinality(Findable(r)[1]) <= 2 * r.topK, Cardinality(Findable(r)[2]) <= 2 * r.topK,
         Cardinality(AllowedHits(r) \cup OtherHits(r)) <= 2 * r.topK
  PROVE  Cardinality(ToSet(Results(r))) = Min({r.topK, Cardinality(Candidates(r))})
<1> DEFINE out == Results(r)
           C == Candidates(r)
           k == r.topK
<1>1. ListsOnce(out, Live) /\ ToSet(out) \subseteq C /\ Len(out) <= k
  BY Sound
<1>2. Len(out) < k =>
        \A j \in 1 .. Len(Fused(r)) :
          Fused(r)[j][1] \in Live /\ InCollection(Fused(r)[j][1], r) => Fused(r)[j][1] \in ToSet(out)
  BY AnswerGiven DEF Answered
<1>3. AllowedHits(r) \subseteq ToSet(Fused(r))
  BY NothingCut
<1>4. DOMAIN Fused(r) = 1 .. Len(Fused(r))
  <2>1. Fused(r) \in Seq(Places)
    BY FusedList
  <2> QED BY <2>1
<1>5. ASSUME Len(out) < k, NEW i \in C PROVE i \in ToSet(out)
  <2>1. i \in Live /\ InCollection(i, r) /\ Satisfies(i, r.filters)
        /\ \E j \in 1 .. 3 : \E h \in Findable(r)[j] : h[1] = i
    BY DEF Candidates, Wanted
  <2>2. PICK j \in 1 .. 3 : \E g \in Findable(r)[j] : g[1] = i
    BY <2>1
  <2>3. PICK h \in Findable(r)[j] : h[1] = i
    BY <2>2
  <2>4. h \in AllowedHits(r)
    BY <2>1, <2>3 DEF AllowedHits
  <2>5. PICK l \in 1 .. Len(Fused(r)) : Fused(r)[l] = h
    BY <2>4, <1>3, <1>4 DEF ToSet
  <2> QED BY <2>1, <2>3, <2>5, <1>2, <1>5
<1>6. IsFiniteSet(C) /\ Cardinality(C) \in Nat
  <2>1. C \in SUBSET Ids
    BY DEF Candidates, Live
  <2>2. IsFiniteSet(C)
    BY <2>1, PartsFinite, FS_Subset
  <2> QED BY <2>2, FS_CardinalityType
<1>7. Len(out) = Cardinality(ToSet(out)) /\ Len(out) \in Nat
  BY <1>1, ListSize
<1>8. k \in Nat
  BY RequestTypes
<1> HIDE DEF out, C, k
<1>9. Cardinality(ToSet(out)) <= Cardinality(C)
  BY <1>1, <1>6, FS_Subset
<1>10. CASE Len(out) < k
  <2>1. ToSet(out) = C
    BY <1>1, <1>5, <1>10
  <2>2. Cardinality(C) <= k
    BY <2>1, <1>1, <1>7
  <2>3. Min({k, Cardinality(C)}) = Cardinality(C)
    BY <2>2, <1>6, <1>8, Smaller
  <2> QED BY <2>1, <2>3 DEF out, C, k
<1>11. CASE Len(out) = k
  <2>1. k <= Cardinality(C)
    BY <1>7, <1>9, <1>11
  <2>2. Min({k, Cardinality(C)}) = k
    BY <2>1, <1>6, <1>8, Smaller
  <2> QED BY <2>2, <1>7, <1>11 DEF out, C, k
<1>12. Len(out) < k \/ Len(out) = k
  BY <1>1, <1>7, <1>8
<1> QED BY <1>10, <1>11, <1>12

\* As long as nothing has to be cut, Search answers with as many entries as were
\* asked for or with all there are.
THEOREM SearchMissesNothing == Spec => []SearchComplete
<1>1. IndexInv => SearchComplete
  <2> SUFFICES ASSUME IndexInv, NEW r \in Requests,
                      Cardinality(Findable(r)[1]) <= 2 * r.topK, Cardinality(Findable(r)[2]) <= 2 * r.topK,
                      Cardinality(AllowedHits(r) \cup OtherHits(r)) <= 2 * r.topK
               PROVE  Cardinality(ToSet(Results(r))) = Min({r.topK, Cardinality(Candidates(r))})
    BY DEF SearchComplete, AllowedHits, OtherHits
  <2> QED BY Complete
<1> QED BY <1>1, IndexInvariant, PTL
=============================================================================
