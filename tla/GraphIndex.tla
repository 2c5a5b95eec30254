----------------------------- MODULE GraphIndex -----------------------------
(***************************************************************************)
(* The adjacency index of src/internal/index/graph.go as operators on one  *)
(* record: outgoing and incoming references of each node, in the order     *)
(* they were added, and the two ends of each edge.                         *)
(*                                                                         *)
(* Abstracted: label, weight and source of an edge are one label; nodes    *)
(* and edges are numbered in the order of their names. Neighborhood gives  *)
(* each node its depth, which decides its score and its place in the list. *)
(* A definition marked "Variant" is a plausible mistake in the definition  *)
(* after it and is used nowhere.                                           *)
(***************************************************************************)
EXTENDS Lists, SequencesExt

CONSTANTS
  Nodes,       \* the names edges are drawn between, numbered in their order
  EdgeIds,     \* the identifiers uuid.New hands out to edges, likewise
  Labels,
  NoLabel,     \* the empty label
  NoEnds       \* "no such edge"

Ends == [from : Nodes, to : Nodes]
Refs == [edge : EdgeIds, target : Nodes, label : Labels \cup {NoLabel}]
Ref(x, n, l) == [edge |-> x, target |-> n, label |-> l]

NoGraph ==
  [forward |-> [n \in Nodes |-> <<>>],
   reverse |-> [n \in Nodes |-> <<>>],
   meta |-> [x \in EdgeIds |-> NoEnds]]

RemoveEdgeRef(refs, x) == Picked(refs, {r \in ToSet(refs) : r.edge # x})

\* Variant: the incoming reference stays.
RemovedForward(g, x) ==
  IF g.meta[x] = NoEnds THEN g
  ELSE [g EXCEPT !.meta[x] = NoEnds,
                 !.forward[g.meta[x].from] = RemoveEdgeRef(@, x)]

\* Remove.
Removed(g, x) ==
  IF g.meta[x] = NoEnds THEN g
  ELSE [g EXCEPT !.meta[x] = NoEnds,
                 !.forward[g.meta[x].from] = RemoveEdgeRef(@, x),
                 !.reverse[g.meta[x].to] = RemoveEdgeRef(@, x)]

\* Add: an edge that is there is replaced.
Added(g, x, from, to, l) ==
  [Removed(g, x) EXCEPT !.meta[x] = [from |-> from, to |-> to],
                        !.forward[from] = Append(@, Ref(x, to, l)),
                        !.reverse[to] = Append(@, Ref(x, from, l))]

\* The label of x, looked up among the outgoing references of its first end.
FindLabel(g, x) ==
  LET refs == g.forward[g.meta[x].from]
      i == SelectInSeq(refs, LAMBDA r : r.edge = x)
  IN IF i = 0 THEN NoLabel ELSE refs[i].label

\* AllEdges, as a set: it sorts by the identifier of the edge.
AllEdges(g) ==
  {[edge |-> x, from |-> g.meta[x].from, to |-> g.meta[x].to, label |-> FindLabel(g, x)] :
     x \in {y \in EdgeIds : g.meta[y] # NoEnds}}

InOrder(edges) == Ranked(edges, LAMBDA e, f : e.edge < f.edge)

\* The edges of a snapshot in the order EncodeSnapshot writes them.
Encoded(g) == InOrder(AllEdges(g))

\* DecodeGraphSnapshot, and the rebuild from the engine: one Add after the other.
Loaded(es) == FoldLeft(LAMBDA g, e : Added(g, e.edge, e.from, e.to, e.label), NoGraph, es)

AllNeighborIDs(g, n) ==
  {g.forward[n][i].target : i \in DOMAIN g.forward[n]}
    \cup {g.reverse[n][i].target : i \in DOMAIN g.reverse[n]}

-----------------------------------------------------------------------------
(* Breadth-first searches. A queue holds each node at most once, so that   *)
(* one round per node empties it.                                          *)

Start(n) == [visited |-> {n}, queue |-> <<[id |-> n, depth |-> 0]>>, out |-> <<>>]

\* Variant: the newest node is served first.
VisitFirst(s, r, depth) ==
  IF r.target \in s.visited THEN s
  ELSE [s EXCEPT !.visited = @ \cup {r.target},
                 !.queue = <<Head(@), [id |-> r.target, depth |-> depth]>> \o Tail(@)]

\* Put the target of r behind the queue unless it was there before.
Visit(s, r, depth) ==
  IF r.target \in s.visited THEN s
  ELSE [s EXCEPT !.visited = @ \cup {r.target},
                 !.queue = Append(@, [id |-> r.target, depth |-> depth])]

VisitAll(s, refs, depth) == FoldLeft(LAMBDA t, r : Visit(t, r, depth), s, refs)

\* "maxDepth <= 0 means unlimited".
AtLimit(depth, maxDepth) == maxDepth > 0 /\ depth >= maxDepth

\* Each round serves the head of the queue.
Rounds(Serve(_, _), s) ==
  FoldLeft(LAMBDA t, k : IF t.queue = <<>> THEN t
                         ELSE LET served == Serve(t, Head(t.queue))
                              IN [served EXCEPT !.queue = Tail(@)],
           s, [k \in 1 .. Cardinality(Nodes) |-> k])

Neighborhood(g, n, maxDepth) ==
  LET Serve(s, cur) ==
        LET listed == IF cur.depth = 0 THEN s ELSE [s EXCEPT !.out = Append(@, cur)]
        IN IF AtLimit(cur.depth, maxDepth) THEN listed
           ELSE VisitAll(listed, g.forward[cur.id] \o g.reverse[cur.id], cur.depth + 1)
  IN ToSet(Rounds(Serve, Start(n)).out)

\* Variant: only the edges that lead somewhere new are listed.
TreeEdges(g, n, maxDepth) ==
  LET Serve(s, cur) ==
        IF AtLimit(cur.depth, maxDepth) THEN s
        ELSE LET new == Picked(g.forward[cur.id], {r \in Refs : r.target \notin s.visited})
             IN VisitAll([s EXCEPT !.out = @ \o new], g.forward[cur.id], cur.depth + 1)
  IN Rounds(Serve, Start(n)).out

SubtreeEdges(g, n, maxDepth) ==
  LET Serve(s, cur) ==
        IF AtLimit(cur.depth, maxDepth) THEN s
        ELSE VisitAll([s EXCEPT !.out = @ \o g.forward[cur.id]],
                      g.forward[cur.id], cur.depth + 1)
  IN Rounds(Serve, Start(n)).out
=============================================================================
