------------------------------- MODULE Search -------------------------------
(***************************************************************************)
(* The queries of src/internal/context/store.go: Search, ListEdgesFrom and *)
(* ListEdgesTo, the neighbourhood of a node, its subtree and SuggestLinks, *)
(* over the indexes that Put, Delete, PutEdge, DeleteEdge and OpenStore    *)
(* maintain. Every method holds s.mu from start to end, so it is one step  *)
(* here; what failures and crashes leave behind is the subject of Store.   *)
(* DeleteCollection is a Delete of each of its entries.                    *)
(*                                                                         *)
(* Abstracted: a node of the graph is a number, and the entries are the    *)
(* nodes in Ids. The vector index finds things in a fixed order.           *)
(* A definition marked "Variant" is a plausible mistake in the definition  *)
(* after it, not part of Next.                                             *)
(***************************************************************************)
EXTENDS FullText, MetadataIndex, GraphIndex

CONSTANTS
  Entries,      \* what users put: [content, coll, attributes], one per content
  Texts,        \* Texts[c]: the terms of content c, then those of each chunk
  Collections,
  None,         \* "no such entry", "any collection", "no query", "no focus"
  Beneath,      \* the pairs of nodes <<m, n>> where the name of m is that of n,
                \* a colon and something more
  NewEdgeIds,   \* the identifiers of edges that are put
  Drawn,        \* the edges that are put: [from, to, label]
  Databases,    \* what is stored at first: sets of [edge, from, to, label]
  NearOrder,    \* NearOrder[a]: the parts in the order the vector index finds
                \* them for the term or content a
  Requests,     \* the searches that are asked: a query whose embedding fails, or
                \* for which no embedding engine is configured, is not embedded
  Depths,       \* the depth limits that are asked
  Scale,        \* the unit of fused scores, a multiple of 60 + rank for each rank
  MaxUsed       \* bound: identifiers are handed out below this number of them

ASSUME SearchAssumption ==
  /\ IsFiniteSet(Nodes) /\ Nodes \subseteq Nat /\ Ids \subseteq Nodes
  /\ IsFiniteSet(EdgeIds) /\ EdgeIds \subseteq Nat /\ NewEdgeIds \subseteq EdgeIds
  /\ IsFiniteSet(Terms) /\ MaxChunks \in Nat
  /\ Drawn \subseteq [from : Nodes, to : Nodes, label : Labels]
  /\ \A D \in Databases :
       /\ D \subseteq [edge : EdgeIds \ NewEdgeIds, from : Nodes, to : Nodes, label : Labels]
       /\ \A d, e \in D : d.edge = e.edge => d = e
  /\ None \notin Entries /\ None \notin Collections \cup Terms /\ None \notin Nodes
  /\ None \notin [from : Nodes, to : Nodes, label : Labels] /\ NoEnds \notin Ends
  /\ \A e, f \in Entries : e.content = f.content => e = f
  /\ \A e \in Entries :
       /\ Texts[e.content] \in Seq(Seq(Terms)) /\ Len(Texts[e.content]) \in 2 .. MaxChunks + 1
       /\ \A n \in DOMAIN e.attributes : n \in Names /\ e.attributes[n] \in Values
  /\ \A a \in Terms \cup {e.content : e \in Entries} :
       /\ NearOrder[a] \in Seq(Parts)
       /\ \A k, l \in DOMAIN NearOrder[a] : NearOrder[a][k] = NearOrder[a][l] => k = l
  /\ Depths \subseteq Nat
  /\ \A r \in Requests :
       /\ r.topK \in Nat \ {0} /\ r.query \in Terms \cup {None} /\ (r.embedded => r.query # None)
       /\ r.focus \in Nodes \cup {None} /\ r.depth \in Nat
       /\ r.filters \in UNION {[N -> Values] : N \in SUBSET Names}
       /\ \A k \in 1 .. 2 * r.topK : Scale % (60 + k) = 0
  /\ Scale \in Nat \ {0} /\ \A k \in 1 .. Cardinality(Nodes) : Scale % (60 + k) = 0

VARIABLES
  docs, known,                     \* entries, and contents with a hash record
  edges, fromKeys, toKeys,         \* edges and their adjacency keys
  ft, attrs, graph,                \* the indexes in memory
  used                             \* identifiers handed out

entryVars == <<docs, known, ft, attrs>>
edgeVars == <<edges, fromKeys, toKeys, graph>>
vars == <<entryVars, edgeVars, used>>

Live == {i \in Ids : docs[i] # None}
LiveEdges == {x \in EdgeIds : edges[x] # None}
PartsOf(i, c) == {i} \X (0 .. Len(Texts[c]) - 1)

TypeOK ==
  /\ docs \in [Ids -> Entries \cup {None}] /\ known \in SUBSET {e.content : e \in Entries}
  /\ \A x \in EdgeIds : edges[x] = None \/ edges[x] \in [from : Nodes, to : Nodes, label : Labels]
  /\ fromKeys \in SUBSET (Nodes \X EdgeIds) /\ toKeys \in SUBSET (Nodes \X EdgeIds)
  /\ \A p \in Parts : ft.dl[p] \in Nat /\ \A w \in Terms : ft.tf[w][p] \in Nat
  /\ ft.N \in Nat
  /\ attrs \in [Names -> [Values -> SUBSET Ids]]
  /\ \A n \in Nodes : ToSet(graph.forward[n]) \cup ToSet(graph.reverse[n]) \subseteq Refs
  /\ graph.meta \in [EdgeIds -> Ends \cup {NoEnds}]
  /\ used \in SUBSET (({"entry"} \X Ids) \cup ({"edge"} \X EdgeIds))

Init ==
  /\ docs = [i \in Ids |-> None] /\ known = {} /\ ft = NoText /\ attrs = NoAttributes
  /\ \E D \in Databases :
       LET Stored(x) == CHOOSE e \in D : e.edge = x
           there == {e.edge : e \in D}
       IN /\ edges = [x \in EdgeIds |->
                         IF x \in there
                           THEN [from |-> Stored(x).from, to |-> Stored(x).to, label |-> Stored(x).label]
                           ELSE None]
          /\ fromKeys = {<<e.from, e.edge>> : e \in D} /\ toKeys = {<<e.to, e.edge>> : e \in D}
          /\ graph = Loaded(InOrder(D))
          /\ used = {"edge"} \X there

-----------------------------------------------------------------------------
(* Changes. *)

Take(id) == /\ id \notin used /\ Cardinality(used) < MaxUsed
            /\ used' = used \cup {id}

\* The text of entry i and each of its chunks.
Indexed(f, i, c) ==
  FoldLeftDomain(LAMBDA g, n : AddDocument(g, <<i, n - 1>>, Texts[c][n]), f, Texts[c])

\* The entry and as many chunks as it may have.
Unindexed(f, i) ==
  FoldLeft(LAMBDA g, n : RemoveDocument(g, <<i, n>>), f, [k \in 1 .. MaxChunks + 1 |-> k - 1])

\* Put of a content without a hash record; with one it changes nothing.
Put(i, e) ==
  /\ e.content \notin known
  /\ Take(<<"entry", i>>)
  /\ docs' = [docs EXCEPT ![i] = e] /\ known' = known \cup {e.content}
  /\ ft' = Indexed(ft, i, e.content)
  /\ attrs' = SetEntry(attrs, i, e.attributes)
  /\ UNCHANGED edgeVars

Delete(i) ==
  /\ i \in Live
  /\ docs' = [docs EXCEPT ![i] = None]
  /\ ft' = Unindexed(ft, i)
  /\ attrs' = RemoveEntry(attrs, i)
  /\ UNCHANGED <<known, edgeVars, used>>

\* Variant: both adjacency keys carry the first end.
PutEdgeFromFrom(x, e) ==
  /\ Take(<<"edge", x>>)
  /\ edges' = [edges EXCEPT ![x] = e]
  /\ fromKeys' = fromKeys \cup {<<e.from, x>>} /\ toKeys' = toKeys \cup {<<e.from, x>>}
  /\ graph' = Added(graph, x, e.from, e.to, e.label)
  /\ UNCHANGED entryVars

\* The ends need not be entries.
PutEdge(x, e) ==
  /\ Take(<<"edge", x>>)
  /\ edges' = [edges EXCEPT ![x] = e]
  /\ fromKeys' = fromKeys \cup {<<e.from, x>>} /\ toKeys' = toKeys \cup {<<e.to, x>>}
  /\ graph' = Added(graph, x, e.from, e.to, e.label)
  /\ UNCHANGED entryVars

DeleteEdge(x) ==
  /\ x \in LiveEdges
  /\ edges' = [edges EXCEPT ![x] = None]
  /\ fromKeys' = fromKeys \ {<<edges[x].from, x>>}
  /\ toKeys' = toKeys \ {<<edges[x].to, x>>}
  /\ graph' = Removed(graph, x)
  /\ UNCHANGED <<entryVars, used>>

\* Close and OpenStore. Snapshots that index nothing are not trusted when there
\* are entries. The graph is built anew in the order of its edges.
LoadSnapshots ==
  /\ ft.N > 0 \/ Live = {}
  /\ ft' = LoadedText(EncodedText(ft))
  /\ attrs' = LoadedAttributes(EncodedAttributes(attrs))
  /\ graph' = Loaded(Encoded(graph))
  /\ UNCHANGED <<docs, known, edges, fromKeys, toKeys, used>>

\* rebuildIndexes, entry by entry.
TextsOf(ids) ==
  FoldLeft(LAMBDA f, i : Indexed(f, i, docs[i].content), NoText, ids)
AttributesOf(ids) ==
  FoldLeft(LAMBDA a, i : SetEntry(a, i, docs[i].attributes), NoAttributes, ids)

\* OpenStore without snapshots: PrefixKeys lists entries and edges in the order
\* of their identifiers.
RebuildIndexes ==
  LET ids == Ranked(Live, LAMBDA i, j : i < j)
      es == InOrder({[edge |-> x, from |-> edges[x].from, to |-> edges[x].to,
                      label |-> edges[x].label] : x \in LiveEdges})
  IN /\ ft' = TextsOf(ids)
     /\ attrs' = AttributesOf(ids)
     /\ graph' = Loaded(es)
     /\ UNCHANGED <<docs, known, edges, fromKeys, toKeys, used>>

Next ==
  \/ \E i \in Ids, e \in Entries : Put(i, e)
  \/ \E i \in Ids : Delete(i)
  \/ \E x \in NewEdgeIds, e \in Drawn : PutEdge(x, e)
  \/ \E x \in EdgeIds : DeleteEdge(x)
  \/ LoadSnapshots \/ RebuildIndexes

Spec == Init /\ [][Next]_vars

-----------------------------------------------------------------------------
(* Queries of the graph. *)

\* PrefixKeys("ef:" + n + ":") also finds the keys of the nodes beneath n.
KeysOf(keys, n) == {x \in EdgeIds : \E m \in Nodes : <<m, x>> \in keys
                                       /\ (m = n \/ <<m, n>> \in Beneath)}

ListEdgesFrom(n) == KeysOf(fromKeys, n) \cap LiveEdges
ListEdgesTo(n) == KeysOf(toKeys, n) \cap LiveEdges

-----------------------------------------------------------------------------
(* Search. *)

\* VectorIndex.Search: the index holds a vector for each part.
VectorSearch(a, k) ==
  Cut(Picked(NearOrder[a], UNION {PartsOf(i, docs[i].content) : i \in Live}), k)

\* Neighborhood as a list of hits: nearer nodes first, then by name.
Nearest(n, maxDepth) ==
  LET hits == Ranked(Neighborhood(graph, n, maxDepth),
                     LAMBDA a, b : a.depth < b.depth \/ (a.depth = b.depth /\ a.id < b.id))
  IN [r \in DOMAIN hits |-> <<hits[r].id, 0>>]

RankIn(list, h) == SelectInSeq(list, LAMBDA g : g = h)

\* The sum of 1 / (60 + rank) over the lists that have h.
FusedScore(lists, h) ==
  MapThenSumSet(LAMBDA j : LET r == RankIn(lists[j], h)
                           IN IF r = 0 THEN 0 ELSE Scale \div (60 + r),
                DOMAIN lists)

\* Variant: the lowest score first.
BetterLast(score, g, h) ==
  score[g] < score[h] \/ (score[g] = score[h] /\ Precedes(g, h))

Better(score, g, h) ==
  score[g] > score[h] \/ (score[g] = score[h] /\ Precedes(g, h))

RRF(lists, k) ==
  LET hits == UNION {ToSet(lists[j]) : j \in DOMAIN lists}
      score == [h \in hits |-> FusedScore(lists, h)]
  IN Cut(Ranked(hits, LAMBDA g, h : Better(score, g, h)), k)

\* Variant: as many hits as results are asked for.
SlotsFew(r) == r.topK

Slots(r) == 2 * r.topK

\* The hits of each signal, after the filters.
Signals(r) ==
  LET allowed == IF r.filters = <<>> THEN {} ELSE Match(attrs, r.filters)
      Filtered(hits) == IF r.filters = <<>> THEN hits
                        ELSE Picked(hits, {h \in ToSet(hits) : h[1] \in allowed})
  IN << IF r.query = None THEN <<>> ELSE Filtered(TextSearch(ft, r.query, Slots(r))),
        IF ~r.embedded THEN <<>>
          ELSE Filtered(VectorSearch(r.query, Slots(r))),
        IF r.focus = None THEN <<>> ELSE Filtered(Nearest(r.focus, r.depth)) >>

InCollection(i, r) == r.coll = None \/ docs[i].coll = r.coll

\* Variant: an entry is listed once for each of its parts.
ShownAgain(h, r, shown) == h[1] \in Live /\ InCollection(h[1], r)

\* The hit is an entry of the collection that is not in the list yet.
Shown(h, r, shown) ==
  /\ h[1] \in Live
  /\ InCollection(h[1], r)
  /\ \A k \in DOMAIN shown : shown[k] # h[1]

Results(r) ==
  FoldLeft(LAMBDA shown, h : IF Len(shown) < r.topK /\ Shown(h, r, shown)
                               THEN Append(shown, h[1]) ELSE shown,
           <<>>, RRF(Signals(r), Slots(r)))

-----------------------------------------------------------------------------
(* SuggestLinks: similar is how many parts of NearOrder reach the threshold. *)

\* Variant: the identifier of a chunk is not cut to that of its entry.
LinkedPart(h, i) == h \in {<<n, 0>> : n \in AllNeighborIDs(graph, i)}

Linked(h, i) == h[1] \in AllNeighborIDs(graph, i)

SuggestLinks(i, similar, topK) ==
  LET near == ToSet(Cut(NearOrder[docs[i].content], similar))
  IN Cut(Picked(VectorSearch(docs[i].content, 3 * topK),
                {h \in near : h[1] # i /\ ~Linked(h, i)}), topK)

-----------------------------------------------------------------------------
(* Reference definitions, over what the engine stores.                      *)

\* The nodes at most k steps from n.
Ball(Step(_), n, k) ==
  LET ball[j \in Nat] ==
        IF j = 0 THEN {n}
        ELSE LET nearer == ball[j - 1] IN nearer \cup UNION {Step(m) : m \in nearer}
  IN ball[k]

Targets(n) == {edges[x].to : x \in {y \in LiveEdges : edges[y].from = n}}
Sources(n) == {edges[x].from : x \in {y \in LiveEdges : edges[y].to = n}}
Beside(n) == Targets(n) \cup Sources(n)

\* The limit of a breadth-first search, where no limit is as many steps as nodes.
Limit(maxDepth) == IF maxDepth = 0 THEN Cardinality(Nodes) ELSE maxDepth

\* The text of part p, if it is stored.
TextAt(p) ==
  IF p[1] \in Live /\ p[2] < Len(Texts[docs[p[1]].content])
    THEN Texts[docs[p[1]].content][p[2] + 1] ELSE <<>>

\* The parts that hold term w.
PartsWith(w) ==
  {p \in UNION {PartsOf(i, docs[i].content) : i \in Live} :
     Count(Texts[docs[p[1]].content][p[2] + 1], w) > 0}

\* The entry has for each filter an attribute of that name and value.
Satisfies(i, filters) ==
  \A n \in DOMAIN filters :
    Canonical[n] # Blank /\ Has(docs[i].attributes, Canonical[n], Trimmed[filters[n]])

Wanted(i, r) == InCollection(i, r) /\ Satisfies(i, r.filters)

\* What each signal of r could find if nothing were cut off.
Findable(r) ==
  << IF r.query = None THEN {} ELSE PartsWith(r.query),
     IF ~r.embedded THEN {}
       ELSE ToSet(NearOrder[r.query]) \cap UNION {PartsOf(i, docs[i].content) : i \in Live},
     IF r.focus = None THEN {}
       ELSE {<<n, 0>> : n \in Ball(Beside, r.focus, Limit(r.depth)) \ {r.focus}} >>

Candidates(r) ==
  {i \in Live : Wanted(i, r) /\ \E j \in 1 .. 3 : \E h \in Findable(r)[j] : h[1] = i}

-----------------------------------------------------------------------------
(* Properties. *)

\* The full-text index has the frequency of each term in each stored text, the
\* length of each, and the number of those with a term, and counts nothing that is
\* not stored (AddDocument, RemoveDocument, the snapshot): what a score is made of
\* is that of the present collection of texts.
TextCounted ==
  /\ \A p \in Parts : /\ ft.dl[p] = Len(TextAt(p))
                        /\ \A w \in Terms : ft.tf[w][p] = Count(TextAt(p), w)
  /\ ft.N = Cardinality({p \in Parts : TextAt(p) # <<>>})

\* The adjacency index mirrors the stored edges: each has one reference, with
\* its label, in either direction, and there are no others (Add, Remove, and the
\* order in which a start adds them).
GraphMirrors ==
  /\ graph.meta = [x \in EdgeIds |-> IF x \in LiveEdges
                                       THEN [from |-> edges[x].from, to |-> edges[x].to] ELSE NoEnds]
  /\ \A n \in Nodes :
       LET out == {Ref(x, edges[x].to, edges[x].label) : x \in {y \in LiveEdges : edges[y].from = n}}
           in == {Ref(x, edges[x].from, edges[x].label) : x \in {y \in LiveEdges : edges[y].to = n}}
       IN /\ ToSet(graph.forward[n]) = out /\ Len(graph.forward[n]) = Cardinality(out)
          /\ ToSet(graph.reverse[n]) = in /\ Len(graph.reverse[n]) = Cardinality(in)

\* Neighborhood finds each node within the limit at its least distance over the
\* stored edges, whatever their direction, and no other node.
DistancesExact ==
  \A n \in Nodes, d \in Depths :
    Neighborhood(graph, n, d) =
      UNION {{[id |-> m, depth |-> k] : m \in Ball(Beside, n, k) \ Ball(Beside, n, k - 1)} :
               k \in 1 .. Limit(d)}

\* SubtreeEdges lists each edge that leaves a node nearer than the limit, and
\* lists it once, also when several edges meet in a node or form a cycle.
SubtreeExact ==
  \A n \in Nodes, d \in Depths :
    LET listed == SubtreeEdges(graph, n, d)
        wanted == {x \in LiveEdges : edges[x].from \in Ball(Targets, n, Limit(d) - 1)}
    IN /\ {listed[k].edge : k \in DOMAIN listed} = wanted
       /\ Len(listed) = Cardinality(wanted)

\* ListEdgesFrom and ListEdgesTo miss no stored edge of the node they are asked for,
\* and give exactly those as long as no node is beneath it. (With a node beneath it
\* they give that node's edges too, which is not what store.go:749 promises, "all
\* edges whose FromID equals nodeID".)
ListsOwnEdges ==
  \A n \in Nodes :
    LET out == {x \in LiveEdges : edges[x].from = n}
        in == {x \in LiveEdges : edges[x].to = n}
    IN /\ out \subseteq ListEdgesFrom(n) /\ in \subseteq ListEdgesTo(n)
       /\ (\A m \in Nodes : <<m, n>> \notin Beneath)
            => ListEdgesFrom(n) = out /\ ListEdgesTo(n) = in

\* Search answers with distinct stored entries of the collection that satisfy
\* the filters and that one of its signals really finds, as many as were asked
\* for at most.
SearchSound ==
  \A r \in Requests :
    LET results == Results(r)
    IN /\ ToSet(results) \subseteq Candidates(r)
       /\ Len(results) = Cardinality(ToSet(results))
       /\ Len(results) <= r.topK

\* Search misses nothing as long as it has no reason to cut: when the parts each
\* signal finds, and those that are left of all of them, fit into twice the
\* number of results, it answers with that number of results or all there are.
SearchComplete ==
  \A r \in Requests :
    LET found == Findable(r)
        allowed == {h \in UNION {found[j] : j \in 1 .. 3} :
                      h[1] \in Live /\ Satisfies(h[1], r.filters)}
        others == IF r.filters # <<>> THEN {} ELSE found[3] \ allowed
    IN /\ Cardinality(found[1]) <= 2 * r.topK /\ Cardinality(found[2]) <= 2 * r.topK
       /\ Cardinality(allowed \cup others) <= 2 * r.topK
       => Cardinality(ToSet(Results(r))) = Min({r.topK, Cardinality(Candidates(r))})

\* Fusion agrees with its signals: a hit that no list has lower than another hit,
\* and one list has higher, is not placed behind it. With the focus as the only
\* signal nearer entries come first.
FusionAgrees ==
  \A r \in Requests :
    LET lists == Signals(r)
        merged == RRF(lists, Slots(r))
        Higher(j, g, h) == /\ RankIn(lists[j], g) # 0
                           /\ \/ RankIn(lists[j], h) = 0
                              \/ RankIn(lists[j], g) < RankIn(lists[j], h)
        Preferred(g, h) == /\ \E j \in DOMAIN lists : Higher(j, g, h)
                           /\ \A j \in DOMAIN lists : ~Higher(j, h, g)
    IN \A k, l \in DOMAIN merged : k < l => ~Preferred(merged[l], merged[k])

\* A suggested link leads to another stored entry that no stored edge joins to
\* the one it is suggested for (SuggestLinks strips the number of a chunk).
SuggestionsNew ==
  \A i \in Live, k \in 1 .. 2 : \A h \in ToSet(SuggestLinks(i, Cardinality(Parts), k)) :
    h[1] \in Live \ ({i} \cup Beside(i))
=============================================================================
