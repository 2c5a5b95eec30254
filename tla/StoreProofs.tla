---------------------------- MODULE StoreProofs -----------------------------
(***************************************************************************)
(* Proofs about Store: types, deduplication, and the indexes against the   *)
(* entries and edges it keeps: what holds of them when calls fail and the  *)
(* process crashes, and what holds when neither happens.                   *)
(***************************************************************************)
EXTENDS Store, TLAPS

\* What a key may hold.
ValuesOf(k) ==
  {None} \cup (IF k[1] = "d" THEN Entries ELSE IF k[1] = "h" THEN Ids ELSE Edges)

Answers == Entries \cup Ids \cup Edges \cup {None}

EngineTyped ==
  /\ kv \in [EngineKeys -> Answers]
  /\ outcomes \in [EngineKeys -> (SUBSET Answers) \ {{}}]
  /\ \A k \in EngineKeys : kv[k] \in ValuesOf(k) /\ outcomes[k] \subseteq ValuesOf(k)

IndexTyped ==
  /\ ft \in SUBSET Parts /\ vec \in SUBSET Parts /\ vecDisk \in SUBSET Parts
  /\ meta \in SUBSET Ids /\ graph \in SUBSET Edges
  /\ snapFt = Unusable \/ snapFt \in SUBSET Parts
  /\ snapMeta = Unusable \/ snapMeta \in SUBSET Ids
  /\ snapGraph = Unusable \/ snapGraph \in SUBSET Edges

FullOps == [id : Ids, content : Contents, coll : Collections]

\* The request each stage works on.
OpInv ==
  /\ op \in Ops
  /\ pc \in {"doc", "hash", "vectors", "reply"} => op \in FullOps
  /\ pc \in {"delete", "unindex"} => op.id \in Ids
  /\ pc \in {"edge", "unlink"} => op.id \in Edges

ControlTyped ==
  /\ pc \in Stages \cup {"idle", "down"}
  /\ todo \in SUBSET Ids /\ used \in SUBSET (Ids \cup Edges)
  /\ removed \in SUBSET (Ids \cup Edges)
  /\ closing \in BOOLEAN
  /\ OpInv

TypeInv == ControlTyped /\ EngineTyped /\ IndexTyped

-----------------------------------------------------------------------------
(* The engine. *)

\* The keys of the engine and what each kind may hold.
LEMMA KeyValues ==
  /\ \A i \in Ids : DocKey(i) \in EngineKeys /\ ValuesOf(DocKey(i)) = {None} \cup Entries
  /\ \A c \in Contents : HashKey(c) \in EngineKeys /\ ValuesOf(HashKey(c)) = {None} \cup Ids
  /\ \A x \in Edges : EdgeKeys(x) \subseteq EngineKeys
                      /\ \A k \in EdgeKeys(x) : ValuesOf(k) = {None} \cup Edges
  /\ \A k \in EngineKeys : ValuesOf(k) \subseteq Answers
<1>1. \A i \in Ids : DocKey(i) \in EngineKeys /\ DocKey(i)[1] = "d"
  BY DEF EngineKeys, DocKey
<1>2. \A c \in Contents : HashKey(c) \in EngineKeys /\ HashKey(c)[1] = "h"
  BY DEF EngineKeys, HashKey
<1>3. \A x \in Edges : EdgeKeys(x) \subseteq EngineKeys
  BY DEF EngineKeys
<1>4. \A x \in Edges : \A k \in EdgeKeys(x) : k[1] # "d" /\ k[1] # "h"
  BY DEF EdgeKeys
<1> QED BY <1>1, <1>2, <1>3, <1>4 DEF ValuesOf, Answers

\* The writes in progress concern keys of the engine and fit them.
LEMMA PendingType ==
  ASSUME OpInv
  PROVE  \A k \in DOMAIN Pending : k \in EngineKeys /\ Pending[k] \in ValuesOf(k)
<1>1. CASE pc = "doc"
  <2>1. Pending = [k \in {DocKey(op.id)} |-> [content |-> op.content, coll |-> op.coll]]
    BY <1>1 DEF Pending
  <2>2. op.id \in Ids /\ [content |-> op.content, coll |-> op.coll] \in Entries
    BY <1>1 DEF OpInv, FullOps, Entries
  <2> QED BY <2>1, <2>2, KeyValues
<1>2. CASE pc = "hash"
  <2>1. Pending = [k \in {HashKey(op.content)} |-> op.id]
    BY <1>2 DEF Pending
  <2>2. op.id \in Ids /\ op.content \in Contents
    BY <1>2 DEF OpInv, FullOps
  <2> QED BY <2>1, <2>2, KeyValues
<1>3. CASE pc = "delete"
  <2>1. Pending = [k \in {DocKey(op.id)} |-> None] /\ op.id \in Ids
    BY <1>3 DEF Pending, OpInv
  <2> QED BY <2>1, KeyValues
<1>4. CASE pc = "edge"
  <2>1. Pending = [k \in EdgeKeys(op.id) |-> op.id] /\ op.id \in Edges
    BY <1>4 DEF Pending, OpInv
  <2> QED BY <2>1, KeyValues
<1>5. CASE pc = "unlink"
  <2>1. Pending = [k \in EdgeKeys(op.id) |-> None] /\ op.id \in Edges
    BY <1>5 DEF Pending, OpInv
  <2> QED BY <2>1, KeyValues
<1>6. CASE pc \notin {"doc", "hash", "delete", "edge", "unlink"}
  <2>1. Pending = [k \in {} |-> None]
    BY <1>6 DEF Pending
  <2> QED BY <2>1
<1> QED BY <1>1, <1>2, <1>3, <1>4, <1>5, <1>6

\* What the engine may answer for k after a stop.
May(k) == outcomes[k] \cup (IF k \in DOMAIN Pending THEN {Pending[k]} ELSE {})

\* A restart answers each key with one of its outcomes.
LEMMA RestartMay ==
  ASSUME EngineTyped, NEW f \in Restarts
  PROVE  /\ f = [k \in EngineKeys |-> f[k]]
         /\ \A k \in EngineKeys : f[k] \in May(k)
<1> DEFINE Open == {k \in EngineKeys : Cardinality(May(k)) > 1}
<1>1. PICK g \in [Open -> UNION {May(k) : k \in Open}] :
        /\ \A k \in Open : g[k] \in May(k)
        /\ f = [k \in EngineKeys |-> IF k \in Open THEN g[k] ELSE CHOOSE v \in May(k) : TRUE]
  BY DEF Restarts, May
<1>2. \A k \in EngineKeys : May(k) # {}
  BY DEF EngineTyped, May
<1> HIDE DEF Open
<1>3. \A k \in EngineKeys : (CHOOSE v \in May(k) : TRUE) \in May(k)
  BY <1>2
<1> QED BY <1>1, <1>3

\* Every call of the engine, and every start, keeps what each key may hold.
LEMMA EngineTypes ==
  ASSUME EngineTyped, OpInv,
         \/ EngineWrites(Pending) \/ EngineFails(Pending) \/ EngineDeleteFails(Pending)
         \/ \E rest \in SUBSET DOMAIN Pending : EngineSplits(Pending, rest)
         \/ Reopened
  PROVE  EngineTyped'
<1> DEFINE ws == Pending
<1>1. \A k \in DOMAIN ws : k \in EngineKeys /\ ws[k] \in ValuesOf(k)
  BY PendingType
<1>2. \A k \in EngineKeys : ValuesOf(k) \subseteq Answers /\ None \in ValuesOf(k)
  BY KeyValues DEF ValuesOf
<1>3. SUFFICES
        /\ kv' = [k \in EngineKeys |-> kv'[k]]
        /\ outcomes' = [k \in EngineKeys |-> outcomes'[k]]
        /\ \A k \in EngineKeys : /\ kv'[k] \in ValuesOf(k)
                                 /\ outcomes'[k] \subseteq ValuesOf(k)
                                 /\ outcomes'[k] # {}
  <2>1. kv' \in [EngineKeys -> Answers]
    BY <1>2, <1>3
  <2>2. \A k \in EngineKeys : outcomes'[k] \in (SUBSET Answers) \ {{}}
    BY <1>2, <1>3
  <2>3. outcomes' \in [EngineKeys -> (SUBSET Answers) \ {{}}]
    BY <1>3, <2>2
  <2> QED BY <1>3, <2>1, <2>3 DEF EngineTyped, ValuesOf
<1>4. \A k \in EngineKeys : /\ kv[k] \in ValuesOf(k) /\ outcomes[k] \subseteq ValuesOf(k)
                            /\ outcomes[k] # {}
  BY DEF EngineTyped
<1>5. kv = [k \in EngineKeys |-> kv[k]] /\ outcomes = [k \in EngineKeys |-> outcomes[k]]
  BY DEF EngineTyped
<1> HIDE DEF ws
<1>6. CASE EngineWrites(ws)
  BY <1>1, <1>4, <1>6 DEF EngineWrites
<1>7. CASE EngineFails(ws)
  <2>1. PICK done \in SUBSET DOMAIN ws :
          /\ kv' = [k \in EngineKeys |-> IF k \in done THEN ws[k] ELSE kv[k]]
          /\ outcomes' = [k \in EngineKeys |->
                            IF k \in done THEN {ws[k]}
                            ELSE IF k \in DOMAIN ws THEN outcomes[k] \cup {ws[k]}
                            ELSE outcomes[k]]
    BY <1>7 DEF EngineFails
  <2> QED BY <1>1, <1>4, <2>1
<1>8. CASE EngineDeleteFails(ws)
  BY <1>1, <1>2, <1>4, <1>5, <1>8 DEF EngineDeleteFails
<1>9. ASSUME NEW rest \in SUBSET DOMAIN ws, EngineSplits(ws, rest)
      PROVE  /\ kv' = [k \in EngineKeys |-> kv'[k]]
             /\ outcomes' = [k \in EngineKeys |-> outcomes'[k]]
             /\ \A k \in EngineKeys : /\ kv'[k] \in ValuesOf(k)
                                      /\ outcomes'[k] \subseteq ValuesOf(k)
                                      /\ outcomes'[k] # {}
  BY <1>1, <1>4, <1>9 DEF EngineSplits
<1>10. CASE Reopened
  <2>1. kv' = [k \in EngineKeys |-> kv'[k]] /\ \A k \in EngineKeys : kv'[k] \in May(k)
    BY <1>10, RestartMay DEF Reopened
  <2>2. \A k \in EngineKeys : May(k) \subseteq ValuesOf(k)
    BY <1>1, <1>4 DEF May, ws
  <2> QED BY <1>10, <2>1, <2>2 DEF Reopened
<1> QED BY <1>6, <1>7, <1>8, <1>9, <1>10 DEF ws

-----------------------------------------------------------------------------
(* Types. *)

\* The parts of an entry are parts.
LEMMA PartTypes ==
  ASSUME NEW i \in Ids, NEW c \in Contents
  PROVE  PartsOf(i, c) \in SUBSET Parts
BY StoreAssumption DEF PartsOf, Parts

\* The state before the first start is typed.
LEMMA TypeInit == Init => TypeInv
<1> SUFFICES ASSUME Init PROVE TypeInv
  OBVIOUS
<1>1. EngineTyped
  BY DEF Init, Kept!Init, EngineTyped, Answers, ValuesOf
<1>2. ControlTyped /\ IndexTyped
  BY DEF Init, ControlTyped, IndexTyped, OpInv, Ops, NoOp
<1> QED BY <1>1, <1>2 DEF TypeInv

\* The engine keeps its types in every step.
LEMMA EngineStep ==
  ASSUME TypeInv, [Next]_vars
  PROVE  EngineTyped'
<1>1. CASE UNCHANGED engine
  BY <1>1 DEF TypeInv, EngineTyped, engine
<1>2. CASE AddEdge
  <2>1. OpInv /\ EngineTyped /\ pc = "edge"
    BY <1>2 DEF TypeInv, ControlTyped, AddEdge
  <2>2. DOMAIN Pending = EdgeKeys(op.id)
    BY <2>1 DEF Pending
  <2> QED BY <1>2, <2>1, <2>2, EngineTypes DEF AddEdge, EdgeKeys
<1>3. ASSUME \/ EngineWrites(Pending) \/ EngineFails(Pending)
             \/ EngineDeleteFails(Pending) \/ Reopened
      PROVE  EngineTyped'
  BY <1>3, EngineTypes DEF TypeInv, ControlTyped
<1>4. \/ UNCHANGED engine \/ AddEdge
      \/ EngineWrites(Pending) \/ EngineFails(Pending) \/ EngineDeleteFails(Pending)
      \/ Reopened
  BY DEF Next, vars, PutDuplicate, PutNew, PutDoc, PutHash, PutFails, SaveVectors,
         SaveVectorsFails, Reply, Delete, DeleteCollection, DeleteDoc, DeleteFails,
         Unindex, PutEdge, DeleteEdge, AddEdgeFails, RemoveEdge, RemoveEdgeFails,
         StartSaving, SaveFt, SaveMeta, SaveGraph, Crash, OpenStore
<1> QED BY <1>1, <1>2, <1>3, <1>4

\* The stages and their requests keep their types in every step.
LEMMA ControlStep ==
  ASSUME TypeInv, [Next]_vars
  PROVE  ControlTyped'
<1> USE DEF TypeInv, ControlTyped, OpInv, Ops, FullOps, NoOp, Stages, Saving
<1>1. ASSUME NEW c \in Contents, NEW col \in Collections, PutDuplicate(c, col)
      PROVE  ControlTyped'
  <2>1. kv[HashKey(c)] \in Ids
    BY <1>1, KeyValues DEF EngineTyped, PutDuplicate
  <2> QED BY <1>1, <2>1 DEF PutDuplicate
<1>2. ASSUME NEW c \in Contents, NEW col \in Collections, NEW i \in Ids, PutNew(c, col, i)
      PROVE  ControlTyped'
  BY <1>2 DEF PutNew, Take
<1>3. CASE PutDoc \/ PutHash \/ PutFails \/ SaveVectors \/ SaveVectorsFails \/ Reply
  BY <1>3 DEF PutDoc, PutHash, PutFails, SaveVectors, SaveVectorsFails, Reply, Return
<1>4. ASSUME NEW i \in Ids, Delete(i) PROVE ControlTyped'
  BY <1>4 DEF Delete
<1>5. ASSUME NEW col \in Collections, DeleteCollection(col) PROVE ControlTyped'
  <2>1. PICK i \in Live : /\ op' = [NoOp EXCEPT !.id = i]
                          /\ todo' = {j \in Live \ {i} : kv[DocKey(j)].coll = col}
    BY <1>5 DEF DeleteCollection
  <2>2. Live \in SUBSET Ids
    BY DEF Live
  <2> QED BY <1>5, <2>1, <2>2 DEF DeleteCollection
<1>6. CASE DeleteDoc \/ DeleteFails
  BY <1>6 DEF DeleteDoc, DeleteFails, Return
<1>7. CASE Unindex
  BY <1>7 DEF Unindex, NextDelete, Return
<1>8. ASSUME NEW x \in Edges, PutEdge(x) \/ DeleteEdge(x) PROVE ControlTyped'
  BY <1>8 DEF PutEdge, DeleteEdge, Take
<1>9. CASE AddEdge \/ AddEdgeFails \/ RemoveEdge \/ RemoveEdgeFails
  BY <1>9 DEF AddEdge, AddEdgeFails, RemoveEdge, RemoveEdgeFails, Return
<1>10. ASSUME NEW close \in BOOLEAN, StartSaving(close) PROVE ControlTyped'
  BY <1>10 DEF StartSaving
<1>11. CASE SaveFt \/ SaveMeta
  BY <1>11 DEF SaveFt, SaveMeta
<1>12. CASE SaveGraph
  BY <1>12 DEF SaveGraph
<1>13. CASE Crash
  BY <1>13 DEF Crash
<1>14. CASE OpenStore
  BY <1>14 DEF OpenStore
<1>15. CASE UNCHANGED vars
  BY <1>15 DEF vars
<1> QED BY <1>1, <1>2, <1>3, <1>4, <1>5, <1>6, <1>7, <1>8, <1>9, <1>10, <1>11,
           <1>12, <1>13, <1>14, <1>15 DEF Next

\* The indexes and their files keep their types in every step.
LEMMA IndexStep ==
  ASSUME TypeInv, [Next]_vars
  PROVE  IndexTyped'
<1> USE DEF TypeInv, ControlTyped, IndexTyped
<1>1. CASE UNCHANGED <<indexes, snapshots, vecDisk>>
  BY <1>1 DEF indexes, snapshots
<1>2. CASE PutHash
  <2>1. op.id \in Ids /\ op.content \in Contents
    BY <1>2 DEF OpInv, FullOps, PutHash
  <2>2. PartsOf(op.id, op.content) \in SUBSET Parts
    BY <2>1, PartTypes
  <2> QED BY <1>2, <2>1, <2>2 DEF PutHash, snapshots
<1>3. CASE SaveVectors
  BY <1>3 DEF SaveVectors, indexes, snapshots
<1>4. CASE Unindex
  <2>1. VectorsSaved(op.id) \subseteq SUBSET Parts
    BY DEF VectorsSaved
  <2> QED BY <1>4, <2>1 DEF Unindex, snapshots
<1>5. CASE AddEdge \/ RemoveEdge
  BY <1>5 DEF AddEdge, RemoveEdge, OpInv, snapshots
<1>6. CASE SaveFt \/ SaveMeta
  BY <1>6 DEF SaveFt, SaveMeta, Saved, indexes
<1>7. CASE SaveGraph
  BY <1>7 DEF SaveGraph, Saved, Gone, indexes
<1>8. CASE Crash
  <2>1. VectorsFound \subseteq SUBSET Parts
    BY DEF VectorsFound, VectorsSaved
  <2> QED BY <1>8, <2>1 DEF Crash, Gone, CutShort
<1>9. CASE OpenStore
  <2>1. AllParts \in SUBSET Parts /\ Live \in SUBSET Ids /\ LiveEdges \in SUBSET Edges
    <3>1. \A i \in Live : kv[DocKey(i)] \in Entries
      BY KeyValues DEF EngineTyped, Live
    <3>2. \A i \in Live : PartsOf(i, kv[DocKey(i)].content) \in SUBSET Parts
      BY <3>1, PartTypes DEF Live, Entries
    <3> QED BY <3>2 DEF AllParts, Live, LiveEdges
  <2>2. CASE LoadSnapshots
    BY <1>9, <2>2 DEF OpenStore, LoadSnapshots, Trusted, snapshots
  <2>3. CASE RebuildIndexes
    BY <1>9, <2>1, <2>3 DEF OpenStore, RebuildIndexes, snapshots
  <2> QED BY <1>9, <2>2, <2>3 DEF OpenStore
<1>10. \/ UNCHANGED <<indexes, snapshots, vecDisk>>
       \/ PutHash \/ SaveVectors \/ Unindex \/ AddEdge \/ RemoveEdge
       \/ SaveFt \/ SaveMeta \/ SaveGraph \/ Crash \/ OpenStore
  BY DEF Next, vars, PutDuplicate, PutNew, PutDoc, PutFails, SaveVectorsFails, Reply,
         Delete, DeleteCollection, DeleteDoc, DeleteFails, PutEdge, DeleteEdge,
         AddEdgeFails, RemoveEdgeFails, StartSaving
<1> QED BY <1>1, <1>2, <1>3, <1>4, <1>5, <1>6, <1>7, <1>8, <1>9, <1>10

\* The store keeps its types and each stage the request it works on.
THEOREM TypeCorrect == Spec => []TypeInv
<1>1. TypeInv /\ [Next]_vars => TypeInv'
  BY EngineStep, ControlStep, IndexStep DEF TypeInv
<1> QED BY <1>1, TypeInit, PTL DEF Spec

\* The variables of the store keep their types whatever is called, fails or
\* crashes, for any numbers of entries, chunks, collections and edges.
THEOREM TypesHold == Spec => []TypeOK
<1>1. TypeInv => Kept!TypeOK
  BY DEF TypeInv, EngineTyped, Answers, Kept!TypeOK, Kept!Answers
<1>2. TypeInv => TypeOK
  BY <1>1 DEF TypeInv, ControlTyped, OpInv, IndexTyped, TypeOK
<1> QED BY <1>2, TypeCorrect, PTL

-----------------------------------------------------------------------------
(* Deduplication. *)

\* What a read of k answers now or may answer after a restart.
Now(k) == outcomes[k] \cup {kv[k]}

\* A step of any kind makes a key answer nothing new but the write in progress.
LEMMA EngineEffect ==
  ASSUME TypeInv, [Next]_vars, NEW k \in EngineKeys
  PROVE  Now(k)' \subseteq Now(k) \cup (IF k \in DOMAIN Pending THEN {Pending[k]} ELSE {})
<1>1. PICK ws : ws = Pending
  OBVIOUS
<1> DEFINE Goal == Now(k)' \subseteq Now(k) \cup (IF k \in DOMAIN ws THEN {ws[k]} ELSE {})
<1>2. CASE UNCHANGED engine
  BY <1>2 DEF engine, Now
<1>3. CASE Reopened
  <2>1. kv' \in Restarts /\ outcomes' = [q \in EngineKeys |-> {kv'[q]}]
    BY <1>3 DEF Reopened
  <2>2. kv'[k] \in May(k)
    BY <2>1, RestartMay DEF TypeInv
  <2> QED BY <2>1, <2>2 DEF Now, May
<1>4. CASE EngineWrites(ws)
  <2>1. Goal
    BY <1>4 DEF EngineWrites, Now
  <2> QED BY <1>1, <2>1
<1>5. CASE EngineFails(ws)
  <2>1. PICK done \in SUBSET DOMAIN ws :
          /\ kv' = [q \in EngineKeys |-> IF q \in done THEN ws[q] ELSE kv[q]]
          /\ outcomes' = [q \in EngineKeys |->
                            IF q \in done THEN {ws[q]}
                            ELSE IF q \in DOMAIN ws THEN outcomes[q] \cup {ws[q]}
                            ELSE outcomes[q]]
    BY <1>5 DEF EngineFails
  <2>2. Goal
    BY <2>1 DEF Now
  <2> QED BY <1>1, <2>2
<1>6. CASE pc \in {"delete", "unlink"} /\ EngineDeleteFails(ws)
  <2>1. \A q \in DOMAIN ws : ws[q] = None
    BY <1>1, <1>6 DEF Pending
  <2>2. Goal
    BY <1>6, <2>1 DEF EngineDeleteFails, Now
  <2> QED BY <1>1, <2>2
<1>7. CASE AddEdge
  <2>1. DOMAIN ws = {<<"e", op.id>>, <<"ef", op.id>>, <<"et", op.id>>}
    BY <1>1, <1>7 DEF AddEdge, Pending, EdgeKeys
  <2>2. \/ EngineWrites(ws)
        \/ EngineSplits(ws, {<<"et", op.id>>})
        \/ EngineSplits(ws, {<<"ef", op.id>>, <<"et", op.id>>})
    BY <1>1, <1>7 DEF AddEdge
  <2>3. PICK rest : \/ EngineWrites(ws)
                    \/ EngineSplits(ws, rest) /\ rest \subseteq DOMAIN ws
    BY <2>1, <2>2
  <2>4. CASE EngineSplits(ws, rest) /\ rest \subseteq DOMAIN ws
    <3>1. Goal
      BY <2>4 DEF EngineSplits, Now
    <3> QED BY <1>1, <3>1
  <2> QED BY <1>4, <2>3, <2>4
<1>8. \/ UNCHANGED engine \/ Reopened \/ AddEdge
      \/ EngineWrites(Pending) \/ EngineFails(Pending)
      \/ pc \in {"delete", "unlink"} /\ EngineDeleteFails(Pending)
  BY DEF Next, vars, PutDuplicate, PutNew, PutDoc, PutHash, PutFails, SaveVectors,
         SaveVectorsFails, Reply, Delete, DeleteCollection, DeleteDoc, DeleteFails,
         Unindex, PutEdge, DeleteEdge, AddEdgeFails, RemoveEdge, RemoveEdgeFails,
         StartSaving, SaveFt, SaveMeta, SaveGraph, Crash, OpenStore
<1> QED BY <1>1, <1>2, <1>3, <1>4, <1>5, <1>6, <1>7, <1>8

\* The keys of different kinds differ, and so do those of different entries and
\* of different contents.
LEMMA KeysDiffer ==
  /\ \A i, j : DocKey(i) = DocKey(j) => i = j
  /\ \A c, d : HashKey(c) = HashKey(d) => c = d
  /\ \A i, c : DocKey(i) # HashKey(c)
  /\ \A i, x : DocKey(i) \notin EdgeKeys(x)
  /\ \A c, x : HashKey(c) \notin EdgeKeys(x)
BY DEF DocKey, HashKey, EdgeKeys

\* Only the entry being put or deleted is written, and only by its own method;
\* only the record of the content being put is written, with its identifier.
LEMMA PendingKeys ==
  /\ \A i : DocKey(i) \in DOMAIN Pending => pc \in {"doc", "delete"} /\ op.id = i
  /\ \A c : HashKey(c) \in DOMAIN Pending =>
       pc = "hash" /\ op.content = c /\ Pending[HashKey(c)] = op.id
<1>1. CASE pc \in {"doc", "delete"}
  <2>1. DOMAIN Pending = {DocKey(op.id)}
    BY <1>1 DEF Pending
  <2> QED BY <1>1, <2>1, KeysDiffer
<1>2. CASE pc = "hash"
  <2>1. Pending = [k \in {HashKey(op.content)} |-> op.id]
    BY <1>2 DEF Pending
  <2> QED BY <1>2, <2>1, KeysDiffer
<1>3. CASE pc \in {"edge", "unlink"}
  <2>1. DOMAIN Pending = EdgeKeys(op.id)
    BY <1>3 DEF Pending
  <2> QED BY <2>1, KeysDiffer
<1>4. CASE pc \notin {"doc", "hash", "delete", "edge", "unlink"}
  <2>1. DOMAIN Pending = {}
    BY <1>4 DEF Pending
  <2> QED BY <2>1
<1> QED BY <1>1, <1>2, <1>3, <1>4

-----------------------------------------------------------------------------
\* Entry i is stored with content c, whether or not the process restarts.
Stored(i, c) ==
  \E l \in Collections : Now(DocKey(i)) = {[content |-> c, coll |-> l]}

\* The entries the hash record of c may name.
Named(c) == Now(HashKey(c)) \ {None}

Known(i, c) == i \in used /\ (i \in removed \/ Stored(i, c))

\* Every entry a record may name was handed out and is stored, unless it was
\* asked to be deleted; Put writes the entry first, and knows it from then on.
DedupInv ==
  /\ \A c \in Contents : \A i \in Named(c) : Known(i, c)
  /\ pc = "doc" => op.id \in used /\ \A c \in Contents : op.id \notin Named(c)
  /\ pc \in {"hash", "vectors", "reply"} => Known(op.id, op.content)
  /\ pc \in {"delete", "unindex"} => op.id \in removed
  /\ todo \subseteq removed

\* Identifiers are never forgotten.
LEMMA HistoryStep ==
  ASSUME [Next]_vars
  PROVE  used \subseteq used' /\ removed \subseteq removed'
BY DEF Next, vars, PutDuplicate, PutNew, PutDoc, PutHash, PutFails, SaveVectors,
       SaveVectorsFails, Reply, Delete, DeleteCollection, DeleteDoc, DeleteFails,
       Unindex, PutEdge, DeleteEdge, AddEdge, AddEdgeFails, RemoveEdge, RemoveEdgeFails,
       StartSaving, SaveFt, SaveMeta, SaveGraph, Crash, OpenStore, Take

\* A record comes to name nothing but the entry Put records.
LEMMA NamedStep ==
  ASSUME TypeInv, [Next]_vars, NEW c \in Contents, NEW i \in Named(c)'
  PROVE  i \in Named(c) \/ (pc = "hash" /\ op.content = c /\ i = op.id)
<1>1. HashKey(c) \in EngineKeys
  BY DEF EngineKeys
<1>2. i # None /\ i \in Now(HashKey(c))'
  BY DEF Named
<1>3. CASE i \in Now(HashKey(c))
  BY <1>2, <1>3 DEF Named
<1>4. CASE HashKey(c) \in DOMAIN Pending /\ i = Pending[HashKey(c)]
  BY <1>4, PendingKeys
<1> QED BY <1>1, <1>2, <1>3, <1>4, EngineEffect

\* A stored entry stays, unless it is the one Put or Delete works on.
LEMMA StoredStep ==
  ASSUME TypeInv, [Next]_vars, NEW i \in Ids, NEW c \in Contents, Stored(i, c),
         pc \in {"doc", "delete"} => op.id # i
  PROVE  Stored(i, c)'
<1>1. DocKey(i) \in EngineKeys /\ DocKey(i) \notin DOMAIN Pending
  BY PendingKeys DEF EngineKeys
<1>2. Now(DocKey(i))' \subseteq Now(DocKey(i))
  BY <1>1, EngineEffect
<1>3. Now(DocKey(i))' # {}
  BY DEF Now
<1> QED BY <1>2, <1>3 DEF Stored

\* A known entry stays known, unless it is the one Put is writing.
LEMMA KnownStep ==
  ASSUME TypeInv, DedupInv, [Next]_vars, NEW i \in Ids, NEW c \in Contents, Known(i, c),
         pc = "doc" => op.id # i
  PROVE  Known(i, c)'
<1>1. CASE i \in removed
  BY <1>1, HistoryStep DEF Known
<1>2. CASE i \notin removed
  <2>1. pc = "delete" => op.id # i
    BY <1>2 DEF DedupInv
  <2>2. Stored(i, c)'
    BY <1>2, <2>1, StoredStep DEF Known
  <2> QED BY <2>2, HistoryStep DEF Known
<1> QED BY <1>1, <1>2

\* The first write of Put stores the entry.
LEMMA PutStores ==
  ASSUME TypeInv, DedupInv, PutDoc
  PROVE  Known(op.id, op.content)'
<1>1. pc = "doc" /\ op \in FullOps /\ op' = op /\ used' = used /\ op.id \in used
  BY DEF PutDoc, DedupInv, TypeInv, ControlTyped, OpInv
<1>2. PICK i \in Ids, c \in Contents, l \in Collections :
        i = op.id /\ c = op.content /\ l = op.coll
  BY <1>1 DEF FullOps
<1>3. Pending = [k \in {DocKey(i)} |-> [content |-> c, coll |-> l]]
  BY <1>1, <1>2 DEF Pending
<1>4. DocKey(i) \in EngineKeys
  BY DEF EngineKeys
<1>5. kv'[DocKey(i)] = [content |-> c, coll |-> l]
      /\ outcomes'[DocKey(i)] = {[content |-> c, coll |-> l]}
  BY <1>3, <1>4 DEF PutDoc, EngineWrites
<1>6. Stored(i, c)'
  BY <1>5 DEF Stored, Now
<1>7. Known(i, c)'
  BY <1>1, <1>2, <1>6 DEF Known
<1> QED BY <1>1, <1>2, <1>7

\* Before the first start nothing is stored, recorded or being done.
LEMMA DedupInit == Init => DedupInv
<1> SUFFICES ASSUME Init PROVE DedupInv
  OBVIOUS
<1>1. \A c \in Contents : Named(c) = {}
  <2>1. \A c \in Contents : HashKey(c) \in EngineKeys
    BY DEF EngineKeys
  <2> QED BY <2>1 DEF Init, Kept!Init, Named, Now
<1> QED BY <1>1 DEF Init, DedupInv

\* The entry a record may name stays known.
LEMMA NamedKnown ==
  ASSUME TypeInv, DedupInv, [Next]_vars, NEW c \in Contents, NEW i \in Named(c)'
  PROVE  Known(i, c)'
<1>1. i \in Ids
  <2>1. HashKey(c) \in EngineKeys /\ ValuesOf(HashKey(c)) = {None} \cup Ids
    BY KeyValues
  <2>2. EngineTyped'
    BY EngineStep
  <2>3. i # None /\ (i \in outcomes'[HashKey(c)] \/ i = kv'[HashKey(c)])
    BY DEF Named, Now
  <2> QED BY <2>1, <2>2, <2>3 DEF EngineTyped
<1>2. CASE i \in Named(c)
  BY <1>1, <1>2, KnownStep DEF DedupInv
<1>3. CASE pc = "hash" /\ op.content = c /\ i = op.id
  BY <1>1, <1>3, KnownStep DEF DedupInv
<1> QED BY <1>2, <1>3, NamedStep

\* Put takes an identifier no record names.
LEMMA PutIsFresh ==
  ASSUME TypeInv, DedupInv, [Next]_vars, pc' = "doc"
  PROVE  (op.id \in used /\ \A c \in Contents : op.id \notin Named(c))'
<1>1. CASE UNCHANGED vars
  BY <1>1 DEF vars, engine, DedupInv, Named, Now
<1>2. ASSUME NEW d \in Contents, NEW col \in Collections, NEW i \in Ids, PutNew(d, col, i)
      PROVE  (op.id \in used /\ \A c \in Contents : op.id \notin Named(c))'
  <2>1. op'.id = i /\ i \in used' /\ i \notin used
    BY <1>2 DEF PutNew, Take
  <2>2. \A c \in Contents : i \notin Named(c)
    BY <2>1 DEF DedupInv, Known
  <2>3. \A c \in Contents : Named(c)' = Named(c)
    BY <1>2 DEF PutNew, engine, Named, Now
  <2> QED BY <2>1, <2>2, <2>3
<1>3. UNCHANGED vars \/ \E d \in Contents, col \in Collections, i \in Ids : PutNew(d, col, i)
  BY DEF Next, PutDuplicate, PutDoc, PutHash, PutFails, SaveVectors,
         SaveVectorsFails, Reply, Delete, DeleteCollection, DeleteDoc, DeleteFails,
         Unindex, NextDelete, PutEdge, DeleteEdge, AddEdge, AddEdgeFails, RemoveEdge,
         RemoveEdgeFails, StartSaving, SaveFt, SaveMeta, SaveGraph, Crash, OpenStore,
         Return
<1> QED BY <1>1, <1>2, <1>3

\* The identifier Put is about to return is that of a known entry.
LEMMA AnswerKnown ==
  ASSUME TypeInv, DedupInv, [Next]_vars, pc' \in {"hash", "vectors", "reply"}
  PROVE  Known(op.id, op.content)'
<1>1. CASE PutDoc
  BY <1>1, PutStores
<1>2. ASSUME NEW c \in Contents, NEW col \in Collections, PutDuplicate(c, col)
      PROVE  Known(op.id, op.content)'
  <2>1. PICK i : i = kv[HashKey(c)]
    OBVIOUS
  <2>2. op'.id = i /\ op'.content = c /\ i # None
    BY <1>2, <2>1 DEF PutDuplicate
  <2>3. Known(i, c)
    BY <2>1, <2>2 DEF DedupInv, Named, Now
  <2>4. Known(i, c)'
    BY <1>2, <2>3 DEF PutDuplicate, Known, Stored, Now, engine
  <2> QED BY <2>2, <2>4 DEF Known, Stored, Now
<1>3. CASE op' = op /\ pc \in {"hash", "vectors", "reply"}
  <2>1. PICK i \in Ids, c \in Contents : i = op.id /\ c = op.content
    BY <1>3 DEF TypeInv, ControlTyped, OpInv, FullOps
  <2>2. Known(i, c)'
    BY <1>3, <2>1, KnownStep DEF DedupInv
  <2> QED BY <1>3, <2>1, <2>2 DEF Known, Stored, Now
<1>4. \/ PutDoc
      \/ op' = op /\ pc \in {"hash", "vectors", "reply"}
      \/ \E c \in Contents, col \in Collections : PutDuplicate(c, col)
  BY DEF Next, vars, PutNew, PutHash, PutFails, SaveVectors,
         SaveVectorsFails, Reply, Delete, DeleteCollection, DeleteDoc, DeleteFails,
         Unindex, NextDelete, PutEdge, DeleteEdge, AddEdge, AddEdgeFails, RemoveEdge,
         RemoveEdgeFails, StartSaving, SaveFt, SaveMeta, SaveGraph, Crash, OpenStore,
         Return
<1> QED BY <1>1, <1>2, <1>3, <1>4

\* Whatever is being deleted was asked to be deleted.
LEMMA DeletesRemoved ==
  ASSUME DedupInv, [Next]_vars
  PROVE  (pc \in {"delete", "unindex"} => op.id \in removed)' /\ (todo \subseteq removed)'
BY DEF DedupInv, Next, vars, NoOp, PutDuplicate, PutNew, PutDoc, PutHash, PutFails,
       SaveVectors, SaveVectorsFails, Reply, Delete, DeleteCollection, DeleteDoc,
       DeleteFails, Unindex, NextDelete, PutEdge, DeleteEdge, AddEdge, AddEdgeFails,
       RemoveEdge, RemoveEdgeFails, StartSaving, SaveFt, SaveMeta, SaveGraph, Crash,
       OpenStore, Return

\* What a record names, or Put is about to answer, is stored or asked to be deleted.
THEOREM DedupCorrect == Spec => [](TypeInv /\ DedupInv)
<1>1. TypeInv /\ DedupInv /\ [Next]_vars => TypeInv' /\ DedupInv'
  <2> SUFFICES ASSUME TypeInv, DedupInv, [Next]_vars PROVE TypeInv' /\ DedupInv'
    OBVIOUS
  <2>1. TypeInv'
    BY EngineStep, ControlStep, IndexStep DEF TypeInv
  <2> QED BY <2>1, NamedKnown, PutIsFresh, AnswerKnown, DeletesRemoved DEF DedupInv
<1> QED BY <1>1, TypeInit, DedupInit, PTL DEF Spec

\* What Known says of the state is that the entry can be read.
LEMMA KnownIsLive ==
  ASSUME NEW i \in Ids, NEW c \in Contents, EngineTyped, Known(i, c), i \notin removed
  PROVE  i \in Live /\ kv[DocKey(i)].content = c
<1>1. PICK l \in Collections : Now(DocKey(i)) = {[content |-> c, coll |-> l]}
  BY DEF Known, Stored
<1>2. kv[DocKey(i)] = [content |-> c, coll |-> l]
  BY <1>1 DEF Now
<1>3. [content |-> c, coll |-> l] # None
  BY StoreAssumption DEF Entries
<1> QED BY <1>2, <1>3 DEF Live

\* A hash record never names an entry that is missing or has another content,
\* unless somebody asked to delete it: whatever calls fail and wherever the
\* process stops, since Put writes the entry before the record.
THEOREM DuplicatesAreStored == Spec => []DuplicatesStored
<1>1. TypeInv /\ DedupInv => DuplicatesStored
  <2> SUFFICES ASSUME TypeInv, DedupInv, NEW c \in Contents,
                      kv[HashKey(c)] \notin {None} \cup removed
               PROVE  kv[HashKey(c)] \in Live /\ kv[DocKey(kv[HashKey(c)])].content = c
    BY DEF DuplicatesStored
  <2>1. kv[HashKey(c)] \in Ids
    BY KeyValues DEF TypeInv, EngineTyped
  <2>2. Known(kv[HashKey(c)], c)
    BY DEF DedupInv, Named, Now
  <2> QED BY <2>1, <2>2, KnownIsLive DEF TypeInv
<1> QED BY <1>1, DedupCorrect, PTL

\* The identifier Put returns is that of a stored entry with the content it was
\* given, unless somebody asked to delete it.
THEOREM AnswersAreStored == Spec => []AnswersStored
<1>1. TypeInv /\ DedupInv => AnswersStored
  BY KnownIsLive DEF AnswersStored, DedupInv, TypeInv, ControlTyped, OpInv, FullOps
<1> QED BY <1>1, DedupCorrect, PTL

-----------------------------------------------------------------------------
(* The indexes. *)

\* deleteUnlocked reaches every chunk.
ChunksCleaned == \A c \in Contents : Chunks[c] <= CleanLimit

\* No call fails, and the process ends by Close only.
Undisturbed == Faults = {} /\ "crash" \notin Stops

-----------------------------------------------------------------------------
(* Entries, parts and edges that are stored. *)

\* A part of a stored entry is a number up to that of its chunks.
LEMMA PartOfEntry ==
  ASSUME NEW p
  PROVE  p \in AllParts <=> \E i \in Live : p \in PartsOf(i, kv[DocKey(i)].content)
BY DEF AllParts

\* Steps that leave the documents alone leave alone what should be indexed.
LEMMA DocsSame ==
  ASSUME \A i \in Ids : kv'[DocKey(i)] = kv[DocKey(i)]
  PROVE  Live' = Live /\ AllParts' = AllParts
<1>1. Live' = Live
  BY DEF Live
<1>2. \A i \in Live : kv'[DocKey(i)] = kv[DocKey(i)]
  BY DEF Live
<1> QED BY <1>1, <1>2 DEF AllParts

\* A new document adds its parts.
LEMMA DocAdded ==
  ASSUME NEW i \in Ids, kv[DocKey(i)] = None, NEW e \in Entries, kv'[DocKey(i)] = e,
         \A j \in Ids \ {i} : kv'[DocKey(j)] = kv[DocKey(j)]
  PROVE  Live' = Live \cup {i} /\ AllParts' = AllParts \cup PartsOf(i, e.content)
<1>1. e # None
  BY StoreAssumption
<1>2. Live' = Live \cup {i} /\ i \notin Live
  BY <1>1 DEF Live
<1>3. \A j \in Live : kv'[DocKey(j)] = kv[DocKey(j)]
  BY <1>2 DEF Live
<1>4. ASSUME NEW p
      PROVE  p \in AllParts' <=> p \in AllParts \/ p \in PartsOf(i, e.content)
  <2>1. p \in AllParts' <=> \E j \in Live \cup {i} : p \in PartsOf(j, kv'[DocKey(j)].content)
    BY <1>2 DEF AllParts, PartsOf
  <2> QED BY <1>3, <2>1, PartOfEntry
<1>5. AllParts' = AllParts \cup PartsOf(i, e.content)
  BY <1>4
<1> QED BY <1>2, <1>5

\* A deleted document takes its parts with it, all of which can be cleaned.
LEMMA DocGone ==
  ASSUME ChunksCleaned, TypeInv, NEW i \in Ids, kv'[DocKey(i)] = None,
         \A j \in Ids \ {i} : kv'[DocKey(j)] = kv[DocKey(j)]
  PROVE  Live' = Live \ {i} /\ AllParts' = AllParts \ Cleaned(i)
<1>1. Live' = Live \ {i} /\ Live \subseteq Ids
  BY DEF Live
<1>2. \A j \in Live \ {i} : kv'[DocKey(j)] = kv[DocKey(j)]
  BY <1>1
<1>3. ASSUME NEW j \in Live, NEW p \in PartsOf(j, kv[DocKey(j)].content)
      PROVE  p \in Cleaned(i) <=> j = i
  <2>1. kv[DocKey(j)] \in Entries
    BY KeyValues DEF TypeInv, EngineTyped, Live
  <2>2. PICK c \in Contents : c = kv[DocKey(j)].content
    BY <2>1 DEF Entries
  <2>3. Chunks[c] \in Nat /\ Chunks[c] <= CleanLimit /\ CleanLimit \in Nat
    BY StoreAssumption DEF ChunksCleaned
  <2>4. PICK n \in 0 .. Chunks[c] : p = <<j, n>>
    BY <2>2 DEF PartsOf
  <2>5. n \in 0 .. CleanLimit
    BY <2>3
  <2> QED BY <2>4, <2>5 DEF Cleaned
<1>4. ASSUME NEW p
      PROVE  p \in AllParts' <=> p \in AllParts /\ p \notin Cleaned(i)
  <2>1. p \in AllParts' <=> \E j \in Live \ {i} : p \in PartsOf(j, kv'[DocKey(j)].content)
    BY <1>1 DEF AllParts, PartsOf
  <2> QED BY <1>2, <1>3, <2>1, PartOfEntry
<1>5. AllParts' = AllParts \ Cleaned(i)
  BY <1>4
<1> QED BY <1>1, <1>5

\* The keys of different edges differ.
LEMMA EdgeKeysDiffer ==
  ASSUME NEW x, NEW y, NEW k \in {"e", "ef", "et"}
  PROVE  <<k, x>> \in EdgeKeys(y) <=> x = y
BY DEF EdgeKeys

\* While the process runs, a key keeps its answer or takes the one being written.
LEMMA RunningEffect ==
  ASSUME [Next]_vars, pc' # "down", NEW k \in EngineKeys, TypeInv
  PROVE  kv'[k] = kv[k] \/ (k \in DOMAIN Pending /\ kv'[k] = Pending[k])
<1>1. PICK ws : ws = Pending
  OBVIOUS
<1> DEFINE Goal == kv'[k] = kv[k] \/ (k \in DOMAIN ws /\ kv'[k] = ws[k])
<1>2. CASE UNCHANGED kv
  BY <1>2
<1>3. CASE EngineWrites(ws)
  <2>1. Goal
    BY <1>3 DEF EngineWrites
  <2> QED BY <1>1, <2>1
<1>4. CASE EngineFails(ws)
  <2>1. PICK done \in SUBSET DOMAIN ws :
          kv' = [q \in EngineKeys |-> IF q \in done THEN ws[q] ELSE kv[q]]
    BY <1>4 DEF EngineFails
  <2>2. Goal
    BY <2>1
  <2> QED BY <1>1, <2>2
<1>5. ASSUME NEW rest, EngineSplits(ws, rest)
      PROVE  kv'[k] = kv[k] \/ (k \in DOMAIN Pending /\ kv'[k] = Pending[k])
  <2>1. Goal
    BY <1>5 DEF EngineSplits
  <2> QED BY <1>1, <2>1
<1>6. \/ UNCHANGED kv \/ EngineWrites(Pending) \/ EngineFails(Pending)
      \/ \E rest : EngineSplits(Pending, rest)
  BY DEF Next, vars, engine, PutDuplicate, PutNew, PutDoc, PutHash, PutFails, SaveVectors,
         SaveVectorsFails, Reply, Delete, DeleteCollection, DeleteDoc, DeleteFails,
         EngineDeleteFails, Unindex, PutEdge, DeleteEdge, AddEdge, AddEdgeFails,
         RemoveEdge, RemoveEdgeFails, StartSaving, SaveFt, SaveMeta, SaveGraph, Crash,
         OpenStore
<1> QED BY <1>1, <1>2, <1>3, <1>4, <1>5, <1>6

-----------------------------------------------------------------------------
(* Identifiers. *)

\* An identifier that was not handed out, or whose entry Put is about to write,
\* has no document, now or after a restart.
FreshInv ==
  /\ \A i \in Ids \ used : Now(DocKey(i)) = {None}
  /\ pc = "doc" => Now(DocKey(op.id)) = {None}

\* A key without a value that nobody is writing stays without.
LEMMA StaysNone ==
  ASSUME TypeInv, TypeInv', [Next]_vars, NEW k \in EngineKeys, Now(k) = {None},
         k \in DOMAIN Pending => Pending[k] = None
  PROVE  Now(k)' = {None}
<1>1. Now(k)' \subseteq {None}
  BY EngineEffect
<1>2. kv'[k] \in Now(k)'
  BY DEF Now
<1> QED BY <1>1, <1>2

\* Only Put writes a document, and only under the identifier it was just given.
LEMMA FreshStep ==
  ASSUME TypeInv, TypeInv', DedupInv, FreshInv, [Next]_vars
  PROVE  FreshInv'
<1>1. used \subseteq used'
  BY HistoryStep
<1>2. ASSUME NEW i \in Ids \ used'
      PROVE  Now(DocKey(i))' = {None}
  <2>1. i \in Ids \ used /\ DocKey(i) \in EngineKeys
    BY <1>1 DEF EngineKeys
  <2>2. DocKey(i) \in DOMAIN Pending => pc = "delete" /\ op.id = i
    BY <2>1, PendingKeys DEF DedupInv
  <2>3. pc = "delete" => Pending = [k \in {DocKey(op.id)} |-> None]
    BY DEF Pending
  <2>4. DocKey(i) \in DOMAIN Pending => Pending[DocKey(i)] = None
    BY <2>2, <2>3
  <2> QED BY <2>1, <2>4, StaysNone DEF FreshInv
<1>3. ASSUME pc' = "doc"
      PROVE  Now(DocKey(op.id))' = {None}
  <2>1. CASE \E c \in Contents, col \in Collections, i \in Ids : PutNew(c, col, i)
    <3>1. PICK c \in Contents, col \in Collections, i \in Ids : PutNew(c, col, i)
      BY <2>1
    <3>2. op'.id = i /\ i \in Ids \ used /\ UNCHANGED engine
      BY <3>1 DEF PutNew, Take
    <3> QED BY <3>2 DEF FreshInv, Now, engine
  <2>2. CASE UNCHANGED vars
    BY <1>3, <2>2 DEF vars, engine, FreshInv, Now
  <2>3. \/ \E c \in Contents, col \in Collections, i \in Ids : PutNew(c, col, i)
        \/ UNCHANGED vars
    BY <1>3 DEF Next, PutDuplicate, PutDoc, PutHash, PutFails, SaveVectors, SaveVectorsFails,
       Reply, Delete, DeleteCollection, DeleteDoc, DeleteFails, Unindex, NextDelete, PutEdge,
       DeleteEdge, AddEdge, AddEdgeFails, RemoveEdge, RemoveEdgeFails, StartSaving, SaveFt,
       SaveMeta, SaveGraph, Crash, OpenStore, Return
  <2> QED BY <2>1, <2>2, <2>3
<1> QED BY <1>2, <1>3 DEF FreshInv

\* At the first start nothing was handed out and nothing is stored.
LEMMA FreshInit == Init => FreshInv
<1> SUFFICES ASSUME Init, NEW i \in Ids PROVE Now(DocKey(i)) = {None}
  BY DEF Init, FreshInv
<1>1. DocKey(i) \in EngineKeys
  BY DEF EngineKeys
<1> QED BY <1>1 DEF Init, Kept!Init, Now

\* What the methods that write or remove documents do to them.
LEMMA DocEffect ==
  ASSUME TypeInv, DedupInv, FreshInv, [Next]_vars, pc' # "down", ChunksCleaned
  PROVE  /\ pc \notin {"doc", "delete"} => Live' = Live /\ AllParts' = AllParts
         /\ pc = "doc" => Live \subseteq Live' /\ AllParts \subseteq AllParts'
         /\ PutDoc => /\ Live' = Live \cup {op.id}
                      /\ AllParts' = AllParts \cup PartsOf(op.id, op.content)
         /\ DeleteDoc => Live' = Live \ {op.id} /\ AllParts' = AllParts \ Cleaned(op.id)
         /\ pc = "delete" /\ ~DeleteDoc => Live' = Live /\ AllParts' = AllParts
<1>1. \A i \in Ids : DocKey(i) \in EngineKeys
  BY DEF EngineKeys
<1>2. \A i \in Ids : kv'[DocKey(i)] = kv[DocKey(i)] \/ (pc \in {"doc", "delete"} /\ op.id = i)
  BY <1>1, RunningEffect, PendingKeys
<1>3. pc \notin {"doc", "delete"} => Live' = Live /\ AllParts' = AllParts
  BY <1>2, DocsSame
<1>4. ASSUME pc = "doc"
      PROVE  /\ Live \subseteq Live' /\ AllParts \subseteq AllParts'
             /\ PutDoc => /\ Live' = Live \cup {op.id}
                          /\ AllParts' = AllParts \cup PartsOf(op.id, op.content)
  <2> DEFINE e == [content |-> op.content, coll |-> op.coll]
  <2>1. /\ op.id \in Ids /\ e \in Entries /\ kv[DocKey(op.id)] = None
        /\ Pending = [k \in {DocKey(op.id)} |-> e]
    BY <1>4 DEF TypeInv, ControlTyped, OpInv, FullOps, Entries, FreshInv, Now, Pending
  <2>2. kv'[DocKey(op.id)] \in {kv[DocKey(op.id)], e}
    BY <1>1, <2>1, RunningEffect
  <2>3. \A j \in Ids \ {op.id} : kv'[DocKey(j)] = kv[DocKey(j)]
    BY <1>2
  <2>4. kv'[DocKey(op.id)] = e =>
          Live' = Live \cup {op.id} /\ AllParts' = AllParts \cup PartsOf(op.id, op.content)
    BY <2>1, <2>3, DocAdded
  <2>5. kv'[DocKey(op.id)] = kv[DocKey(op.id)] => Live' = Live /\ AllParts' = AllParts
    BY <2>3, DocsSame
  <2>6. PutDoc => kv'[DocKey(op.id)] = e
    BY <1>1, <2>1 DEF PutDoc, EngineWrites
  <2> QED BY <2>2, <2>4, <2>5, <2>6
<1>5. ASSUME pc = "delete"
      PROVE  /\ DeleteDoc => Live' = Live \ {op.id} /\ AllParts' = AllParts \ Cleaned(op.id)
             /\ ~DeleteDoc => Live' = Live /\ AllParts' = AllParts
  <2>1. op.id \in Ids /\ Pending = [k \in {DocKey(op.id)} |-> None]
    BY <1>5 DEF TypeInv, ControlTyped, OpInv, Pending
  <2>2. \A j \in Ids \ {op.id} : kv'[DocKey(j)] = kv[DocKey(j)]
    BY <1>2
  <2>3. DeleteDoc => kv'[DocKey(op.id)] = None
    BY <1>1, <2>1 DEF DeleteDoc, EngineWrites
  <2>4. ~DeleteDoc => UNCHANGED kv
    BY <1>5 DEF Next, vars, engine, PutDuplicate, PutNew, PutDoc, PutHash, PutFails, SaveVectors,
         SaveVectorsFails, Reply, Delete, DeleteCollection, DeleteFails,
         EngineDeleteFails, Unindex, PutEdge, DeleteEdge, AddEdge, AddEdgeFails,
         RemoveEdge, RemoveEdgeFails, StartSaving, SaveFt, SaveMeta, SaveGraph, Crash,
         OpenStore
  <2> QED BY <2>1, <2>2, <2>3, <2>4, DocGone, DocsSame
<1>6. PutDoc => pc = "doc"
  BY DEF PutDoc
<1>7. DeleteDoc => pc = "delete"
  BY DEF DeleteDoc
<1> QED BY <1>3, <1>4, <1>5, <1>6, <1>7

\* What the methods of edges do to them.
LEMMA EdgeEffect ==
  ASSUME TypeInv, [Next]_vars, pc' # "down"
  PROVE  /\ pc \notin {"edge", "unlink"} => LiveEdges' = LiveEdges
         /\ pc = "edge" => LiveEdges \subseteq LiveEdges'
         /\ AddEdge => LiveEdges' = LiveEdges \cup {op.id}
         /\ RemoveEdge => LiveEdges' = LiveEdges \ {op.id}
         /\ pc = "unlink" /\ ~RemoveEdge => LiveEdges' = LiveEdges
<1>1. \A x \in Edges : <<"e", x>> \in EngineKeys
  BY DEF EngineKeys, EdgeKeys
<1>2. \A x \in Edges : <<"e", x>> \in DOMAIN Pending => pc \in {"edge", "unlink"} /\ op.id = x
  <2> SUFFICES ASSUME NEW x \in Edges, <<"e", x>> \in DOMAIN Pending
               PROVE  pc \in {"edge", "unlink"} /\ op.id = x
    OBVIOUS
  <2>1. CASE pc \in {"edge", "unlink"}
    <3>1. DOMAIN Pending = EdgeKeys(op.id)
      BY <2>1 DEF Pending
    <3> QED BY <2>1, <3>1, EdgeKeysDiffer
  <2>2. CASE pc \in {"doc", "delete", "hash"}
    <3>1. DOMAIN Pending = {DocKey(op.id)} \/ DOMAIN Pending = {HashKey(op.content)}
      BY <2>2 DEF Pending
    <3> QED BY <3>1 DEF DocKey, HashKey
  <2>3. CASE pc \notin {"doc", "hash", "delete", "edge", "unlink"}
    <3>1. DOMAIN Pending = {}
      BY <2>3 DEF Pending
    <3> QED BY <3>1
  <2> QED BY <2>1, <2>2, <2>3
<1>3. \A x \in Edges : \/ kv'[<<"e", x>>] = kv[<<"e", x>>]
                       \/ (pc \in {"edge", "unlink"} /\ op.id = x
                          /\ kv'[<<"e", x>>] = Pending[<<"e", x>>])
  BY <1>1, <1>2, RunningEffect
<1>4. pc \notin {"edge", "unlink"} => LiveEdges' = LiveEdges
  BY <1>3 DEF LiveEdges
<1>5. ASSUME pc = "edge"
      PROVE  LiveEdges \subseteq LiveEdges' /\ (AddEdge => LiveEdges' = LiveEdges \cup {op.id})
  <2>1. op.id \in Edges /\ op.id # None /\ Pending = [k \in EdgeKeys(op.id) |-> op.id]
    BY <1>5, StoreAssumption DEF TypeInv, ControlTyped, OpInv, Pending
  <2>2. <<"e", op.id>> \in EdgeKeys(op.id)
    BY EdgeKeysDiffer
  <2>3. \A x \in Edges : kv'[<<"e", x>>] = kv[<<"e", x>>] \/ (x = op.id /\ kv'[<<"e", x>>] = op.id)
    BY <1>3, <2>1, <2>2
  <2>4. AddEdge => kv'[<<"e", op.id>>] = op.id
    <3>1. PICK ws : ws = Pending
      OBVIOUS
    <3>2. <<"e", op.id>> \notin {<<"et", op.id>>} /\ <<"e", op.id>> \notin {<<"ef", op.id>>, <<"et", op.id>>}
      OBVIOUS
    <3>3. AddEdge => kv' = [k \in EngineKeys |-> IF k \in DOMAIN ws THEN ws[k] ELSE kv[k]]
      BY <3>1 DEF AddEdge, EngineWrites, EngineSplits
    <3> QED BY <1>1, <2>1, <2>2, <3>1, <3>3
  <2> QED BY <2>1, <2>3, <2>4 DEF LiveEdges
<1>6. ASSUME pc = "unlink"
      PROVE  IF RemoveEdge THEN LiveEdges' = LiveEdges \ {op.id} ELSE LiveEdges' = LiveEdges
  <2>1. op.id \in Edges /\ Pending = [k \in EdgeKeys(op.id) |-> None]
    BY <1>6 DEF TypeInv, ControlTyped, OpInv, Pending
  <2>2. <<"e", op.id>> \in EdgeKeys(op.id)
    BY EdgeKeysDiffer
  <2>3. RemoveEdge => kv'[<<"e", op.id>>] = None
    BY <1>1, <2>1, <2>2 DEF RemoveEdge, EngineWrites
  <2>4. ~RemoveEdge => UNCHANGED kv
    BY <1>6 DEF Next, vars, engine, PutDuplicate, PutNew, PutDoc, PutHash, PutFails, SaveVectors,
         SaveVectorsFails, Reply, Delete, DeleteCollection, DeleteDoc, DeleteFails, Unindex,
         PutEdge, DeleteEdge, AddEdge, AddEdgeFails, RemoveEdgeFails, EngineDeleteFails,
         StartSaving, SaveFt, SaveMeta, SaveGraph, Crash, OpenStore
  <2> QED BY <1>3, <2>3, <2>4 DEF LiveEdges
<1>7. (AddEdge => pc = "edge") /\ (RemoveEdge => pc = "unlink")
  BY DEF AddEdge, RemoveEdge
<1> QED BY <1>4, <1>5, <1>6, <1>7

-----------------------------------------------------------------------------
(* Failures and crashes: what indexes name is known. *)

\* Every key has one outcome.
SettledInv == \A k \in EngineKeys : outcomes[k] = {kv[k]}

\* What the indexes and their files name.
Usable(file) == IF file = Unusable THEN {} ELSE file

NamedParts == ft \cup vec \cup vecDisk \cup Usable(snapFt)
NamedEntries == meta \cup Usable(snapMeta)
NamedEdges == graph \cup Usable(snapGraph)

PartKnown(p) ==
  \E i \in Ids, c \in Contents : p \in PartsOf(i, c) /\ Known(i, c)

EntryKnown(i) == \E c \in Contents : Known(i, c)

\* Edge x is stored, whether or not the process restarts, or asked to be deleted.
EdgeKnown(x) == x \in removed \/ None \notin Now(<<"e", x>>)

KnownInv ==
  /\ \A p \in NamedParts : PartKnown(p)
  /\ \A i \in NamedEntries : EntryKnown(i)
  /\ \A x \in NamedEdges : EdgeKnown(x)
  /\ pc = "down" => SettledInv
  /\ pc = "unlink" => op.id \in removed

\* A known entry stays known: Put writes only what was not stored before.
LEMMA KnownStays ==
  ASSUME TypeInv, DedupInv, FreshInv, [Next]_vars, NEW i \in Ids, NEW c \in Contents, Known(i, c)
  PROVE  Known(i, c)'
<1>1. CASE i \in removed
  BY <1>1, HistoryStep DEF Known
<1>2. CASE i \notin removed
  <2>1. PICK l \in Collections : Now(DocKey(i)) = {[content |-> c, coll |-> l]}
    BY <1>2 DEF Known, Stored
  <2>2. [content |-> c, coll |-> l] # None
    BY StoreAssumption DEF Entries
  <2>3. Now(DocKey(i)) # {None}
    BY <2>1, <2>2
  <2>4. pc = "doc" => op.id # i
    BY <2>3 DEF FreshInv
  <2> QED BY <2>4, KnownStep
<1> QED BY <1>1, <1>2

\* The keys of an edge are written by its own methods.
LEMMA EdgePending ==
  ASSUME OpInv, NEW x \in Edges, <<"e", x>> \in DOMAIN Pending
  PROVE  /\ pc \in {"edge", "unlink"} /\ op.id = x
         /\ pc = "edge" => Pending[<<"e", x>>] # None
<1>1. CASE pc \in {"edge", "unlink"}
  <2>1. DOMAIN Pending = EdgeKeys(op.id) /\ (pc = "edge" => Pending = [k \in EdgeKeys(op.id) |-> op.id])
    BY <1>1 DEF Pending
  <2>2. op.id = x
    BY <2>1, EdgeKeysDiffer
  <2> QED BY <1>1, <2>1, <2>2, StoreAssumption
<1>2. CASE pc \in {"doc", "delete", "hash"}
  <2>1. DOMAIN Pending = {DocKey(op.id)} \/ DOMAIN Pending = {HashKey(op.content)}
    BY <1>2 DEF Pending
  <2> QED BY <2>1 DEF DocKey, HashKey
<1>3. CASE pc \notin {"doc", "hash", "delete", "edge", "unlink"}
  <2>1. DOMAIN Pending = {}
    BY <1>3 DEF Pending
  <2> QED BY <2>1
<1> QED BY <1>1, <1>2, <1>3

\* A known edge stays known: only DeleteEdge takes it away, and remembers it.
LEMMA EdgeStays ==
  ASSUME TypeInv, KnownInv, [Next]_vars, NEW x \in Edges, EdgeKnown(x)
  PROVE  EdgeKnown(x)'
<1>1. CASE x \in removed
  BY <1>1, HistoryStep DEF EdgeKnown
<1>2. CASE x \notin removed
  <2>1. <<"e", x>> \in EngineKeys /\ None \notin Now(<<"e", x>>)
    BY <1>2 DEF EngineKeys, EdgeKeys, EdgeKnown
  <2>2. <<"e", x>> \in DOMAIN Pending => Pending[<<"e", x>>] # None
    BY <1>2, EdgePending DEF KnownInv, TypeInv, ControlTyped
  <2>3. None \notin Now(<<"e", x>>)'
    BY <2>1, <2>2, EngineEffect
  <2> QED BY <2>3 DEF EdgeKnown
<1> QED BY <1>1, <1>2

\* PutEdge writes the edge itself before a flush can split its batch.
LEMMA AddEdgeStores ==
  ASSUME TypeInv, AddEdge, NEW x \in Edges, x = op.id
  PROVE  EdgeKnown(x)'
<1>1. PICK ws : ws = [k \in EdgeKeys(x) |-> x] /\ ws = Pending
  BY DEF AddEdge, Pending
<1>2. <<"e", x>> \in EngineKeys /\ <<"e", x>> \in EdgeKeys(x) /\ x # None
  BY StoreAssumption DEF EngineKeys, EdgeKeys
<1>3. \/ EngineWrites(ws) \/ EngineSplits(ws, {<<"et", x>>})
      \/ EngineSplits(ws, {<<"ef", x>>, <<"et", x>>})
  BY <1>1 DEF AddEdge
<1>4. <<"e", x>> \notin {<<"et", x>>} /\ <<"e", x>> \notin {<<"ef", x>>, <<"et", x>>}
  OBVIOUS
<1>5. kv'[<<"e", x>>] = x /\ outcomes'[<<"e", x>>] = {x}
  BY <1>1, <1>2, <1>3, <1>4 DEF EngineWrites, EngineSplits
<1> QED BY <1>2, <1>5 DEF EdgeKnown, Now

\* What the engine answers after a start is what it keeps, so that a rebuilt index
\* names what is known.
LEMMA RebuiltKnown ==
  ASSUME TypeInv, FreshInv, SettledInv
  PROVE  /\ \A p \in AllParts : PartKnown(p)
         /\ \A i \in Live : EntryKnown(i)
         /\ \A x \in LiveEdges : EdgeKnown(x)
<1>1. ASSUME NEW i \in Live
      PROVE  \E c \in Contents : Known(i, c) /\ kv[DocKey(i)].content = c
  <2>1. i \in Ids /\ kv[DocKey(i)] # None /\ DocKey(i) \in EngineKeys
    BY DEF Live, EngineKeys
  <2>2. PICK c \in Contents, l \in Collections : kv[DocKey(i)] = [content |-> c, coll |-> l]
    BY <2>1, KeyValues DEF TypeInv, EngineTyped, Entries
  <2>3. Now(DocKey(i)) = {[content |-> c, coll |-> l]}
    BY <2>1, <2>2 DEF SettledInv, Now
  <2>4. i \in used
    BY <2>1 DEF FreshInv, Now
  <2> QED BY <2>2, <2>3, <2>4 DEF Known, Stored
<1>2. ASSUME NEW p \in AllParts PROVE PartKnown(p)
  <2>1. PICK i \in Live : p \in PartsOf(i, kv[DocKey(i)].content)
    BY PartOfEntry
  <2>2. PICK c \in Contents : Known(i, c) /\ kv[DocKey(i)].content = c
    BY <1>1
  <2>3. i \in Ids /\ p \in PartsOf(i, c)
    BY <2>1, <2>2 DEF Live
  <2> QED BY <2>2, <2>3 DEF PartKnown
<1>3. ASSUME NEW x \in LiveEdges PROVE EdgeKnown(x)
  <2>1. x \in Edges /\ kv[<<"e", x>>] # None /\ <<"e", x>> \in EngineKeys
    BY DEF LiveEdges, EngineKeys, EdgeKeys
  <2> QED BY <2>1 DEF SettledInv, EdgeKnown, Now
<1> QED BY <1>1, <1>2, <1>3 DEF EntryKnown

\* An index and its file come to name nothing but what Put or PutEdge has just
\* stored, or what a start finds in the engine.
LEMMA NamedEffect ==
  ASSUME TypeInv, [Next]_vars
  PROVE  /\ NamedParts' \subseteq NamedParts
              \cup (IF PutHash THEN PartsOf(op.id, op.content) ELSE {})
              \cup (IF OpenStore THEN AllParts ELSE {})
         /\ NamedEntries' \subseteq NamedEntries
              \cup (IF PutHash THEN {op.id} ELSE {}) \cup (IF OpenStore THEN Live ELSE {})
         /\ NamedEdges' \subseteq NamedEdges
              \cup (IF AddEdge THEN {op.id} ELSE {}) \cup (IF OpenStore THEN LiveEdges ELSE {})
<1> DEFINE
      Named3 == NamedParts' \subseteq NamedParts /\ NamedEntries' \subseteq NamedEntries
                  /\ NamedEdges' \subseteq NamedEdges
<1> USE DEF NamedParts, NamedEntries, NamedEdges, Usable
<1>1. CASE PutHash
  BY <1>1 DEF PutHash, snapshots
<1>2. CASE OpenStore
  BY <1>2 DEF OpenStore, LoadSnapshots, RebuildIndexes, Trusted, snapshots
<1>3. CASE AddEdge
  BY <1>3 DEF AddEdge, snapshots
<1>4. CASE UNCHANGED <<indexes, snapshots, vecDisk>>
  BY <1>4 DEF indexes, snapshots
<1>5. CASE RemoveEdge \/ SaveVectors
  <2>1. Named3
    BY <1>5 DEF RemoveEdge, SaveVectors, indexes, snapshots
  <2> QED BY <2>1
<1>6. CASE Unindex
  <2>1. vecDisk' \subseteq vec \cup vecDisk
    BY <1>6 DEF Unindex, VectorsSaved
  <2>2. Named3
    BY <1>6, <2>1 DEF Unindex, snapshots
  <2> QED BY <2>2
<1>7. CASE SaveFt \/ SaveMeta
  <2>1. Named3
    BY <1>7 DEF SaveFt, SaveMeta, Saved, indexes
  <2> QED BY <2>1
<1>8. CASE SaveGraph
  <2>1. Named3
    BY <1>8 DEF SaveGraph, Saved, Gone, indexes
  <2> QED BY <2>1
<1>9. CASE Crash
  <2>1. vecDisk' \subseteq vec \cup vecDisk
    BY <1>9 DEF Crash, VectorsFound, VectorsSaved
  <2>2. Named3
    BY <1>9, <2>1 DEF Crash, Gone, CutShort
  <2> QED BY <2>2
<1>10. \/ UNCHANGED <<indexes, snapshots, vecDisk>>
       \/ PutHash \/ SaveVectors \/ Unindex \/ AddEdge \/ RemoveEdge
       \/ SaveFt \/ SaveMeta \/ SaveGraph \/ Crash \/ OpenStore
  BY DEF Next, vars, PutDuplicate, PutNew, PutDoc, PutFails, SaveVectorsFails, Reply,
         Delete, DeleteCollection, DeleteDoc, DeleteFails, PutEdge, DeleteEdge,
         AddEdgeFails, RemoveEdgeFails, StartSaving
<1> HIDE DEF NamedParts, NamedEntries, NamedEdges, Usable, Named3
<1> QED BY <1>1, <1>2, <1>3, <1>4, <1>5, <1>6, <1>7, <1>8, <1>9, <1>10

\* What is named is typed.
LEMMA NamedTypes ==
  ASSUME TypeInv
  PROVE  NamedEntries \subseteq Ids /\ NamedEdges \subseteq Edges
BY DEF TypeInv, IndexTyped, NamedEntries, NamedEdges, Usable

\* While the process is down every key has one outcome, and DeleteEdge remembers
\* the edge it removes.
LEMMA DownSettled ==
  ASSUME TypeInv, KnownInv, [Next]_vars
  PROVE  (pc' = "down" => SettledInv') /\ (pc' = "unlink" => op'.id \in removed')
<1>1. ASSUME pc' = "down" PROVE SettledInv'
  <2>1. CASE UNCHANGED vars
    BY <1>1, <2>1 DEF vars, engine, KnownInv, SettledInv
  <2>2. CASE Reopened
    BY <2>2 DEF Reopened, SettledInv
  <2>3. UNCHANGED vars \/ Reopened
    BY <1>1 DEF Next, PutDuplicate, PutNew, PutDoc, PutHash, PutFails, SaveVectors,
       SaveVectorsFails, Reply, Delete, DeleteCollection, DeleteDoc, DeleteFails, Unindex,
       NextDelete, PutEdge, DeleteEdge, AddEdge, AddEdgeFails, RemoveEdge, RemoveEdgeFails,
       StartSaving, SaveFt, SaveMeta, SaveGraph, Crash, OpenStore, Return
  <2> QED BY <2>1, <2>2, <2>3
<1>2. pc' = "unlink" => op'.id \in removed'
  <2>1. pc = "unlink" => op.id \in removed
    BY DEF KnownInv
  <2>2. CASE UNCHANGED vars
    BY <2>1, <2>2 DEF vars
  <2>3. ASSUME NEW x \in Edges, DeleteEdge(x) PROVE op'.id \in removed'
    BY <2>3 DEF DeleteEdge, NoOp
  <2>4. pc' = "unlink" => UNCHANGED vars \/ \E x \in Edges : DeleteEdge(x)
    BY DEF Next, PutDuplicate, PutNew, PutDoc, PutHash, PutFails, SaveVectors,
       SaveVectorsFails, Reply, Delete, DeleteCollection, DeleteDoc, DeleteFails, Unindex,
       NextDelete, PutEdge, AddEdge, AddEdgeFails, RemoveEdge, RemoveEdgeFails,
       StartSaving, SaveFt, SaveMeta, SaveGraph, Crash, OpenStore, Return
  <2> QED BY <2>2, <2>3, <2>4
<1> QED BY <1>1, <1>2

\* Whatever is named stays known, and what comes to be named is known.
LEMMA KnownInvStep ==
  ASSUME TypeInv, TypeInv', DedupInv, DedupInv', FreshInv, KnownInv, [Next]_vars
  PROVE  KnownInv'
<1>1. OpenStore => /\ \A p \in AllParts : PartKnown(p)
                   /\ \A i \in Live : EntryKnown(i)
                   /\ \A x \in LiveEdges : EdgeKnown(x)
  BY RebuiltKnown DEF OpenStore, KnownInv
<1>2. PutHash => op.id \in Ids /\ op.content \in Contents /\ Known(op.id, op.content)
  BY DEF PutHash, DedupInv, TypeInv, ControlTyped, OpInv, FullOps
<1>3. \A p : PartKnown(p) => PartKnown(p)'
  BY KnownStays DEF PartKnown, PartsOf
<1>4. \A i \in Ids : EntryKnown(i) => EntryKnown(i)'
  BY KnownStays DEF EntryKnown
<1>5. ASSUME NEW p \in NamedParts' PROVE PartKnown(p)'
  <2>1. PartKnown(p)
    BY <1>1, <1>2, NamedEffect DEF KnownInv, PartKnown
  <2> QED BY <1>3, <2>1
<1>6. ASSUME NEW i \in NamedEntries' PROVE EntryKnown(i)'
  <2>1. i \in Ids
    BY DEF TypeInv, IndexTyped, NamedEntries, Usable
  <2>2. EntryKnown(i)
    BY <1>1, <1>2, NamedEffect DEF KnownInv, EntryKnown
  <2> QED BY <1>4, <2>1, <2>2
<1>7. ASSUME NEW x \in NamedEdges' PROVE EdgeKnown(x)'
  <2>1. x \in Edges
    BY DEF TypeInv, IndexTyped, NamedEdges, Usable
  <2>2. EdgeKnown(x) \/ (AddEdge /\ x = op.id)
    BY <1>1, NamedEffect DEF KnownInv
  <2> QED BY <2>1, <2>2, EdgeStays, AddEdgeStores
<1> QED BY <1>5, <1>6, <1>7, DownSettled DEF KnownInv

\* Nothing is named before the first start.
LEMMA KnownInit == Init => KnownInv
BY DEF Init, Kept!Init, KnownInv, SettledInv, NamedParts, NamedEntries, NamedEdges, Usable

\* What the indexes and their files name is known, through every failure, crash
\* and mixture of snapshot files.
THEOREM KnownCorrect == Spec => [](TypeInv /\ DedupInv /\ FreshInv /\ KnownInv)
<1>1. TypeInv /\ DedupInv /\ FreshInv /\ KnownInv /\ TypeInv' /\ DedupInv' /\ [Next]_vars
        => FreshInv' /\ KnownInv'
  BY FreshStep, KnownInvStep
<1> QED BY <1>1, DedupCorrect, FreshInit, KnownInit, PTL DEF Spec

\* Whatever an index or one of its files names is stored or was asked to be
\* deleted, for any chunks, faults, snapshots and crashes: Put and PutEdge store
\* before they index, and no file ever holds more than some index once did.
THEOREM HitsAreKnown == Spec => []HitsKnown
<1>1. TypeInv /\ KnownInv => HitsKnown
  <2> SUFFICES ASSUME TypeInv, KnownInv PROVE HitsKnown
    OBVIOUS
  <2>1. ASSUME NEW p \in NamedParts PROVE p \in AllParts \/ p[1] \in removed
    <3>1. PICK i \in Ids, c \in Contents : p \in PartsOf(i, c) /\ Known(i, c)
      BY DEF KnownInv, PartKnown
    <3>2. p[1] = i
      BY <3>1 DEF PartsOf
    <3>3. CASE i \notin removed
      <4>1. i \in Live /\ kv[DocKey(i)].content = c
        BY <3>1, <3>3, KnownIsLive DEF TypeInv
      <4>2. p \in PartsOf(i, kv[DocKey(i)].content)
        BY <3>1, <4>1
      <4> QED BY <4>1, <4>2, PartOfEntry
    <3> QED BY <3>2, <3>3
  <2>2. NamedEntries \subseteq Live \cup removed
    BY NamedTypes, KnownIsLive DEF KnownInv, EntryKnown, TypeInv
  <2>3. NamedEdges \subseteq LiveEdges \cup removed
    BY NamedTypes DEF KnownInv, EdgeKnown, Now, LiveEdges
  <2> QED BY <2>1, <2>2, <2>3 DEF HitsKnown, NamedParts, NamedEntries, NamedEdges, Usable
<1> QED BY <1>1, KnownCorrect, PTL

-----------------------------------------------------------------------------
(* Failures and crashes: what is stored stays indexed. *)

\* Delete cleans the indexes only after the engine has let the entry go.
GoneInv == pc = "unindex" => op.id \notin Live

\* A failed delete does not go on to the indexes.
LEMMA GoneStep ==
  ASSUME TypeInv, GoneInv, [Next]_vars
  PROVE  GoneInv'
<1>1. CASE DeleteDoc
  <2>1. pc = "delete" /\ op.id \in Ids /\ op' = op
    BY <1>1 DEF DeleteDoc, TypeInv, ControlTyped, OpInv
  <2>2. DocKey(op.id) \in EngineKeys /\ Pending = [k \in {DocKey(op.id)} |-> None]
    BY <2>1 DEF EngineKeys, Pending
  <2>3. kv'[DocKey(op.id)] = None
    BY <1>1, <2>2 DEF DeleteDoc, EngineWrites
  <2> QED BY <2>1, <2>3 DEF GoneInv, Live
<1>2. CASE UNCHANGED vars
  BY <1>2 DEF vars, engine, GoneInv, Live
<1>3. DeleteDoc \/ UNCHANGED vars \/ pc' # "unindex"
  BY DEF Next, PutDuplicate, PutNew, PutDoc, PutHash, PutFails, SaveVectors,
     SaveVectorsFails, Reply, Delete, DeleteCollection, DeleteFails, Unindex,
     NextDelete, PutEdge, DeleteEdge, AddEdge, AddEdgeFails, RemoveEdge, RemoveEdgeFails,
     StartSaving, SaveFt, SaveMeta, SaveGraph, Crash, OpenStore, Return
<1> QED BY <1>1, <1>2, <1>3 DEF GoneInv

\* While the process runs, an index loses nothing that is stored: a delete that
\* fails, alone or in DeleteCollection, leaves its entry indexed, and so does every
\* other call that fails.
THEOREM StoredStayIndexed == Spec => StoredStaysIndexed
<1> DEFINE
      A == pc # "down" /\ pc' # "down" =>
             /\ ft \cap AllParts' \subseteq ft' /\ vec \cap AllParts' \subseteq vec'
             /\ meta \cap Live' \subseteq meta'
             /\ graph \cap LiveEdges' \subseteq graph'
<1>1. TypeInv /\ GoneInv /\ [Next]_vars => [A]_vars
  <2> SUFFICES ASSUME TypeInv, GoneInv, [Next]_vars, pc # "down", pc' # "down" PROVE A
    OBVIOUS
  <2>1. CASE Unindex
    <3>1. pc = "unindex" /\ UNCHANGED <<kv, graph>>
          /\ ft' = ft \ Cleaned(op.id) /\ meta' = meta \ {op.id} /\ vec' = vec \ Cleaned(op.id)
      BY <2>1 DEF Unindex, engine
    <3>2. Live' = Live /\ AllParts' = AllParts /\ op.id \notin Live
      BY <3>1, DocsSame DEF GoneInv
    <3>3. AllParts \cap Cleaned(op.id) = {}
      BY <3>2, PartOfEntry DEF PartsOf, Cleaned
    <3> QED BY <3>1, <3>2, <3>3
  <2>2. CASE RemoveEdge
    BY <2>2, EdgeEffect DEF RemoveEdge
  <2>3. CASE ft \subseteq ft' /\ vec \subseteq vec' /\ meta \subseteq meta' /\ graph \subseteq graph'
    BY <2>3
  <2>4. \/ Unindex \/ RemoveEdge
        \/ ft \subseteq ft' /\ vec \subseteq vec' /\ meta \subseteq meta' /\ graph \subseteq graph'
    BY DEF Next, vars, indexes, PutDuplicate, PutNew, PutDoc, PutHash, PutFails, SaveVectors,
       SaveVectorsFails, Reply, Delete, DeleteCollection, DeleteDoc, DeleteFails,
       PutEdge, DeleteEdge, AddEdge, AddEdgeFails, RemoveEdgeFails, StartSaving, SaveFt,
       SaveMeta, SaveGraph, Crash, OpenStore
  <2> QED BY <2>1, <2>2, <2>3, <2>4
<1>2. Init => GoneInv
  BY DEF Init, GoneInv
<1>3. TypeInv /\ GoneInv /\ [Next]_vars => GoneInv'
  BY GoneStep
<1> QED BY <1>1, <1>2, <1>3, TypeCorrect, PTL DEF Spec, StoredStaysIndexed

-----------------------------------------------------------------------------
(* No failures, clean stops: indexes, snapshots and engine agree exactly.   *)

\* Undisturbed calls write what they are asked to, and a clean stop loses nothing.
LEMMA UndisturbedCalls ==
  ASSUME Undisturbed, TypeInv, SettledInv, [Next]_vars
  PROVE  /\ SettledInv'
         /\ kv' = kv \/ (EngineWrites(Pending) /\ pc \in {"doc", "hash", "delete", "edge", "unlink"})
         /\ pc' = "down" => kv' = kv
<1>1. ~Crash /\ ~PutFails /\ ~AddEdgeFails /\ ~DeleteFails /\ ~RemoveEdgeFails
  <2>1. ~EngineFails(Pending) /\ ~EngineDeleteFails(Pending)
    BY DEF EngineFails, EngineDeleteFails, Undisturbed
  <2> QED BY <2>1 DEF Crash, PutFails, AddEdgeFails, DeleteFails, RemoveEdgeFails, Undisturbed
<1>2. CASE EngineWrites(Pending) /\ pc \in {"doc", "hash", "delete", "edge", "unlink"} /\ pc' # "down"
  <2>1. PICK ws : ws = Pending
    OBVIOUS
  <2>2. SettledInv'
    BY <1>2, <2>1 DEF EngineWrites, SettledInv
  <2> QED BY <1>2, <2>2
<1>3. CASE UNCHANGED engine
  BY <1>3 DEF engine, SettledInv
<1>4. CASE SaveGraph /\ Reopened
  <2>1. Pending = [k \in {} |-> None]
    BY <1>4 DEF SaveGraph, Pending
  <2>2. \A k \in EngineKeys : May(k) = {kv[k]}
    BY <2>1 DEF May, SettledInv
  <2>3. kv' = [k \in EngineKeys |-> kv'[k]] /\ \A k \in EngineKeys : kv'[k] \in May(k)
    BY <1>4, RestartMay DEF Reopened, TypeInv
  <2>4. kv = [k \in EngineKeys |-> kv[k]]
    BY DEF TypeInv, EngineTyped
  <2>5. \A k \in EngineKeys : kv'[k] = kv[k]
    BY <2>2, <2>3
  <2>6. kv' = kv
    BY <2>3, <2>4, <2>5
  <2>7. SettledInv'
    BY <1>4 DEF Reopened, SettledInv
  <2> QED BY <2>6, <2>7
<1>5. \/ UNCHANGED engine \/ (SaveGraph /\ Reopened)
      \/ EngineWrites(Pending) /\ pc \in {"doc", "hash", "delete", "edge", "unlink"} /\ pc' # "down"
  BY <1>1 DEF Next, vars, PutDuplicate, PutNew, PutDoc, PutHash, SaveVectors, SaveVectorsFails,
     Reply, Delete, DeleteCollection, DeleteDoc, Unindex, PutEdge, DeleteEdge, AddEdge,
     EngineSplits, Undisturbed, RemoveEdge, StartSaving, SaveFt, SaveMeta, SaveGraph,
     OpenStore, Return
<1> QED BY <1>2, <1>3, <1>4, <1>5

\* An edge is stored with both of its adjacency keys, or not at all.
AdjacencyInv ==
  \A x \in Edges, k \in {"ef", "et"} : kv[<<k, x>>] # None <=> x \in LiveEdges

\* Batches of edges are not split as long as nothing fails.
LEMMA AdjacencyStep ==
  ASSUME Undisturbed, TypeInv, SettledInv, AdjacencyInv, [Next]_vars
  PROVE  AdjacencyInv'
<1>1. CASE kv' = kv
  BY <1>1 DEF AdjacencyInv, LiveEdges
<1>2. CASE EngineWrites(Pending) /\ pc \in {"edge", "unlink"}
  <2>1. PICK v : Pending = [k \in EdgeKeys(op.id) |-> v]
    BY <1>2 DEF Pending
  <2>2. kv' = [k \in EngineKeys |-> IF k \in EdgeKeys(op.id) THEN v ELSE kv[k]]
    BY <1>2, <2>1 DEF EngineWrites
  <2>3. \A x \in Edges, k \in {"e", "ef", "et"} :
          kv'[<<k, x>>] = IF x = op.id THEN v ELSE kv[<<k, x>>]
    <3> TAKE x \in Edges, k \in {"e", "ef", "et"}
    <3>1. <<k, x>> \in EngineKeys
      BY DEF EngineKeys, EdgeKeys
    <3> QED BY <2>2, <3>1, EdgeKeysDiffer
  <2>4. ASSUME NEW x \in Edges, NEW k \in {"ef", "et"}
        PROVE  kv'[<<k, x>>] # None <=> x \in LiveEdges'
    <3>1. (x \in LiveEdges <=> kv[<<"e", x>>] # None) /\ (x \in LiveEdges' <=> kv'[<<"e", x>>] # None)
      BY DEF LiveEdges
    <3>2. kv[<<k, x>>] # None <=> x \in LiveEdges
      BY DEF AdjacencyInv
    <3>3. kv'[<<k, x>>] = (IF x = op.id THEN v ELSE kv[<<k, x>>])
          /\ kv'[<<"e", x>>] = (IF x = op.id THEN v ELSE kv[<<"e", x>>])
      BY <2>3
    <3> QED BY <3>1, <3>2, <3>3
  <2> QED BY <2>4 DEF AdjacencyInv
<1>3. CASE EngineWrites(Pending) /\ pc \in {"doc", "hash", "delete"}
  <2>1. DOMAIN Pending = {DocKey(op.id)} \/ DOMAIN Pending = {HashKey(op.content)}
    BY <1>3 DEF Pending
  <2>2. \A x \in Edges, k \in {"e", "ef", "et"} : kv'[<<k, x>>] = kv[<<k, x>>]
    <3> TAKE x \in Edges, k \in {"e", "ef", "et"}
    <3>1. <<k, x>> \in EngineKeys /\ <<k, x>> \notin DOMAIN Pending
      BY <2>1 DEF EngineKeys, EdgeKeys, DocKey, HashKey
    <3> QED BY <1>3, <3>1 DEF EngineWrites
  <2> QED BY <2>2 DEF AdjacencyInv, LiveEdges
<1> QED BY <1>1, <1>2, <1>3, UndisturbedCalls

\* What Delete has removed from the engine and not yet from the indexes.
Leaving == IF pc = "unindex" THEN {op.id} ELSE {}
LeavingParts == IF pc = "unindex" THEN Cleaned(op.id) ELSE {}

\* What Put has written to the engine and not yet put into the indexes.
Missing == IF pc = "hash" THEN {op.id} ELSE {}
MissingParts == IF pc = "hash" THEN PartsOf(op.id, op.content) ELSE {}

\* While the process runs.
RunningAgree ==
  /\ (ft \cup MissingParts) \ LeavingParts = AllParts
  /\ (meta \cup Missing) \ Leaving = Live
  /\ graph = LiveEdges
  /\ Embedding => (vec \cup MissingParts) \ LeavingParts = AllParts
  /\ Embedding /\ pc # "vectors" => vecDisk = vec

\* While it is down: what the next start will load, if it trusts the snapshots.
DownAgree ==
  /\ Trusted => snapFt = AllParts /\ snapMeta = Live /\ snapGraph = LiveEdges
  /\ Embedding => vecDisk = AllParts

AgreeInv ==
  /\ pc # "down" => RunningAgree
  /\ pc = "down" => DownAgree
  /\ pc = "saveMeta" => snapFt = ft
  /\ pc = "saveGraph" => snapFt = ft /\ snapMeta = meta

\* Steps that neither write documents or edges nor touch an index or a file.
LEMMA QuietAgree ==
  ASSUME AgreeInv, UNCHANGED <<ft, meta, graph, vec, vecDisk, snapFt, snapMeta>>,
         Live' = Live, AllParts' = AllParts, LiveEdges' = LiveEdges,
         pc \notin {"hash", "unindex", "vectors", "down"},
         pc' \notin {"hash", "unindex", "vectors", "down", "saveMeta", "saveGraph"}
  PROVE  AgreeInv'
BY DEF AgreeInv, RunningAgree, Missing, MissingParts, Leaving, LeavingParts

\* Each step takes indexes, files and engine to the same entries and edges.
LEMMA AgreeStep ==
  ASSUME Undisturbed, ChunksCleaned, TypeInv, DedupInv, FreshInv, SettledInv, AgreeInv,
         [Next]_vars
  PROVE  AgreeInv'
<1> USE DEF Missing, MissingParts, Leaving, LeavingParts
<1>1. CASE UNCHANGED vars
  <2>1. Live' = Live /\ AllParts' = AllParts /\ LiveEdges' = LiveEdges
    BY <1>1, DocsSame DEF vars, engine, LiveEdges
  <2>2. UNCHANGED <<pc, op, ft, meta, graph, vec, vecDisk, snapFt, snapMeta, snapGraph>>
    BY <1>1 DEF vars, indexes, snapshots
  <2>3. LeavingParts' = LeavingParts /\ MissingParts' = MissingParts
    BY <2>2 DEF Cleaned, PartsOf
  <2>4. Trusted' = Trusted
    BY <2>1, <2>2 DEF Trusted
  <2> HIDE DEF LeavingParts, MissingParts
  <2> QED BY <2>1, <2>2, <2>3, <2>4 DEF AgreeInv, RunningAgree, DownAgree
<1>2. CASE PutDoc
  <2>1. pc = "doc" /\ pc' = "hash" /\ op' = op
        /\ UNCHANGED <<ft, meta, graph, vec, vecDisk, snapFt, snapMeta>>
    BY <1>2 DEF PutDoc, indexes, snapshots
  <2>2. LiveEdges' = LiveEdges /\ Live' = Live \cup {op.id}
        /\ AllParts' = AllParts \cup PartsOf(op.id, op.content)
    BY <1>2, <2>1, DocEffect, EdgeEffect
  <2>3. MissingParts' = PartsOf(op.id, op.content) /\ Missing' = {op.id}
    BY <2>1 DEF PartsOf
  <2> QED BY <2>1, <2>2, <2>3 DEF AgreeInv, RunningAgree
<1>3. CASE PutHash
  <2>1. /\ pc = "hash" /\ pc' = (IF Embedding THEN "vectors" ELSE "reply")
        /\ UNCHANGED <<graph, vecDisk, snapFt, snapMeta>>
        /\ ft' = ft \cup PartsOf(op.id, op.content) /\ meta' = meta \cup {op.id}
        /\ vec' = IF Embedding THEN vec \cup PartsOf(op.id, op.content) ELSE vec
    BY <1>3 DEF PutHash, snapshots
  <2>2. LiveEdges' = LiveEdges /\ Live' = Live /\ AllParts' = AllParts
    BY <2>1, DocEffect, EdgeEffect
  <2> QED BY <2>1, <2>2 DEF AgreeInv, RunningAgree
<1>4. CASE SaveVectors \/ SaveVectorsFails
  <2>1. pc = "vectors" /\ pc' = "reply" /\ UNCHANGED <<ft, meta, graph, vec, snapFt, snapMeta>>
        /\ vecDisk' = vec
    BY <1>4 DEF SaveVectors, SaveVectorsFails, Undisturbed, indexes, snapshots
  <2>2. LiveEdges' = LiveEdges /\ Live' = Live /\ AllParts' = AllParts
    BY <2>1, DocEffect, EdgeEffect
  <2> QED BY <2>1, <2>2 DEF AgreeInv, RunningAgree
<1>5. CASE DeleteDoc
  <2>1. pc = "delete" /\ pc' = "unindex" /\ op' = op
        /\ UNCHANGED <<ft, meta, graph, vec, vecDisk, snapFt, snapMeta>>
    BY <1>5 DEF DeleteDoc, indexes, snapshots
  <2>2. LiveEdges' = LiveEdges /\ Live' = Live \ {op.id} /\ AllParts' = AllParts \ Cleaned(op.id)
    BY <1>5, <2>1, DocEffect, EdgeEffect
  <2>3. LeavingParts' = Cleaned(op.id) /\ Leaving' = {op.id}
    BY <2>1 DEF Cleaned
  <2> QED BY <2>1, <2>2, <2>3 DEF AgreeInv, RunningAgree
<1>6. CASE Unindex
  <2>1. /\ pc = "unindex" /\ pc' \in {"idle", "delete"} /\ UNCHANGED <<graph, snapFt, snapMeta>>
        /\ ft' = ft \ Cleaned(op.id) /\ meta' = meta \ {op.id} /\ vec' = vec \ Cleaned(op.id)
        /\ vecDisk' = vec'
    BY <1>6 DEF Unindex, NextDelete, Return, snapshots, Undisturbed
  <2>2. LiveEdges' = LiveEdges /\ Live' = Live /\ AllParts' = AllParts
    BY <2>1, DocEffect, EdgeEffect
  <2> QED BY <2>1, <2>2 DEF AgreeInv, RunningAgree
<1>7. CASE AddEdge \/ RemoveEdge
  <2>1. /\ pc \in {"edge", "unlink"} /\ pc' = "idle"
        /\ UNCHANGED <<ft, meta, vec, vecDisk, snapFt, snapMeta>>
        /\ (AddEdge => graph' = graph \cup {op.id})
        /\ (RemoveEdge => graph' = graph \ {op.id})
    BY <1>7 DEF AddEdge, RemoveEdge, Return, snapshots
  <2>2. Live' = Live /\ AllParts' = AllParts
    BY <2>1, DocEffect
  <2>3. CASE AddEdge
    BY <2>1, <2>2, <2>3, EdgeEffect DEF AgreeInv, RunningAgree
  <2>4. CASE RemoveEdge
    BY <2>1, <2>2, <2>4, EdgeEffect DEF AgreeInv, RunningAgree
  <2> QED BY <1>7, <2>3, <2>4
<1>8. CASE SaveFt \/ SaveMeta
  <2>1. /\ pc \in {"saveFt", "saveMeta"} /\ UNCHANGED <<ft, meta, graph, vec, vecDisk>>
        /\ \/ pc' = "saveMeta" /\ snapFt' = ft
           \/ pc' = "saveGraph" /\ pc = "saveMeta" /\ snapMeta' = meta /\ snapFt' = snapFt
    BY <1>8 DEF SaveFt, SaveMeta, Saved, Undisturbed, indexes
  <2>2. LiveEdges' = LiveEdges /\ Live' = Live /\ AllParts' = AllParts
    BY <2>1, DocEffect, EdgeEffect
  <2> QED BY <2>1, <2>2 DEF AgreeInv, RunningAgree
<1>9. CASE SaveGraph
  <2>1. kv' = kv
    BY <1>9, UndisturbedCalls DEF SaveGraph
  <2>2. LiveEdges' = LiveEdges /\ Live' = Live /\ AllParts' = AllParts
    BY <2>1, DocsSame DEF LiveEdges
  <2>3. /\ pc = "saveGraph" /\ snapGraph' = graph /\ UNCHANGED <<snapFt, snapMeta, vecDisk>>
        /\ \/ pc' = "down"
           \/ pc' = "idle" /\ UNCHANGED <<ft, meta, graph, vec>>
    BY <1>9 DEF SaveGraph, Saved, Undisturbed, indexes
  <2>4. snapFt' = AllParts /\ snapMeta' = Live /\ snapGraph' = LiveEdges
        /\ (Embedding => vecDisk' = AllParts)
    BY <2>3 DEF AgreeInv, RunningAgree
  <2>5. CASE pc' = "down"
    BY <2>2, <2>4, <2>5 DEF AgreeInv, DownAgree
  <2>6. CASE pc' = "idle" /\ UNCHANGED <<ft, meta, graph, vec>>
    BY <2>2, <2>3, <2>6 DEF AgreeInv, RunningAgree
  <2> QED BY <2>3, <2>5, <2>6
<1>10. CASE OpenStore
  <2>1. pc = "down" /\ pc' = "idle" /\ kv' = kv /\ vec' = vecDisk /\ vecDisk' = vecDisk
        /\ UNCHANGED <<snapFt, snapMeta>>
    BY <1>10 DEF OpenStore, engine, snapshots
  <2>2. LiveEdges' = LiveEdges /\ Live' = Live /\ AllParts' = AllParts
    BY <2>1, DocsSame DEF LiveEdges
  <2>3. ft' = AllParts /\ meta' = Live /\ graph' = LiveEdges
    <3>1. CASE LoadSnapshots
      <4>1. snapGraph = LiveEdges /\ LiveEdges \in SUBSET Edges
        BY <2>1, <3>1 DEF AgreeInv, DownAgree, LoadSnapshots, LiveEdges
      <4>2. snapGraph # Unusable
        BY <4>1, StoreAssumption
      <4> QED BY <2>1, <3>1, <4>1, <4>2 DEF AgreeInv, DownAgree, LoadSnapshots
    <3>2. CASE RebuildIndexes
      BY <3>2 DEF RebuildIndexes
    <3> QED BY <1>10, <3>1, <3>2 DEF OpenStore
  <2> QED BY <2>1, <2>2, <2>3 DEF AgreeInv, RunningAgree, DownAgree
<1> DEFINE Rest ==
      \/ \E c \in Contents, col \in Collections :
           PutDuplicate(c, col) \/ \E i \in Ids : PutNew(c, col, i)
      \/ Reply
      \/ \E i \in Ids : Delete(i)
      \/ \E col \in Collections : DeleteCollection(col)
      \/ \E x \in Edges : PutEdge(x) \/ DeleteEdge(x)
      \/ \E close \in BOOLEAN : StartSaving(close)
<1>11. CASE Rest
  <2>1. /\ UNCHANGED <<ft, meta, graph, vec, vecDisk, snapFt, snapMeta, kv>>
        /\ pc \in {"idle", "reply"}
        /\ pc' \notin {"hash", "unindex", "vectors", "down", "saveMeta", "saveGraph"}
    BY <1>11 DEF PutDuplicate, PutNew, Reply, Delete, DeleteCollection, PutEdge, DeleteEdge,
       StartSaving, Return, engine, indexes, snapshots
  <2>2. LiveEdges' = LiveEdges /\ Live' = Live /\ AllParts' = AllParts
    BY <2>1, DocsSame DEF LiveEdges
  <2> QED BY <2>1, <2>2, QuietAgree
<1>12. ~Crash /\ ~PutFails /\ ~AddEdgeFails /\ ~DeleteFails /\ ~RemoveEdgeFails
  <2>1. ~EngineFails(Pending) /\ ~EngineDeleteFails(Pending)
    BY DEF EngineFails, EngineDeleteFails, Undisturbed
  <2> QED BY <2>1 DEF Crash, PutFails, AddEdgeFails, DeleteFails, RemoveEdgeFails, Undisturbed
<1>13. Next => \/ PutDoc \/ PutHash \/ PutFails \/ SaveVectors \/ SaveVectorsFails \/ DeleteDoc
               \/ DeleteFails \/ Unindex \/ AddEdge \/ AddEdgeFails \/ RemoveEdge \/ RemoveEdgeFails
               \/ SaveFt \/ SaveMeta \/ SaveGraph \/ Crash \/ OpenStore \/ Rest
  BY Zenon DEF Next
<1> HIDE DEF Rest
<1> QED BY <1>1, <1>2, <1>3, <1>4, <1>5, <1>6, <1>7, <1>8, <1>9, <1>10, <1>11, <1>12, <1>13

-----------------------------------------------------------------------------
(* No failures, clean stops: no content is stored twice.                    *)

\* The record of a content names the one entry that has it. Put writes the
\* record second, and looks for it before it writes anything.
RecordInv ==
  /\ pc \in {"doc", "hash"} => kv[HashKey(op.content)] = None
  /\ \A i \in Live :
       \/ kv[HashKey(kv[DocKey(i)].content)] = i
       \/ pc = "hash" /\ op.id = i /\ op.content = kv[DocKey(i)].content

\* Put finds the record of a content before it would store the content again.
LEMMA RecordStep ==
  ASSUME Undisturbed, TypeInv, FreshInv, SettledInv, RecordInv, [Next]_vars
  PROVE  RecordInv'
<1>1. /\ \A i \in Ids : DocKey(i) \in EngineKeys
      /\ \A c \in Contents : HashKey(c) \in EngineKeys
      /\ \A i \in Live : i \in Ids /\ i # None /\ kv[DocKey(i)].content \in Contents
  <2>1. \A i \in Live : i \in Ids /\ kv[DocKey(i)] \in Entries
    BY KeyValues DEF TypeInv, EngineTyped, Live
  <2> QED BY <2>1, StoreAssumption DEF EngineKeys, Entries
<1>2. CASE PutDoc
  <2> DEFINE e == [content |-> op.content, coll |-> op.coll]
  <2>1. /\ pc = "doc" /\ pc' = "hash" /\ op' = op /\ op.id \in Ids /\ op.content \in Contents
        /\ Pending = [k \in {DocKey(op.id)} |-> e] /\ EngineWrites(Pending)
    BY <1>2 DEF PutDoc, TypeInv, ControlTyped, OpInv, FullOps, Pending
  <2>2. kv' = [k \in EngineKeys |-> IF k = DocKey(op.id) THEN e ELSE kv[k]]
    BY <2>1 DEF EngineWrites
  <2>3. \A c \in Contents : kv'[HashKey(c)] = kv[HashKey(c)]
    BY <1>1, <2>2, KeysDiffer
  <2>4. \A i \in Ids : kv'[DocKey(i)] = IF i = op.id THEN e ELSE kv[DocKey(i)]
    BY <1>1, <2>2, KeysDiffer
  <2>5. Live' \subseteq Live \cup {op.id}
    BY <2>4 DEF Live
  <2>6. ASSUME NEW i \in Live'
        PROVE  \/ kv'[HashKey(kv'[DocKey(i)].content)] = i
               \/ pc' = "hash" /\ op'.id = i /\ op'.content = kv'[DocKey(i)].content
    <3>1. CASE i = op.id
      BY <2>1, <2>4, <3>1
    <3>2. CASE i # op.id
      <4>1. i \in Live /\ kv'[DocKey(i)] = kv[DocKey(i)]
        BY <1>1, <2>4, <2>5, <3>2
      <4>2. kv[HashKey(kv[DocKey(i)].content)] = i
        BY <2>1, <4>1 DEF RecordInv
      <4> QED BY <1>1, <2>3, <4>1, <4>2
    <3> QED BY <3>1, <3>2
  <2>7. kv'[HashKey(op'.content)] = None
    BY <2>1, <2>3 DEF RecordInv
  <2> QED BY <2>6, <2>7 DEF RecordInv
<1>3. CASE PutHash
  <2>1. /\ pc = "hash" /\ pc' \in {"vectors", "reply"} /\ op.id \in Ids /\ op.content \in Contents
        /\ Pending = [k \in {HashKey(op.content)} |-> op.id] /\ EngineWrites(Pending)
    BY <1>3 DEF PutHash, TypeInv, ControlTyped, OpInv, FullOps, Pending
  <2>2. kv' = [k \in EngineKeys |-> IF k = HashKey(op.content) THEN op.id ELSE kv[k]]
    BY <2>1 DEF EngineWrites
  <2>3. \A i \in Ids : kv'[DocKey(i)] = kv[DocKey(i)]
    BY <1>1, <2>2, KeysDiffer
  <2>4. \A c \in Contents : kv'[HashKey(c)] = IF c = op.content THEN op.id ELSE kv[HashKey(c)]
    BY <1>1, <2>2, KeysDiffer
  <2>5. Live' = Live
    BY <2>3 DEF Live
  <2>6. ASSUME NEW i \in Live
        PROVE  kv'[HashKey(kv[DocKey(i)].content)] = i
    <3>1. kv[HashKey(op.content)] = None
      BY <2>1 DEF RecordInv
    <3> QED BY <1>1, <2>4, <3>1 DEF RecordInv
  <2>7. \A i \in Live' : kv'[HashKey(kv'[DocKey(i)].content)] = i
    BY <1>1, <2>3, <2>5, <2>6
  <2> QED BY <2>1, <2>7 DEF RecordInv
<1>4. CASE DeleteDoc
  <2>1. /\ pc = "delete" /\ pc' = "unindex" /\ op.id \in Ids
        /\ Pending = [k \in {DocKey(op.id)} |-> None] /\ EngineWrites(Pending)
    BY <1>4 DEF DeleteDoc, TypeInv, ControlTyped, OpInv, Pending
  <2>2. kv' = [k \in EngineKeys |-> IF k = DocKey(op.id) THEN None ELSE kv[k]]
    BY <2>1 DEF EngineWrites
  <2>3. \A c \in Contents : kv'[HashKey(c)] = kv[HashKey(c)]
    BY <1>1, <2>2, KeysDiffer
  <2>4. \A i \in Ids : kv'[DocKey(i)] = IF i = op.id THEN None ELSE kv[DocKey(i)]
    BY <1>1, <2>2, KeysDiffer
  <2>5. \A i \in Live' : i \in Live /\ kv'[DocKey(i)] = kv[DocKey(i)]
    BY <2>4 DEF Live
  <2>6. \A i \in Live' : kv'[HashKey(kv'[DocKey(i)].content)] = i
    BY <1>1, <2>1, <2>3, <2>5 DEF RecordInv
  <2> QED BY <2>1, <2>6 DEF RecordInv
<1>5. CASE AddEdge \/ RemoveEdge
  <2>1. pc \in {"edge", "unlink"} /\ pc' = "idle"
    BY <1>5 DEF AddEdge, RemoveEdge, Return
  <2>2. /\ \A i \in Ids : kv'[DocKey(i)] = kv[DocKey(i)]
        /\ \A c \in Contents : kv'[HashKey(c)] = kv[HashKey(c)]
    BY <1>1, <2>1, RunningEffect, PendingKeys
  <2>3. Live' = Live
    BY <2>2 DEF Live
  <2>4. \A i \in Live' : kv'[HashKey(kv'[DocKey(i)].content)] = i
    BY <1>1, <2>1, <2>2, <2>3 DEF RecordInv
  <2> QED BY <2>1, <2>4 DEF RecordInv
<1>6. CASE kv' = kv /\ pc # "hash" /\ (pc' \in {"doc", "hash"} => kv[HashKey(op'.content)] = None)
  BY <1>6 DEF RecordInv, Live
<1>7. CASE UNCHANGED vars
  BY <1>7 DEF vars, engine, RecordInv, Live
<1>8. ASSUME NEW c \in Contents, NEW col \in Collections, NEW i \in Ids, PutNew(c, col, i)
      PROVE  kv' = kv /\ pc # "hash" /\ (pc' \in {"doc", "hash"} => kv[HashKey(op'.content)] = None)
  BY <1>8 DEF PutNew, engine
<1>9. ~PutFails /\ ~AddEdgeFails /\ ~DeleteFails /\ ~RemoveEdgeFails
  <2>1. ~EngineFails(Pending) /\ ~EngineDeleteFails(Pending)
    BY DEF EngineFails, EngineDeleteFails, Undisturbed
  <2> QED BY <2>1 DEF PutFails, AddEdgeFails, DeleteFails, RemoveEdgeFails
<1>10. pc' = "down" => kv' = kv
  BY UndisturbedCalls
<1>11. \/ PutDoc \/ PutHash \/ DeleteDoc \/ AddEdge \/ RemoveEdge \/ UNCHANGED vars
       \/ \E c \in Contents, col \in Collections, i \in Ids : PutNew(c, col, i)
       \/ kv' = kv /\ pc # "hash" /\ pc' \notin {"doc", "hash"}
  BY <1>9, <1>10 DEF Next, engine, PutDuplicate, SaveVectors, SaveVectorsFails, Reply, Delete,
     DeleteCollection, Unindex, NextDelete, PutEdge, DeleteEdge, StartSaving, SaveFt, SaveMeta,
     SaveGraph, Crash, Undisturbed, OpenStore, Return
<1> QED BY <1>2, <1>3, <1>4, <1>5, <1>6, <1>7, <1>8, <1>11

-----------------------------------------------------------------------------

\* An empty store agrees with its empty indexes.
LEMMA AgreeInit == Init => SettledInv /\ AdjacencyInv /\ AgreeInv /\ RecordInv
<1> SUFFICES ASSUME Init PROVE SettledInv /\ AdjacencyInv /\ AgreeInv /\ RecordInv
  OBVIOUS
<1>1. /\ kv = [k \in EngineKeys |-> None] /\ outcomes = [k \in EngineKeys |-> {None}]
      /\ pc = "down" /\ vecDisk = {} /\ snapFt = Unusable
  BY DEF Init, Kept!Init
<1>2. Live = {} /\ AllParts = {}
  <2>1. \A i \in Ids : DocKey(i) \in EngineKeys
    BY DEF EngineKeys
  <2> QED BY <1>1, <2>1 DEF Live, AllParts
<1>3. \A x \in Edges, k \in {"e", "ef", "et"} : kv[<<k, x>>] = None
  <2>1. \A x \in Edges, k \in {"e", "ef", "et"} : <<k, x>> \in EngineKeys
    BY DEF EngineKeys, EdgeKeys
  <2> QED BY <1>1, <2>1
<1>4. SettledInv /\ AdjacencyInv
  BY <1>1, <1>3 DEF SettledInv, AdjacencyInv, LiveEdges
<1>5. AgreeInv /\ RecordInv
  BY <1>1, <1>2 DEF AgreeInv, DownAgree, Trusted, RecordInv
<1> QED BY <1>4, <1>5

\* What holds of a store nobody disturbs, whatever is put, deleted, saved and
\* loaded again.
THEOREM UndisturbedCorrect ==
  ASSUME Undisturbed, ChunksCleaned
  PROVE  Spec => [](TypeInv /\ AdjacencyInv /\ AgreeInv /\ RecordInv)
<1>1. TypeInv /\ DedupInv /\ FreshInv /\ SettledInv /\ AdjacencyInv /\ AgreeInv /\ RecordInv
        /\ TypeInv' /\ DedupInv' /\ [Next]_vars
        => FreshInv' /\ SettledInv' /\ AdjacencyInv' /\ AgreeInv' /\ RecordInv'
  BY FreshStep, UndisturbedCalls, AdjacencyStep, AgreeStep, RecordStep
<1> QED BY <1>1, DedupCorrect, FreshInit, AgreeInit, PTL DEF Spec

\* Between methods every index has exactly what the engine has, and an edge both
\* of its adjacency keys, whatever was put, deleted, saved and loaded before:
\* the indexes are kept in step by hand in four methods, and come back from
\* three snapshot files and the vector file.
THEOREM IndexesAlwaysAgree ==
  ASSUME Undisturbed, ChunksCleaned
  PROVE  Spec => []IndexesAgree
<1>1. AdjacencyInv /\ AgreeInv => IndexesAgree
  BY DEF AdjacencyInv, AgreeInv, RunningAgree, Missing, MissingParts, Leaving, LeavingParts,
     IndexesAgree
<1> QED BY <1>1, UndisturbedCorrect, PTL

\* No collection has a content twice, also after deletes and restarts.
THEOREM ContentStoredOnce ==
  ASSUME Undisturbed, ChunksCleaned
  PROVE  Spec => []StoredOnce
<1>1. TypeInv /\ RecordInv => StoredOnce
  <2> SUFFICES ASSUME TypeInv, RecordInv, NEW i \in Live, NEW j \in Live,
                      kv[DocKey(i)] = kv[DocKey(j)]
               PROVE  i = j
    BY DEF StoredOnce
  <2>1. i # None /\ j # None
    BY StoreAssumption DEF Live
  <2> QED BY <2>1 DEF RecordInv
<1> QED BY <1>1, UndisturbedCorrect, PTL
=============================================================================
