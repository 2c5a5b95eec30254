------------------------------- MODULE Store -------------------------------
(***************************************************************************)
(* The context store of src/internal/context: entries and edges in the     *)
(* storage engine, with a hash record per content for exact deduplication, *)
(* and four indexes beside it. The full-text, metadata and graph indexes   *)
(* live in memory and in snapshot files; the vector index saves itself.    *)
(*                                                                         *)
(* Every method that changes the store holds s.mu from start to end, so    *)
(* readers see the store only between methods; a crash sees every stage.   *)
(* The engine below is what DurableMap promises: kv is what it answers,    *)
(* outcomes what it may answer after a restart.                            *)
(*                                                                         *)
(* Abstracted: an entry is its content and its collection; part 0 of an    *)
(* entry is the whole text and part n its n-th chunk; the metadata index   *)
(* is the set of entries it knows. A definition marked "Variant" is a      *)
(* plausible mistake in the definition after it, not part of Next.         *)
(***************************************************************************)
EXTENDS Naturals, FiniteSets

CONSTANTS
  Ids,          \* the identifiers uuid.New hands out to entries
  Contents, Collections,
  Edges,        \* the identifiers of edges
  None,         \* "not found"
  Unusable,     \* a snapshot file that is missing or cut short
  Chunks,       \* Chunks[c]: the number of chunks of content c
  CleanLimit,   \* the chunk indexes deleteUnlocked goes through, 1024 in the code
  Embedding,    \* an embedding engine is configured
  Timer,        \* LAIGHTDB_SNAPSHOT_INTERVAL is set
  Requests,     \* the kinds of requests that are made
  Faults,       \* the calls that may fail, and "split" (see EngineSplits)
  Stops,        \* the ways the process ends
  MaxUsed       \* bound: entries and edges are put below this number of them

AllRequests == {"put", "delete", "putEdge", "deleteEdge"}
AllFaults == {"log", "flush", "split", "vector", "snapshot"}

Entries == {[content |-> c, coll |-> l] : c \in Contents, l \in Collections}

ASSUME StoreAssumption ==
  /\ Chunks \in [Contents -> Nat \ {0}] /\ CleanLimit \in Nat
  /\ Embedding \in BOOLEAN /\ Timer \in BOOLEAN
  /\ Requests \subseteq AllRequests /\ Faults \subseteq AllFaults
  /\ Stops \subseteq {"close", "crash"} /\ MaxUsed \in Nat
  /\ None \notin Ids \cup Edges \cup Entries
  /\ \A S \in SUBSET Edges : S # Unusable

DocKey(i) == <<"d", i>>
HashKey(c) == <<"h", c>>
EdgeKeys(x) == {<<"e", x>>, <<"ef", x>>, <<"et", x>>}
EngineKeys == {DocKey(i) : i \in Ids} \cup {HashKey(c) : c \in Contents}
                \cup UNION {EdgeKeys(x) : x \in Edges}

Parts == Ids \X Nat

VARIABLES
  pc,         \* the stage of the method that holds s.mu; "idle": nobody does
  op,         \* its request: the identifier, content and collection
  todo,       \* entries that Delete or DeleteCollection still has to delete
  used,       \* identifiers handed out
  removed,    \* entries and edges that were ever asked to be deleted
  kv, outcomes,
  ft, meta, graph, vec,              \* the indexes in memory
  snapFt, snapMeta, snapGraph,       \* the snapshot files
  vecDisk,                           \* vector.hnsw
  closing     \* the snapshots are being saved by Close, not by the timer

engine == <<kv, outcomes>>
indexes == <<ft, meta, graph, vec>>
snapshots == <<snapFt, snapMeta, snapGraph>>
vars == <<pc, op, todo, used, removed, engine, indexes, snapshots, vecDisk, closing>>

Kept == INSTANCE DurableMap
          WITH Keys <- EngineKeys, Values <- Entries \cup Ids \cup Edges,
               open <- pc # "down"

NoOp == [id |-> None, content |-> None, coll |-> None]
Ops == [id : Ids \cup Edges \cup {None}, content : Contents \cup {None},
        coll : Collections \cup {None}]

Saving == {"saveFt", "saveMeta", "saveGraph"}
Stages == {"doc", "hash", "vectors", "reply", "delete", "unindex",
           "edge", "unlink"} \cup Saving

TypeOK ==
  /\ pc \in Stages \cup {"idle", "down"}
  /\ op \in Ops /\ todo \in SUBSET Ids /\ used \in SUBSET (Ids \cup Edges)
  /\ removed \in SUBSET (Ids \cup Edges)
  /\ Kept!TypeOK
  /\ ft \in SUBSET Parts /\ vec \in SUBSET Parts /\ vecDisk \in SUBSET Parts
  /\ meta \in SUBSET Ids /\ graph \in SUBSET Edges
  /\ snapFt = Unusable \/ snapFt \in SUBSET Parts
  /\ snapMeta = Unusable \/ snapMeta \in SUBSET Ids
  /\ snapGraph = Unusable \/ snapGraph \in SUBSET Edges
  /\ closing \in BOOLEAN

Init ==
  /\ pc = "down" /\ op = NoOp /\ todo = {} /\ used = {} /\ removed = {}
  /\ Kept!Init
  /\ ft = {} /\ meta = {} /\ graph = {} /\ vec = {} /\ vecDisk = {}
  /\ snapFt = Unusable /\ snapMeta = Unusable /\ snapGraph = Unusable
  /\ closing = FALSE

-----------------------------------------------------------------------------
(* Calls of the engine: ws maps the keys of one request to their new values, *)
(* None for a delete.                                                       *)

Live == {i \in Ids : kv[DocKey(i)] # None}
LiveEdges == {x \in Edges : kv[<<"e", x>>] # None}

\* The parts that are indexed for entry i with content c.
PartsOf(i, c) == {i} \X (0 .. Chunks[c])

EngineWrites(ws) ==
  /\ kv' = [k \in EngineKeys |-> IF k \in DOMAIN ws THEN ws[k] ELSE kv[k]]
  /\ outcomes' = [k \in EngineKeys |-> IF k \in DOMAIN ws THEN {ws[k]} ELSE outcomes[k]]

\* A flush between two pairs of a batch truncates the log, so that the pairs
\* after it are in memory only (Engine, MemtableLogged).
EngineSplits(ws, rest) ==
  /\ "split" \in Faults
  /\ kv' = [k \in EngineKeys |-> IF k \in DOMAIN ws THEN ws[k] ELSE kv[k]]
  /\ outcomes' = [k \in EngineKeys |->
                    IF k \in rest THEN {kv[k], ws[k]}
                    ELSE IF k \in DOMAIN ws THEN {ws[k]} ELSE outcomes[k]]

\* The log failed: reads are as before, a restart may find the request. Or a
\* flush failed after some of the pairs were applied.
EngineFails(ws) ==
  \E done \in {{}} \cup (IF "flush" \in Faults THEN SUBSET DOMAIN ws ELSE {}) :
    /\ done # {} \/ "log" \in Faults
    /\ kv' = [k \in EngineKeys |-> IF k \in done THEN ws[k] ELSE kv[k]]
    /\ outcomes' = [k \in EngineKeys |->
                      IF k \in done THEN {ws[k]}
                      ELSE IF k \in DOMAIN ws THEN outcomes[k] \cup {ws[k]}
                      ELSE outcomes[k]]

\* The log failed under a delete, which never flushes.
EngineDeleteFails(ws) ==
  /\ "log" \in Faults
  /\ UNCHANGED kv
  /\ outcomes' = [k \in EngineKeys |->
                    IF k \in DOMAIN ws THEN outcomes[k] \cup {None} ELSE outcomes[k]]

\* The writes of the call in progress, in part on the disk if the process stops.
Pending ==
  CASE pc = "doc"    -> [k \in {DocKey(op.id)} |-> [content |-> op.content, coll |-> op.coll]]
    [] pc = "hash"   -> [k \in {HashKey(op.content)} |-> op.id]
    [] pc = "delete" -> [k \in {DocKey(op.id)} |-> None]
    [] pc = "edge"   -> [k \in EdgeKeys(op.id) |-> op.id]
    [] pc = "unlink" -> [k \in EdgeKeys(op.id) |-> None]
    [] OTHER         -> [k \in {} |-> None]

\* What the engine may answer after a stop: one outcome for every key.
Restarts ==
  LET May(k) == outcomes[k] \cup (IF k \in DOMAIN Pending THEN {Pending[k]} ELSE {})
      Open == {k \in EngineKeys : Cardinality(May(k)) > 1}
  IN {[k \in EngineKeys |-> IF k \in Open THEN f[k] ELSE CHOOSE v \in May(k) : TRUE] :
        f \in {g \in [Open -> UNION {May(k) : k \in Open}] : \A k \in Open : g[k] \in May(k)}}

\* uuid.New.
Take(id) == id \notin used /\ Cardinality(used) < MaxUsed /\ used' = used \cup {id}

Return == pc' = "idle" /\ op' = NoOp /\ todo' = {}

-----------------------------------------------------------------------------
(* Put. *)

\* FindHashDuplicate: the content is known, from whatever collection.
PutDuplicate(c, col) ==
  /\ pc = "idle" /\ "put" \in Requests
  /\ kv[HashKey(c)] # None
  /\ op' = [id |-> kv[HashKey(c)], content |-> c, coll |-> col]
  /\ pc' = "reply"
  /\ UNCHANGED <<todo, used, removed, engine, indexes, snapshots, vecDisk, closing>>

\* Variant: no deduplication.
PutAlways(c, col, i) ==
  /\ pc = "idle" /\ "put" \in Requests
  /\ Take(i)
  /\ op' = [id |-> i, content |-> c, coll |-> col]
  /\ pc' = "doc"
  /\ UNCHANGED <<todo, removed, engine, indexes, snapshots, vecDisk, closing>>

\* The content is new. Chunks, embeddings and summary change no state, and an
\* embedding that fails ends the method here.
PutNew(c, col, i) ==
  /\ pc = "idle" /\ "put" \in Requests
  /\ kv[HashKey(c)] = None
  /\ Take(i)
  /\ op' = [id |-> i, content |-> c, coll |-> col]
  /\ pc' = "doc"
  /\ UNCHANGED <<todo, removed, engine, indexes, snapshots, vecDisk, closing>>

PutDoc ==
  /\ pc = "doc"
  /\ EngineWrites(Pending)
  /\ pc' = "hash"
  /\ UNCHANGED <<op, todo, used, removed, indexes, snapshots, vecDisk, closing>>

\* RecordHash, then the three indexes in memory.
PutHash ==
  /\ pc = "hash"
  /\ EngineWrites(Pending)
  /\ ft' = ft \cup PartsOf(op.id, op.content)
  /\ meta' = meta \cup {op.id}
  /\ vec' = IF Embedding THEN vec \cup PartsOf(op.id, op.content) ELSE vec
  /\ pc' = IF Embedding THEN "vectors" ELSE "reply"
  /\ UNCHANGED <<op, todo, used, removed, graph, snapshots, vecDisk, closing>>

\* Variant: an error of the first write is ignored.
PutFailsIgnored ==
  /\ pc = "doc"
  /\ EngineFails(Pending)
  /\ pc' = "hash"
  /\ UNCHANGED <<op, todo, used, removed, indexes, snapshots, vecDisk, closing>>

PutFails ==
  /\ pc \in {"doc", "hash"}
  /\ EngineFails(Pending)
  /\ Return
  /\ UNCHANGED <<used, removed, indexes, snapshots, vecDisk, closing>>

SaveVectors ==
  /\ pc = "vectors"
  /\ vecDisk' = vec
  /\ pc' = "reply"
  /\ UNCHANGED <<op, todo, used, removed, engine, indexes, snapshots, closing>>

SaveVectorsFails ==
  /\ pc = "vectors" /\ "vector" \in Faults
  /\ Return
  /\ UNCHANGED <<used, removed, engine, indexes, snapshots, vecDisk, closing>>

\* Put returns op.id.
Reply ==
  /\ pc = "reply"
  /\ Return
  /\ UNCHANGED <<used, removed, engine, indexes, snapshots, vecDisk, closing>>

-----------------------------------------------------------------------------
(* Delete and DeleteCollection. *)

\* deleteUnlocked deletes whatever it is asked to; identifiers that were never
\* handed out change nothing and are left out.
Delete(i) ==
  /\ pc = "idle" /\ "delete" \in Requests
  /\ i \in used
  /\ op' = [NoOp EXCEPT !.id = i] /\ pc' = "delete"
  /\ removed' = removed \cup {i}
  /\ UNCHANGED <<todo, used, engine, indexes, snapshots, vecDisk, closing>>

DeleteCollection(col) ==
  /\ pc = "idle" /\ "delete" \in Requests
  /\ \E i \in Live :
       /\ kv[DocKey(i)].coll = col
       /\ op' = [NoOp EXCEPT !.id = i]
       /\ todo' = {j \in Live \ {i} : kv[DocKey(j)].coll = col}
       /\ removed' = removed \cup {i} \cup todo'
  /\ pc' = "delete"
  /\ UNCHANGED <<used, engine, indexes, snapshots, vecDisk, closing>>

DeleteDoc ==
  /\ pc = "delete"
  /\ EngineWrites(Pending)
  /\ pc' = "unindex"
  /\ UNCHANGED <<op, todo, used, removed, indexes, snapshots, vecDisk, closing>>

\* Variant: the error is ignored and the indexes are cleaned.
DeleteFailsIgnored ==
  /\ pc = "delete"
  /\ EngineDeleteFails(Pending)
  /\ pc' = "unindex"
  /\ UNCHANGED <<op, todo, used, removed, indexes, snapshots, vecDisk, closing>>

DeleteFails ==
  /\ pc = "delete"
  /\ EngineDeleteFails(Pending)
  /\ Return
  /\ UNCHANGED <<used, removed, indexes, snapshots, vecDisk, closing>>

\* DeleteCollection goes on with its next entry.
NextDelete ==
  IF todo = {} THEN Return
  ELSE \E i \in todo : /\ op' = [NoOp EXCEPT !.id = i]
                       /\ todo' = todo \ {i}
                       /\ pc' = "delete"

\* Variant: only the text of the entry is removed.
CleanedText(i) == {<<i, 0>>}

\* The parts deleteUnlocked removes: the text and the chunks up to the limit.
Cleaned(i) == {i} \X (0 .. CleanLimit)

\* VectorIndex.Delete saves after each vector it removes, the text first.
VectorsSaved(i) == {vec \ ({i} \X (0 .. n)) : n \in 0 .. CleanLimit}

\* The errors of Save are ignored.
Unindex ==
  /\ pc = "unindex"
  /\ ft' = ft \ Cleaned(op.id) /\ meta' = meta \ {op.id} /\ vec' = vec \ Cleaned(op.id)
  /\ vecDisk' \in {vec'} \cup
       (IF "vector" \in Faults THEN VectorsSaved(op.id) \cup {vecDisk} ELSE {})
  /\ NextDelete
  /\ UNCHANGED <<used, removed, engine, graph, snapshots, closing>>

-----------------------------------------------------------------------------
(* PutEdge and DeleteEdge. *)

PutEdge(x) ==
  /\ pc = "idle" /\ "putEdge" \in Requests
  /\ Take(x)
  /\ op' = [NoOp EXCEPT !.id = x]
  /\ pc' = "edge"
  /\ UNCHANGED <<todo, removed, engine, indexes, snapshots, vecDisk, closing>>

AddEdge ==
  /\ pc = "edge"
  /\ \/ EngineWrites(Pending)
     \/ EngineSplits(Pending, {<<"et", op.id>>})
     \/ EngineSplits(Pending, {<<"ef", op.id>>, <<"et", op.id>>})
  /\ graph' = graph \cup {op.id}
  /\ Return
  /\ UNCHANGED <<used, removed, ft, meta, vec, snapshots, vecDisk, closing>>

\* Variant: the graph gets the edge all the same.
AddEdgeFailsLinked ==
  /\ pc = "edge"
  /\ EngineFails(Pending)
  /\ graph' = graph \cup {op.id}
  /\ Return
  /\ UNCHANGED <<used, removed, ft, meta, vec, snapshots, vecDisk, closing>>

AddEdgeFails ==
  /\ pc = "edge"
  /\ EngineFails(Pending)
  /\ Return
  /\ UNCHANGED <<used, removed, indexes, snapshots, vecDisk, closing>>

DeleteEdge(x) ==
  /\ pc = "idle" /\ "deleteEdge" \in Requests
  /\ kv[<<"e", x>>] # None
  /\ op' = [NoOp EXCEPT !.id = x]
  /\ pc' = "unlink"
  /\ removed' = removed \cup {x}
  /\ UNCHANGED <<todo, used, engine, indexes, snapshots, vecDisk, closing>>

RemoveEdge ==
  /\ pc = "unlink"
  /\ EngineWrites(Pending)
  /\ graph' = graph \ {op.id}
  /\ Return
  /\ UNCHANGED <<used, removed, ft, meta, vec, snapshots, vecDisk, closing>>

RemoveEdgeFails ==
  /\ pc = "unlink"
  /\ EngineDeleteFails(Pending)
  /\ Return
  /\ UNCHANGED <<used, removed, indexes, snapshots, vecDisk, closing>>

-----------------------------------------------------------------------------
(* Snapshots: three files, one after the other, errors ignored. *)

StartSaving(close) ==
  /\ pc = "idle"
  /\ IF close THEN "close" \in Stops ELSE Timer
  /\ closing' = close
  /\ pc' = "saveFt"
  /\ UNCHANGED <<op, todo, used, removed, engine, indexes, snapshots, vecDisk>>

\* os.WriteFile truncates first: a write that fails leaves a file that no
\* decoder accepts, or the old one.
Saved(new, old) ==
  {new} \cup (IF "snapshot" \in Faults THEN {old, Unusable} ELSE {})

SaveFt ==
  /\ pc = "saveFt"
  /\ snapFt' \in Saved(ft, snapFt)
  /\ pc' = "saveMeta"
  /\ UNCHANGED <<op, todo, used, removed, engine, indexes, snapMeta, snapGraph, vecDisk, closing>>

\* Variant: the wrong index is written.
SaveMetaText ==
  /\ pc = "saveMeta"
  /\ snapMeta' \in Saved(ft, snapMeta)
  /\ pc' = "saveGraph"
  /\ UNCHANGED <<op, todo, used, removed, engine, indexes, snapFt, snapGraph, vecDisk, closing>>

SaveMeta ==
  /\ pc = "saveMeta"
  /\ snapMeta' \in Saved(meta, snapMeta)
  /\ pc' = "saveGraph"
  /\ UNCHANGED <<op, todo, used, removed, engine, indexes, snapFt, snapGraph, vecDisk, closing>>

\* The memory of a process that ends.
Gone == ft' = {} /\ meta' = {} /\ graph' = {} /\ vec' = {}

\* The engine is opened anew: what it finds is what it keeps.
Reopened ==
  /\ kv' \in Restarts
  /\ outcomes' = [k \in EngineKeys |-> {kv'[k]}]

SaveGraph ==
  /\ pc = "saveGraph"
  /\ snapGraph' \in Saved(graph, snapGraph)
  /\ closing' = FALSE
  /\ IF closing THEN pc' = "down" /\ Reopened /\ Gone
                ELSE pc' = "idle" /\ UNCHANGED <<engine, indexes>>
  /\ UNCHANGED <<op, todo, used, removed, snapFt, snapMeta, vecDisk>>

-----------------------------------------------------------------------------
(* Starts and stops. *)

\* The snapshot file being written may be old, new or cut short; Save of the
\* vector index replaces its file by a rename.
CutShort(stage, new, old) == IF pc = stage THEN {old, Unusable, new} ELSE {old}

VectorsFound ==
  {vecDisk} \cup (IF pc = "vectors" THEN {vec} ELSE {})
            \cup (IF pc = "unindex" THEN VectorsSaved(op.id) ELSE {})

Crash ==
  /\ pc # "down" /\ "crash" \in Stops
  /\ Reopened /\ Gone
  /\ snapFt' \in CutShort("saveFt", ft, snapFt)
  /\ snapMeta' \in CutShort("saveMeta", meta, snapMeta)
  /\ snapGraph' \in CutShort("saveGraph", graph, snapGraph)
  /\ vecDisk' \in VectorsFound
  /\ pc' = "down" /\ op' = NoOp /\ todo' = {} /\ closing' = FALSE
  /\ UNCHANGED <<used, removed>>

\* What an index rebuilt from the engine holds.
AllParts == UNION {PartsOf(i, kv[DocKey(i)].content) : i \in Live}

\* loadSnapshots: both files decode, and not "entries but nothing indexed".
Trusted ==
  /\ snapFt # Unusable /\ snapMeta # Unusable
  /\ Live = {} \/ snapFt # {}

LoadSnapshots ==
  /\ Trusted
  /\ ft' = snapFt /\ meta' = snapMeta
  /\ graph' = IF snapGraph = Unusable THEN {} ELSE snapGraph

RebuildIndexes ==
  /\ ~Trusted
  /\ ft' = AllParts /\ meta' = Live /\ graph' = LiveEdges

OpenStore ==
  /\ pc = "down"
  /\ LoadSnapshots \/ RebuildIndexes
  /\ vec' = vecDisk
  /\ pc' = "idle"
  /\ UNCHANGED <<op, todo, used, removed, engine, snapshots, vecDisk, closing>>

-----------------------------------------------------------------------------
Next ==
  \/ \E c \in Contents, col \in Collections :
       PutDuplicate(c, col) \/ \E i \in Ids : PutNew(c, col, i)
  \/ PutDoc \/ PutHash \/ PutFails \/ SaveVectors \/ SaveVectorsFails \/ Reply
  \/ \E i \in Ids : Delete(i)
  \/ \E col \in Collections : DeleteCollection(col)
  \/ DeleteDoc \/ DeleteFails \/ Unindex
  \/ \E x \in Edges : PutEdge(x) \/ DeleteEdge(x)
  \/ AddEdge \/ AddEdgeFails \/ RemoveEdge \/ RemoveEdgeFails
  \/ \E close \in BOOLEAN : StartSaving(close)
  \/ SaveFt \/ SaveMeta \/ SaveGraph
  \/ Crash \/ OpenStore

Spec == Init /\ [][Next]_vars

-----------------------------------------------------------------------------
(* Properties. *)

\* Between methods every index agrees with the engine: the full-text index has
\* exactly the parts of the stored entries, the metadata index the entries, the
\* graph the edges, the vector index a vector for every part, and an edge is
\* stored with both of its adjacency keys (Put, Delete, PutEdge, DeleteEdge,
\* saveSnapshots and loadSnapshots together).
IndexesAgree ==
  pc = "idle" =>
    /\ ft = AllParts /\ meta = Live /\ graph = LiveEdges
    /\ Embedding => vec = AllParts
    /\ \A x \in Edges, k \in {"ef", "et"} : kv[<<k, x>>] # None <=> x \in LiveEdges

\* Whatever an index or one of its files names, vectors included, is stored, or
\* somebody asked to delete it: no failed call, no crash between two writes and
\* no mixture of old, torn and new files lets an index name an entry, a part or
\* an edge that never reached the disk (Put and PutEdge write first and index
\* afterwards). What was deleted may be named: by a snapshot of before, by vectors
\* whose removal was not saved, by chunks that deleteUnlocked does not reach.
HitsKnown ==
  LET Parted(P) == \A p \in P : p \in AllParts \/ p[1] \in removed
  IN /\ Parted(ft \cup vec \cup vecDisk) /\ (snapFt # Unusable => Parted(snapFt))
     /\ meta \subseteq Live \cup removed
     /\ snapMeta # Unusable => snapMeta \subseteq Live \cup removed
     /\ graph \subseteq LiveEdges \cup removed
     /\ snapGraph # Unusable => snapGraph \subseteq LiveEdges \cup removed

\* While the process runs, what an index has and the engine keeps stays in the
\* index, whichever call fails: in particular, a delete that fails, alone or in the
\* middle of DeleteCollection, leaves its entry as easy to find as before.
StoredStaysIndexed ==
  [][pc # "down" /\ pc' # "down" =>
       /\ ft \cap AllParts' \subseteq ft' /\ vec \cap AllParts' \subseteq vec'
       /\ meta \cap Live' \subseteq meta'
       /\ graph \cap LiveEdges' \subseteq graph']_vars

\* A start leaves the indexes consistent with the engine (loadSnapshots).
StartsConsistent ==
  [][pc = "down" /\ pc' = "idle" =>
       ft' = AllParts /\ meta' = Live /\ graph' = LiveEdges]_vars

\* Deduplication never leads to an entry that is not there: unless somebody
\* asked to delete it, the entry a hash record names is stored and has that
\* content. Put writes the entry before the record, so neither a crash nor a
\* failed call can leave a record alone.
DuplicatesStored ==
  \A c \in Contents :
    LET i == kv[HashKey(c)]
    IN i \notin {None} \cup removed => i \in Live /\ kv[DocKey(i)].content = c

\* The identifier Put returns is that of a stored entry with the content it was
\* given, unless somebody asked to delete that entry.
AnswersStored ==
  pc = "reply" /\ op.id \notin removed =>
    op.id \in Live /\ kv[DocKey(op.id)].content = op.content

\* No collection has a content twice, after any puts, deletes and restarts. (That a
\* content of another collection is not stored again is ReplyStored's.)
StoredOnce ==
  \A i, j \in Live : kv[DocKey(i)] = kv[DocKey(j)] => i = j

\* When Put returns an identifier, that entry is stored, in the collection the
\* caller named.
ReplyStored ==
  pc = "reply" => op.id \in Live /\ kv[DocKey(op.id)] = [content |-> op.content, coll |-> op.coll]
=============================================================================
