# LaightDB in TLA+

LaightDB is a small database for the context of language models: an LSM storage
engine written for it, a store of text entries and graph edges on top, four
indexes beside the engine, and an HTTP and MCP server around it. This directory
holds the specifications of its core, the configurations TLC checks them with,
and proofs for TLAPS.

Paths such as `storage/engine.go` are below `src/internal/`.

## 1. The system

| component | state it keeps | operations | correct when |
|---|---|---|---|
| storage engine (`storage/engine.go`, `compaction.go`) | memtable, list of tables, next table number, all under `e.mu` | Put, PutBatch, Delete, DeleteBatch, Get, Flush, RunCompaction, OpenEngine, Close | an acknowledged write survives any stop; flush and compaction change no answer; each method releases the lock |
| write-ahead log (`storage/wal.go`) | `wal.log` | append, sync, replay, truncate | replay brings back every write that is in the memtable only |
| tables (`storage/sstable.go`, `bloom.go`) | `sst/NNNNNN.sst` | write once, read, remove | a table half written is never read as a whole one |
| context store (`context/store.go`, `dedup.go`, `chunker.go`) | documents, hash records and edges in the engine | Put, Delete, DeleteCollection, PutEdge, DeleteEdge, Search, the graph queries | identical content is stored once; the answer of Put is an entry that exists |
| indexes (`index/fulltext.go`, `metadata.go`, `graph.go`, `vector.go`) | postings, attributes and adjacency in memory and in snapshot files; vectors in a file of their own | add, remove, search, encode, decode | each index names exactly what the engine stores; a breadth-first search finds least distances |
| rank fusion (`index/hybrid.go`) and Search (`context/store.go`) | none | RRF, filters, collection, cut to TopK | every answer is a stored entry that matches; nothing is missed that was not cut off |
| snapshot goroutine (`context/store.go`, startSnapshotLoop) | one goroutine, one stop channel | save on a tick, stop | it never touches a closed store and never blocks the end of the process |
| launch (`launch/launch.go`) | main goroutine | start, drain, close | handlers that were accepted are served by an open engine; the process ends |
| authentication store (`auth/store.go`) | users, tokens, sessions in memory and in three JSON files, under one lock | create, update, delete, revoke, look up, load | a name belongs to one user; what is on disk is what memory holds; what was deleted or revoked stays so |
| middleware and account pages (`auth/middleware.go`, `server/auth_handlers.go`) | none, but several calls of the store per request | authenticate, check rights, change | nobody gets through for a user who was deleted before |
| rate limiter (`auth/ratelimit.go`) | one token bucket per address | Allow, RetryAfter, Prune | no address exceeds its rate; who waits as told is admitted |
| call log (`calllog/store.go`) | a bounded slice | record, list | it holds the newest calls, newest first |
| embedding engine (`embedding/engine.go`) | a cache of 2048 vectors | Embed | the cache never exceeds its limit and never answers for another text |
| stress runner (`stress/store_run.go`) | an atomic counter shared by workers | RunStore | each number is taken by one worker; every operation is counted once |
| summarizers, HTTP handlers, MCP tools, configuration, commands, UI | none of their own | | |

How they interact. HTTP handlers and MCP tools call one method of the store
each. The store calls the engine, then the indexes, under its own `s.mu`:
exclusively in methods that change something, shared in the others. The engine
takes `e.mu` in each of its methods. Put also calls the embedding engine and the
summarizer, over the network, while it holds `s.mu`. Close of the store stops the
snapshot goroutine, saves the index snapshots and closes the engine.

What is hard. Nothing but the log protects a write between its acknowledgement
and the flush, so the order of file operations is the correctness argument, and a
crash may fall between any two. An error in the middle of a method leaves what
was done so far. Four indexes are kept in step with the engine by hand, and three
of them come back from snapshot files that may be older than the engine. Shutdown
is a meeting of the main goroutine, the snapshot goroutine and the handlers over
one lock and one channel. A request to the account pages asks the authentication store
several times, and between two answers another request may change it; a change
of the store is up to three files, written one after the other. `PROJECT.json` lists each hazard at its line.

## 2. The modules

| module | models | main properties |
|---|---|---|
| `DurableMap` | what the engine promises its callers | `SettledUntilAttempted` |
| `Engine` | engine, log and tables, one action per file operation | `MemtableLogged`, `OnlyRequestsChangeReads`, `OnlyShadowedKeysChange`, `LeftoversShadowed`, `LockReleased`, `ImplementsDurableMap` |
| `Store` | context store, indexes, snapshots over the promise of the engine | `IndexesAgree`, `StoredOnce`, `HitsKnown`, `StoredStaysIndexed`, `DuplicatesStored`, `AnswersStored` |
| `Shutdown` | main goroutine, snapshot goroutine, handlers and `s.mu` | `SavesBeforeClose`, `ServedOpen`, `Terminates` (through `Process`) |
| `RateLimiter` | the token buckets | `Limited`, `RetrySuffices` (through `Process`) |
| `Process` | the chain from the rate limiter to the handlers; extends the two above | `ProcessTypeOK`, and the five above |
| `AuthStore` | users, tokens, sessions and their files | (through `Server`) |
| `Server` | the middleware, the account pages and the first user of a start, call by call; extends `AuthStore` | `NamesAgree`, `Synced`, `DeletedStays`, `RevokedStays`, `DeletedNeverCalls` |
| `FullText`, `MetadataIndex`, `GraphIndex` | the three indexes the program keeps itself, as operators on a record | (through `Search`) |
| `Search` | the queries of the store over the indexes its changes maintain; extends the three above | `SearchSound`, `SearchComplete`, `FusionAgrees`, `DistancesExact`, `SubtreeExact`, `GraphMirrors`, `TextCounted`, `ListsOwnEdges`, `SuggestionsNew` |
| `MCEngine`, `MCStore`, `MCProcess`, `MCSearch`, `MCServer` | finite constants for TLC | |
| `Lists` | lists that are sorted, filtered and cut, for the three above | (through `Search`) |
| `DurableMapProofs`, `EngineProofs`, `StoreProofs`, `ProcessProofs`, `ServerProofs`, `SearchProofs`, `QueryProofs` | theorems; `ProcessProofs` also has those of `Shutdown` | |
| `ListTheorems` | lemmas about lists, folds and sums, for the last two | |

A definition marked "Variant" in a module is a plausible mistake in the
definition after it. It is not part of the specification; exchanging the two
shows which property notices the mistake.

### DurableMap

`kv[k]` is the answer to a read of `k`, `outcomes[k]` the set of answers a read
may give after a restart. A request first widens `outcomes` (`Attempt`: its
record is on the way to the disk), and only when every restart would find it may
it become readable (`Write`). An error leaves `outcomes` wide: the caller was told
"failed", the next start may know better. `Settle` narrows `outcomes` or makes
the present answer one of them, `Stop` picks one for the next `Start` to answer with.
`open` tells the two apart from `Write`: between a start and a stop no answer changes but
by a write that every restart would find. Nothing is promised across
keys, which is what the code gives: a batch is not atomic.

### Engine

`mem` is `e.mem`, `paths` is `e.sstPaths`, `nextSeq` is `e.nextSSTSeq`, `files` is
the directory, `wal` the log as the process sees it, `walDisk` the log as of the
last fsync. `pc` is where the one method that holds `e.mu` is. Each file
operation of a method is an action, so that `Crash` can fall between any two, and
each has its failure (`AppendFails`, `SyncLogFails`, `CreateFails`, ...) with the
error return of the code: `Abort` leaves memory and disk as they are at that
point. Readers are not actions: `Get` is an operator, and because every method
holds the lock to its end, readers see only the states the operator `ReadList`
describes.

Put is a PutBatch of one pair. PutBatch logs all pairs, syncs once, then applies
them one at a time and flushes when the memtable is full, as the code does, in the
middle of the batch too. Deletes never flush. RunCompaction merges the two oldest
tables, keeps delete markers, and gives the output the next, highest number.

A crash keeps of the log what was synced and any leading part of the rest, perhaps
with a record cut short at its end. A table that is not complete is `Torn`, which
`OpenSSTReader` refuses and every reader skips.

### Store

The engine appears as the variables of `DurableMap` (`Kept == INSTANCE
DurableMap`), so a crash or an error of a call leaves any of the outcomes the
promise allows. `EngineSplits` adds the one thing the engine does not keep: a
flush between two pairs of a batch leaves the later pairs in memory only. `pc`
names the stage of the method that holds `s.mu`, one stage per engine write, vector
save or snapshot file. An entry is its content and its collection; part 0 is the
text of an entry, part n its n-th chunk. The full-text index is the set of parts it
has, the metadata index a set of entries, the graph a set of edges, the vector index
a set of parts in memory (`vec`) and in its file (`vecDisk`). Identifiers are fresh
(`used`, at most `MaxUsed` of them, entries and edges together): `uuid.New` does not repeat.
`removed` is history, not state of the code: the entries and edges somebody asked to delete. The
properties that hold through failures and crashes set them aside, because the code leaves hash records,
snapshots and vectors of what was deleted behind. The promise holds for
compactions over at most two tables; what a third one does shows in `Engine` and is not
repeated here.

### Shutdown

`owner` and `sharers` are the state of `s.mu`, `stopped` is the closed channel, `open`
is "`e.wal` is not nil". `main`, `loop` and `handler` are program counters of the
main goroutine, the snapshot goroutine and the handlers, with one action between
two synchronisations. `DrainTimesOut` is the ten-second deadline of
`srv.Shutdown`, and `late` remembers that it was taken.

### RateLimiter and Process

`level` and `idle` are the `tokens` and the age of `last` of a bucket. `Take` and
`Deny` are the two ends of `Allow`, `Promise` is the header a refused client gets;
`RetryAfter` takes `rl.mu` a second time, so other requests of the key may come in
between, and `refused` in `Process` is the set of requests at that point. `period` and `admitted`
are not state of the code: `LookFromNow` starts to count at any moment, so `Limited` speaks of
every period, not of those that begin with a full bucket. `promised` counts down the wait
a client was told and is forgotten when a request of its key is admitted.

`Process` puts the limiter in front of the handlers of `Shutdown`, as `launch.Start` and
`BuildHandler` do. A step is one of `Shutdown`, one of the limiter, or `Admit`, which is both;
`MainGoesOn` adds that `srv.Shutdown` also waits for requests that are being refused.

### AuthStore and Server

`users` and `record` are `usersByID`, `byName` is `usersByUsername`, `file` the three JSON
files. A request keeps the `*User` it found, so `record` outlives the user. A method
that changes something is an action on memory, then one `SaveFile` or `SaveFails` for each
file in `saving`, during which `s.mu` is held and `Free` is false. A failed save is answered with
an error while memory keeps the change; `dirty` (not state of the code) names the files that
lag behind for that reason. `StoreCrash` may cut a write short at any place: the file is
then as before, empty, torn or complete.

In `Server`, `at[h]` is where request `h` is between two calls of the store. The
middleware takes `s.mu` to count the users, to find the session and to find its user; a
handler takes it to check and again to change. `Start` loads the files, and `BootCreate` and
`BootSave` are `bootstrapUser`. `used` makes identifiers fresh, `deleted` and `revoked` are the users
and tokens whose deletion or revocation was answered with success.

### Search

A method that changes something is one action, since it holds `s.mu` from start to end;
what a failure or a crash in the middle leaves behind is the subject of `Store`. A query
is an operator on the state, and the properties compare it with a definition over `docs`
and `edges`, that is, over what the engine stores: `Candidates` for Search, `Ball` for
the breadth-first searches. `ft`, `attrs` and `graph` are the records that `FullText`,
`MetadataIndex` and `GraphIndex` work on; a reference list keeps the order in which edges
were added, because the searches follow it. A text is its sequence of terms. With queries
of one term the inverse document frequency is a common factor, so the order of two BM25
scores is decided by cross-multiplication; the fused score 1 / (60 + rank) is an integer
after multiplication by `Scale`, which `SearchAssumption` makes a multiple of 60 + each rank
that occurs. The vector index finds things in a fixed order (`NearOrder`), whatever
that is, and need not find everything. `SearchAssumption` also says that an entry has no more chunks than Delete
cleans (the case of more is in `Store`) and that TopK is positive, as Search replaces any other by 10. A name or value of an attribute is one of a few spellings with its normal form
(`Canonical`, `Trimmed`). `fromKeys` and `toKeys` are the adjacency keys of the engine;
`Beneath` says for which nodes the prefix of one is a prefix of the keys of another.

## 3. What the runs show

| run | question | bounds |
|---|---|---|
| `engine_durable` | with every fault and a crash anywhere, are acknowledged writes kept, is the memtable always recoverable from the log, and do flushes, compactions and left-over files leave every answer alone? | 2 keys, 1 value, memtable of 2, 3 tables of which faults may hit the first 2, deletes of one key or two, at most 2 tables per compaction, log of 2 |
| `engine_tables` | with more tables: are left-over files shadowed, is a merge harmless for keys only its inputs hold, and does each method give back the lock? | 2 keys, 5 table numbers, single puts and deletes, table faults |
| `store_clean` | without failures and with clean stops, do all indexes agree with the engine, and does no collection have a content twice? | 3 entries of 2 chunks, 2 contents, 2 collections, 2 edges |
| `store_failures` | with every call failing, snapshots by the timer and at the end, crashes at every stage and between any two files: does any index or file name what never was stored, does a failed call take what is stored out of an index, and do hash records and answers of Put lead to stored entries? | 2 entries of 3 parts of which Delete cleans 2, 2 contents, 1 edge, at most 2 identifiers handed out |
| `search` | whatever was put, deleted, loaded and rebuilt before: do the indexes agree with what is stored, and do the queries answer what a definition over the stored entries and edges says? | 2 entries, 3 contents, 3 new edges out of 6, together at most 3; a stored graph of 5 nodes; 20 searches |
| `process` | behind the rate limiter, is every handler that draining waited for served by an open engine, does the snapshot goroutine stay away from a closed store, does the process end, and does the limiter keep its rate and its promises? | 1 writer, 2 readers, timer; one address, burst of 1, two thirds of a token a tick, periods of 2 ticks |
| `server` | with requests step by step, saves that fail, crashes in a save and restarts: are names unique, do memory and files agree, and does what was deleted or revoked stay so, in memory, in the files and for every request? | 2 users, 2 names, 1 token, 2 sessions, 2 requests of 9 kinds at a time; users.json and tokens.json may fail; one unfinished write or expired session |

Why the bounds are enough. A write of the engine concerns one key and the two newest
places that hold it, so two keys show any disturbance of one by the other. One
value is enough where a delete gives the second: what is lost or comes back is
then visible as present or absent. A memtable of one entry makes each Put a
flush, and three table numbers are the two inputs of a merge and its output; five
let a merge run over the output of another whose inputs were left in the directory. The log bound of two is one
request in the memtable and one on its way. In the store two contents give one
that is known and one that is new, and three identifiers let a content be put, deleted
and put again. Under failures two identifiers are an entry or edge that is being written and one that is stored,
or was deleted, while the first is written. In `search` three edges make every small graph with side-by-side edges,
loops and cycles out of `SomeEdges`, in every order of adding; the second of `SomeDatabases`
has two ways of different lengths to one node, which is the smallest graph on which a
search that is not breadth-first finds a wrong distance. Two entries of up to three parts
give more hits than the smallest cut lets through, and fewer than the larger one. In `process` a rate
that does not divide a token makes rounding count, and a burst of one makes two requests of an
address contend; the proofs cover larger bursts. Two readers can follow one another while a writer waits. In
`server` two requests are a request and the one that changes the store under it; two users are one who
is deleted and the admin who does it; two sessions let a login create one after the other was found.
Every action of `Engine`, `Store`, `Shutdown`, `Process` and `Search` and every action of `Server` fires
in at least one passing run; `DurableMap` is what the steps
of `Engine` are mapped to, and has no run of its own.

`CompactLimit` restricts when RunCompaction is called in the passing runs. It is an
assumption about callers, and the run `engine_three_tables` shows it is needed.
`FaultSeq` ends the failures of file operations in `engine_durable` at a table number, and `MaxEvents`
bounds the unfinished writes and expired sessions of `server`.
`Requests`, `Faults` and `Stops` say which requests, failures and stops a run has;
each property is stated for the ones under which the code means to keep it, as
the table says. That all indexes agree holds in `store_clean` only: with failures and crashes the code
leaves them incomplete or with what was deleted, so `store_failures` asks what remains true, that they never name
what is not known (`HitsKnown`) and lose nothing while the process runs (`StoredStaysIndexed`). What a
start makes of them is a case of its own (`store_stale_snapshot`, below).

Deadlock is not checked: when all table numbers or identifiers of a run are used
and nobody makes a request, the model may stop; the process may too, at its end, and
`server` when a torn file keeps it from starting.

### Disagreements with the documentation

Each has a run that TLC must find violated.

* `engine_three_tables`: with three tables or more RunCompaction makes the merge of
  the two oldest tables the newest, so an old value or delete marker hides a newer
  one ("newest wins", `storage/engine.go:97`).
* `engine_batch`: the flush in the middle of PutBatch truncates the log while the
  later pairs are only in memory. The run ends with a PutBatch that has returned without an
  error and a pair of it that a crash would lose ("all WAL records are durable after the first
  sync", `storage/engine.go:163`).
* `engine_torn_log`: a crash inside an append leaves a record that makes every later
  OpenEngine fail (`.cursor/rules/storage-engine.mdc:34`).
* `store_stale_snapshot`: snapshots of an earlier clean stop are trusted after a
  crash (`context/store.go:125`).
* `store_dedup_deleted`: a deleted entry's hash record stays, so a new Put of that
  content returns an identifier that is gone (`context/store.go:246`).

More were met while modelling and have no run of their own:

* the rate limiter runs before authentication, so a request never has a user yet and its
  key is always the address (`auth/ratelimit.go:90`: keyed by user or address;
  `server/http.go:80`, `launch/launch.go:71`); `Key` in `Process` does the same;
* nothing calls `Prune` of the limiter or `PruneSessions` of the store but their tests, so buckets and
  expired sessions stay (an expired session until the next start, in the file for good). A caller
  of `Prune` must leave a bucket the time to be full, which `RateLimiterAssumption` says;
* while there are no users, several requests may pass the first count of them and create; the second
  count (`CheckCreate`) leaves a race in which two of them become admins. `NamesAgree` holds all the same;
* a login that checked the password before DeleteUser creates a session of a user who is gone, and
  a crash between two files of DeleteUser leaves tokens without a user. Both lookups ask for the user
  again, so neither gets a request through: that is `DeletedNeverCalls`;
* filters and collection are applied after each signal was cut to twice TopK, so a
  matching entry behind others is missed, although `context/store.go:435` says the
  allow-set is there "to avoid wasting RRF slots"; `SearchComplete` is stated for the
  searches where nothing is cut;
* ListEdgesFrom also lists the edges of nodes whose name begins with that of the node and a
  colon, against `context/store.go:749`, "all edges whose FromID equals nodeID"; ListEdgesTo likewise.
  `KeysOf` does the same, and `search` has such a node. `ListsOwnEdges` therefore says that no edge of the node is
  missed, and that the list is exact as long as no node is beneath it; it does not hold the longer list for right;
* SuggestLinks may name one entry several times, once for each of its chunks;
* a missing `graph.snap` is not rebuilt when the other snapshots load, so the graph
  stays empty (`context/store.go:159`); `LoadSnapshots` does the same;
* deduplication goes over all collections, where `.cursor/rules/context-processing.mdc:34` has it per
  collection ("if hash exists in same collection"): a content that another collection has is not stored, and the
  identifier of the other collection's entry is the answer. `PutDuplicate` does the same. `ReplyStored` asks for an entry in
  the collection the caller named and is violated by that too, though its run shows the deleted entry;
  `StoredOnce` looks at each collection by itself, which both readings promise;
* Delete cleans a fixed number of chunk indexes (`context/store.go:351`), `CleanLimit`. `store_failures` goes
  beyond it: the parts left over belong to deleted entries (`HitsKnown`), and nothing but a rebuild removes them;
  `store_clean` stays below it;
* `.cursor/rules/storage-engine.mdc:52` says a merge discards deleted keys, while
  CompactMerge keeps their markers. Nothing goes wrong: the variant `MergedNoMarkers`
  does what that line says and violates `LeftoversShadowed` and the refinement, since a
  removed marker would let a left-over table show through.

## 4. Fairness

`Engine!FairSpec` is weak fairness of `Step`, the steps of a method that has
started: a goroutine that holds `e.mu` and waits for nobody goes on. Requests,
compactions, crashes and starts are not fair; `LockReleased` needs none of them.

`Process!ProcessSpec`: weak fairness of the main goroutine, of a handler inside the
lock and of the snapshot goroutine while it saves, since they run and their calls
have time-outs (the summarizers' HTTP clients 60 and 120 seconds). Strong fairness of
taking `s.mu`: `sync.RWMutex` lets no waiter starve, a waiting writer stops new
readers. Strong fairness of `LoopStops`: once the channel is closed the goroutine is
in its select between two ticks, where a ready case is taken, and when both are
ready each is chosen with the same chance. No fairness of requests, answers to
refused requests, the clock, ticks of the timer or the signal. `Server` states no liveness.

## 5. What is proved

TLAPS checks, for all keys, values, numbers of tables, entries, chunks, handlers, users, rates, texts,
graphs and searches:

* `DurableMapProofs`: `TypeCorrect`, and `AcknowledgedStays` (`SettledUntilAttempted`): each action
  is looked at for one settled key; only `Attempt` of that key unsettles it.
* `EngineProofs!TypesHold` (`TypeOK`). `TypeOK` is not inductive: that the next number
  is in range, that the queues are not empty when their heads are taken and that
  RunCompaction finds two tables depends on the stage, so `TypeInv` adds
  `Stages`, which says what holds at each value of `pc`.
* `EngineProofs!CompactionLocal` (`OnlyShadowedKeysChange`), from `TypeInv` and `MergeInv` (both
  inputs of a merge stay readable while it runs). `FillReads` and `MergeReads` compare the
  answers of `Get` before and after a flush and a merge; `SameReads` covers every
  other step.
* `EngineProofs!ReadsAreStable` (`OnlyRequestsChangeReads`), assuming `CompactLimit <= 2`: then there
  is no third table at a merge, so the exception in `CompactionLocal` is empty.
* `EngineProofs!AppliedIsLogged` (`MemtableLogged`), assuming `SinglePairs`, that put requests write one pair.
  The invariant `LogInv` adds that what a request still has to apply is in the log, which
  is what makes `Apply` keep `MemtableLogged`; the run `engine_batch` shows what comes of it for batches.
* `EngineProofs!LeftoversStayShadowed` (`LeftoversShadowed`), with no assumption: a merge replaces a
  table that covers a left-over by an output that has each of its keys, markers included, under
  a higher number (`ShadowStep`); every other step gives readers the same tables (`ShadowsStay`) or one more.
* `EngineProofs!EngineImplementsDurableMap` (`ImplementsDurableMap`), assuming `SinglePairs` and `CompactLimit <= 2`:
  `engine_batch` and `engine_three_tables` show that both are needed. `RefInv` joins the invariants
  above with four more: no file has a number that was not given out (`Fresh`); the output of a
  merge has each key of its inputs before one is removed (`OutputCovers`); what was synced is the
  beginning of the log (`LogPrefix`); and when a request reaches the memtable every restart would
  replay what is left of it (`QueueReplayed`). `Outcomes` is taken apart into what the possible
  logs (`Logged`) and the possible directories (`Stored`) say of a key, and each step is shown
  to change one of the two: `SettleLogs`, `SettleTables`, `SettleRemovals` and `SettleTruncation` for
  the steps no caller asked for, `AppendAttempts` and `ApplyWrites` for requests, `StopImplements`
  and `StartImplements` for the rest.
* `EngineProofs!AcknowledgedWritesStay`: from these two layers, `SettledUntilAttempted` of the engine itself.
* `StoreProofs!TypesHold` (`TypeOK`), from `TypeInv`: a key of a document holds entries, a hash
  record identifiers, an edge key edges (`ValuesOf`), and each stage works on a
  request of the right kind (`OpInv`). `RestartMay` says a restart answers each
  key with one of its outcomes.
* `StoreProofs!DuplicatesAreStored` (`DuplicatesStored`) and `AnswersAreStored`
  (`AnswersStored`), with deletes, failures and crashes anywhere, and no assumption. Both
  properties speak of reads only and are not inductive, since a restart may turn another
  outcome into the answer. `DedupInv` speaks of every outcome (`Now`): what a hash record
  may name is `Known`, that is, handed out, and either asked to be deleted or settled on
  the disk with that content. The rest of it follows Put from one write to the next:
  before the entry is written nothing names it, before the record is written the entry is
  known. `EngineEffect` is the one lemma about the engine: a step adds to what a key may
  answer at most the write in progress. `NamedStep`, `StoredStep` and `KnownStep` derive
  from it what a record may come to name and that a known entry stays known. The run
  `store_dedup_deleted` shows why the deleted entries have to be set aside.
* `StoreProofs!HitsAreKnown` (`HitsKnown`), for every failure, snapshot and crash and for entries with more chunks than Delete
  cleans, with no assumption. Like deduplication it is not inductive, since a part may be indexed while a restart
  could still undo the entry. `KnownInv` asks more of whatever an index or a file names (`NamedParts`, `NamedEntries`,
  `NamedEdges`): an entry must be `Known`, an edge stored in every outcome or asked to be deleted. Put and PutEdge write
  before they index, a snapshot copies what an index names, and a start loads a copy or rebuilds from the engine (`NamedEffect`,
  `RebuiltKnown`). `FreshInv`, that an identifier handed out is new to the engine, keeps Put from
  replacing a document that is indexed.
* `StoreProofs!StoredStayIndexed` (`StoredStaysIndexed`), with no assumption: `GoneInv` says that Delete cleans the
  indexes only after the engine has let the entry go, so a delete that fails, also in the middle of DeleteCollection, leaves them alone.
* `StoreProofs!IndexesAlwaysAgree` (`IndexesAgree`) and `ContentStoredOnce` (`StoredOnce`), assuming `Undisturbed`
  (nothing fails, clean stops) and `ChunksCleaned`. `UndisturbedCalls` shows the engine is then a plain map that
  survives a stop. `AgreeInv` carries the equality of indexes and engine through the stages of
  each method (`MissingParts`, `LeavingParts`), into the snapshot files one by one, and over the stop to the next
  start; `RecordInv` says that a content's record names the one entry that has it, unless Put is about to
  write it; `ContentStoredOnce` takes from it that no collection has a content twice.
* `ProcessProofs!ProcessImplementsShutdown`: `ProcessSpec` implies `Spec` of `Shutdown`, each step
  being one of its steps or a stutter, so `ProcessSavesBeforeClose` and `ProcessServedOpen` follow from the
  theorems below. `ProcessLimited` (`Limited`) and `ProcessRetrySuffices` (`RetrySuffices`) hold for every burst,
  rate and number of addresses. Neither is inductive: `Balanced` adds what is still in the bucket to what was admitted,
  and `Refilling` says what a bucket will hold when the promised wait is over. They assume
  `RateLimiterAssumption`: the burst is at least one (a burst of 0 admits nobody) and `Prune` leaves
  a bucket the time to be full.
* `ServerProofs`: `ServerNamesAgree`, `ServerSynced`, `ServerDeletedStays`, `ServerRevokedStays` and
  `ServerDeletedNeverCalls`, for any users, requests, faults and crashes. The invariant `Inv` follows what each stage
  of a request knows (a token found by a request is one that was handed out), keeps identifiers in `used`, and
  follows a deletion through its files: until `users.json` is written the user may come back, after the last file
  no file names it. That nobody gets through for a deleted user then follows from `FindUser` and
  `FindToken`, which ask for the user in the same critical section as they decide.
* `ProcessProofs!SnapshotsSafe` (`SavesBeforeClose`) and `HandlersServed` (`ServedOpen`), from
  `LockInv` (who is inside according to the lock) and `PhaseInv` (what each stage of the
  main goroutine says of the goroutine, the engine and the handlers).
* `SearchProofs!IndexInvariant`: `IndexInv` says that each index *is* the one of what is stored:
  `ft = IndexOf(TextsIn(Live))`, `attrs = AttributesIn(Live)` and `Mirrors(graph, edges)`, beside the types of
  what is stored and that identifiers were handed out (`Handed`, so that Put never replaces an entry).
  The properties of the run only look at an index from outside (the frequencies, lengths and number of texts,
  the references of a node) and are not inductive: `RemoveDocument` subtracts from counters, and
  leaves the right ones only if they were those of the text that was added. TLC checked
  `IndexInv` on the instance of `search` before it was proved. One lemma for each operation of an
  index says what it makes of `IndexOf(T)`, of the attributes and of a mirror; a loop of the store over parts,
  entries or edges is a fold, followed step by step with `FoldSteps`. From `IndexInv`: `SearchTypes`
  (`TypeOK`), `TextsCounted` (`TextCounted`), `GraphMirrored` (`GraphMirrors`) and `EdgesListed` (`ListsOwnEdges`).
* `QueryProofs!NeighborhoodExact` (`DistancesExact`) and `SubtreesExact` (`SubtreeExact`): breadth-first search in any
  finite graph. `Balls` are the sets of nodes at most k steps away. `Progress(t, W, ...)` is the invariant of the
  queue: every hit that was served (`W`) or waits has its least distance; the queue is in order of
  distance, and its distances differ by one at most (`Line`); who was served has all
  neighbours visited; and when the first of the next distance comes up, the whole ball before it
  is visited. A round serves one node or finds the queue empty, so after as many rounds as there
  are nodes the queue is empty, which is why the bounded loop of the model is the unbounded one of the code.
* `QueryProofs!SuggestedNew` (`SuggestionsNew`).
* `QueryProofs!FusionAgreed` (`FusionAgrees`): a fused score is the sum of three shares (`ThreeShares`), each falling
  strictly with the rank (`Quotients`), and a hit that no list has lower and one has higher has the greater sum
  (`SharesAgree`). That a merged list is in the order of its scores is `RankedList`, which needs
  the order to be total and transitive: `BetterHits` here, `AboveOrders` for BM25 scores, where comparison by
  cross-multiplication is transitive because no denominator is zero: an indexed text has a term.
* `QueryProofs!SearchAnswers` (`SearchSound`) and `SearchMissesNothing` (`SearchComplete`): `Signal` says of each of the
  three lists what it may hold and, when nothing is cut, must hold, after the filters (`SignalsFound`, from `TextFound`,
  `VectorFound`, `NearestFound` and `Matched`). `Answered` is the invariant of the loop that turns the merged list
  into an answer: distinct entries of the collection, no more than asked for, and all so far while
  there is room. `NothingCut` shows that under the premise of `SearchComplete` the merged list has every hit.
  The filters are matched through the spelling the index knows; the proof rests on `Canonical` and `Trimmed` being functions only.

Induction. The library's induction theorems take an operator as a parameter, which the provers cannot instantiate, so
`ListTheorems` does it on sets: `UpTo` and `SetInduction` say that a set of numbers that has 0 and with each number the
next has them all, which is first-order. With it `RecursionExists` shows that a recursive function on the
naturals exists, `FoldExists` and `FoldSteps` that a fold of the community modules (a CHOOSE of a recursive
function) is what its steps make of it, and `SortedArranges` that `Sorted` lists a finite set, each member once, in order.

The proofs rest on `EngineAssumption`, `StoreAssumption`, `ShutdownAssumption`, `RateLimiterAssumption`,
`ProcessAssumption`, `AuthStoreAssumption`, `ServerAssumption`, `SearchAssumption` and `MetadataAssumption`, which TLC evaluates in each run of a module that extends theirs, and on the assumptions named above.

## 6. Only model-checked, and not modelled

TLC alone checks liveness (`LockReleased`, `Terminates`), which is out of reach of the proof system, and the
properties that the five runs of section 3 find violated. Every invariant and action property of a
passing run has a theorem, some under the assumptions named above.

Abstracted or left out:

* byte layouts of log, tables, snapshots and codecs, and the panics a malformed file
  could cause: a file is whole, torn or absent;
* the `sst` directory's own fsync, a failed Seek after Truncate, and what the operating
  system keeps of pages whose fsync failed: a created file survives, a failed fsync
  leaves the last good one;
* the skip list and the Bloom filter, which change no answer;
* embedding and summary calls, which change no state and at worst end Put early;
* queries of several terms, rounding of scores, tokenizing, chunk borders, and how near the
  nearest neighbours of the vector library are;
* what the name of a graph node looks like: Search takes a part of it from "#" on for the number of a chunk
  (`context/store.go:480`), so a node with "#" in its name is taken for another; the model numbers its nodes and cannot show it;
* rounding of the limiter's `float64` arithmetic: a bucket is counted in whole fractions of a token;
* password hashes, time stamps, the order of lists, and that a request may present two sessions.

Not modelled, because there is nothing in it that TLC or TLAPS would find and a unit test would not:

* entry and edge codecs, tokenizer, compaction of text, tiered retrieval: functions from bytes to
  bytes. What matters of them, that a decode returns what was encoded, is a statement about byte layouts;
* the cache of the embedding engine: looked up and filled in two critical sections, the second of
  which checks the limit again; a text may be encoded twice, to the same vector;
* the call log, a bounded slice under one mutex whose methods are one critical section each;
* the other HTTP handlers and the MCP tools: each decodes a request, calls one method of the store and formats the
  answer, so their interleavings are those of `Store` and `Search`;
* summarizers, HTTP clients without state; the stress runner, a load generator; configuration and commands; editor
  integration, user interface and scripts, clients of the server.

## 7. What is left

The modules were built from the engine upwards: `DurableMap`, `Engine`, `Store`, `Shutdown`, `Search` with its
three indexes, then `AuthStore`, `Server`, `RateLimiter` and `Process`. Worth doing next:

1. `TableNames`: the order of file names against the order of numbers, which part from table 1000000 on.
2. `GraphOverview` and Stats: bulk reads whose cut must keep nodes and edges consistent.
3. Queries of several terms: the order of sums of BM25 scores.
