------------------------------- MODULE Engine -------------------------------
(***************************************************************************)
(* The storage engine of src/internal/storage: a memtable, a write-ahead   *)
(* log and a list of sorted tables on disk, all under the one lock e.mu.   *)
(*                                                                         *)
(* A method holds e.mu from its first step to its last, so readers never   *)
(* see an intermediate state; a crash does. Hence one action for each      *)
(* change a method makes to a file, and Crash enabled between any two.     *)
(*                                                                         *)
(* Abstracted: values are opaque, the memtable budget counts entries       *)
(* instead of bytes, and a Bloom filter never changes an answer.           *)
(* A definition marked "Variant" is a plausible mistake in the definition  *)
(* after it; the variants are not part of Next.                            *)
(***************************************************************************)
EXTENDS Naturals, Sequences, FiniteSets

CONSTANTS
  Keys, Values,
  Tomb,            \* the delete marker, memtable.go's tombstone
  None,            \* "no entry for this key" in a table or a memtable
  NoKey,           \* stands for the key of a torn log record
  MemMax,          \* entries at which MemTable.ShouldFlush answers true
  PutBatches,      \* the requests made of Put (one pair) and PutBatch
  DeleteBatches,   \* the requests made of Delete (one key) and DeleteBatch
  CompactLimit,    \* RunCompaction is only called with at most this many tables
  Faults,          \* the calls of the operating system that may fail
  MaxSeq,          \* bound: the largest number a table may get
  FaultSeq,        \* bound: calls on the log fail up to the flush of this table
  MaxWal           \* bound: a request starts only if the log stays this short

Writes == [key : Keys, val : Values \cup {Tomb}]
Seqs == 1 .. MaxSeq

AllFaults ==
  {"append", "sync", "create", "fill", "truncate", "resync", "merge", "remove"}

ASSUME EngineAssumption ==
  /\ Tomb \notin Values
  /\ None \notin Values \cup {Tomb}
  /\ NoKey \notin Keys
  /\ PutBatches \subseteq {ws \in Seq(Writes) : ws # <<>> /\ \A i \in 1..Len(ws) : ws[i].val \in Values}
  /\ DeleteBatches \subseteq {ws \in Seq(Writes) : ws # <<>> /\ \A i \in 1..Len(ws) : ws[i].val = Tomb}
  /\ MemMax \in Nat \ {0} /\ CompactLimit \in Nat
  /\ MaxSeq \in Nat /\ FaultSeq \in Nat /\ MaxWal \in Nat
  /\ Faults \subseteq AllFaults

VARIABLES
  pc,          \* where the method holding e.mu is; "idle": nobody holds it
  toLog,       \* writes of the running request not yet appended to the log
  toApply,     \* writes of the running request not yet in the memtable
  mem,         \* e.mem
  paths,       \* e.sstPaths, as the numbers in the file names
  nextSeq,     \* e.nextSSTSeq
  files,       \* the sst directory
  wal,         \* wal.log as the process sees it
  walDisk,     \* wal.log as of the last successful fsync
  truncated    \* wal.log was truncated since that fsync

memory == <<pc, toLog, toApply, mem, paths, nextSeq>>
log == <<wal, walDisk, truncated>>
vars == <<memory, files, log>>

Tables == [Keys -> Values \cup {Tomb, None}]
Empty == [k \in Keys |-> None]
Absent == [state |-> "absent", data |-> Empty]
Torn == [state |-> "torn", data |-> Empty]     \* OpenSSTReader refuses it
Whole(t) == [state |-> "whole", data |-> t]
Files == [state : {"absent", "torn", "whole"}, data : Tables]

TornRecord == [key |-> NoKey, val |-> None]    \* Replay refuses it
Records == Writes \cup {TornRecord}

Busy == {"log", "sync", "apply", "create", "fill", "truncate", "resync",
         "merge", "dropOld", "dropNewer"}

TypeOK ==
  /\ pc \in Busy \cup {"idle", "down", "failed"}
  /\ toLog \in Seq(Writes) /\ toApply \in Seq(Writes)
  /\ mem \in Tables
  /\ paths \in SUBSET Seqs
  /\ nextSeq \in 1 .. MaxSeq + 1
  /\ files \in [Seqs -> Files]
  /\ wal \in Seq(Records) /\ walDisk \in Seq(Records)
  /\ truncated \in BOOLEAN

-----------------------------------------------------------------------------
(* Reads. *)

Newest(S) == CHOOSE s \in S : \A t \in S : t <= s
Oldest(S) == CHOOSE s \in S : \A t \in S : s <= t

\* The tables among S that OpenSSTReader accepts and that have an entry for k.
Holders(S, k) == {s \in S : files[s].state = "whole" /\ files[s].data[k] # None}

Older == Oldest(paths)
Newer == Oldest(paths \ {Older})

\* The tables the next reader searches. RunCompaction releases e.mu only after
\* it has replaced the two oldest tables by its output.
ReadList ==
  IF pc \in {"dropOld", "dropNewer"}
    THEN (paths \ {Older, Newer}) \cup {nextSeq} ELSE paths

\* What the tables S say of k, the highest number first.
TableValue(S, k) ==
  IF Holders(S, k) = {} THEN None ELSE files[Newest(Holders(S, k))].data[k]

\* Get's answer for a marked or missing key.
Visible(v) == IF v = Tomb THEN None ELSE v

Get(k) == Visible(IF mem[k] # None THEN mem[k] ELSE TableValue(ReadList, k))

\* The value Replay leaves in the memtable for k: that of its last record.
RecordsOf(w, k) == {i \in DOMAIN w : w[i].key = k}
Replayed(w, k) ==
  IF RecordsOf(w, k) = {} THEN None ELSE w[Newest(RecordsOf(w, k))].val

\* What a start answers for k if it finds the log w and the tables S.
AfterRestart(w, S, k) ==
  Visible(IF Replayed(w, k) # None THEN Replayed(w, k) ELSE TableValue(S, k))

Entries == {k \in Keys : mem[k] # None}
ShouldFlush == Cardinality(Entries) >= MemMax

-----------------------------------------------------------------------------
(* Requests: Put, PutBatch, Delete and DeleteBatch. Put is PutBatch of one *)
(* pair; a deleting request does not ask ShouldFlush.                       *)

Init ==
  /\ pc = "idle" /\ toLog = <<>> /\ toApply = <<>>
  /\ mem = Empty /\ paths = {} /\ nextSeq = 1
  /\ files = [s \in Seqs |-> Absent]
  /\ wal = <<>> /\ walDisk = <<>> /\ truncated = FALSE

\* Variant: the error return keeps the lock.
AbortHolding ==
  /\ pc' = "apply" /\ toLog' = <<>> /\ toApply' = <<>>

\* The method returns an error; what it did so far stays.
Abort ==
  /\ pc' = "idle" /\ toLog' = <<>> /\ toApply' = <<>>

Request(ws) ==
  /\ pc = "idle"
  /\ Len(wal) + Len(ws) <= MaxWal /\ nextSeq + Len(ws) <= MaxSeq + 1
  /\ pc' = "log" /\ toLog' = ws /\ toApply' = ws
  /\ UNCHANGED <<mem, paths, nextSeq, files, log>>

AppendRecord ==
  /\ pc = "log"
  /\ wal' = Append(wal, Head(toLog))
  /\ toLog' = Tail(toLog)
  /\ pc' = IF Tail(toLog) = <<>> THEN "sync" ELSE "log"
  /\ UNCHANGED <<toApply, mem, paths, nextSeq, files, walDisk, truncated>>

\* appendRecord writes the header and the body separately and undoes neither.
AppendFails ==
  /\ pc = "log" /\ "append" \in Faults /\ nextSeq <= FaultSeq
  /\ wal' \in {wal, Append(wal, TornRecord)}
  /\ Abort
  /\ UNCHANGED <<mem, paths, nextSeq, files, walDisk, truncated>>

\* Variant: no fsync.
SyncLogSkipped ==
  /\ pc = "sync"
  /\ pc' = "apply"
  /\ UNCHANGED <<toLog, toApply, mem, paths, nextSeq, files, log>>

SyncLog ==
  /\ pc = "sync"
  /\ walDisk' = wal /\ truncated' = FALSE
  /\ pc' = "apply"
  /\ UNCHANGED <<toLog, toApply, mem, paths, nextSeq, files, wal>>

SyncLogFails ==
  /\ pc = "sync" /\ "sync" \in Faults /\ nextSeq <= FaultSeq
  /\ Abort
  /\ UNCHANGED <<mem, paths, nextSeq, files, log>>

\* The loop of PutBatch and DeleteBatch goes on with what is left.
Continue(rest) == IF rest = <<>> THEN "idle" ELSE "apply"

Apply ==
  /\ pc = "apply" /\ toApply # <<>>
  /\ mem' = [mem EXCEPT ![Head(toApply).key] = Head(toApply).val]
  /\ toApply' = Tail(toApply)
  /\ pc' = IF Head(toApply).val # Tomb /\ ShouldFlush'
             THEN "create" ELSE Continue(Tail(toApply))
  /\ UNCHANGED <<toLog, paths, nextSeq, files, log>>

-----------------------------------------------------------------------------
(* flushLocked, from a Put whose memtable is full or from Flush. *)

Flush ==
  /\ pc = "idle" /\ Entries # {} /\ nextSeq \in Seqs
  /\ pc' = "create"
  /\ UNCHANGED <<toLog, toApply, mem, paths, nextSeq, files, log>>

CreateTable ==
  /\ pc = "create" /\ nextSeq \in Seqs
  /\ files' = [files EXCEPT ![nextSeq] = Torn]
  /\ pc' = "fill"
  /\ UNCHANGED <<toLog, toApply, mem, paths, nextSeq, log>>

CreateFails ==
  /\ pc = "create" /\ "create" \in Faults /\ nextSeq \in Seqs
  /\ files' \in {files, [files EXCEPT ![nextSeq] = Torn]}
  /\ Abort
  /\ UNCHANGED <<mem, paths, nextSeq, log>>

\* Variant: the flushed entries stay in the memtable.
KeepMemtable == UNCHANGED mem

ResetMemtable == mem' = Empty

\* The table is complete and synced; the list, the number and the memtable
\* follow in memory.
FillTable ==
  /\ pc = "fill"
  /\ files' = [files EXCEPT ![nextSeq] = Whole(mem)]
  /\ paths' = paths \cup {nextSeq}
  /\ nextSeq' = nextSeq + 1
  /\ ResetMemtable
  /\ pc' = "truncate"
  /\ UNCHANGED <<toLog, toApply, log>>

\* Append or Close of the writer fails; Close may fail after the last write.
FillFails ==
  /\ pc = "fill" /\ "fill" \in Faults
  /\ files' \in {files, [files EXCEPT ![nextSeq] = Whole(mem)]}
  /\ Abort
  /\ UNCHANGED <<mem, paths, nextSeq, log>>

TruncateLog ==
  /\ pc = "truncate"
  /\ wal' = <<>> /\ truncated' = TRUE
  /\ pc' = "resync"
  /\ UNCHANGED <<toLog, toApply, mem, paths, nextSeq, files, walDisk>>

TruncateFails ==
  /\ pc = "truncate" /\ "truncate" \in Faults /\ nextSeq <= FaultSeq + 1
  /\ Abort
  /\ UNCHANGED <<mem, paths, nextSeq, files, log>>

SyncTruncation ==
  /\ pc = "resync"
  /\ walDisk' = wal /\ truncated' = FALSE
  /\ pc' = Continue(toApply)
  /\ UNCHANGED <<toLog, toApply, mem, paths, nextSeq, files, wal>>

SyncTruncationFails ==
  /\ pc = "resync" /\ "resync" \in Faults /\ nextSeq <= FaultSeq + 1
  /\ Abort
  /\ UNCHANGED <<mem, paths, nextSeq, files, log>>

-----------------------------------------------------------------------------
(* RunCompaction. *)

\* Variant: the older table wins.
MergedOlderWins ==
  [k \in Keys |-> IF files[Older].data[k] # None
                    THEN files[Older].data[k] ELSE files[Newer].data[k]]

\* Variant: delete markers are discarded.
MergedNoMarkers ==
  [k \in Keys |-> LET v == IF files[Newer].data[k] # None
                             THEN files[Newer].data[k] ELSE files[Older].data[k]
                  IN IF v = Tomb THEN None ELSE v]

\* CompactMerge: the newer table wins, markers are kept.
Merged == [k \in Keys |-> IF files[Newer].data[k] # None
                            THEN files[Newer].data[k] ELSE files[Older].data[k]]

CanCompact ==
  /\ pc = "idle" /\ Cardinality(paths) \in 2 .. CompactLimit /\ nextSeq \in Seqs

Readable(s) == files[s].state = "whole"

StartMerge ==
  /\ CanCompact /\ Readable(Older) /\ Readable(Newer)
  /\ files' = [files EXCEPT ![nextSeq] = Torn]
  /\ pc' = "merge"
  /\ UNCHANGED <<toLog, toApply, mem, paths, nextSeq, log>>

\* A torn table among the oldest two: an error, after os.Remove(out).
RefuseMerge ==
  /\ CanCompact /\ ~(Readable(Older) /\ Readable(Newer))
  /\ files' = [files EXCEPT ![nextSeq] = Absent]
  /\ UNCHANGED <<memory, log>>

MergeTables ==
  /\ pc = "merge"
  /\ files' = [files EXCEPT ![nextSeq] = Whole(Merged)]
  /\ pc' = "dropOld"
  /\ UNCHANGED <<toLog, toApply, mem, paths, nextSeq, log>>

MergeFails ==
  /\ pc = "merge" /\ "merge" \in Faults
  /\ files' \in {files, [files EXCEPT ![nextSeq] = Whole(Merged)]}
  /\ Abort
  /\ UNCHANGED <<mem, paths, nextSeq, log>>

\* os.Remove, whose error is ignored.
Removed(s) ==
  \/ files' = [files EXCEPT ![s] = Absent]
  \/ "remove" \in Faults /\ UNCHANGED files

DropOlder ==
  /\ pc = "dropOld"
  /\ Removed(Older)
  /\ pc' = "dropNewer"
  /\ UNCHANGED <<toLog, toApply, mem, paths, nextSeq, log>>

DropNewer ==
  /\ pc = "dropNewer"
  /\ Removed(Newer)
  /\ paths' = (paths \ {Older, Newer}) \cup {nextSeq}
  /\ nextSeq' = nextSeq + 1
  /\ pc' = "idle"
  /\ UNCHANGED <<toLog, toApply, mem, log>>

-----------------------------------------------------------------------------
(* Stops and starts. *)

\* The logs a crash may leave whole records of: nothing synced is lost, and of
\* the rest any leading part may remain.
Survivors ==
  IF truncated
    THEN {walDisk} \cup {SubSeq(wal, 1, n) : n \in 0 .. Len(wal)}
    ELSE {SubSeq(wal, 1, n) : n \in Len(walDisk) .. Len(wal)}

\* The first record that is lost, or the one being appended, may be there in part.
TornSurvivors ==
  {Append(SubSeq(wal, 1, n), TornRecord) : n \in
     {i \in (IF truncated THEN 0 ELSE Len(walDisk)) .. Len(wal) :
        i < Len(wal) \/ pc = "log"}}

Stopped ==
  /\ pc' = "down" /\ toLog' = <<>> /\ toApply' = <<>>
  /\ mem' = Empty /\ paths' = {} /\ nextSeq' = 1
  /\ UNCHANGED files

Crash ==
  /\ pc # "failed"
  /\ wal' \in Survivors \cup TornSurvivors
  /\ walDisk' = wal' /\ truncated' = FALSE
  /\ Stopped

Close ==
  /\ pc = "idle"
  /\ Stopped
  /\ UNCHANGED log

Listed == {s \in Seqs : files[s].state # "absent"}
Intact == \A i \in DOMAIN wal : wal[i] # TornRecord

\* Variant: numbering starts at zero.
FirstFreeFromZero == IF Listed = {} THEN 0 ELSE Newest(Listed) + 1

FirstFree == IF Listed = {} THEN 1 ELSE Newest(Listed) + 1

OpenEngine ==
  /\ pc = "down" /\ Intact
  /\ pc' = "idle"
  /\ paths' = Listed
  /\ nextSeq' = FirstFree
  /\ mem' = [k \in Keys |-> Replayed(wal, k)]
  /\ UNCHANGED <<toLog, toApply, files, log>>

\* replayWAL returns an error, OpenEngine gives up and the log stays as it is.
OpenFails ==
  /\ pc = "down" /\ ~Intact
  /\ pc' = "failed"
  /\ UNCHANGED <<toLog, toApply, mem, paths, nextSeq, files, log>>

-----------------------------------------------------------------------------
\* The steps of the method that holds e.mu.
Step ==
  \/ AppendRecord \/ AppendFails \/ SyncLog \/ SyncLogFails \/ Apply
  \/ CreateTable \/ CreateFails \/ FillTable \/ FillFails
  \/ TruncateLog \/ TruncateFails \/ SyncTruncation \/ SyncTruncationFails
  \/ MergeTables \/ MergeFails \/ DropOlder \/ DropNewer

Next ==
  \/ \E ws \in PutBatches \cup DeleteBatches : Request(ws)
  \/ Flush \/ StartMerge \/ RefuseMerge
  \/ Step
  \/ Crash \/ Close \/ OpenEngine \/ OpenFails

Spec == Init /\ [][Next]_vars
FairSpec == Spec /\ WF_vars(Step)

-----------------------------------------------------------------------------
(* Properties. *)

Opened == pc \notin {"down", "failed"}

\* Whatever the memtable answers, the log file can bring back: each entry has a
\* record of its own in wal.log (engine.go logs before it applies, and
\* flushLocked empties the memtable before it truncates the log).
MemtableLogged ==
  Opened => \A k \in Entries :
              \E i \in DOMAIN wal : wal[i] = [key |-> k, val |-> mem[k]]

\* A table that readers no longer search but that is still in the directory (a
\* failed remove, a crash inside RunCompaction) never shows through when the
\* next start lists it again: a table they search has each of its keys, under a
\* higher number. Left-over files may pile up over many compactions.
LeftoversShadowed ==
  Opened => \A s \in Listed \ ReadList, k \in Keys :
              s < nextSeq /\ s \in Holders(Seqs, k) =>
                \E t \in Holders(ReadList, k) : s < t

\* While the engine is open, what Get answers for a key changes only when a
\* request for that key reaches the memtable: flushes, compactions and failed
\* calls are invisible to readers.
OnlyRequestsChangeReads ==
  [][Opened /\ Opened' => \A k \in Keys :
        Get(k)' # Get(k) => pc = "apply" /\ Head(toApply).key = k]_vars

\* With any number of tables, flushLocked is invisible to readers and
\* RunCompaction keeps the answer for every key no other table holds.
OnlyShadowedKeysChange ==
  [][Opened /\ Opened' /\ pc # "apply" => \A k \in Keys :
        Get(k)' # Get(k) =>
          pc = "merge" /\ Holders(paths \ {Older, Newer}, k) # {}]_vars

\* A failed flush or merge may leave a table that is not listed, and the next
\* one overwrites it: a start finds it if it comes first.
Directories ==
  IF Opened /\ pc \notin {"dropOld", "dropNewer"}
    THEN {Seqs, Seqs \ {nextSeq}} ELSE {Seqs}

\* A request that was acknowledged survives every crash; one that failed may be
\* found by a later start or not. The engine implements DurableMap.
Reads ==
  [k \in Keys |-> IF Opened THEN Get(k) ELSE AfterRestart(wal, Seqs, k)]
Outcomes ==
  [k \in Keys |->
     LET logged == {Replayed(w, k) : w \in Survivors}
         stored == {TableValue(S, k) : S \in Directories}
     IN {Visible(IF l # None THEN l ELSE t) : l \in logged, t \in stored}]
Promise == INSTANCE DurableMap WITH kv <- Reads, outcomes <- Outcomes, open <- Opened
ImplementsDurableMap == Promise!Spec

\* Without failures, what a request left behind when it was answered is what every
\* restart finds ("all WAL records are durable after the first sync", engine.go:163,
\* of PutBatch).
AcknowledgedDurable ==
  pc = "idle" => \A k \in Keys : Outcomes[k] = {Get(k)}

\* Whatever call fails, the method that holds e.mu releases it.
LockReleased == pc \in Busy ~> pc \notin Busy

\* A start always finds a log it can replay.
StartsSucceed == pc # "failed"
=============================================================================
