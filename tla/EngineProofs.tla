---------------------------- MODULE EngineProofs ----------------------------
(***************************************************************************)
(* Theorems about Engine, for every value of its constants, and the engine *)
(* keeping the promise of DurableMap when Put writes one pair and          *)
(* RunCompaction finds at most two tables. Left-over tables stay shadowed  *)
(* in any case.                                                            *)
(***************************************************************************)
EXTENDS Engine, WellFoundedInduction, SequenceTheorems, FiniteSetTheorems, TLAPS

(* Numbers: a non-empty set of table numbers has a newest and an oldest one. *)

\* Newest is the largest element.
LEMMA NewestOf ==
  ASSUME NEW n \in Nat, NEW S \in SUBSET (1 .. n), S # {}
  PROVE  /\ Newest(S) \in S
         /\ \A t \in S : t <= Newest(S)
<1> DEFINE T == {n - s : s \in S}
           R == {ss \in Nat \X Nat : ss[1] < ss[2]}
<1>1. \A s \in S : s \in Nat /\ n - s \in Nat
  OBVIOUS
<1>2. T \in SUBSET Nat /\ T # {}
  BY <1>1, Zenon
<1>3. PICK x \in T : \A y \in T : <<y, x>> \notin R
  <2>1. IsWellFoundedOn(R, Nat)
    BY NatLessThanWellFounded DEF OpToRel
  <2> HIDE DEF R, T
  <2> QED BY <1>2, <2>1, WFMin, Zenon
<1>4. PICK s \in S : x = n - s
  OBVIOUS
<1>5. \A t \in S : t <= s
  <2> TAKE t \in S
  <2>1. <<n - t, n - s>> \notin R
    BY <1>3, <1>4
  <2>2. ~(n - t < n - s)
    BY <2>1, <1>1
  <2> QED BY <2>2, <1>1
<1> QED BY <1>5 DEF Newest

\* Oldest is the smallest element.
LEMMA OldestOf ==
  ASSUME NEW n \in Nat, NEW S \in SUBSET (1 .. n), S # {}
  PROVE  /\ Oldest(S) \in S
         /\ \A t \in S : Oldest(S) <= t
<1> DEFINE R == {ss \in Nat \X Nat : ss[1] < ss[2]}
<1>1. S \in SUBSET Nat
  OBVIOUS
<1>2. PICK s \in S : \A t \in S : <<t, s>> \notin R
  <2>1. IsWellFoundedOn(R, Nat)
    BY NatLessThanWellFounded DEF OpToRel
  <2> HIDE DEF R
  <2> QED BY <1>1, <2>1, WFMin, Zenon
<1>3. \A t \in S : s <= t
  <2> TAKE t \in S
  <2>1. s \in Nat /\ t \in Nat /\ ~(t < s)
    BY <1>1, <1>2
  <2> QED BY <2>1
<1> QED BY <1>3 DEF Oldest

-----------------------------------------------------------------------------
(* Types. The stages of a method say more than TypeOK and are needed for it. *)

\* What holds of the queues, the numbers and the list at each stage.
Stages ==
  /\ pc = "log" => toLog # <<>>
  /\ pc \in {"log", "sync", "apply"} => toApply # <<>>
  /\ pc \in {"fill", "merge", "dropOld", "dropNewer"} => nextSeq \in Seqs
  /\ pc \in {"truncate", "resync", "down", "failed"} => mem = Empty
  /\ ~Opened => paths = {}
  /\ \A s \in paths : s < nextSeq
  /\ pc \in {"merge", "dropOld", "dropNewer"} =>
       Older \in paths /\ Newer \in paths /\ Older < Newer

TypeInv == TypeOK /\ Stages

\* A replayed value is that of a whole record of the log.
LEMMA ReplayedType ==
  ASSUME NEW w \in Seq(Records), NEW k \in Keys
  PROVE  Replayed(w, k) \in Values \cup {Tomb, None}
<1>1. CASE RecordsOf(w, k) = {}
  BY <1>1 DEF Replayed
<1>2. CASE RecordsOf(w, k) # {}
  <2>1. RecordsOf(w, k) \in SUBSET (1 .. Len(w)) /\ Len(w) \in Nat
    BY DEF RecordsOf
  <2>2. Newest(RecordsOf(w, k)) \in RecordsOf(w, k)
    BY <1>2, <2>1, NewestOf
  <2> DEFINE i == Newest(RecordsOf(w, k))
  <2>3. i \in 1 .. Len(w) /\ w[i] \in Records /\ w[i].key = k
    BY <2>1, <2>2 DEF RecordsOf
  <2>4. w[i].val \in Values \cup {Tomb}
    BY <2>3, EngineAssumption DEF Records, Writes, TornRecord
  <2> QED BY <1>2, <2>4 DEF Replayed
<1> QED BY <1>1, <1>2

\* What a crash leaves is a log.
LEMMA SurvivorsType ==
  ASSUME TypeOK
  PROVE  Survivors \cup TornSurvivors \subseteq Seq(Records)
<1>1. Len(wal) \in Nat /\ Len(walDisk) \in Nat
  BY DEF TypeOK
<1>2. \A n \in 0 .. Len(wal) : SubSeq(wal, 1, n) \in Seq(Records)
  <2> TAKE n \in 0 .. Len(wal)
  <2>1. \A i \in 1 .. n : wal[i] \in Records
    BY <1>1 DEF TypeOK
  <2> QED BY <1>1, <2>1, SubSeqProperties
<1>3. TornRecord \in Records
  BY DEF Records
<1>4. \A w \in Seq(Records) : Append(w, TornRecord) \in Seq(Records)
  BY <1>3
<1>5. \A n \in Len(walDisk) .. Len(wal) : n \in 0 .. Len(wal)
  BY <1>1
<1>6. Survivors \subseteq Seq(Records)
  <2> SUFFICES ASSUME NEW w \in Survivors PROVE w \in Seq(Records)
    OBVIOUS
  <2>1. CASE truncated
    BY <2>1, <1>2 DEF Survivors, TypeOK
  <2>2. CASE ~truncated
    BY <2>2, <1>2, <1>5 DEF Survivors
  <2> QED BY <2>1, <2>2
<1>7. TornSurvivors \subseteq Seq(Records)
  <2> SUFFICES ASSUME NEW w \in TornSurvivors PROVE w \in Seq(Records)
    OBVIOUS
  <2>1. PICK n \in (IF truncated THEN 0 ELSE Len(walDisk)) .. Len(wal) :
               w = Append(SubSeq(wal, 1, n), TornRecord)
    BY DEF TornSurvivors
  <2>2. n \in 0 .. Len(wal)
    BY <1>1
  <2> QED BY <1>2, <1>4, <2>1, <2>2
<1> QED BY <1>6, <1>7

\* The contents of the sst directory.
LEMMA FileTypes ==
  /\ Empty \in Tables
  /\ Absent \in Files /\ Torn \in Files
  /\ \A t \in Tables : Whole(t) \in Files
<1>1. Empty \in Tables
  BY DEF Empty, Tables
<1> QED BY <1>1 DEF Absent, Torn, Whole, Files

\* An empty queue and an empty log have the right types.
LEMMA EmptyTypes == <<>> \in Seq(Writes) /\ <<>> \in Seq(Records)
  OBVIOUS

\* The bound on table numbers.
LEMMA MaxSeqNat == MaxSeq \in Nat
  BY EngineAssumption

\* Writing one file keeps the type of the directory.
LEMMA FilesExcept ==
  ASSUME TypeOK, NEW s, NEW f \in Files
  PROVE  [files EXCEPT ![s] = f] \in [Seqs -> Files]
BY DEF TypeOK

\* The initial state has the right types.
LEMMA TypeInit == Init => TypeInv
<1> SUFFICES ASSUME Init PROVE TypeInv
  OBVIOUS
<1>1. Empty \in Tables /\ Absent \in Files
  BY FileTypes
<1>3. files \in [Seqs -> Files]
  BY <1>1 DEF Init
<1>4. TypeOK
  <2>1. <<>> \in Seq(Writes) /\ <<>> \in Seq(Records)
    OBVIOUS
  <2>2. 1 \in 1 .. MaxSeq + 1
    BY EngineAssumption
  <2> QED BY <1>1, <1>3, <2>1, <2>2 DEF Init, TypeOK
<1>5. Stages
  BY DEF Init, Stages, Opened
<1> QED BY <1>4, <1>5 DEF TypeInv

\* The two oldest tables, when there are two.
LEMMA OldestTwo ==
  ASSUME TypeOK, Cardinality(paths) \in 2 .. CompactLimit
  PROVE  /\ Older \in paths /\ Newer \in paths /\ Older < Newer
         /\ \A s \in paths : s # Older => Newer <= s
<1>1. MaxSeq \in Nat /\ CompactLimit \in Nat /\ paths \in SUBSET (1 .. MaxSeq)
  BY EngineAssumption DEF TypeOK, Seqs
<1>2. IsFiniteSet(paths)
  <2>1. paths \in SUBSET Nat /\ \A s \in paths : s <= MaxSeq
    BY <1>1
  <2> QED BY <1>1, <2>1, FS_BoundedSetOfNaturals
<1>3. paths # {}
  BY <1>1, FS_EmptySet
<1>4. Older \in paths /\ \A t \in paths : Older <= t
  BY <1>1, <1>3, OldestOf DEF Older
<1>5. paths \ {Older} # {}
  <2>1. Cardinality({Older}) = 1
    BY FS_Singleton
  <2> QED BY <1>1, <2>1, <1>4
<1>6. paths \ {Older} \in SUBSET (1 .. MaxSeq)
  BY <1>1
<1>7. Newer \in paths \ {Older} /\ \A t \in paths \ {Older} : Newer <= t
  BY <1>1, <1>5, <1>6, OldestOf DEF Newer
<1> QED BY <1>1, <1>4, <1>7

\* Every step keeps the types and the stages.
LEMMA TypeStep == TypeInv /\ [Next]_vars => TypeInv'
<1> SUFFICES ASSUME TypeInv, [Next]_vars PROVE TypeInv'
  OBVIOUS
<1> USE EmptyTypes DEF TypeInv, TypeOK, Stages, Opened, Busy, memory, log, Older, Newer
<1>1. ASSUME NEW ws \in PutBatches \cup DeleteBatches, Request(ws)
      PROVE  TypeInv'
  <2>1. ws \in Seq(Writes) /\ ws # <<>>
    BY EngineAssumption
  <2> QED BY <1>1, <2>1 DEF Request
<1>2. CASE AppendRecord
  <2>1. Head(toLog) \in Writes /\ Tail(toLog) \in Seq(Writes)
    BY <1>2 DEF AppendRecord
  <2>2. Append(wal, Head(toLog)) \in Seq(Records)
    BY <2>1 DEF Records
  <2> QED BY <1>2, <2>1, <2>2 DEF AppendRecord
<1>3. CASE AppendFails
  <2>1. Append(wal, TornRecord) \in Seq(Records)
    BY DEF Records
  <2> QED BY <1>3, <2>1 DEF AppendFails, Abort
<1>4. CASE SyncLog
  BY <1>4 DEF SyncLog
<1>5. CASE SyncLogFails
  BY <1>5 DEF SyncLogFails, Abort
<1>6. CASE Apply
  <2>1. Head(toApply) \in Writes /\ Tail(toApply) \in Seq(Writes)
    BY <1>6 DEF Apply
  <2>2. mem' \in Tables
    BY <1>6, <2>1 DEF Apply, Tables, Writes
  <2> QED BY <1>6, <2>1, <2>2 DEF Apply, Continue
<1>7. CASE Flush
  BY <1>7 DEF Flush
<1>8. CASE StartMerge
  <2>1. files' \in [Seqs -> Files]
    BY <1>8, FilesExcept, FileTypes DEF StartMerge
  <2>2. Older \in paths /\ Newer \in paths /\ Older < Newer
    BY <1>8, OldestTwo DEF StartMerge, CanCompact
  <2> QED BY <1>8, <2>1, <2>2 DEF StartMerge, CanCompact
<1>9. CASE RefuseMerge
  <2>1. files' \in [Seqs -> Files]
    BY <1>9, FilesExcept, FileTypes DEF RefuseMerge
  <2> QED BY <1>9, <2>1 DEF RefuseMerge
<1>10. CASE CreateTable \/ CreateFails
  <2>1. files' \in [Seqs -> Files]
    BY <1>10, FilesExcept, FileTypes DEF CreateTable, CreateFails
  <2> QED BY <1>10, <2>1 DEF CreateTable, CreateFails, Abort
<1>11. CASE FillTable
  <2>1. files' \in [Seqs -> Files] /\ mem' \in Tables
    BY <1>11, FilesExcept, FileTypes DEF FillTable, ResetMemtable
  <2>2. nextSeq' \in 1 .. MaxSeq + 1 /\ paths' \in SUBSET Seqs
    BY <1>11, MaxSeqNat DEF FillTable, Seqs
  <2>3. \A s \in paths' : s < nextSeq'
    BY <1>11, MaxSeqNat DEF FillTable, Seqs
  <2> QED BY <1>11, <2>1, <2>2, <2>3 DEF FillTable, ResetMemtable
<1>12. CASE FillFails
  <2>1. files' \in [Seqs -> Files]
    BY <1>12, FilesExcept, FileTypes DEF FillFails
  <2> QED BY <1>12, <2>1 DEF FillFails, Abort
<1>13. CASE TruncateLog \/ TruncateFails
  BY <1>13 DEF TruncateLog, TruncateFails, Abort
<1>14. CASE SyncTruncation \/ SyncTruncationFails
  BY <1>14 DEF SyncTruncation, SyncTruncationFails, Abort, Continue
<1>15. CASE MergeTables \/ MergeFails
  <2>1. Merged \in Tables
    <3>1. Older \in Seqs /\ Newer \in Seqs
      BY <1>15 DEF MergeTables, MergeFails
    <3>2. files[Older].data \in Tables /\ files[Newer].data \in Tables
      BY <3>1 DEF Files
    <3> QED BY <3>2 DEF Merged, Tables
  <2>2. files' \in [Seqs -> Files]
    BY <1>15, <2>1, FilesExcept, FileTypes DEF MergeTables, MergeFails
  <2> QED BY <1>15, <2>2 DEF MergeTables, MergeFails, Abort
<1>16. CASE DropOlder
  <2>1. files' \in [Seqs -> Files]
    BY <1>16, FilesExcept, FileTypes DEF DropOlder, Removed
  <2> QED BY <1>16, <2>1 DEF DropOlder
<1>17. CASE DropNewer
  <2>1. files' \in [Seqs -> Files]
    BY <1>17, FilesExcept, FileTypes DEF DropNewer, Removed
  <2>2. nextSeq' \in 1 .. MaxSeq + 1 /\ paths' \in SUBSET Seqs
    <3>1. nextSeq \in Seqs /\ paths' = (paths \ {Older, Newer}) \cup {nextSeq}
      BY <1>17 DEF DropNewer
    <3>2. nextSeq' = nextSeq + 1
      BY <1>17 DEF DropNewer
    <3>3. nextSeq' \in 1 .. MaxSeq + 1
      BY <3>1, <3>2, MaxSeqNat DEF Seqs
    <3> QED BY <3>1, <3>3
  <2>3. \A s \in paths' : s < nextSeq'
    BY <1>17, MaxSeqNat DEF DropNewer, Seqs
  <2> QED BY <1>17, <2>1, <2>2, <2>3 DEF DropNewer
<1>18. CASE Crash \/ Close
  <2>1. wal' \in Seq(Records) /\ walDisk' \in Seq(Records) /\ truncated' \in BOOLEAN
    BY <1>18, SurvivorsType DEF Crash, Close
  <2>2. 1 \in 1 .. MaxSeq + 1
    BY EngineAssumption
  <2> QED BY <1>18, <2>1, <2>2, FileTypes DEF Crash, Close, Stopped
<1>19. CASE OpenEngine
  <2>1. mem' \in Tables
    BY <1>19, ReplayedType DEF OpenEngine, Tables
  <2>2. MaxSeq \in Nat /\ Listed \in SUBSET (1 .. MaxSeq)
    BY EngineAssumption DEF Listed, Seqs
  <2>3. Listed # {} => Newest(Listed) \in Listed /\ \A t \in Listed : t <= Newest(Listed)
    BY <2>2, NewestOf
  <2>4. nextSeq' \in 1 .. MaxSeq + 1 /\ \A s \in paths' : s < nextSeq'
    <3>1. paths' = Listed /\ nextSeq' = FirstFree
      BY <1>19 DEF OpenEngine
    <3>2. CASE Listed = {}
      BY <2>2, <3>1, <3>2 DEF FirstFree
    <3>3. CASE Listed # {}
      <4>1. nextSeq' = Newest(Listed) + 1 /\ Newest(Listed) \in 1 .. MaxSeq
        BY <2>2, <2>3, <3>1, <3>3 DEF FirstFree
      <4>2. \A s \in Listed : s \in 1 .. MaxSeq /\ s <= Newest(Listed)
        BY <2>2, <2>3, <3>3
      <4> QED BY <2>2, <3>1, <4>1, <4>2
    <3> QED BY <3>2, <3>3
  <2> QED BY <1>19, <2>1, <2>2, <2>4 DEF OpenEngine, Seqs
<1>20. CASE OpenFails
  BY <1>20 DEF OpenFails
<1>21. CASE UNCHANGED vars
  BY <1>21 DEF vars
<1> QED BY <1>1, <1>2, <1>3, <1>4, <1>5, <1>6, <1>7, <1>8, <1>9, <1>10, <1>11,
           <1>12, <1>13, <1>14, <1>15, <1>16, <1>17, <1>18, <1>19, <1>20, <1>21
        DEF Next, Step

\* The variables of the engine keep their types, and each stage of a method
\* finds the queues, numbers and tables it relies on.
THEOREM TypeCorrect == Spec => []TypeInv
<1>1. Init => TypeInv
  BY TypeInit
<1>2. TypeInv /\ [Next]_vars => TypeInv'
  BY TypeStep
<1> QED BY <1>1, <1>2, PTL DEF Spec

\* The variables of the engine keep their types whatever is called, fails or
\* crashes.
THEOREM TypesHold == Spec => []TypeOK
<1>1. TypeInv => TypeOK
  BY DEF TypeInv
<1> QED BY <1>1, TypeCorrect, PTL

-----------------------------------------------------------------------------
(* Reads. *)

\* A maximum is unique.
LEMMA NewestIs ==
  ASSUME NEW m \in Nat, NEW S \in SUBSET (1 .. m), NEW n \in S, \A t \in S : t <= n
  PROVE  Newest(S) = n
<1> DEFINE x == Newest(S)
<1>1. x \in S /\ n <= x
  BY NewestOf
<1>2. x \in 1 .. m /\ n \in 1 .. m /\ x <= n
  BY <1>1
<1> HIDE DEF x
<1>3. x = n
  BY <1>1, <1>2
<1> QED BY <1>3 DEF x

\* The tables a reader searches are numbered within the bound.
LEMMA ReadListType ==
  ASSUME TypeInv
  PROVE  ReadList \in SUBSET (1 .. MaxSeq)
BY DEF TypeInv, TypeOK, Stages, ReadList, Seqs

\* A step that leaves the memtable, the list and the listed files alone leaves
\* every answer alone.
LEMMA SameReads ==
  ASSUME TypeInv, mem' = mem, ReadList' = ReadList,
         \A s \in ReadList : files'[s] = files[s], NEW k \in Keys
  PROVE  Get(k)' = Get(k)
<1>1. TableValue(ReadList, k)' = TableValue(ReadList, k)
  <2> DEFINE R == ReadList
  <2>1. R \in SUBSET (1 .. MaxSeq) /\ \A s \in R : files'[s] = files[s]
    BY ReadListType
  <2>2. {s \in R : files'[s].state = "whole" /\ files'[s].data[k] # None} = Holders(R, k)
    BY DEF Holders
  <2>3. Holders(R, k) # {} => Newest(Holders(R, k)) \in R
    <3>1. Holders(R, k) \in SUBSET (1 .. MaxSeq) /\ Holders(R, k) \subseteq R
      BY <2>1 DEF Holders
    <3> QED BY <3>1, MaxSeqNat, NewestOf
  <2> QED BY <2>1, <2>2, <2>3 DEF TableValue, Holders
<1> QED BY <1>1 DEF Get, Visible

\* A flush moves the memtable into the newest table: no answer changes.
LEMMA FillReads ==
  ASSUME TypeInv, FillTable, NEW k \in Keys
  PROVE  Get(k)' = Get(k)
<1> DEFINE P == paths
           n == nextSeq
           H == Holders(P, k)
           HH == {s \in P \cup {n} : files'[s].state = "whole" /\ files'[s].data[k] # None}
<1>1. /\ n \in Seqs /\ P \in SUBSET (1 .. MaxSeq) /\ MaxSeq \in Nat
      /\ \A s \in P : s < n
      /\ mem \in Tables
      /\ files \in [Seqs -> Files]
  BY MaxSeqNat DEF FillTable, TypeInv, TypeOK, Stages, Seqs
<1>2. files'[n] = Whole(mem) /\ \A s \in P : files'[s] = files[s]
  BY <1>1 DEF FillTable, Seqs
<1>3. ReadList = P /\ ReadList' = P \cup {n} /\ mem' = Empty
  BY DEF FillTable, ResetMemtable, ReadList
<1>4. Get(k)' = Visible(IF HH = {} THEN None ELSE files'[Newest(HH)].data[k])
  BY <1>3 DEF Get, TableValue, Holders, Empty, Visible
<1>5. CASE mem[k] # None
  <2>1. HH \in SUBSET (1 .. MaxSeq) /\ \A t \in HH : t <= n
    <3>1. \A t \in P \cup {n} : t \in 1 .. MaxSeq /\ t <= n
      BY <1>1 DEF Seqs
    <3> QED BY <3>1
  <2>2. n \in HH
    BY <1>2, <1>5 DEF Whole
  <2>3. Newest(HH) = n
    BY <1>1, <2>1, <2>2, NewestIs
  <2>4. files'[n].data[k] = mem[k]
    BY <1>2 DEF Whole
  <2> QED BY <1>4, <1>5, <2>2, <2>3, <2>4 DEF Get
<1>6. CASE mem[k] = None
  <2>1. HH = H
    BY <1>2, <1>6 DEF Whole, Holders
  <2>2. H # {} => Newest(H) \in P
    <3>1. H \in SUBSET (1 .. MaxSeq) /\ H \subseteq P
      BY <1>1 DEF Holders
    <3> QED BY <1>1, <3>1, NewestOf
  <2> QED BY <1>2, <1>3, <1>4, <1>6, <2>1, <2>2 DEF Get, TableValue
<1> QED BY <1>5, <1>6

\* The tables RunCompaction reads can be read.
MergeInv == pc = "merge" => Readable(Older) /\ Readable(Newer)

\* RunCompaction keeps the answer for a key that no third table holds.
LEMMA MergeReads ==
  ASSUME TypeInv, MergeInv, MergeTables,
         NEW k \in Keys, Holders(paths \ {Older, Newer}, k) = {}
  PROVE  Get(k)' = Get(k)
<1> DEFINE P == paths
           n == nextSeq
           o == Older
           w == Newer
           L == (P \ {o, w}) \cup {n}
           H == Holders(P, k)
           HH == {s \in L : files'[s].state = "whole" /\ files'[s].data[k] # None}
<1>1. /\ n \in Seqs /\ P \in SUBSET (1 .. MaxSeq) /\ MaxSeq \in Nat
      /\ \A s \in P : s < n
      /\ o \in P /\ w \in P /\ o < w
      /\ files[o].state = "whole" /\ files[w].state = "whole"
      /\ files \in [Seqs -> Files]
  BY MaxSeqNat DEF MergeTables, TypeInv, TypeOK, Stages, Seqs, MergeInv, Readable
<1>2. files'[n] = Whole(Merged) /\ \A s \in P : files'[s] = files[s]
  BY <1>1 DEF MergeTables, Seqs
<1>3. ReadList = P /\ ReadList' = L /\ mem' = mem
  BY DEF MergeTables, ReadList, Older, Newer
<1>4. Get(k)' = Visible(IF mem[k] # None THEN mem[k] ELSE
                         IF HH = {} THEN None ELSE files'[Newest(HH)].data[k])
  BY <1>3 DEF Get, TableValue, Holders, Visible
<1>5. H = {s \in {o, w} : files[s].data[k] # None}
  BY <1>1 DEF Holders
<1>6. HH = IF Merged[k] # None THEN {n} ELSE {}
  <2>1. \A s \in P \ {o, w} : ~(files[s].state = "whole" /\ files[s].data[k] # None)
    BY DEF Holders
  <2>2. \A s \in P \ {o, w} : ~(files'[s].state = "whole" /\ files'[s].data[k] # None)
    BY <1>2, <2>1
  <2>3. files'[n].state = "whole" /\ files'[n].data[k] = Merged[k]
    BY <1>2 DEF Whole
  <2> HIDE DEF o, w, n, P
  <2> QED BY <2>2, <2>3
<1>7. Merged[k] = IF files[w].data[k] # None THEN files[w].data[k] ELSE files[o].data[k]
  BY DEF Merged
<1>8. TableValue(P, k) = Merged[k]
  <2>1. H \in SUBSET (1 .. MaxSeq)
    BY <1>1 DEF Holders
  <2>2. CASE files[w].data[k] # None
    <3>1. w \in H /\ \A t \in H : t <= w
      BY <1>1, <1>5, <2>2
    <3> QED BY <1>1, <1>7, <2>1, <2>2, <3>1, NewestIs DEF TableValue
  <2>3. CASE files[w].data[k] = None /\ files[o].data[k] # None
    <3>1. o \in H /\ \A t \in H : t <= o
      BY <1>1, <1>5, <2>3
    <3> QED BY <1>1, <1>7, <2>1, <2>3, <3>1, NewestIs DEF TableValue
  <2>4. CASE files[w].data[k] = None /\ files[o].data[k] = None
    BY <1>5, <1>7, <2>4 DEF TableValue
  <2> QED BY <2>2, <2>3, <2>4
<1>9. (IF HH = {} THEN None ELSE files'[Newest(HH)].data[k]) = Merged[k]
  <2>1. CASE Merged[k] # None
    <3>1. HH = {n} /\ {n} \in SUBSET (1 .. MaxSeq)
      BY <1>1, <1>6, <2>1 DEF Seqs
    <3>2. n \in HH /\ \A t \in HH : t <= n
      BY <1>1, <3>1 DEF Seqs
    <3>3. Newest(HH) = n
      BY <1>1, <3>1, <3>2, NewestIs
    <3> QED BY <1>2, <3>1, <3>3 DEF Whole
  <2>2. CASE Merged[k] = None
    BY <1>6, <2>2
  <2> QED BY <2>1, <2>2
<1> QED BY <1>3, <1>4, <1>8, <1>9 DEF Get

\* Between opening both inputs and writing the output, RunCompaction holds the
\* lock, so both inputs stay readable.
LEMMA MergeStep == TypeInv /\ MergeInv /\ [Next]_vars => MergeInv'
<1> SUFFICES ASSUME TypeInv, MergeInv, [Next]_vars, pc' = "merge"
             PROVE  Readable(Older)' /\ Readable(Newer)'
  BY DEF MergeInv
<1>1. \/ StartMerge
      \/ pc = "merge" /\ UNCHANGED <<paths, files>>
  BY DEF Next, Step, vars, memory, log, Request, AppendRecord, AppendFails,
     SyncLog, SyncLogFails, Apply, Continue, Flush, CreateTable, CreateFails,
     FillTable, FillFails, TruncateLog, TruncateFails, SyncTruncation,
     SyncTruncationFails, RefuseMerge, CanCompact, MergeTables, MergeFails,
     DropOlder, DropNewer, Crash, Close, Stopped, OpenEngine, OpenFails, Abort
<1>2. CASE StartMerge
  <2> DEFINE o == Older
             w == Newer
  <2>1. o \in paths /\ w \in paths
    BY <1>2, OldestTwo DEF StartMerge, CanCompact, TypeInv
  <2>2. paths' = paths /\ Older' = o /\ Newer' = w
    BY <1>2 DEF StartMerge, Older, Newer
  <2>3. nextSeq \notin paths /\ paths \in SUBSET Seqs
    BY MaxSeqNat DEF TypeInv, TypeOK, Stages, Seqs
  <2>4. \A s \in paths : files'[s] = files[s]
    BY <1>2, <2>3 DEF StartMerge, TypeInv, TypeOK
  <2>5. Readable(o) /\ Readable(w)
    BY <1>2 DEF StartMerge
  <2>6. files'[o].state = "whole" /\ files'[w].state = "whole"
    BY <2>1, <2>4, <2>5 DEF Readable
  <2> QED BY <2>2, <2>6 DEF Readable
<1>3. CASE pc = "merge" /\ UNCHANGED <<paths, files>>
  BY <1>3 DEF MergeInv, Readable, Older, Newer
<1> QED BY <1>1, <1>2, <1>3

\* Which answers a step can change.
LEMMA ReadsStep ==
  ASSUME TypeInv, MergeInv, [Next]_vars, Opened, Opened', NEW k \in Keys,
         Get(k)' # Get(k)
  PROVE  \/ Apply /\ Head(toApply).key = k
         \/ MergeTables /\ Holders(paths \ {Older, Newer}, k) # {}
<1> USE DEF ReadList
<1>1. nextSeq \notin paths /\ paths \in SUBSET Seqs /\ files \in [Seqs -> Files]
  BY MaxSeqNat DEF TypeInv, TypeOK, Stages, Seqs
<1>2. ASSUME NEW ws \in PutBatches \cup DeleteBatches, Request(ws) PROVE FALSE
  BY <1>2, SameReads DEF Request
<1>3. CASE AppendRecord \/ AppendFails \/ SyncLog \/ SyncLogFails
  BY <1>3, SameReads DEF AppendRecord, AppendFails, SyncLog, SyncLogFails, Abort
<1>4. CASE Apply
  <2>1. ReadList' = ReadList /\ files' = files
    BY <1>4 DEF Apply, Continue
  <2>2. TableValue(ReadList, k)' = TableValue(ReadList, k)
    BY <2>1 DEF TableValue, Holders
  <2>3. k # Head(toApply).key => mem'[k] = mem[k]
    BY <1>4 DEF Apply, TypeInv, TypeOK, Tables
  <2> QED BY <1>4, <2>2, <2>3 DEF Get, Visible
<1>5. CASE Flush \/ TruncateLog \/ TruncateFails \/ SyncTruncation \/ SyncTruncationFails
  BY <1>5, SameReads DEF Flush, TruncateLog, TruncateFails, SyncTruncation,
     SyncTruncationFails, Abort, Continue
<1>6. CASE CreateTable \/ CreateFails \/ FillFails \/ MergeFails
  <2>1. \A s \in paths : files'[s] = files[s]
    BY <1>1, <1>6 DEF CreateTable, CreateFails, FillFails, MergeFails
  <2> QED BY <1>6, <2>1, SameReads
          DEF CreateTable, CreateFails, FillFails, MergeFails, Abort
<1>7. CASE StartMerge \/ RefuseMerge
  <2>1. \A s \in paths : files'[s] = files[s]
    BY <1>1, <1>7 DEF StartMerge, RefuseMerge
  <2> QED BY <1>7, <2>1, SameReads DEF StartMerge, RefuseMerge, CanCompact, memory
<1>8. CASE FillTable
  BY <1>8, FillReads
<1>9. CASE MergeTables
  BY <1>9, MergeReads
<1>10. CASE DropOlder
  <2>1. ReadList' = ReadList /\ mem' = mem
    BY <1>10 DEF DropOlder, Older, Newer
  <2>2. \A s \in ReadList : files'[s] = files[s]
    <3>1. Older \in paths /\ Older # nextSeq /\ pc \in {"dropOld", "dropNewer"}
      BY <1>1, <1>10 DEF DropOlder, TypeInv, Stages
    <3>2. \A s \in ReadList : s # Older
      BY <3>1
    <3>3. files' = files \/ files' = [files EXCEPT ![Older] = Absent]
      BY <1>10 DEF DropOlder, Removed
    <3>4. ReadList \subseteq Seqs
      BY ReadListType DEF Seqs
    <3> HIDE DEF ReadList
    <3> QED BY <1>1, <3>2, <3>3, <3>4
  <2> QED BY <2>1, <2>2, SameReads
<1>11. CASE DropNewer
  <2>1. ReadList' = ReadList /\ mem' = mem
    BY <1>11 DEF DropNewer, Older, Newer
  <2>2. \A s \in ReadList : files'[s] = files[s]
    <3>1. Newer \in paths /\ Newer # nextSeq /\ pc \in {"dropOld", "dropNewer"}
      BY <1>1, <1>11 DEF DropNewer, TypeInv, Stages
    <3>2. \A s \in ReadList : s # Newer
      BY <3>1
    <3>3. files' = files \/ files' = [files EXCEPT ![Newer] = Absent]
      BY <1>11 DEF DropNewer, Removed
    <3>4. ReadList \subseteq Seqs
      BY ReadListType DEF Seqs
    <3> HIDE DEF ReadList
    <3> QED BY <1>1, <3>2, <3>3, <3>4
  <2> QED BY <2>1, <2>2, SameReads
<1>12. CASE Crash \/ Close \/ OpenEngine \/ OpenFails
  BY <1>12 DEF Crash, Close, Stopped, OpenEngine, OpenFails, Opened
<1>13. CASE UNCHANGED vars
  BY <1>13, SameReads DEF vars, memory, Older, Newer
<1> QED BY <1>2, <1>3, <1>4, <1>5, <1>6, <1>7, <1>8, <1>9, <1>10, <1>11, <1>12,
           <1>13 DEF Next, Step

\* Flushes, failed calls and every file operation leave each answer of Get
\* alone; RunCompaction does so for a key held by no third table.
THEOREM CompactionLocal == Spec => OnlyShadowedKeysChange
<1> DEFINE A ==
      Opened /\ Opened' /\ pc # "apply" => \A k \in Keys :
        Get(k)' # Get(k) =>
          pc = "merge" /\ Holders(paths \ {Older, Newer}, k) # {}
<1>1. Init => TypeInv /\ MergeInv
  BY TypeInit DEF Init, MergeInv
<1>2. TypeInv /\ MergeInv /\ [Next]_vars => (TypeInv /\ MergeInv)'
  BY TypeStep, MergeStep
<1>3. TypeInv /\ MergeInv /\ [Next]_vars => [A]_vars
  BY ReadsStep DEF Apply, MergeTables
<1> QED BY <1>1, <1>2, <1>3, PTL DEF Spec, OnlyShadowedKeysChange

\* With at most two tables at a time RunCompaction merges all there is.
AllMerged == pc = "merge" => paths = {Older, Newer}

\* With a limit of two tables, a merge in progress covers the whole list.
LEMMA AllMergedStep ==
  ASSUME CompactLimit <= 2
  PROVE  TypeInv /\ AllMerged /\ [Next]_vars => AllMerged'
<1> SUFFICES ASSUME TypeInv, AllMerged, [Next]_vars, pc' = "merge"
             PROVE  paths' = {Older, Newer}'
  BY DEF AllMerged
<1>1. \/ StartMerge
      \/ pc = "merge" /\ UNCHANGED paths
  BY DEF Next, Step, vars, memory, log, Request, AppendRecord, AppendFails,
     SyncLog, SyncLogFails, Apply, Continue, Flush, CreateTable, CreateFails,
     FillTable, FillFails, TruncateLog, TruncateFails, SyncTruncation,
     SyncTruncationFails, RefuseMerge, CanCompact, MergeTables, MergeFails,
     DropOlder, DropNewer, Crash, Close, Stopped, OpenEngine, OpenFails, Abort
<1>2. CASE StartMerge
  <2> DEFINE o == Older
             w == Newer
  <2>1. o \in paths /\ w \in paths /\ o < w
    BY <1>2, OldestTwo DEF StartMerge, CanCompact, TypeInv
  <2>2. o # w
    BY <2>1, MaxSeqNat DEF TypeInv, TypeOK, Seqs
  <2>3. Cardinality(paths) = 2
    BY <1>2, EngineAssumption DEF StartMerge, CanCompact
  <2>4. Cardinality({o, w}) = 2
    <3>1. IsFiniteSet({o}) /\ Cardinality({o}) = 1
      BY FS_Singleton
    <3>2. {o} \cup {w} = {o, w} /\ w \notin {o}
      BY <2>2
    <3> HIDE DEF o, w
    <3>3. Cardinality({o} \cup {w}) = Cardinality({o}) + 1
      BY <3>1, <3>2, FS_AddElement
    <3> QED BY <3>1, <3>2, <3>3
  <2>5. IsFiniteSet(paths)
    <3>1. paths \in SUBSET Nat /\ \A s \in paths : s <= MaxSeq
      BY MaxSeqNat DEF TypeInv, TypeOK, Seqs
    <3> QED BY <3>1, MaxSeqNat, FS_BoundedSetOfNaturals
  <2>6. {o, w} = paths
    <3>1. {o, w} \in SUBSET paths
      BY <2>1
    <3> HIDE DEF o, w
    <3> QED BY <2>3, <2>4, <2>5, <3>1, FS_Subset
  <2> QED BY <1>2, <2>6 DEF StartMerge, Older, Newer
<1>3. CASE pc = "merge" /\ UNCHANGED paths
  BY <1>3 DEF AllMerged, Older, Newer
<1> QED BY <1>1, <1>2, <1>3

\* As long as RunCompaction is only called with two tables or fewer, nothing
\* but a request for the key changes what Get answers.
THEOREM ReadsAreStable ==
  ASSUME CompactLimit <= 2
  PROVE  Spec => OnlyRequestsChangeReads
<1> DEFINE A ==
      Opened /\ Opened' => \A k \in Keys :
        Get(k)' # Get(k) => pc = "apply" /\ Head(toApply).key = k
<1>1. Init => TypeInv /\ MergeInv /\ AllMerged
  BY TypeInit DEF Init, MergeInv, AllMerged
<1>2. TypeInv /\ MergeInv /\ AllMerged /\ [Next]_vars
        => (TypeInv /\ MergeInv /\ AllMerged)'
  BY TypeStep, MergeStep, AllMergedStep
<1>3. TypeInv /\ MergeInv /\ AllMerged /\ [Next]_vars => [A]_vars
  <2> SUFFICES ASSUME TypeInv, MergeInv, AllMerged, [Next]_vars, Opened, Opened',
                      NEW k \in Keys, Get(k)' # Get(k)
               PROVE  pc = "apply" /\ Head(toApply).key = k
    OBVIOUS
  <2>1. MergeTables => Holders(paths \ {Older, Newer}, k) = {}
    BY DEF AllMerged, MergeTables, Holders
  <2> QED BY <2>1, ReadsStep DEF Apply
<1> QED BY <1>1, <1>2, <1>3, PTL DEF Spec, OnlyRequestsChangeReads

-----------------------------------------------------------------------------
(* The log. *)

\* Put and PutBatch of one pair: what every method but the edge batches of
\* graph.go asks for.
SinglePairs == \A ws \in PutBatches : Len(ws) = 1

\* The writes of the running request on their way to the log and the memtable.
QueueLogged ==
  /\ pc \in {"sync", "apply"} =>
       \A j \in DOMAIN toApply : \E i \in DOMAIN wal : wal[i] = toApply[j]
  /\ pc = "log" =>
       \A j \in DOMAIN toApply :
         \/ \E i \in DOMAIN wal : wal[i] = toApply[j]
         \/ \E l \in DOMAIN toLog : toLog[l] = toApply[j]
  /\ pc \in {"log", "sync", "apply"} =>
       \/ Len(toApply) = 1
       \/ \A j \in DOMAIN toApply : toApply[j].val = Tomb
  /\ pc \notin {"log", "sync", "apply"} => toApply = <<>>

LogInv == MemtableLogged /\ QueueLogged

\* A value that is replayed has its record in the log.
LEMMA ReplayedLogged ==
  ASSUME NEW w \in Seq(Records), NEW k \in Keys, Replayed(w, k) # None
  PROVE  \E i \in DOMAIN w : w[i] = [key |-> k, val |-> Replayed(w, k)]
<1> DEFINE R == RecordsOf(w, k)
           i == Newest(R)
<1>1. R # {} /\ Replayed(w, k) = w[i].val
  BY DEF Replayed
<1>2. R \in SUBSET (1 .. Len(w)) /\ Len(w) \in Nat
  BY DEF RecordsOf
<1>3. i \in R
  BY <1>1, <1>2, NewestOf
<1>4. i \in DOMAIN w /\ w[i] \in Records /\ w[i].key = k
  BY <1>3 DEF RecordsOf
<1>5. w[i] = [key |-> k, val |-> w[i].val]
  BY <1>4, EngineAssumption DEF Records, Writes, TornRecord
<1> QED BY <1>1, <1>4, <1>5

\* A longer log still has every record.
LEMMA MemtableStaysLogged ==
  ASSUME MemtableLogged, Opened, mem' = mem,
         \A i \in DOMAIN wal : i \in DOMAIN wal' /\ wal'[i] = wal[i]
  PROVE  MemtableLogged'
BY DEF MemtableLogged, Entries

\* Appending a record keeps the others.
LEMMA AppendKeeps ==
  ASSUME TypeOK, NEW r
  PROVE  /\ \A i \in DOMAIN wal : i \in DOMAIN Append(wal, r) /\ Append(wal, r)[i] = wal[i]
         /\ \E i \in DOMAIN Append(wal, r) : Append(wal, r)[i] = r
<1>1. wal \in Seq(Records) /\ Len(wal) \in Nat /\ DOMAIN wal = 1 .. Len(wal)
  BY DEF TypeOK
<1> DEFINE a == Append(wal, r)
<1>2. /\ DOMAIN a = 1 .. Len(wal) + 1
      /\ \A i \in 1 .. Len(wal) : a[i] = wal[i]
      /\ a[Len(wal) + 1] = r
  BY <1>1
<1> HIDE DEF a
<1>3. Len(wal) + 1 \in DOMAIN a
  BY <1>1, <1>2
<1>4. \A i \in DOMAIN wal : i \in DOMAIN a /\ a[i] = wal[i]
  BY <1>1, <1>2
<1> QED BY <1>2, <1>3, <1>4 DEF a

\* Every step keeps the memtable covered by the log, and the queue of the
\* running request too.
LEMMA LogStep ==
  ASSUME SinglePairs
  PROVE  TypeInv /\ LogInv /\ [Next]_vars => LogInv'
<1> SUFFICES ASSUME TypeInv, LogInv, [Next]_vars PROVE LogInv'
  OBVIOUS
<1> USE DEF LogInv
<1>1. ASSUME NEW ws \in PutBatches \cup DeleteBatches, Request(ws)
      PROVE  LogInv'
  <2>1. MemtableLogged'
    BY <1>1, MemtableStaysLogged DEF Request, log, Opened
  <2>2. ws \in Seq(Writes) /\ (Len(ws) = 1 \/ \A j \in DOMAIN ws : ws[j].val = Tomb)
    BY EngineAssumption DEF SinglePairs
  <2>3. QueueLogged'
    BY <1>1, <2>2 DEF Request, QueueLogged
  <2> QED BY <2>1, <2>3
<1>2. CASE AppendRecord
  <2> DEFINE r == Head(toLog)
  <2>1. pc = "log" /\ toLog # <<>> /\ toLog \in Seq(Writes) /\ toApply' = toApply
        /\ wal' = Append(wal, r) /\ toLog' = Tail(toLog) /\ mem' = mem
        /\ pc' = IF Tail(toLog) = <<>> THEN "sync" ELSE "log"
    BY <1>2 DEF AppendRecord, TypeInv, TypeOK, Stages
  <2>2. /\ \A i \in DOMAIN wal : i \in DOMAIN wal' /\ wal'[i] = wal[i]
        /\ \E i \in DOMAIN wal' : wal'[i] = r
    BY <2>1, AppendKeeps DEF TypeInv
  <2>3. MemtableLogged'
    BY <2>1, <2>2, MemtableStaysLogged DEF Opened
  <2>4. \A j \in DOMAIN toApply :
          \/ \E i \in DOMAIN wal' : wal'[i] = toApply[j]
          \/ \E l \in DOMAIN toLog' : toLog'[l] = toApply[j]
    <3> TAKE j \in DOMAIN toApply
    <3>1. CASE \E i \in DOMAIN wal : wal[i] = toApply[j]
      BY <2>2, <3>1
    <3>2. CASE \E l \in DOMAIN toLog : toLog[l] = toApply[j]
      <4>1. PICK l \in 1 .. Len(toLog) : toLog[l] = toApply[j]
        BY <2>1, <3>2
      <4>2. CASE l = 1
        BY <2>1, <2>2, <4>1, <4>2
      <4>3. CASE l # 1
        <5>1. Len(Tail(toLog)) = Len(toLog) - 1 /\ Len(toLog) \in Nat
              /\ l - 1 \in 1 .. Len(Tail(toLog)) /\ Tail(toLog)[l - 1] = toLog[l]
          BY <2>1, <4>1, <4>3, HeadTailProperties
        <5>2. l - 1 \in DOMAIN toLog' /\ toLog'[l - 1] = toApply[j]
          BY <2>1, <4>1, <5>1
        <5> QED BY <5>2
      <4> QED BY <4>2, <4>3
    <3> QED BY <2>1, <3>1, <3>2 DEF QueueLogged
  <2>5. pc' = "sync" => toLog' = <<>>
    BY <2>1
  <2>6. pc' = "sync" => \A j \in DOMAIN toApply : \E i \in DOMAIN wal' : wal'[i] = toApply[j]
    BY <2>4, <2>5
  <2>7. QueueLogged'
    BY <2>1, <2>4, <2>6 DEF QueueLogged
  <2> QED BY <2>3, <2>7
<1>3. CASE AppendFails
  <2>1. \A i \in DOMAIN wal : i \in DOMAIN wal' /\ wal'[i] = wal[i]
    BY <1>3, AppendKeeps DEF AppendFails, TypeInv
  <2>2. MemtableLogged'
    BY <1>3, <2>1, MemtableStaysLogged DEF AppendFails, Opened, Abort
  <2> QED BY <1>3, <2>2 DEF AppendFails, Abort, QueueLogged
<1>4. CASE SyncLog \/ SyncLogFails
  <2>1. MemtableLogged'
    BY <1>4, MemtableStaysLogged DEF SyncLog, SyncLogFails, Abort, log, Opened
  <2> QED BY <1>4, <2>1 DEF SyncLog, SyncLogFails, Abort, QueueLogged, log
<1>5. CASE Apply
  <2> DEFINE r == Head(toApply)
  <2>1. /\ pc = "apply" /\ toApply # <<>> /\ toApply \in Seq(Writes)
        /\ r = toApply[1] /\ r \in Writes /\ toApply' = Tail(toApply)
        /\ wal' = wal /\ mem' = [mem EXCEPT ![r.key] = r.val] /\ mem \in Tables
        /\ pc' \in {"create", "apply", "idle"}
        /\ pc' = "create" => r.val # Tomb
        /\ pc' = "idle" => Tail(toApply) = <<>>
    <3>1. pc = "apply" /\ toApply # <<>> /\ toApply \in Seq(Writes) /\ mem \in Tables
      BY <1>5 DEF Apply, TypeInv, TypeOK, Stages
    <3>2. r = toApply[1] /\ r \in Writes
      BY <3>1
    <3>3. /\ toApply' = Tail(toApply) /\ wal' = wal
          /\ mem' = [mem EXCEPT ![r.key] = r.val]
      BY <1>5 DEF Apply, log
    <3>4. /\ pc' \in {"create", "apply", "idle"}
          /\ pc' = "create" => r.val # Tomb
          /\ pc' = "idle" => Tail(toApply) = <<>>
      BY <1>5 DEF Apply, Continue
    <3> QED BY <3>1, <3>2, <3>3, <3>4
  <2>2. \E i \in DOMAIN wal : wal[i] = r
    BY <2>1 DEF QueueLogged
  <2>3. MemtableLogged'
    <3> SUFFICES ASSUME NEW k \in Keys, mem'[k] # None
                 PROVE  \E i \in DOMAIN wal : wal[i] = [key |-> k, val |-> mem'[k]]
      BY <2>1 DEF MemtableLogged, Entries
    <3>1. CASE k = r.key
      <4>1. r = [key |-> k, val |-> mem'[k]]
        BY <2>1, <3>1 DEF Writes, Tables
      <4> QED BY <2>2, <4>1
    <3>2. CASE k # r.key
      BY <2>1, <3>2 DEF MemtableLogged, Entries, Opened, Tables
    <3> QED BY <3>1, <3>2
  <2>4. /\ Len(toApply) \in Nat /\ Len(Tail(toApply)) = Len(toApply) - 1
        /\ Tail(toApply) \in Seq(Writes)
        /\ \A j \in DOMAIN Tail(toApply) : j + 1 \in DOMAIN toApply
                                         /\ Tail(toApply)[j] = toApply[j + 1]
    BY <2>1, HeadTailProperties
  <2>5. \A j \in DOMAIN toApply' : \E i \in DOMAIN wal' : wal'[i] = toApply'[j]
    BY <2>1, <2>4 DEF QueueLogged
  <2>6. CASE Len(toApply) = 1
    <3>1. Tail(toApply) = <<>>
      BY <2>1, <2>4, <2>6
    <3> QED BY <2>1, <2>3, <2>5, <3>1 DEF QueueLogged
  <2>7. CASE \A j \in DOMAIN toApply : toApply[j].val = Tomb
    <3>1. \A j \in DOMAIN toApply' : toApply'[j].val = Tomb
      BY <2>1, <2>4, <2>7
    <3>2. 1 \in DOMAIN toApply
      BY <2>1
    <3>3. pc' # "create"
      BY <2>1, <2>7, <3>2
    <3> QED BY <2>1, <2>3, <2>5, <3>1, <3>3 DEF QueueLogged
  <2> QED BY <2>1, <2>6, <2>7 DEF QueueLogged
<1>6. CASE Flush \/ StartMerge \/ RefuseMerge \/ CreateTable \/ CreateFails
  <2>1. MemtableLogged'
    BY <1>6, MemtableStaysLogged DEF Flush, StartMerge, RefuseMerge, CanCompact,
       CreateTable, CreateFails, Abort, log, memory, Opened
  <2> QED BY <1>6, <2>1 DEF Flush, StartMerge, RefuseMerge, CanCompact,
          CreateTable, CreateFails, Abort, memory, QueueLogged
<1>7. CASE FillTable \/ TruncateLog
  <2>1. mem' = Empty
    BY <1>7 DEF FillTable, ResetMemtable, TruncateLog, TypeInv, Stages
  <2>2. MemtableLogged'
    BY <2>1 DEF MemtableLogged, Entries, Empty
  <2> QED BY <1>7, <2>2 DEF FillTable, TruncateLog, QueueLogged
<1>8. CASE FillFails \/ TruncateFails \/ SyncTruncation \/ SyncTruncationFails
           \/ MergeTables \/ MergeFails \/ DropOlder \/ DropNewer
  <2>1. MemtableLogged'
    BY <1>8, MemtableStaysLogged DEF FillFails, TruncateFails, SyncTruncation,
       SyncTruncationFails, MergeTables, MergeFails, DropOlder, DropNewer,
       Abort, log, Opened
  <2> QED BY <1>8, <2>1 DEF FillFails, TruncateFails, SyncTruncation, Continue,
          SyncTruncationFails, MergeTables, MergeFails, DropOlder, DropNewer,
          Abort, QueueLogged
<1>9. CASE Crash \/ Close \/ OpenFails
  BY <1>9 DEF Crash, Close, OpenFails, Stopped, Opened, MemtableLogged, QueueLogged
<1>10. CASE OpenEngine
  <2>1. \A k \in Keys : Replayed(wal, k) # None =>
          \E i \in DOMAIN wal : wal[i] = [key |-> k, val |-> Replayed(wal, k)]
    BY ReplayedLogged DEF TypeInv, TypeOK
  <2>2. MemtableLogged'
    BY <1>10, <2>1 DEF OpenEngine, MemtableLogged, Entries, log
  <2> QED BY <1>10, <2>2 DEF OpenEngine, QueueLogged
<1>11. CASE UNCHANGED vars
  BY <1>11, MemtableStaysLogged
  DEF vars, memory, log, QueueLogged, MemtableLogged, Entries, Opened
<1> QED BY <1>1, <1>2, <1>3, <1>4, <1>5, <1>6, <1>7, <1>8, <1>9, <1>10, <1>11
        DEF Next, Step

\* When Put gets one pair at a time, whatever the memtable answers is in the
\* log file, so replaying the file brings every entry back.
THEOREM AppliedIsLogged ==
  ASSUME SinglePairs
  PROVE  Spec => []MemtableLogged
<1>1. Init => TypeInv /\ LogInv
  BY TypeInit DEF Init, LogInv, MemtableLogged, QueueLogged, Entries, Empty
<1>2. TypeInv /\ LogInv /\ [Next]_vars => (TypeInv /\ LogInv)'
  BY TypeStep, LogStep
<1>3. LogInv => MemtableLogged
  BY DEF LogInv
<1> QED BY <1>1, <1>2, <1>3, PTL DEF Spec

-----------------------------------------------------------------------------
(* What a set of tables says of a key, as a function of the directory f, so *)
(* that the directories before and after a step can be compared.            *)

HoldersIn(f, S, k) == {s \in S : f[s].state = "whole" /\ f[s].data[k] # None}

ValueIn(f, S, k) ==
  IF HoldersIn(f, S, k) = {} THEN None ELSE f[Newest(HoldersIn(f, S, k))].data[k]

\* Holders are tables of the set, and the newest of them is one.
LEMMA HoldersNewest ==
  ASSUME NEW f, NEW S \in SUBSET Seqs, NEW k
  PROVE  /\ HoldersIn(f, S, k) \in SUBSET (1 .. MaxSeq)
         /\ HoldersIn(f, S, k) \subseteq S
         /\ HoldersIn(f, S, k) # {} =>
              /\ Newest(HoldersIn(f, S, k)) \in HoldersIn(f, S, k)
              /\ \A t \in HoldersIn(f, S, k) : t <= Newest(HoldersIn(f, S, k))
<1>1. HoldersIn(f, S, k) \in SUBSET (1 .. MaxSeq) /\ HoldersIn(f, S, k) \subseteq S
  BY DEF HoldersIn, Seqs
<1> QED BY <1>1, MaxSeqNat, NewestOf

\* Equal holders with equal entries give equal values.
LEMMA SameHolders ==
  ASSUME NEW f, NEW g, NEW S \in SUBSET Seqs, NEW T \in SUBSET Seqs, NEW k,
         HoldersIn(f, S, k) = HoldersIn(g, T, k),
         \A s \in HoldersIn(f, S, k) : f[s].data[k] = g[s].data[k]
  PROVE  ValueIn(f, S, k) = ValueIn(g, T, k)
BY HoldersNewest DEF ValueIn

\* A holder above all others decides.
LEMMA TopHolder ==
  ASSUME NEW f, NEW S \in SUBSET Seqs, NEW k, NEW n \in HoldersIn(f, S, k),
         \A t \in HoldersIn(f, S, k) : t <= n
  PROVE  ValueIn(f, S, k) = f[n].data[k]
<1>1. HoldersIn(f, S, k) \in SUBSET (1 .. MaxSeq)
  BY HoldersNewest
<1>2. Newest(HoldersIn(f, S, k)) = n
  BY <1>1, MaxSeqNat, NewestIs
<1> QED BY <1>2 DEF ValueIn

\* A table without an entry for the key does not count.
LEMMA WithoutTable ==
  ASSUME NEW f, NEW n, NEW k, n \notin HoldersIn(f, Seqs, k)
  PROVE  ValueIn(f, Seqs, k) = ValueIn(f, Seqs \ {n}, k)
<1>1. HoldersIn(f, Seqs, k) = HoldersIn(f, Seqs \ {n}, k)
  BY DEF HoldersIn
<1> QED BY <1>1, SameHolders

\* Tables that are shadowed by those of R do not count.
LEMMA ShadowedTables ==
  ASSUME NEW f, NEW S \in SUBSET Seqs, NEW R \in SUBSET S, NEW k,
         \A s \in HoldersIn(f, S, k) \ R : \E t \in HoldersIn(f, R, k) : s < t
  PROVE  ValueIn(f, S, k) = ValueIn(f, R, k)
<1> DEFINE H == HoldersIn(f, S, k)
           m == Newest(H)
<1>1. HoldersIn(f, R, k) = H \cap R
  BY DEF HoldersIn
<1>2. H \in SUBSET (1 .. MaxSeq) /\ (H # {} => m \in H /\ \A t \in H : t <= m)
  BY HoldersNewest
<1> HIDE DEF H, m
<1>3. CASE H = {}
  BY <1>1, <1>3 DEF ValueIn, H
<1>4. CASE H # {}
  <2>1. m \in R
    <3> SUFFICES ASSUME m \notin R PROVE FALSE
      OBVIOUS
    <3>1. m \in HoldersIn(f, S, k) \ R
      BY <1>2, <1>4 DEF H
    <3>2. PICK t \in HoldersIn(f, R, k) : m < t
      BY <3>1
    <3>3. t \in H /\ t <= m
      BY <1>1, <1>2, <1>4, <3>2
    <3>4. m \in 1 .. MaxSeq /\ t \in 1 .. MaxSeq
      BY <1>2, <1>4, <3>3
    <3>5. m \in Nat /\ t \in Nat
      BY <3>4, MaxSeqNat
    <3> QED BY <3>2, <3>3, <3>5
  <2>2. m \in HoldersIn(f, R, k) /\ \A t \in HoldersIn(f, R, k) : t <= m
    BY <1>1, <1>2, <1>4, <2>1
  <2>3. m \in HoldersIn(f, S, k) /\ \A t \in HoldersIn(f, S, k) : t <= m
    BY <1>2, <1>4 DEF H
  <2>4. R \in SUBSET Seqs
    OBVIOUS
  <2> QED BY <2>2, <2>3, <2>4, TopHolder
<1> QED BY <1>3, <1>4

\* ValueIn is what the specification reads.
LEMMA ReadsTables ==
  \A S, k : /\ TableValue(S, k) = ValueIn(files, S, k)
            /\ Holders(S, k) = HoldersIn(files, S, k)
BY DEF TableValue, ValueIn, Holders, HoldersIn

-----------------------------------------------------------------------------
(* Logs. *)

\* A record that is appended is the one Replay leaves for its key.
LEMMA ReplayedAppend ==
  ASSUME NEW w \in Seq(Records), NEW r \in Records, NEW k \in Keys
  PROVE  Replayed(Append(w, r), k) = IF r.key = k THEN r.val ELSE Replayed(w, k)
<1> DEFINE a == Append(w, r)
           m == Len(w) + 1
<1>1. /\ a \in Seq(Records) /\ Len(a) = m /\ Len(w) \in Nat
      /\ \A i \in 1 .. Len(w) : a[i] = w[i]
      /\ a[m] = r
  BY AppendProperties
<1> HIDE DEF a
<1>2. m \in Nat /\ DOMAIN a = 1 .. m /\ DOMAIN w = 1 .. Len(w)
  BY <1>1
<1>3. RecordsOf(a, k) \in SUBSET (1 .. m) /\ RecordsOf(w, k) \in SUBSET (1 .. Len(w))
  BY <1>2 DEF RecordsOf
<1>4. CASE r.key = k
  <2>1. m \in RecordsOf(a, k) /\ \A t \in RecordsOf(a, k) : t <= m
    BY <1>1, <1>2, <1>3, <1>4 DEF RecordsOf
  <2>2. Newest(RecordsOf(a, k)) = m
    BY <1>2, <1>3, <2>1, NewestIs
  <2> QED BY <1>1, <1>4, <2>1, <2>2 DEF Replayed, a
<1>5. CASE r.key # k
  <2>1. RecordsOf(a, k) = RecordsOf(w, k)
    BY <1>1, <1>2, <1>5 DEF RecordsOf
  <2>2. RecordsOf(w, k) # {} => Newest(RecordsOf(w, k)) \in 1 .. Len(w)
    BY <1>1, <1>3, NewestOf
  <2> QED BY <1>1, <1>5, <2>1, <2>2 DEF Replayed, a
<1> QED BY <1>4, <1>5

\* A record cut short is the record of no key.
LEMMA ReplayedTorn ==
  ASSUME NEW w \in Seq(Records), NEW k \in Keys
  PROVE  Replayed(Append(w, TornRecord), k) = Replayed(w, k)
<1>1. TornRecord \in Records /\ TornRecord.key # k
  BY EngineAssumption DEF TornRecord, Records
<1> QED BY <1>1, ReplayedAppend

\* The leading part of a log is that of the log it grows to.
LEMMA PrefixGrows ==
  ASSUME NEW w \in Seq(Records), NEW r \in Records, NEW n \in 0 .. Len(w)
  PROVE  SubSeq(Append(w, r), 1, n) = SubSeq(w, 1, n)
<1>1. /\ Append(w, r) \in Seq(Records) /\ Len(w) \in Nat
      /\ \A i \in 1 .. Len(w) : Append(w, r)[i] = w[i] /\ w[i] \in Records
  BY AppendProperties
<1>2. \A i \in 1 .. n : Append(w, r)[i] = w[i] /\ w[i] \in Records
  BY <1>1
<1>3. /\ SubSeq(w, 1, n) \in Seq(Records) /\ Len(SubSeq(w, 1, n)) = n
      /\ \A i \in 1 .. n : SubSeq(w, 1, n)[i] = w[i]
  BY <1>1, <1>2, SubSeqProperties
<1>4. /\ SubSeq(Append(w, r), 1, n) \in Seq(Records) /\ Len(SubSeq(Append(w, r), 1, n)) = n
      /\ \A i \in 1 .. n : SubSeq(Append(w, r), 1, n)[i] = Append(w, r)[i]
  BY <1>1, <1>2, SubSeqProperties
<1> QED BY <1>2, <1>3, <1>4, SeqEqual

-----------------------------------------------------------------------------
(* Left-over tables. *)

\* A step that gives readers the same tables, and touches no other table below
\* the next number except to remove it, uncovers nothing.
LEMMA ShadowsStay ==
  ASSUME TypeInv, LeftoversShadowed, Opened, ReadList' = ReadList, nextSeq' = nextSeq,
         \A s \in ReadList : files'[s] = files[s],
         \A s \in Seqs : s < nextSeq => files'[s] \in {files[s], Absent}
  PROVE  LeftoversShadowed'
<1> SUFFICES ASSUME NEW s \in Seqs \ ReadList, NEW k \in Keys, s < nextSeq,
                    files'[s].state = "whole", files'[s].data[k] # None
             PROVE  \E t \in ReadList : /\ files'[t].state = "whole" /\ files'[t].data[k] # None
                                        /\ s < t
  BY DEF LeftoversShadowed, Listed, Holders
<1>1. files'[s] = files[s]
  BY DEF Absent
<1>2. s \in Listed \ ReadList /\ s \in Holders(Seqs, k)
  BY <1>1 DEF Listed, Holders
<1>3. PICK t \in Holders(ReadList, k) : s < t
  BY <1>2 DEF LeftoversShadowed
<1> QED BY <1>3 DEF Holders

\* Every step keeps left-over tables shadowed.
LEMMA ShadowStep ==
  TypeInv /\ MergeInv /\ LeftoversShadowed /\ [Next]_vars => LeftoversShadowed'
<1> SUFFICES ASSUME TypeInv, MergeInv, LeftoversShadowed, [Next]_vars, Opened'
             PROVE  LeftoversShadowed'
  BY DEF LeftoversShadowed
<1>1. /\ nextSeq \notin paths /\ paths \in SUBSET Seqs /\ files \in [Seqs -> Files]
      /\ \A s \in paths : s < nextSeq
      /\ nextSeq \in Nat
  BY MaxSeqNat DEF TypeInv, TypeOK, Stages, Seqs
<1>2. ASSUME NEW ws \in PutBatches \cup DeleteBatches, Request(ws) PROVE LeftoversShadowed'
  BY <1>2, ShadowsStay DEF Request, ReadList, Opened
<1>3. CASE AppendRecord \/ AppendFails \/ SyncLog \/ SyncLogFails \/ Apply \/ Flush
  BY <1>3, ShadowsStay DEF AppendRecord, AppendFails, SyncLog, SyncLogFails, Abort,
     Apply, Continue, Flush, ReadList, Opened
<1>4. CASE TruncateLog \/ TruncateFails \/ SyncTruncation \/ SyncTruncationFails
  BY <1>4, ShadowsStay DEF TruncateLog, TruncateFails, SyncTruncation,
     SyncTruncationFails, Abort, Continue, ReadList, Opened
<1>5. CASE CreateTable \/ CreateFails \/ FillFails \/ StartMerge \/ RefuseMerge \/ MergeFails
  <2>1. \A s \in Seqs : s < nextSeq => files'[s] = files[s]
    BY <1>1, <1>5 DEF CreateTable, CreateFails, FillFails, StartMerge, RefuseMerge, MergeFails
  <2>2. ReadList = paths /\ ReadList' = paths /\ nextSeq' = nextSeq /\ Opened
    BY <1>5 DEF CreateTable, CreateFails, FillFails, StartMerge, RefuseMerge, MergeFails,
       CanCompact, Abort, memory, ReadList, Opened
  <2> QED BY <1>1, <2>1, <2>2, ShadowsStay
<1>6. CASE FillTable
  <2>1. /\ ReadList = paths /\ ReadList' = paths \cup {nextSeq} /\ nextSeq' = nextSeq + 1
        /\ \A s \in Seqs : s < nextSeq => files'[s] = files[s]
        /\ Opened
    BY <1>1, <1>6 DEF FillTable, ReadList, Opened
  <2> SUFFICES ASSUME NEW s \in Seqs \ (paths \cup {nextSeq}), NEW k \in Keys, s < nextSeq + 1,
                      files'[s].state = "whole", files'[s].data[k] # None
               PROVE  \E t \in paths : /\ files'[t].state = "whole" /\ files'[t].data[k] # None
                                       /\ s < t
    BY <2>1 DEF LeftoversShadowed, Listed, Holders
  <2>2. s < nextSeq
    BY <1>1, MaxSeqNat DEF Seqs
  <2>3. s \in Listed \ ReadList /\ s \in Holders(Seqs, k)
    BY <2>1, <2>2 DEF Listed, Holders
  <2>4. PICK t \in Holders(ReadList, k) : s < t
    BY <2>1, <2>2, <2>3 DEF LeftoversShadowed
  <2> QED BY <1>1, <2>1, <2>4 DEF Holders
<1>7. CASE MergeTables
  <2> DEFINE n == nextSeq
             o == Older
             w == Newer
             L == (paths \ {o, w}) \cup {n}
  <2>1. /\ o \in paths /\ w \in paths /\ Readable(o) /\ Readable(w)
        /\ n \in Seqs /\ nextSeq' = nextSeq /\ Opened
        /\ ReadList = paths /\ ReadList' = L
        /\ files' = [files EXCEPT ![n] = Whole(Merged)]
    BY <1>7 DEF MergeTables, TypeInv, Stages, MergeInv, ReadList, Older, Newer, Opened
  <2>2. \A k \in Keys : \A s \in {o, w} : files[s].data[k] # None => Merged[k] # None
    BY DEF Merged
  <2> HIDE DEF o, w
  <2> SUFFICES ASSUME NEW s \in Seqs \ L, NEW k \in Keys, s < n,
                      files'[s].state = "whole", files'[s].data[k] # None
               PROVE  \E t \in L : /\ files'[t].state = "whole" /\ files'[t].data[k] # None
                                   /\ s < t
    BY <2>1 DEF LeftoversShadowed, Listed, Holders
  <2>3. files'[n].state = "whole" /\ files'[n].data[k] = Merged[k] /\ n \in L
    BY <1>1, <2>1 DEF Whole
  <2>4. files'[s] = files[s]
    BY <1>1, <2>1
  <2>5. CASE s \in {o, w}
    BY <2>2, <2>3, <2>4, <2>5
  <2>6. CASE s \notin {o, w}
    <3>1. s \in Listed \ ReadList /\ s \in Holders(Seqs, k)
      BY <2>1, <2>4, <2>6 DEF Listed, Holders
    <3>2. PICK t \in Holders(ReadList, k) : s < t
      BY <2>1, <3>1 DEF LeftoversShadowed
    <3>3. t \in paths /\ files[t].data[k] # None /\ files[t].state = "whole"
      BY <2>1, <3>2 DEF Holders
    <3>4. CASE t \in {o, w}
      BY <2>2, <2>3, <3>3, <3>4
    <3>5. CASE t \notin {o, w}
      <4>1. t \in L /\ files'[t] = files[t]
        BY <1>1, <2>1, <3>3, <3>5
      <4> QED BY <3>2, <3>3, <4>1
    <3> QED BY <3>4, <3>5
  <2> QED BY <2>5, <2>6
<1>8. CASE DropOlder \/ DropNewer
  <2> DEFINE R == (paths \ {Older, Newer}) \cup {nextSeq}
  <2>1. /\ Older \in paths /\ Newer \in paths
        /\ ReadList = R /\ ReadList' = R /\ Opened /\ nextSeq \in Seqs
        /\ nextSeq' \in {nextSeq, nextSeq + 1}
        /\ \/ files' = files
           \/ files' = [files EXCEPT ![Older] = Absent]
           \/ files' = [files EXCEPT ![Newer] = Absent]
    BY <1>8 DEF DropOlder, DropNewer, Removed, TypeInv, Stages, ReadList, Older, Newer, Opened
  <2>2. Older \notin R /\ Newer \notin R
    BY <1>1, <2>1
  <2> HIDE DEF R
  <2>3. R \subseteq Seqs /\ nextSeq \in R
    BY <1>1, <2>1 DEF R
  <2>4. \A s \in R : files'[s] = files[s]
    BY <1>1, <2>1, <2>2, <2>3
  <2>5. \A s \in Seqs : files'[s] \in {files[s], Absent}
    BY <1>1, <2>1
  <2> SUFFICES ASSUME NEW s \in Seqs \ R, NEW k \in Keys, s < nextSeq',
                      files'[s].state = "whole", files'[s].data[k] # None
               PROVE  \E t \in R : /\ files'[t].state = "whole" /\ files'[t].data[k] # None
                                   /\ s < t
    BY <2>1 DEF LeftoversShadowed, Listed, Holders
  <2>6. s < nextSeq
    BY <1>1, <2>1, <2>3, MaxSeqNat DEF Seqs
  <2>7. files'[s] = files[s]
    BY <2>5 DEF Absent
  <2>8. s \in Listed \ ReadList /\ s \in Holders(Seqs, k)
    BY <2>1, <2>7 DEF Listed, Holders
  <2>9. PICK t \in Holders(ReadList, k) : s < t
    BY <2>1, <2>6, <2>8 DEF LeftoversShadowed
  <2> QED BY <2>1, <2>4, <2>9 DEF Holders
<1>9. CASE Crash \/ Close \/ OpenFails
  BY <1>9 DEF Crash, Close, Stopped, OpenFails, Opened
<1>10. CASE OpenEngine
  <2>1. ReadList' = Listed /\ Listed' = Listed
    BY <1>10 DEF OpenEngine, ReadList, Listed
  <2> QED BY <2>1 DEF LeftoversShadowed
<1>11. CASE UNCHANGED vars
  BY <1>11 DEF vars, memory, LeftoversShadowed, Opened, Listed, ReadList, Older, Newer, Holders
<1> QED BY <1>2, <1>3, <1>4, <1>5, <1>6, <1>7, <1>8, <1>9, <1>10, <1>11 DEF Next, Step

\* Left-over tables never show through at the next start, however often
\* compactions and removals fail and whatever RunCompaction is called with.
THEOREM LeftoversStayShadowed == Spec => []LeftoversShadowed
<1>1. Init => TypeInv /\ MergeInv /\ LeftoversShadowed
  BY TypeInit DEF Init, MergeInv, LeftoversShadowed, Listed, Absent
<1>2. TypeInv /\ MergeInv /\ LeftoversShadowed /\ [Next]_vars
        => (TypeInv /\ MergeInv /\ LeftoversShadowed)'
  BY TypeStep, MergeStep, ShadowStep
<1> QED BY <1>1, <1>2, PTL DEF Spec

-----------------------------------------------------------------------------
(* What the refinement needs to know beyond the invariants above. *)

\* No file has a number that was not given out yet; after a flush not even the
\* next one.
Fresh ==
  Opened => \A s \in Seqs :
    s > nextSeq \/ (s = nextSeq /\ pc \in {"truncate", "resync"}) => files[s].state = "absent"

\* While RunCompaction removes its inputs, its output has each of their keys.
OutputCovers ==
  pc \in {"dropOld", "dropNewer"} =>
    /\ Readable(nextSeq)
    /\ \A s \in {Older, Newer}, k \in Keys :
         Readable(s) /\ files[s].data[k] # None => files[nextSeq].data[k] # None

\* What was synced is the beginning of the log.
LogPrefix ==
  ~truncated => Len(walDisk) <= Len(wal) /\ walDisk = SubSeq(wal, 1, Len(walDisk))

\* When a request reaches the memtable, every restart would replay what is left
\* of it.
QueueReplayed ==
  /\ pc = "apply" => ~truncated /\ walDisk = wal
  /\ pc = "log" => \A l \in DOMAIN toLog : \E j \in DOMAIN toApply : toLog[l] = toApply[j]
  /\ pc \in {"log", "sync", "apply"} =>
       \A j \in DOMAIN toApply :
         \/ Replayed(wal, toApply[j].key) = toApply[j].val
         \/ pc = "log" /\ \E l \in DOMAIN toLog : toLog[l] = toApply[j]

\* A new table gets the lowest number that is free.
LEMMA FreshStep == TypeInv /\ Fresh /\ [Next]_vars => Fresh'
<1> SUFFICES ASSUME TypeInv, Fresh, [Next]_vars, Opened' PROVE Fresh'
  BY DEF Fresh
<1>1. /\ paths \in SUBSET Seqs /\ files \in [Seqs -> Files] /\ nextSeq \in Nat
      /\ \A s \in Seqs : s \in Nat
      /\ \A s \in paths : s < nextSeq
  BY MaxSeqNat DEF TypeInv, TypeOK, Stages, Seqs
<1>2. CASE /\ Opened /\ nextSeq' = nextSeq
           /\ \A s \in Seqs : s > nextSeq => files'[s] = files[s]
           /\ pc' \in {"truncate", "resync"} =>
                pc \in {"truncate", "resync"} /\ files' = files
  BY <1>1, <1>2 DEF Fresh
<1>3. ASSUME NEW ws \in PutBatches \cup DeleteBatches, Request(ws) PROVE Fresh'
  BY <1>3, <1>2 DEF Request, Opened
<1>4. CASE AppendRecord \/ AppendFails \/ SyncLog \/ SyncLogFails \/ Apply \/ Flush
  BY <1>4, <1>2 DEF AppendRecord, AppendFails, SyncLog, SyncLogFails, Abort, Apply,
     Continue, Flush, Opened
<1>5. CASE TruncateLog \/ TruncateFails \/ SyncTruncation \/ SyncTruncationFails
  BY <1>5, <1>2 DEF TruncateLog, TruncateFails, SyncTruncation, SyncTruncationFails,
     Abort, Continue, Opened
<1>6. CASE CreateTable \/ CreateFails \/ FillFails \/ StartMerge \/ RefuseMerge
           \/ MergeTables \/ MergeFails
  <2>1. \A s \in Seqs : s > nextSeq => files'[s] = files[s]
    BY <1>1, <1>6 DEF CreateTable, CreateFails, FillFails, StartMerge, RefuseMerge,
       MergeTables, MergeFails
  <2>2. Opened /\ nextSeq' = nextSeq /\ pc' \notin {"truncate", "resync"}
    BY <1>6 DEF CreateTable, CreateFails, FillFails, StartMerge, RefuseMerge, MergeTables,
       MergeFails, CanCompact, Abort, memory, Opened
  <2> QED BY <1>2, <2>1, <2>2
<1>7. CASE FillTable
  <2>1. /\ Opened /\ nextSeq' = nextSeq + 1
        /\ files' = [files EXCEPT ![nextSeq] = Whole(mem)]
    BY <1>7 DEF FillTable, Opened
  <2>2. \A s \in Seqs : s >= nextSeq' => s > nextSeq /\ files'[s] = files[s]
    BY <1>1, <2>1
  <2> QED BY <1>1, <2>1, <2>2 DEF Fresh
<1>8. CASE DropOlder
  <2>1. \A s \in Seqs : s > nextSeq => files'[s] = files[s]
    <3>1. Older \in paths
      BY <1>8 DEF DropOlder, TypeInv, Stages
    <3> HIDE DEF Older
    <3> QED BY <1>1, <1>8, <3>1 DEF DropOlder, Removed
  <2> QED BY <1>8, <1>2, <2>1 DEF DropOlder, Opened
<1>9. CASE DropNewer
  <2>1. \A s \in Seqs : s > nextSeq => files'[s] = files[s]
    <3>1. Newer \in paths
      BY <1>9 DEF DropNewer, TypeInv, Stages
    <3>2. files' = files \/ files' = [files EXCEPT ![Newer] = Absent]
      BY <1>9 DEF DropNewer, Removed
    <3> QED BY <1>1, <3>1, <3>2
  <2>2. \A s \in Seqs : s > nextSeq' => files'[s].state = "absent"
    BY <1>1, <1>9, <2>1 DEF DropNewer, Fresh, Opened
  <2> QED BY <1>9, <2>2 DEF DropNewer, Fresh
<1>10. CASE Crash \/ Close \/ OpenFails
  BY <1>10 DEF Crash, Close, Stopped, OpenFails, Opened
<1>11. CASE OpenEngine
  <2>1. MaxSeq \in Nat /\ Listed \in SUBSET (1 .. MaxSeq)
    BY EngineAssumption DEF Listed, Seqs
  <2>2. Listed # {} => Newest(Listed) \in 1 .. MaxSeq /\ \A t \in Listed : t <= Newest(Listed)
    BY <2>1, NewestOf
  <2>3. \A s \in Seqs : s >= nextSeq' => s \notin Listed
    BY <1>1, <1>11, <2>1, <2>2 DEF OpenEngine, FirstFree, Seqs
  <2>4. nextSeq' \in Nat /\ files' = files /\ pc' = "idle"
    BY <1>11, <2>1, <2>2 DEF OpenEngine, FirstFree
  <2>5. \A s \in Seqs : s > nextSeq' => s \notin Listed
    BY <1>1, <2>3, <2>4
  <2> QED BY <2>4, <2>5 DEF Listed, Fresh
<1>12. CASE UNCHANGED vars
  BY <1>12 DEF vars, memory, Fresh, Opened
<1> QED BY <1>3, <1>4, <1>5, <1>6, <1>7, <1>8, <1>9, <1>10, <1>11, <1>12 DEF Next, Step

\* The output is complete before an input is removed.
LEMMA CoverStep == TypeInv /\ OutputCovers /\ [Next]_vars => OutputCovers'
<1> SUFFICES ASSUME TypeInv, OutputCovers, [Next]_vars, pc' \in {"dropOld", "dropNewer"}
             PROVE  OutputCovers'
  BY DEF OutputCovers
<1>1. /\ nextSeq \notin paths /\ paths \in SUBSET Seqs /\ files \in [Seqs -> Files]
  BY MaxSeqNat DEF TypeInv, TypeOK, Stages, Seqs
<1>2. \/ MergeTables
      \/ DropOlder
      \/ UNCHANGED vars
  BY DEF Next, Step, vars, memory, log, Request, AppendRecord, AppendFails,
     SyncLog, SyncLogFails, Apply, Continue, Flush, CreateTable, CreateFails,
     FillTable, FillFails, TruncateLog, TruncateFails, SyncTruncation,
     SyncTruncationFails, StartMerge, RefuseMerge, CanCompact, MergeFails,
     DropNewer, Crash, Close, Stopped, OpenEngine, OpenFails, Abort
<1>3. CASE MergeTables
  <2> DEFINE n == nextSeq
             o == Older
             w == Newer
  <2>1. /\ o \in paths /\ w \in paths /\ n \in Seqs
        /\ Older' = o /\ Newer' = w /\ nextSeq' = n
        /\ files' = [files EXCEPT ![n] = Whole(Merged)]
    BY <1>3 DEF MergeTables, TypeInv, Stages, Older, Newer
  <2>2. \A k \in Keys : \A s \in {o, w} : files[s].data[k] # None => Merged[k] # None
    BY DEF Merged
  <2> HIDE DEF o, w
  <2>3. files'[n] = Whole(Merged) /\ \A s \in {o, w} : files'[s] = files[s]
    BY <1>1, <2>1
  <2>4. Readable(nextSeq)'
    BY <2>1, <2>3 DEF Readable, Whole
  <2>5. \A s \in {o, w}, k \in Keys : files'[s].data[k] # None => files'[n].data[k] # None
    BY <2>2, <2>3 DEF Whole
  <2> QED BY <2>1, <2>4, <2>5 DEF OutputCovers
<1>4. CASE DropOlder
  <2> DEFINE n == nextSeq
             o == Older
             w == Newer
  <2>1. /\ o \in paths /\ w \in paths /\ n \in Seqs /\ pc = "dropOld"
        /\ Older' = o /\ Newer' = w /\ nextSeq' = n
        /\ files' = files \/ files' = [files EXCEPT ![o] = Absent]
    BY <1>4 DEF DropOlder, Removed, TypeInv, Stages, Older, Newer
  <2>2. /\ Readable(n)
        /\ \A s \in {o, w}, k \in Keys :
             Readable(s) /\ files[s].data[k] # None => files[n].data[k] # None
    BY <2>1 DEF OutputCovers
  <2> HIDE DEF o, w
  <2>3. files'[n] = files[n] /\ \A s \in {o, w} : files'[s] \in {files[s], Absent}
    BY <1>1, <2>1
  <2>4. Readable(nextSeq)'
    BY <2>1, <2>2, <2>3 DEF Readable
  <2>5. \A s \in {o, w}, k \in Keys :
          files'[s].state = "whole" /\ files'[s].data[k] # None => files'[n].data[k] # None
    BY <2>2, <2>3 DEF Readable, Absent
  <2>6. \A s \in {Older, Newer}', k \in Keys :
          files'[s].state = "whole" /\ files'[s].data[k] # None => files'[n].data[k] # None
    BY <2>1, <2>5
  <2> QED BY <2>1, <2>4, <2>6 DEF OutputCovers, Readable
<1>5. CASE UNCHANGED vars
  BY <1>5 DEF vars, memory, OutputCovers, Readable, Older, Newer
<1> QED BY <1>2, <1>3, <1>4, <1>5

\* Only an append changes the log between its fsyncs and truncations.
LEMMA PrefixStep == TypeInv /\ LogPrefix /\ [Next]_vars => LogPrefix'
<1> SUFFICES ASSUME TypeInv, LogPrefix, [Next]_vars, ~truncated' PROVE LogPrefix'
  BY DEF LogPrefix
<1>1. wal \in Seq(Records) /\ walDisk \in Seq(Records) /\ Len(wal) \in Nat /\ Len(walDisk) \in Nat
  BY DEF TypeInv, TypeOK
<1>2. \A w \in Seq(Records) : Len(w) <= Len(w) /\ w = SubSeq(w, 1, Len(w))
  <2> TAKE w \in Seq(Records)
  <2>1. Len(w) \in Nat /\ SubSeq(w, 1, Len(w)) = w
    BY SubSeqFull
  <2> QED BY <2>1
<1>3. CASE walDisk' = wal' /\ wal' \in Seq(Records)
  BY <1>2, <1>3 DEF LogPrefix
<1>4. ASSUME NEW r \in Records, wal' = Append(wal, r), UNCHANGED <<walDisk, truncated>>
      PROVE  LogPrefix'
  <2>1. Len(walDisk) <= Len(wal) /\ walDisk = SubSeq(wal, 1, Len(walDisk))
    BY <1>4 DEF LogPrefix
  <2>2. Len(wal') = Len(wal) + 1
    BY <1>1, <1>4, AppendProperties
  <2>3. Len(walDisk) \in 0 .. Len(wal)
    BY <1>1, <2>1
  <2>4. SubSeq(wal', 1, Len(walDisk)) = SubSeq(wal, 1, Len(walDisk))
    BY <1>1, <1>4, <2>3, PrefixGrows
  <2>5. Len(walDisk) <= Len(wal')
    BY <1>1, <2>1, <2>2
  <2> QED BY <1>4, <2>1, <2>4, <2>5 DEF LogPrefix
<1>5. CASE UNCHANGED log
  BY <1>5 DEF log, LogPrefix
<1>6. CASE AppendRecord
  <2>1. Head(toLog) \in Records /\ wal' = Append(wal, Head(toLog))
    BY <1>6 DEF AppendRecord, TypeInv, TypeOK, Stages, Records
  <2> QED BY <1>4, <1>6, <2>1 DEF AppendRecord
<1>7. CASE AppendFails
  <2>1. TornRecord \in Records
    BY DEF Records
  <2> QED BY <1>4, <1>5, <1>7, <2>1 DEF AppendFails, log
<1>8. CASE SyncLog \/ SyncTruncation
  BY <1>1, <1>3, <1>8 DEF SyncLog, SyncTruncation
<1>9. CASE TruncateLog
  BY <1>9 DEF TruncateLog
<1>10. CASE Crash
  <2>1. wal' \in Seq(Records)
    BY <1>10, SurvivorsType DEF Crash, TypeInv
  <2> QED BY <1>3, <1>10, <2>1 DEF Crash
<1> QED BY <1>5, <1>6, <1>7, <1>8, <1>9, <1>10
  DEF Next, Step, vars, Request, Flush, SyncLogFails, Apply, CreateTable, CreateFails,
     FillTable, FillFails, TruncateFails, SyncTruncationFails, StartMerge, RefuseMerge,
     MergeTables, MergeFails, DropOlder, DropNewer, Close, OpenEngine, OpenFails

\* The records of a request are the last of their keys in the log.
LEMMA QueueStep ==
  ASSUME SinglePairs
  PROVE  TypeInv /\ LogInv /\ QueueReplayed /\ [Next]_vars => QueueReplayed'
<1> SUFFICES ASSUME TypeInv, LogInv, QueueReplayed, [Next]_vars,
                    pc' \in {"log", "sync", "apply"}
             PROVE  QueueReplayed'
  BY DEF QueueReplayed
<1>1. /\ wal \in Seq(Records) /\ toLog \in Seq(Writes) /\ toApply \in Seq(Writes)
      /\ Writes \subseteq Records
  BY DEF TypeInv, TypeOK, Records
<1>2. ASSUME NEW ws \in PutBatches \cup DeleteBatches, Request(ws) PROVE QueueReplayed'
  BY <1>2 DEF Request, QueueReplayed
<1>3. CASE AppendRecord
  <2> DEFINE r == Head(toLog)
  <2>1. /\ pc = "log" /\ toLog # <<>> /\ wal' = Append(wal, r) /\ toApply' = toApply
        /\ toLog' = Tail(toLog) /\ pc' \in {"log", "sync"}
        /\ pc' = "sync" => toLog' = <<>>
    BY <1>3 DEF AppendRecord, TypeInv, Stages
  <2>2. /\ r = toLog[1] /\ 1 \in DOMAIN toLog /\ r \in Writes
        /\ \A l \in DOMAIN Tail(toLog) : l + 1 \in DOMAIN toLog /\ Tail(toLog)[l] = toLog[l + 1]
        /\ \A l \in DOMAIN toLog : l = 1 \/ (l - 1 \in DOMAIN Tail(toLog) /\ Tail(toLog)[l - 1] = toLog[l])
    BY <1>1, <2>1, HeadTailProperties
  <2>3. PICK i \in DOMAIN toApply : toApply[i] = r
    BY <2>1, <2>2 DEF QueueReplayed
  <2>4. \A j \in DOMAIN toApply : toApply[j] \in Writes /\ (toApply[j].key = r.key => toApply[j].val = r.val)
    <3> TAKE j \in DOMAIN toApply
    <3>1. Len(toApply) = 1 \/ \A h \in DOMAIN toApply : toApply[h].val = Tomb
      BY <2>1 DEF LogInv, QueueLogged
    <3>2. Len(toApply) = 1 => i = j
      BY <1>1
    <3> QED BY <1>1, <2>3, <3>1, <3>2
  <2>5. \A k \in Keys : Replayed(wal', k) = IF r.key = k THEN r.val ELSE Replayed(wal, k)
    BY <1>1, <2>1, <2>2, ReplayedAppend
  <2>6. \A j \in DOMAIN toApply : \/ Replayed(wal', toApply[j].key) = toApply[j].val
                                  \/ \E l \in DOMAIN toLog' : toLog'[l] = toApply[j]
    <3> TAKE j \in DOMAIN toApply
    <3>1. toApply[j].key \in Keys
      BY <2>4 DEF Writes
    <3>2. CASE toApply[j].key = r.key
      BY <2>4, <2>5, <3>1, <3>2
    <3>3. CASE toApply[j].key # r.key
      <4>1. CASE Replayed(wal, toApply[j].key) = toApply[j].val
        BY <2>5, <3>1, <3>3, <4>1
      <4>2. CASE \E l \in DOMAIN toLog : toLog[l] = toApply[j]
        <5>1. PICK l \in DOMAIN toLog : toLog[l] = toApply[j]
          BY <4>2
        <5>2. l # 1
          BY <2>2, <3>3, <5>1
        <5>3. l - 1 \in DOMAIN Tail(toLog) /\ Tail(toLog)[l - 1] = toLog[l]
          BY <2>2, <5>1, <5>2
        <5>4. l - 1 \in DOMAIN toLog' /\ toLog'[l - 1] = toApply[j]
          BY <2>1, <5>1, <5>3
        <5> QED BY <5>4
      <4> QED BY <2>1, <4>1, <4>2 DEF QueueReplayed
    <3> QED BY <3>2, <3>3
  <2>7. \A l \in DOMAIN toLog' : \E j \in DOMAIN toApply : toLog'[l] = toApply[j]
    BY <2>1, <2>2 DEF QueueReplayed
  <2> QED BY <2>1, <2>6, <2>7 DEF QueueReplayed
<1>4. CASE SyncLog
  BY <1>4 DEF SyncLog, QueueReplayed
<1>5. CASE Apply
  <2>1. /\ pc = "apply" /\ toApply # <<>> /\ toApply' = Tail(toApply)
        /\ UNCHANGED <<wal, walDisk, truncated>> /\ pc' \notin {"log", "sync"}
    BY <1>5 DEF Apply, Continue, log
  <2>2. \A j \in DOMAIN Tail(toApply) : j + 1 \in DOMAIN toApply /\ Tail(toApply)[j] = toApply[j + 1]
    BY <1>1, <2>1, HeadTailProperties
  <2>3. \A j \in DOMAIN toApply' : Replayed(wal', toApply'[j].key) = toApply'[j].val
    BY <2>1, <2>2 DEF QueueReplayed
  <2> QED BY <2>1, <2>3 DEF QueueReplayed
<1>6. CASE UNCHANGED vars
  BY <1>6 DEF vars, memory, log, QueueReplayed
<1>7. CASE SyncTruncation
  BY <1>7 DEF SyncTruncation, Continue, LogInv, QueueLogged
<1> QED BY <1>2, <1>3, <1>4, <1>5, <1>6, <1>7
  DEF Next, Step, AppendFails, SyncLogFails, Abort, Flush, CreateTable, CreateFails,
     FillTable, FillFails, TruncateLog, TruncateFails, SyncTruncationFails,
     StartMerge, RefuseMerge, CanCompact, memory, MergeTables, MergeFails, DropOlder,
     DropNewer, Crash, Close, Stopped, OpenEngine, OpenFails

-----------------------------------------------------------------------------
(* Reads and outcomes, taken apart: what the log and what the tables say.   *)

Logged(k) == {Replayed(w, k) : w \in Survivors}
Stored(k) == {TableValue(S, k) : S \in Directories}
Answer(l, t) == Visible(IF l # None THEN l ELSE t)

OutcomesSplit ==
  \A k \in Keys : Outcomes[k] = {Answer(l, t) : l \in Logged(k), t \in Stored(k)}

\* Outcomes combine a log and a directory.
LEMMA OutcomesAre == OutcomesSplit
BY DEF OutcomesSplit, Outcomes, Logged, Stored, Answer

\* The same, after a step.
LEMMA OutcomesAreNext == OutcomesSplit'
BY OutcomesAre, PTL

\* The directories a start may find differ in one table at most.
StoredSplit ==
  \A k : Stored(k) =
    IF Opened /\ pc \notin {"dropOld", "dropNewer"}
      THEN {ValueIn(files, Seqs, k), ValueIn(files, Seqs \ {nextSeq}, k)}
      ELSE {ValueIn(files, Seqs, k)}

\* What the tables say, now.
LEMMA StoredAre == StoredSplit
BY ReadsTables DEF StoredSplit, Stored, Directories

\* The same, after a step.
LEMMA StoredAreNext == StoredSplit'
BY StoredAre, PTL

\* The log itself and what was synced of it are among the survivors.
LEMMA SurvivorLogs ==
  ASSUME TypeInv, LogPrefix
  PROVE  wal \in Survivors /\ walDisk \in Survivors /\ Survivors \subseteq Seq(Records)
<1>1. wal \in Seq(Records) /\ Len(wal) \in Nat /\ Len(walDisk) \in Nat
  BY DEF TypeInv, TypeOK
<1>2. SubSeq(wal, 1, Len(wal)) = wal
  BY <1>1, SubSeqFull
<1>3. ~truncated => Len(walDisk) \in Len(walDisk) .. Len(wal) /\ Len(wal) \in Len(walDisk) .. Len(wal)
  BY <1>1 DEF LogPrefix
<1>4. Len(wal) \in 0 .. Len(wal)
  BY <1>1
<1>5. wal \in Survivors /\ walDisk \in Survivors
  BY <1>2, <1>3, <1>4 DEF Survivors, LogPrefix
<1> QED BY <1>5, SurvivorsType DEF TypeInv

\* What tables hold.
LEMMA ValueType ==
  ASSUME NEW f \in [Seqs -> Files], NEW S \in SUBSET Seqs, NEW k \in Keys
  PROVE  ValueIn(f, S, k) \in Values \cup {Tomb, None}
<1>1. \A s \in S : f[s].data[k] \in Values \cup {Tomb, None}
  BY DEF Files, Tables
<1> QED BY <1>1, HoldersNewest DEF ValueIn

\* Reads and outcomes have the types DurableMap gives them.
MapType ==
  /\ Reads \in [Keys -> Values \cup {None}]
  /\ Outcomes \in [Keys -> (SUBSET (Values \cup {None})) \ {{}}]

\* Both are functions on the keys, with a value or None for each.
LEMMA MapTyped == TypeInv /\ LogPrefix => MapType
<1>0. /\ Reads = [k \in Keys |-> Reads[k]]
      /\ Outcomes = [k \in Keys |-> Outcomes[k]]
  BY DEF Reads, Outcomes
<1> SUFFICES ASSUME TypeInv, LogPrefix, NEW k \in Keys
             PROVE  /\ Reads[k] \in Values \cup {None}
                    /\ Outcomes[k] \in (SUBSET (Values \cup {None})) \ {{}}
  BY <1>0 DEF MapType
<1> DEFINE A == Values \cup {Tomb, None}
<1>1. \A v \in A : Visible(v) \in Values \cup {None}
  BY DEF Visible
<1>2. wal \in Seq(Records) /\ mem[k] \in A /\ files \in [Seqs -> Files]
  BY DEF TypeInv, TypeOK, Tables
<1>3. TableValue(Seqs, k) \in A /\ TableValue(ReadList, k) \in A
  <2>1. ReadList \in SUBSET Seqs
    BY ReadListType DEF Seqs
  <2> QED BY <1>2, <2>1, ValueType, ReadsTables
<1>4. Reads[k] \in Values \cup {None}
  <2>1. Replayed(wal, k) \in A
    BY <1>2, ReplayedType
  <2> QED BY <1>1, <1>2, <1>3, <2>1 DEF Reads, Get, AfterRestart
<1>5. Logged(k) \subseteq A /\ Replayed(wal, k) \in Logged(k)
  BY SurvivorLogs, ReplayedType DEF Logged
<1>6. Stored(k) \subseteq A /\ TableValue(Seqs, k) \in Stored(k)
  <2>1. ValueIn(files, Seqs \ {nextSeq}, k) \in A
    BY <1>2, ValueType
  <2> QED BY <1>3, <2>1, StoredAre, ReadsTables DEF StoredSplit
<1>7. \A l \in A, t \in A : Answer(l, t) \in Values \cup {None}
  BY <1>1 DEF Answer
<1> HIDE DEF A
<1>8. Outcomes[k] \subseteq Values \cup {None} /\ Outcomes[k] # {}
  BY <1>5, <1>6, <1>7, OutcomesAre DEF OutcomesSplit
<1> QED BY <1>4, <1>8

\* The same, after a step.
LEMMA MapTypedNext == TypeInv' /\ LogPrefix' => MapType'
BY MapTyped, PTL

-----------------------------------------------------------------------------
(* The promise. *)

RefInv ==
  /\ TypeInv /\ MergeInv /\ AllMerged /\ LeftoversShadowed /\ LogInv
  /\ Fresh /\ OutputCovers /\ LogPrefix /\ QueueReplayed

\* Steps that only rule outcomes out, or make what is read an outcome.
LEMMA Settles ==
  ASSUME RefInv, RefInv', Opened' = Opened, Reads' = Reads,
         \A k \in Keys : \A l \in Logged(k)', t \in Stored(k)' :
           Answer(l, t) \in Outcomes[k] \cup {Reads[k]}
  PROVE  Promise!Settle
<1>1. MapType'
  BY MapTypedNext DEF RefInv
<1>2. \A k \in Keys : Outcomes'[k] \subseteq Outcomes[k] \cup {Reads[k]}
  BY OutcomesAreNext DEF OutcomesSplit
<1> QED BY <1>1, <1>2 DEF Promise!Settle, Promise!Answers, MapType

-----------------------------------------------------------------------------
(* The file that a step writes, and what becomes of a key. *)

\* What the directory g says after the file n, the highest number, became f.
LEMMA TableChanged ==
  ASSUME NEW g \in [Seqs -> Files], NEW n \in Seqs, NEW f \in Files, NEW k \in Keys,
         \A s \in Seqs : s > n => g[s].state = "absent"
  PROVE  LET h == [g EXCEPT ![n] = f] IN
         /\ ValueIn(h, Seqs \ {n}, k) = ValueIn(g, Seqs \ {n}, k)
         /\ ValueIn(h, Seqs, k) =
              IF f.state = "whole" /\ f.data[k] # None THEN f.data[k]
              ELSE ValueIn(g, Seqs \ {n}, k)
<1> DEFINE h == [g EXCEPT ![n] = f]
<1>1. h[n] = f /\ \A s \in Seqs \ {n} : h[s] = g[s]
  OBVIOUS
<1> HIDE DEF h
<1>2. ValueIn(h, Seqs \ {n}, k) = ValueIn(g, Seqs \ {n}, k)
  <2>1. /\ HoldersIn(h, Seqs \ {n}, k) = HoldersIn(g, Seqs \ {n}, k)
        /\ \A s \in HoldersIn(h, Seqs \ {n}, k) : h[s].data[k] = g[s].data[k]
    BY <1>1 DEF HoldersIn
  <2>2. Seqs \ {n} \in SUBSET Seqs
    OBVIOUS
  <2> QED BY <2>1, <2>2, SameHolders
<1>3. CASE f.state = "whole" /\ f.data[k] # None
  <2>1. n \in HoldersIn(h, Seqs, k)
    BY <1>1, <1>3 DEF HoldersIn
  <2>2. \A t \in HoldersIn(h, Seqs, k) : t <= n
    <3> SUFFICES ASSUME NEW t \in Seqs, t > n, h[t].state = "whole" PROVE FALSE
      BY MaxSeqNat DEF HoldersIn, Seqs
    <3>1. t # n
      BY MaxSeqNat DEF Seqs
    <3> QED BY <1>1, <3>1
  <2>3. ValueIn(h, Seqs, k) = h[n].data[k]
    BY <2>1, <2>2, TopHolder
  <2> QED BY <1>1, <1>2, <1>3, <2>3 DEF h
<1>4. CASE ~(f.state = "whole" /\ f.data[k] # None)
  <2>1. n \notin HoldersIn(h, Seqs, k)
    BY <1>1, <1>4 DEF HoldersIn
  <2> QED BY <1>2, <1>4, <2>1, WithoutTable DEF h
<1> QED BY <1>3, <1>4

\* Left-over tables do not count.
LEMMA ListedDecide ==
  ASSUME RefInv, Opened, pc \notin {"dropOld", "dropNewer"}, NEW k \in Keys
  PROVE  /\ ReadList = paths
         /\ ValueIn(files, Seqs \ {nextSeq}, k) = ValueIn(files, paths, k)
<1>1. /\ paths \in SUBSET Seqs /\ (\A s \in paths : s < nextSeq) /\ nextSeq \in Nat
      /\ \A s \in Seqs : s \in Nat
  BY MaxSeqNat DEF RefInv, TypeInv, TypeOK, Stages, Seqs
<1>2. ReadList = paths
  BY DEF ReadList
<1>3. paths \in SUBSET (Seqs \ {nextSeq}) /\ Seqs \ {nextSeq} \in SUBSET Seqs
  BY <1>1
<1>4. \A s \in HoldersIn(files, Seqs \ {nextSeq}, k) \ paths :
        \E t \in HoldersIn(files, paths, k) : s < t
  <2> SUFFICES ASSUME NEW s \in Seqs, s # nextSeq, s \notin paths, s \in HoldersIn(files, Seqs, k)
               PROVE  \E t \in HoldersIn(files, paths, k) : s < t
    BY DEF HoldersIn
  <2>1. files[s].state = "whole" /\ s \in Holders(Seqs, k)
    BY ReadsTables DEF HoldersIn
  <2>2. s < nextSeq
    BY <1>1, <2>1 DEF RefInv, Fresh
  <2>3. s \in Listed \ ReadList
    BY <1>2, <2>1 DEF Listed
  <2> QED BY <1>2, <2>1, <2>2, <2>3, ReadsTables DEF RefInv, LeftoversShadowed
<1> QED BY <1>2, <1>3, <1>4, ShadowedTables

\* The tables say what Get says, if the memtable does not.
LEMMA GetReads ==
  ASSUME RefInv, Opened, pc \notin {"dropOld", "dropNewer"}, NEW k \in Keys
  PROVE  /\ Reads[k] = Get(k)
         /\ Get(k) = Visible(IF mem[k] # None THEN mem[k]
                             ELSE ValueIn(files, Seqs \ {nextSeq}, k))
BY ListedDecide, ReadsTables DEF Reads, Get

\* The output of a merge says what its inputs said.
LEMMA MergedDecides ==
  ASSUME RefInv, pc = "merge", NEW k \in Keys
  PROVE  Merged \in Tables /\ (Merged[k] # None => Merged[k] = ValueIn(files, Seqs \ {nextSeq}, k))
<1> DEFINE o == Older
           w == Newer
           H == HoldersIn(files, {o, w}, k)
<1>1. /\ o \in Seqs /\ w \in Seqs /\ o < w /\ paths = {o, w}
      /\ files[o].state = "whole" /\ files[w].state = "whole"
      /\ files[o] \in Files /\ files[w] \in Files
  BY DEF RefInv, TypeInv, TypeOK, Stages, AllMerged, MergeInv, Readable
<1>2. Merged = [l \in Keys |-> IF files[w].data[l] # None THEN files[w].data[l] ELSE files[o].data[l]]
  BY DEF Merged
<1>3. ValueIn(files, Seqs \ {nextSeq}, k) = ValueIn(files, {o, w}, k)
  BY <1>1, ListedDecide DEF RefInv, Opened
<1> HIDE DEF o, w
<1>4. Merged \in Tables
  BY <1>1, <1>2 DEF Files, Tables
<1>5. H = {s \in {o, w} : files[s].data[k] # None}
  BY <1>1 DEF HoldersIn
<1> HIDE DEF H
<1>6. {o, w} \in SUBSET Seqs /\ o \in Nat /\ w \in Nat
  BY <1>1, MaxSeqNat DEF Seqs
<1>7. CASE files[w].data[k] # None
  <2>1. w \in H /\ \A t \in H : t <= w
    <3>1. w \in H /\ H \subseteq {o, w}
      BY <1>5, <1>7
    <3> QED BY <1>1, <1>6, <3>1
  <2> QED BY <1>2, <1>3, <1>4, <1>6, <1>7, <2>1, TopHolder DEF H
<1>8. CASE files[w].data[k] = None /\ files[o].data[k] # None
  <2>1. o \in H /\ \A t \in H : t <= o
    <3>1. o \in H /\ H \subseteq {o}
      BY <1>5, <1>8
    <3> QED BY <1>1, <1>6, <3>1
  <2> QED BY <1>2, <1>3, <1>4, <1>6, <1>8, <2>1, TopHolder DEF H
<1>9. CASE files[w].data[k] = None /\ files[o].data[k] = None
  BY <1>2, <1>4, <1>9
<1> QED BY <1>7, <1>8, <1>9

\* An input of a merge may go once the output is there.
LEMMA InputGoes ==
  ASSUME RefInv, pc \in {"dropOld", "dropNewer"}, NEW x \in {Older, Newer}, NEW k \in Keys,
         NEW h, h = files \/ h = [files EXCEPT ![x] = Absent]
  PROVE  ValueIn(h, Seqs, k) = ValueIn(files, Seqs, k)
<1> DEFINE n == nextSeq
<1>1. /\ x \in Seqs /\ n \in Seqs /\ x # n /\ files \in [Seqs -> Files] /\ n \in Nat
      /\ \A s \in Seqs : s \in Nat
      /\ \A s \in Seqs : s > n => files[s].state = "absent"
      /\ files[n].state = "whole"
      /\ files[x].state = "whole" /\ files[x].data[k] # None => files[n].data[k] # None
  <2>1. x \in paths /\ n \in Seqs
    BY DEF RefInv, TypeInv, Stages
  <2>2. /\ x < n /\ x \in Seqs /\ files \in [Seqs -> Files]
    BY <2>1 DEF RefInv, TypeInv, TypeOK, Stages
  <2>3. /\ n \in Nat /\ \A s \in Seqs : s \in Nat
    BY <2>1, MaxSeqNat DEF Seqs
  <2>4. \A s \in Seqs : s > n => files[s].state = "absent"
    BY DEF RefInv, Fresh, Opened
  <2>5. /\ files[n].state = "whole"
        /\ files[x].state = "whole" /\ files[x].data[k] # None => files[n].data[k] # None
    BY DEF RefInv, OutputCovers, Readable
  <2> QED BY <2>1, <2>2, <2>3, <2>4, <2>5
<1>2. SUFFICES ASSUME h = [files EXCEPT ![x] = Absent]
               PROVE  ValueIn(h, Seqs, k) = ValueIn(files, Seqs, k)
  OBVIOUS
<1>3. h[x].state = "absent" /\ \A s \in Seqs \ {x} : h[s] = files[s]
  BY <1>1, <1>2 DEF Absent
<1> HIDE DEF n
<1>4. CASE files[n].data[k] # None
  <2>1. n \in HoldersIn(files, Seqs, k) /\ n \in HoldersIn(h, Seqs, k) /\ h[n] = files[n]
    BY <1>1, <1>3, <1>4 DEF HoldersIn
  <2>2. \A s \in Seqs : files[s].state = "whole" => s <= n
    BY <1>1
  <2>3. \A s \in HoldersIn(files, Seqs, k) : s <= n
    BY <2>2 DEF HoldersIn
  <2>4. \A s \in HoldersIn(h, Seqs, k) : s <= n
    BY <1>3, <2>2 DEF HoldersIn
  <2>5. ValueIn(files, Seqs, k) = files[n].data[k]
    BY <2>1, <2>3, TopHolder
  <2>6. ValueIn(h, Seqs, k) = h[n].data[k]
    BY <2>1, <2>4, TopHolder
  <2> QED BY <2>1, <2>5, <2>6
<1>5. CASE files[n].data[k] = None
  <2>1. /\ HoldersIn(h, Seqs, k) = HoldersIn(files, Seqs, k)
        /\ \A s \in HoldersIn(h, Seqs, k) : h[s].data[k] = files[s].data[k]
    BY <1>1, <1>3, <1>5 DEF HoldersIn
  <2> QED BY <2>1, SameHolders
<1> QED BY <1>4, <1>5

-----------------------------------------------------------------------------
(* Steps that only settle outcomes. *)

\* What a log and the tables say together is an outcome; a log that says nothing
\* leaves the answer to the tables.
LEMMA InOutcomes ==
  ASSUME RefInv, NEW k \in Keys, NEW l \in Logged(k), NEW t,
         t \in Stored(k) \/ Visible(t) = Reads[k]
  PROVE  Answer(l, t) \in Outcomes[k] \cup {Reads[k]}
<1>1. \A u \in Stored(k) : Answer(l, u) \in Outcomes[k]
  BY OutcomesAre DEF OutcomesSplit
<1>2. CASE l = None
  BY <1>1, <1>2 DEF Answer
<1>3. CASE l # None
  <2>1. PICK u : u \in Stored(k)
    BY StoredAre DEF StoredSplit
  <2>2. Answer(l, t) = Answer(l, u)
    BY <1>3 DEF Answer
  <2> QED BY <1>1, <2>1, <2>2
<1> QED BY <1>2, <1>3

\* Replay finds the same in the same log.
LEMMA LoggedSame == UNCHANGED log => \A k : Logged(k)' = Logged(k)
BY DEF log, Logged, Survivors

\* No step but Apply changes what an open engine answers.
LEMMA ReadsKept ==
  ASSUME RefInv, [Next]_vars, Opened, Opened', pc # "apply"
  PROVE  Reads' = Reads
<1>1. \A k \in Keys : Get(k)' = Get(k)
  <2> SUFFICES ASSUME NEW k \in Keys, Get(k)' # Get(k) PROVE FALSE
    OBVIOUS
  <2>1. MergeTables /\ Holders(paths \ {Older, Newer}, k) # {}
    BY ReadsStep DEF Apply, RefInv
  <2>2. paths \ {Older, Newer} = {}
    BY <2>1 DEF RefInv, AllMerged, MergeTables
  <2> QED BY <2>1, <2>2 DEF Holders
<1> QED BY <1>1 DEF Reads

\* Steps that leave the log alone and put into the tables what was read.
LEMMA SettleTables ==
  ASSUME RefInv, RefInv', [Next]_vars, Opened, Opened', pc # "apply", UNCHANGED log,
         \A k \in Keys : \A t \in Stored(k)' : t \in Stored(k) \/ Visible(t) = Get(k)
  PROVE  Promise!Settle
<1>1. Reads' = Reads /\ \A k \in Keys : Reads[k] = Get(k)
  BY ReadsKept DEF Reads
<1>2. \A k \in Keys : \A l \in Logged(k)', t \in Stored(k)' :
        Answer(l, t) \in Outcomes[k] \cup {Reads[k]}
  BY <1>1, InOutcomes, LoggedSame
<1> QED BY <1>1, <1>2, Settles

\* Steps that leave the directory alone and drop possible logs.
LEMMA SettleLogs ==
  ASSUME RefInv, RefInv', [Next]_vars, Opened, Opened', pc # "apply",
         UNCHANGED <<files, nextSeq>>,
         {pc, pc'} \cap {"dropOld", "dropNewer"} = {},
         \A k \in Keys : Logged(k)' \subseteq Logged(k)
  PROVE  Promise!Settle
<1>1. Reads' = Reads
  BY ReadsKept
<1>2. \A k : Stored(k)' = Stored(k)
  BY StoredAre, StoredAreNext DEF StoredSplit, Opened
<1>3. \A k \in Keys : \A l \in Logged(k)', t \in Stored(k)' :
        Answer(l, t) \in Outcomes[k] \cup {Reads[k]}
  BY <1>2, InOutcomes
<1> QED BY <1>1, <1>3, Settles

\* A table that is being written.
LEMMA SettleTableWrites ==
  ASSUME RefInv, RefInv', [Next]_vars,
         CreateTable \/ CreateFails \/ FillTable \/ FillFails \/ StartMerge \/ RefuseMerge
           \/ MergeTables \/ MergeFails
  PROVE  Promise!Settle
<1> DEFINE n == nextSeq
<1>1. /\ Opened /\ Opened' /\ pc \notin {"apply", "dropOld", "dropNewer"} /\ UNCHANGED log
      /\ n \in Seqs /\ files \in [Seqs -> Files] /\ mem \in Tables
      /\ pc' = "dropNewer" => FALSE
      /\ pc' = "dropOld" => nextSeq' = n
  BY DEF CreateTable, CreateFails, FillTable, FillFails, StartMerge, RefuseMerge, CanCompact,
     MergeTables, MergeFails, Abort, memory, log, Opened, RefInv, TypeInv, TypeOK, Stages
<1>2. PICK f \in Files :
        /\ files' = files \/ files' = [files EXCEPT ![n] = f]
        /\ \/ f.state # "whole"
           \/ f = Whole(mem) /\ pc = "fill"
           \/ f = Whole(Merged) /\ pc = "merge"
  <2>1. Torn \in Files /\ Absent \in Files /\ Torn.state # "whole" /\ Absent.state # "whole"
    BY FileTypes DEF Torn, Absent
  <2>2. CASE CreateTable \/ CreateFails \/ StartMerge
    BY <2>1, <2>2 DEF CreateTable, CreateFails, StartMerge
  <2>3. CASE RefuseMerge
    BY <2>1, <2>3 DEF RefuseMerge
  <2>4. CASE FillTable \/ FillFails
    <3>1. Whole(mem) \in Files
      BY <1>1, FileTypes
    <3> QED BY <2>4, <3>1 DEF FillTable, FillFails
  <2>5. CASE MergeTables \/ MergeFails
    <3>1. pc = "merge"
      BY <2>5 DEF MergeTables, MergeFails
    <3>2. Merged \in Tables
      <4>1. Older \in Seqs /\ Newer \in Seqs
        BY <3>1 DEF RefInv, TypeInv, TypeOK, Stages
      <4>2. files[Older].data \in Tables /\ files[Newer].data \in Tables
        BY <1>1, <4>1 DEF Files
      <4> QED BY <4>2 DEF Merged, Tables
    <3>3. Whole(Merged) \in Files
      BY <3>2, FileTypes
    <3> QED BY <2>5, <3>1, <3>3 DEF MergeTables, MergeFails
  <2> QED BY <2>2, <2>3, <2>4, <2>5
<1>3. \A s \in Seqs : s > n => files[s].state = "absent"
  BY <1>1 DEF RefInv, Fresh
<1>4. ASSUME NEW k \in Keys, NEW t \in Stored(k)'
      PROVE  t \in Stored(k) \/ Visible(t) = Get(k)
  <2> DEFINE v == ValueIn(files, Seqs, k)
             u == ValueIn(files, Seqs \ {n}, k)
             w == ValueIn(files', Seqs, k)
  <2>1. Stored(k) = {v, u}
    BY <1>1, StoredAre DEF StoredSplit
  <2>2. Get(k) = Visible(IF mem[k] # None THEN mem[k] ELSE u)
    BY <1>1, GetReads
  <2>3. w \in {v, u} \/ Visible(w) = Get(k)
    <3>1. CASE files' = files
      BY <3>1
    <3>2. CASE files' = [files EXCEPT ![n] = f]
      <4>1. w = IF f.state = "whole" /\ f.data[k] # None THEN f.data[k] ELSE u
        BY <1>1, <1>3, <3>2, TableChanged
      <4>2. CASE f = Whole(mem)
        BY <2>2, <4>1, <4>2 DEF Whole
      <4>3. CASE f = Whole(Merged) /\ pc = "merge"
        BY <4>1, <4>3, MergedDecides DEF Whole
      <4>4. CASE f.state # "whole"
        BY <4>1, <4>4
      <4> QED BY <1>2, <4>2, <4>3, <4>4
    <3> QED BY <1>2, <3>1, <3>2
  <2>4. t = w \/ t = u
    <3>1. CASE pc' = "dropOld"
      BY <1>1, <3>1, StoredAreNext DEF StoredSplit
    <3>2. CASE pc' # "dropOld"
      <4>1. t \in {w, ValueIn(files', Seqs \ {nextSeq'}, k)}
        BY <1>1, <3>2, StoredAreNext DEF StoredSplit
      <4>2. CASE FillTable
        <5>1. nextSeq' \notin HoldersIn(files', Seqs, k)
          <6>1. nextSeq' = n + 1 /\ pc' = "truncate"
            BY <4>2 DEF FillTable
          <6>2. nextSeq' \in Seqs => files'[nextSeq'].state = "absent"
            BY <1>1, <6>1 DEF RefInv, Fresh
          <6> QED BY <6>2 DEF HoldersIn
        <5>2. w = ValueIn(files', Seqs \ {nextSeq'}, k)
          BY <5>1, WithoutTable
        <5> QED BY <4>1, <5>2
      <4>3. CASE ~FillTable
        <5>1. nextSeq' = n
          BY <4>3 DEF CreateTable, CreateFails, FillFails, StartMerge, RefuseMerge,
             MergeTables, MergeFails, memory
        <5>2. ValueIn(files', Seqs \ {n}, k) = u
          <6>1. CASE files' = files
            BY <6>1
          <6>2. CASE files' = [files EXCEPT ![n] = f]
            BY <1>1, <1>3, <6>2, TableChanged
          <6> QED BY <1>2, <6>1, <6>2
        <5> QED BY <4>1, <5>1, <5>2
      <4> QED BY <4>2, <4>3
    <3> QED BY <3>1, <3>2
  <2> QED BY <2>1, <2>3, <2>4
<1> QED BY <1>1, <1>4, SettleTables

\* An input that is removed said nothing that the output does not say.
LEMMA SettleRemovals ==
  ASSUME RefInv, RefInv', [Next]_vars, DropOlder \/ DropNewer
  PROVE  Promise!Settle
<1>1. /\ Opened /\ Opened' /\ pc \in {"dropOld", "dropNewer"} /\ UNCHANGED log
      /\ \/ files' = files
         \/ \E x \in {Older, Newer} : files' = [files EXCEPT ![x] = Absent]
      /\ \/ pc' = "dropNewer"
         \/ pc' = "idle" /\ nextSeq' = nextSeq + 1
  BY DEF DropOlder, DropNewer, Removed, Opened, log
<1>2. ASSUME NEW k \in Keys, NEW t \in Stored(k)'
      PROVE  t \in Stored(k)
  <2>1. ValueIn(files', Seqs, k) = ValueIn(files, Seqs, k)
    BY <1>1, InputGoes
  <2>2. Stored(k) = {ValueIn(files, Seqs, k)}
    BY <1>1, StoredAre DEF StoredSplit
  <2>3. CASE pc' = "dropNewer"
    BY <2>1, <2>2, <2>3, StoredAreNext DEF StoredSplit
  <2>4. CASE pc' = "idle" /\ nextSeq' = nextSeq + 1
    <3>1. nextSeq' \notin HoldersIn(files', Seqs, k)
      <4> SUFFICES ASSUME nextSeq + 1 \in Seqs PROVE files'[nextSeq + 1].state = "absent"
        BY <2>4 DEF HoldersIn
      <4>1. nextSeq \in Nat /\ files \in [Seqs -> Files]
        BY MaxSeqNat DEF RefInv, TypeInv, TypeOK
      <4>2. files[nextSeq + 1].state = "absent"
        BY <1>1, <4>1 DEF RefInv, Fresh
      <4>3. files'[nextSeq + 1] \in {files[nextSeq + 1], Absent}
        BY <1>1, <4>1
      <4> QED BY <4>2, <4>3 DEF Absent
    <3>2. ValueIn(files', Seqs, k) = ValueIn(files', Seqs \ {nextSeq'}, k)
      BY <3>1, WithoutTable
    <3> QED BY <1>1, <2>1, <2>2, <2>4, <3>2, StoredAreNext DEF StoredSplit
  <2> QED BY <1>1, <2>3, <2>4
<1> QED BY <1>1, <1>2, SettleTables

\* The log is emptied when the memtable is empty and its entries are in a table.
LEMMA SettleTruncation ==
  ASSUME RefInv, RefInv', [Next]_vars, TruncateLog
  PROVE  Promise!Settle
<1>1. /\ Opened /\ Opened' /\ pc = "truncate" /\ pc' = "resync" /\ mem = Empty
      /\ wal' = <<>> /\ walDisk' = walDisk /\ truncated' = TRUE
      /\ files' = files /\ nextSeq' = nextSeq
  BY DEF TruncateLog, Opened, RefInv, TypeInv, Stages
<1>2. Reads' = Reads
  BY <1>1, ReadsKept
<1>3. ASSUME NEW k \in Keys, NEW l \in Logged(k)', NEW t \in Stored(k)'
      PROVE  Answer(l, t) \in Outcomes[k] \cup {Reads[k]}
  <2>1. t \in Stored(k)
    BY <1>1, StoredAre, StoredAreNext DEF StoredSplit
  <2>2. l \in Logged(k) \/ l = None
    <3>1. PICK w \in Survivors' : l = Replayed(w, k)
      BY DEF Logged
    <3>2. w = walDisk \/ w = <<>>
      <4>1. \A m \in 0 .. Len(<<>>) : SubSeq(<<>>, 1, m) = <<>>
        <5> TAKE m \in 0 .. Len(<<>>)
        <5>1. m \in Int /\ m < 1
          OBVIOUS
        <5> QED BY <5>1, SubSeqEmpty
      <4> QED BY <1>1, <3>1, <4>1 DEF Survivors
    <3>3. CASE w = walDisk
      BY <3>1, <3>3, SurvivorLogs DEF Logged, RefInv
    <3>4. CASE w = <<>>
      BY <3>1, <3>4 DEF Replayed, RecordsOf
    <3> QED BY <3>2, <3>3, <3>4
  <2>3. CASE l \in Logged(k)
    BY <2>1, <2>3, InOutcomes
  <2>4. CASE l = None
    <3>1. nextSeq \notin HoldersIn(files, Seqs, k)
      BY <1>1 DEF RefInv, Fresh, HoldersIn
    <3>2. t = ValueIn(files, Seqs \ {nextSeq}, k)
      BY <1>1, <2>1, <3>1, WithoutTable, StoredAre DEF StoredSplit
    <3>3. Visible(t) = Reads[k]
      BY <1>1, <3>2, GetReads DEF Empty
    <3> QED BY <2>4, <3>3 DEF Answer
  <2> QED BY <2>2, <2>3, <2>4
<1> QED BY <1>1, <1>2, <1>3, Settles

-----------------------------------------------------------------------------
(* Requests. *)

\* A longer log is one more that a restart may find.
LEMMA SurvivorsGrow ==
  ASSUME TypeInv, LogPrefix, NEW r \in Records, wal' = Append(wal, r),
         UNCHANGED <<walDisk, truncated>>
  PROVE  Survivors' = Survivors \cup {Append(wal, r)}
<1> DEFINE a == Append(wal, r)
           m == Len(wal)
<1>1. wal \in Seq(Records) /\ m \in Nat /\ Len(walDisk) \in Nat /\ a \in Seq(Records) /\ Len(a) = m + 1
  BY AppendProperties DEF TypeInv, TypeOK
<1>2. SubSeq(a, 1, m + 1) = a
  BY <1>1, SubSeqFull
<1>3. \A n \in 0 .. m : SubSeq(a, 1, n) = SubSeq(wal, 1, n)
  BY <1>1, PrefixGrows
<1>4. ASSUME NEW from \in 0 .. m
      PROVE  {SubSeq(a, 1, n) : n \in from .. m + 1} = {SubSeq(wal, 1, n) : n \in from .. m} \cup {a}
  <2> HIDE DEF a
  <2>1. \A n \in from .. m + 1 : n \in from .. m \/ n = m + 1
    BY <1>1
  <2>2. \A n \in from .. m : n \in 0 .. m /\ n \in from .. m + 1
    BY <1>1
  <2>3. m + 1 \in from .. m + 1
    BY <1>1
  <2> HIDE DEF m
  <2> QED BY <1>2, <1>3, <2>1, <2>2, <2>3
<1>5. ~truncated => Len(walDisk) \in 0 .. m
  BY <1>1 DEF LogPrefix
<1>6. 0 \in 0 .. m
  BY <1>1
<1> HIDE DEF a
<1>7. wal' = a
  BY DEF a
<1>8. CASE truncated
  <2>1. Survivors' = {walDisk} \cup {SubSeq(a, 1, n) : n \in 0 .. m + 1}
    BY <1>1, <1>7, <1>8 DEF Survivors
  <2>2. Survivors = {walDisk} \cup {SubSeq(wal, 1, n) : n \in 0 .. m}
    BY <1>8 DEF Survivors
  <2> QED BY <1>4, <1>6, <2>1, <2>2 DEF a
<1>9. CASE ~truncated
  <2>1. Survivors' = {SubSeq(a, 1, n) : n \in Len(walDisk) .. m + 1}
    BY <1>1, <1>7, <1>9 DEF Survivors
  <2>2. Survivors = {SubSeq(wal, 1, n) : n \in Len(walDisk) .. m}
    BY <1>9 DEF Survivors
  <2> QED BY <1>4, <1>5, <1>9, <2>1, <2>2 DEF a
<1> QED BY <1>8, <1>9

\* A log and a directory with the same answers give the same outcomes.
LEMMA SameOutcomes ==
  ASSUME NEW k \in Keys, Logged(k)' = Logged(k), Stored(k)' = Stored(k)
  PROVE  Outcomes'[k] = Outcomes[k]
<1>1. PICK L, S : L = Logged(k) /\ S = Stored(k)
  OBVIOUS
<1>2. Outcomes[k] = {Answer(l, t) : l \in L, t \in S}
  BY <1>1, OutcomesAre DEF OutcomesSplit
<1>3. Logged(k)' = L /\ Stored(k)' = S
  BY <1>1
<1>4. Outcomes'[k] = {Answer(l, t) : l \in L, t \in S}
  BY <1>3, OutcomesAreNext DEF OutcomesSplit
<1> QED BY <1>2, <1>4

\* A record on its way to the disk is an attempt to write its key.
LEMMA AppendAttempts ==
  ASSUME RefInv, RefInv', [Next]_vars, AppendRecord
  PROVE  \E k \in Keys, v \in Promise!Answers : Promise!Attempt(k, v)
<1>0. PICK r \in Writes : r = Head(toLog)
  BY DEF AppendRecord, RefInv, TypeInv, TypeOK, Stages
<1> DEFINE v == Visible(r.val)
<1>1. /\ Opened /\ Opened' /\ pc = "log" /\ pc' \in {"log", "sync"}
      /\ r \in Records /\ r.key \in Keys /\ r.val \in Values \cup {Tomb}
      /\ wal' = Append(wal, r) /\ UNCHANGED <<walDisk, truncated, files, nextSeq>>
  BY <1>0 DEF AppendRecord, Opened, Writes, Records
<1>2. v \in Promise!Answers
  BY <1>1 DEF Visible, Promise!Answers
<1>3. Reads' = Reads
  BY <1>1, ReadsKept
<1>4. wal \in Seq(Records) /\ Survivors' = Survivors \cup {Append(wal, r)}
      /\ wal \in Survivors
  BY <1>1, SurvivorsGrow, SurvivorLogs DEF RefInv, TypeInv, TypeOK
<1>5. \A k \in Keys : Replayed(Append(wal, r), k) = IF r.key = k THEN r.val ELSE Replayed(wal, k)
  BY <1>1, <1>4, ReplayedAppend
<1>6. \A k \in Keys : Stored(k)' = Stored(k)
  BY <1>1, StoredAre, StoredAreNext DEF StoredSplit
<1>7. \A k \in Keys : Logged(k)' = Logged(k) \cup {Replayed(Append(wal, r), k)}
  BY <1>4 DEF Logged
<1>8. \A k \in Keys \ {r.key} : Outcomes'[k] = Outcomes[k]
  <2> TAKE k \in Keys \ {r.key}
  <2>1. Logged(k)' = Logged(k)
    BY <1>4, <1>5, <1>7 DEF Logged
  <2>2. Stored(k)' = Stored(k)
    BY <1>6
  <2> QED BY <2>1, <2>2, SameOutcomes
<1>9. Outcomes'[r.key] \subseteq Outcomes[r.key] \cup {v}
  <2> SUFFICES ASSUME NEW l \in Logged(r.key)', NEW t \in Stored(r.key)'
               PROVE  Answer(l, t) \in Outcomes[r.key] \cup {v}
    BY <1>1, OutcomesAreNext DEF OutcomesSplit
  <2>1. CASE l \in Logged(r.key)
    BY <1>1, <1>6, <2>1, OutcomesAre DEF OutcomesSplit
  <2>2. CASE l = r.val
    BY <1>1, <2>2, EngineAssumption DEF Answer
  <2> QED BY <1>1, <1>5, <1>7, <2>1, <2>2
<1>10. /\ Outcomes \in [Keys -> (SUBSET Promise!Answers) \ {{}}]
       /\ Outcomes' \in [Keys -> (SUBSET Promise!Answers) \ {{}}]
  BY MapTyped, MapTypedNext DEF MapType, RefInv, Promise!Answers
<1>11. Outcomes'[r.key] \in (SUBSET (Outcomes[r.key] \cup {v})) \ {{}}
  BY <1>1, <1>9, <1>10
<1>12. Outcomes' = [Outcomes EXCEPT ![r.key] = Outcomes'[r.key]]
  BY <1>8, <1>10
<1>13. Promise!Attempt(r.key, v)
  BY <1>1, <1>3, <1>11, <1>12 DEF Promise!Attempt
<1> QED BY <1>1, <1>2, <1>13

\* A write becomes readable when it is all a restart would find.
LEMMA ApplyWrites ==
  ASSUME RefInv, RefInv', [Next]_vars, Apply
  PROVE  \E k \in Keys, v \in Promise!Answers : Promise!Write(k, v)
<1>0. PICK r \in Writes : r = Head(toApply) /\ toApply # <<>> /\ r = toApply[1] /\ 1 \in DOMAIN toApply
  BY DEF Apply, RefInv, TypeInv, TypeOK, Stages
<1> DEFINE v == Visible(r.val)
<1>1. /\ Opened /\ Opened' /\ pc = "apply" /\ pc' \in {"create", "apply", "idle"}
      /\ r.key \in Keys /\ r.val \in Values \cup {Tomb} /\ r.val # None
      /\ mem' = [mem EXCEPT ![r.key] = r.val] /\ mem \in Tables
      /\ UNCHANGED <<files, nextSeq>> /\ UNCHANGED log
  BY <1>0, EngineAssumption DEF Apply, Continue, Opened, Writes, RefInv, TypeInv, TypeOK
<1>2. v \in Promise!Answers
  BY <1>1 DEF Visible, Promise!Answers
<1>3. ~truncated /\ walDisk = wal /\ Replayed(wal, r.key) = r.val
  BY <1>0, <1>1 DEF RefInv, QueueReplayed
<1>4. Logged(r.key) = {r.val}
  <2>1. wal \in Seq(Records) /\ Len(wal) \in Nat
    BY DEF RefInv, TypeInv, TypeOK
  <2>2. Len(wal) .. Len(wal) = {Len(wal)} /\ SubSeq(wal, 1, Len(wal)) = wal
    BY <2>1, SubSeqFull
  <2>3. Survivors = {wal}
    BY <1>3, <2>2 DEF Survivors
  <2> QED BY <1>3, <2>3 DEF Logged
<1>5. Outcomes[r.key] = {v}
  <2>1. \A t : Answer(r.val, t) = v
    BY <1>1 DEF Answer
  <2>2. \E t : t \in Stored(r.key)
    BY StoredAre DEF StoredSplit
  <2>3. Outcomes[r.key] = {Answer(l, t) : l \in Logged(r.key), t \in Stored(r.key)}
    BY <1>1, OutcomesAre DEF OutcomesSplit
  <2> HIDE DEF v
  <2> QED BY <1>4, <2>1, <2>2, <2>3
<1>6. \A k \in Keys : Outcomes'[k] = Outcomes[k]
  <2> TAKE k \in Keys
  <2>1. Logged(k)' = Logged(k)
    BY <1>1, LoggedSame
  <2>2. Stored(k)' = Stored(k)
    BY <1>1, StoredAre, StoredAreNext DEF StoredSplit
  <2> QED BY <2>1, <2>2, SameOutcomes
<1>7. \A k \in Keys : Reads'[k] = IF k = r.key THEN v ELSE Reads[k]
  <2> TAKE k \in Keys
  <2>1. Reads[k] = Get(k) /\ Reads'[k] = Get(k)'
    BY <1>1 DEF Reads
  <2>2. CASE k = r.key
    BY <1>1, <2>1, <2>2 DEF Get, Visible, Tables
  <2>3. CASE k # r.key
    <3>1. Get(k)' = Get(k)
      BY <1>0, <1>1, <2>3, ReadsStep DEF RefInv, MergeTables
    <3> QED BY <2>1, <2>3, <3>1
  <2> QED BY <2>2, <2>3
<1>8. MapType /\ MapType'
  BY MapTyped, MapTypedNext DEF RefInv
<1>9. Reads' = [Reads EXCEPT ![r.key] = v] /\ Outcomes' = Outcomes
  <2> HIDE DEF v
  <2> QED BY <1>6, <1>7, <1>8 DEF MapType
<1>10. Promise!Write(r.key, v)
  BY <1>1, <1>5, <1>9 DEF Promise!Write
<1> QED BY <1>1, <1>2, <1>10

-----------------------------------------------------------------------------
(* Stops and starts. *)

\* What a crash leaves of the log answers like one of the survivors.
LEMMA CrashLogged ==
  ASSUME TypeInv, LogPrefix, NEW w \in Survivors \cup TornSurvivors, NEW k \in Keys
  PROVE  Replayed(w, k) \in Logged(k)
<1>1. CASE w \in Survivors
  BY <1>1 DEF Logged
<1>2. CASE w \in TornSurvivors
  <2>1. PICK n \in (IF truncated THEN 0 ELSE Len(walDisk)) .. Len(wal) :
               w = Append(SubSeq(wal, 1, n), TornRecord)
    BY <1>2 DEF TornSurvivors
  <2>2. SubSeq(wal, 1, n) \in Survivors
    BY <2>1 DEF Survivors
  <2>3. SubSeq(wal, 1, n) \in Seq(Records)
    BY <2>2, SurvivorLogs
  <2> QED BY <2>1, <2>2, <2>3, ReplayedTorn DEF Logged
<1> QED BY <1>1, <1>2

\* After a stop the next start finds one of the logs and what is in the tables.
LEMMA StopStops ==
  ASSUME RefInv, RefInv', ~Opened', files' = files,
         \A k \in Keys : Logged(k)' \subseteq Logged(k) /\ Replayed(wal', k) \in Logged(k)
  PROVE  Promise!Stop
<1>1. MapType'
  BY MapTypedNext DEF RefInv
<1>2. \A k \in Keys : Outcomes'[k] \subseteq Outcomes[k] /\ Reads'[k] \in Outcomes[k]
  <2> TAKE k \in Keys
  <2>1. Stored(k)' = {ValueIn(files, Seqs, k)} /\ ValueIn(files, Seqs, k) \in Stored(k)
    BY StoredAre, StoredAreNext DEF StoredSplit
  <2>2. \A l \in Logged(k) : Answer(l, ValueIn(files, Seqs, k)) \in Outcomes[k]
    BY <2>1, OutcomesAre DEF OutcomesSplit
  <2>3. Outcomes'[k] = {Answer(l, t) : l \in Logged(k)', t \in Stored(k)'}
    BY OutcomesAreNext DEF OutcomesSplit
  <2>4. Outcomes'[k] \subseteq Outcomes[k]
    BY <2>1, <2>2, <2>3
  <2>5. Reads'[k] = Answer(Replayed(wal', k), ValueIn(files, Seqs, k))
    BY ReadsTables DEF Reads, AfterRestart, Answer, TableValue, ValueIn, Holders, HoldersIn
  <2> QED BY <2>2, <2>4, <2>5
<1> QED BY <1>1, <1>2 DEF Promise!Stop, Promise!Answers, MapType

\* A crash, or a clean stop.
LEMMA StopImplements ==
  ASSUME RefInv, RefInv', Crash \/ Close
  PROVE  Promise!Stop
<1>1. ~Opened' /\ files' = files
  BY DEF Crash, Close, Stopped, Opened
<1>2. CASE Crash
  <2>1. \A k \in Keys : Replayed(wal', k) \in Logged(k)
    BY <1>2, CrashLogged DEF Crash, RefInv
  <2>2. Survivors' = {wal'}
    <3>1. wal' \in Seq(Records) /\ Len(wal') \in Nat
      BY DEF RefInv, TypeInv, TypeOK
    <3>2. Len(wal') .. Len(wal') = {Len(wal')} /\ SubSeq(wal', 1, Len(wal')) = wal'
      BY <3>1, SubSeqFull
    <3> QED BY <1>2, <3>2 DEF Crash, Survivors
  <2>3. \A k \in Keys : Logged(k)' \subseteq Logged(k)
    BY <2>1, <2>2 DEF Logged
  <2> QED BY <1>1, <2>1, <2>3, StopStops
<1>3. CASE Close
  <2>1. UNCHANGED log
    BY <1>3 DEF Close
  <2>2. \A k \in Keys : Logged(k)' = Logged(k)
    BY <2>1, LoggedSame
  <2>3. \A k \in Keys : Replayed(wal', k) \in Logged(k)
    BY <2>1, SurvivorLogs DEF Logged, log, RefInv
  <2> QED BY <1>1, <2>2, <2>3, StopStops
<1> QED BY <1>2, <1>3

\* A start reads the log and lists the tables: it answers what was found.
LEMMA StartImplements ==
  ASSUME RefInv, RefInv', OpenEngine
  PROVE  Promise!Start
<1>1. /\ ~Opened /\ Opened' /\ pc' = "idle" /\ UNCHANGED <<files, log>> /\ wal' = wal
      /\ paths' = Listed /\ mem' = [k \in Keys |-> Replayed(wal, k)]
      /\ Listed \in SUBSET Seqs
  BY DEF OpenEngine, Opened, log, Listed
<1>2. \A k : ValueIn(files, Listed, k) = ValueIn(files, Seqs, k)
  <2> TAKE k
  <2>1. HoldersIn(files, Listed, k) = HoldersIn(files, Seqs, k)
    BY DEF HoldersIn, Listed
  <2> QED BY <1>1, <2>1, SameHolders
<1>3. \A k \in Keys : Reads'[k] = Reads[k]
  <2> TAKE k \in Keys
  <2>1. Reads[k] = Visible(IF Replayed(wal, k) # None THEN Replayed(wal, k)
                           ELSE ValueIn(files, Seqs, k))
    BY <1>1, ReadsTables DEF Reads, AfterRestart
  <2>2. ReadList' = Listed
    BY <1>1 DEF ReadList
  <2>3. TableValue(ReadList, k)' = ValueIn(files, Listed, k)
    BY <1>1, <2>2 DEF TableValue, Holders, ValueIn, HoldersIn
  <2>4. Reads'[k] = Visible(IF Replayed(wal, k) # None THEN Replayed(wal, k)
                            ELSE ValueIn(files, Listed, k))
    BY <1>1, <2>3 DEF Reads, Get, Visible
  <2> QED BY <1>2, <2>1, <2>4
<1>4. \A k \in Keys : Stored(k)' = Stored(k)
  <2> TAKE k \in Keys
  <2>1. nextSeq' \notin HoldersIn(files, Seqs, k)
    <3>1. MaxSeq \in Nat /\ Listed \in SUBSET (1 .. MaxSeq)
      BY EngineAssumption DEF Listed, Seqs
    <3>2. Listed # {} => Newest(Listed) \in 1 .. MaxSeq /\ \A t \in Listed : t <= Newest(Listed)
      BY <3>1, NewestOf
    <3>3. nextSeq' \notin Listed
      BY <3>1, <3>2 DEF OpenEngine, FirstFree
    <3> QED BY <3>3 DEF HoldersIn, Listed
  <2>2. ValueIn(files, Seqs, k) = ValueIn(files, Seqs \ {nextSeq'}, k)
    BY <2>1, WithoutTable
  <2> QED BY <1>1, <2>2, StoredAre, StoredAreNext DEF StoredSplit
<1>5. \A k \in Keys : Outcomes'[k] = Outcomes[k]
  <2> TAKE k \in Keys
  <2>1. Logged(k)' = Logged(k) /\ Stored(k)' = Stored(k)
    BY <1>1, <1>4, LoggedSame
  <2> QED BY <2>1, SameOutcomes
<1>6. MapType /\ MapType'
  BY MapTyped, MapTypedNext DEF RefInv
<1>7. Reads' = Reads /\ Outcomes' = Outcomes
  BY <1>3, <1>5, <1>6 DEF MapType
<1> QED BY <1>1, <1>7 DEF Promise!Start

-----------------------------------------------------------------------------
(* The refinement. *)

\* An empty directory and an empty log answer nothing for any key.
LEMMA RefInit == Init => RefInv /\ Promise!Init
<1> SUFFICES ASSUME Init PROVE RefInv /\ Promise!Init
  OBVIOUS
<1>1. wal = <<>> /\ walDisk = <<>> /\ ~truncated /\ pc = "idle" /\ paths = {} /\ mem = Empty
      /\ \A s \in Seqs : files[s].state = "absent"
  BY DEF Init, Absent
<1>2. RefInv
  <2>1. SubSeq(<<>>, 1, 0) = <<>>
    BY SubSeqEmpty
  <2>2. LogPrefix
    BY <1>1, <2>1 DEF LogPrefix
  <2>3. LogInv /\ QueueReplayed
    BY <1>1 DEF Init, LogInv, MemtableLogged, QueueLogged, Entries, Empty, QueueReplayed
  <2>4. LeftoversShadowed /\ Fresh
    BY <1>1 DEF LeftoversShadowed, Listed, Fresh
  <2> QED BY <1>1, <2>2, <2>3, <2>4, TypeInit DEF RefInv, MergeInv, AllMerged, OutputCovers
<1>3. ASSUME NEW k \in Keys
      PROVE  Reads[k] = None /\ Outcomes[k] = {None}
  <2>1. \A S \in SUBSET Seqs : ValueIn(files, S, k) = None
    BY <1>1 DEF ValueIn, HoldersIn
  <2>2. Seqs \ {nextSeq} \in SUBSET Seqs
    OBVIOUS
  <2>3. Stored(k) = {None}
    BY <1>1, <2>1, <2>2, StoredAre DEF StoredSplit
  <2>4. Survivors = {<<>>}
    <3>1. SubSeq(<<>>, 1, 0) = <<>> /\ 0 .. 0 = {0} /\ Len(<<>>) = 0
      BY SubSeqEmpty
    <3> QED BY <1>1, <3>1 DEF Survivors
  <2>5. Logged(k) = {None}
    BY <2>4 DEF Logged, Replayed, RecordsOf
  <2>6. Answer(None, None) = None
    BY EngineAssumption DEF Answer, Visible
  <2>7. Outcomes[k] = {None}
    BY <2>3, <2>5, <2>6, OutcomesAre DEF OutcomesSplit
  <2>8. Reads[k] = None
    BY <1>1, <1>2, <2>1, <2>2, <2>6, GetReads DEF Opened, Empty, Answer
  <2> QED BY <2>7, <2>8
<1>4. Reads = [k \in Keys |-> None] /\ Outcomes = [k \in Keys |-> {None}]
  BY <1>3 DEF Reads, Outcomes
<1> QED BY <1>2, <1>4 DEF Promise!Init, Opened

\* The parts of the invariant hold together.
LEMMA RefInvStep ==
  ASSUME SinglePairs, CompactLimit <= 2
  PROVE  RefInv /\ [Next]_vars => RefInv'
BY TypeStep, MergeStep, AllMergedStep, ShadowStep, LogStep, FreshStep, CoverStep, PrefixStep,
   QueueStep DEF RefInv

\* The steps that leave the directory alone and the log, or change it without
\* adding a value.
LEMMA LogSteps ==
  ASSUME RefInv, RefInv', [Next]_vars,
         \/ \E ws \in PutBatches \cup DeleteBatches : Request(ws)
         \/ AppendFails \/ SyncLog \/ SyncLogFails \/ Flush \/ TruncateFails
         \/ SyncTruncation \/ SyncTruncationFails
  PROVE  Promise!Settle
<1>1. /\ Opened /\ Opened' /\ pc # "apply" /\ UNCHANGED <<files, nextSeq>>
      /\ {pc, pc'} \cap {"dropOld", "dropNewer"} = {}
  BY DEF Request, AppendFails, SyncLog, SyncLogFails, Flush, TruncateFails, SyncTruncation,
         SyncTruncationFails, Abort, Continue, Opened
<1>2. wal \in Seq(Records) /\ Len(wal) \in Nat /\ wal \in Survivors
  BY SurvivorLogs DEF RefInv, TypeInv, TypeOK
<1>3. \A k \in Keys : Logged(k)' \subseteq Logged(k)
  <2>1. CASE UNCHANGED log
    BY <2>1, LoggedSame
  <2>2. CASE wal' = wal /\ walDisk' = wal /\ truncated' = FALSE
    <3>1. Len(wal) .. Len(wal) = {Len(wal)} /\ SubSeq(wal, 1, Len(wal)) = wal
      BY <1>2, SubSeqFull
    <3>2. Survivors' = {wal}
      BY <2>2, <3>1 DEF Survivors
    <3> QED BY <1>2, <3>2 DEF Logged
  <2>3. CASE wal' = Append(wal, TornRecord) /\ UNCHANGED <<walDisk, truncated>>
    <3>1. Survivors' = Survivors \cup {Append(wal, TornRecord)}
      BY <2>3, SurvivorsGrow DEF RefInv, Records
    <3>2. \A k \in Keys : Replayed(Append(wal, TornRecord), k) = Replayed(wal, k)
      BY <1>2, ReplayedTorn
    <3> QED BY <1>2, <3>1, <3>2 DEF Logged
  <2> QED BY <2>1, <2>2, <2>3 DEF Request, AppendFails, SyncLog, SyncLogFails, Flush,
             TruncateFails, SyncTruncation, SyncTruncationFails, log
<1> QED BY <1>1, <1>3, SettleLogs

\* A start that fails, and a step that changes nothing.
LEMMA IdleSteps ==
  ASSUME RefInv, RefInv', OpenFails \/ UNCHANGED vars
  PROVE  Promise!Settle
<1>1. Opened' = Opened /\ UNCHANGED <<files, log, nextSeq, mem, paths>>
      /\ (Opened => pc' = pc)
  BY DEF OpenFails, vars, memory, Opened, log
<1>2. ASSUME NEW k \in Keys
      PROVE  Reads'[k] = Reads[k] /\ Stored(k)' = Stored(k) /\ Logged(k)' = Logged(k)
  <2>1. Reads'[k] = Reads[k]
    BY <1>1 DEF Reads, Get, ReadList, Older, Newer, TableValue, Holders, AfterRestart, log
  <2>2. Stored(k)' = Stored(k)
    BY <1>1, StoredAre, StoredAreNext DEF StoredSplit
  <2> QED BY <1>1, <2>1, <2>2, LoggedSame
<1>3. Reads' = Reads
  BY <1>2 DEF Reads
<1>4. \A k \in Keys : \A l \in Logged(k)', t \in Stored(k)' :
        Answer(l, t) \in Outcomes[k] \cup {Reads[k]}
  BY <1>2, InOutcomes
<1> QED BY <1>1, <1>3, <1>4, Settles

\* Every step of the engine is a step of the map.
LEMMA RefStep ==
  ASSUME RefInv, RefInv', [Next]_vars
  PROVE  Promise!Next
<1>1. CASE \/ \E ws \in PutBatches \cup DeleteBatches : Request(ws)
           \/ AppendFails \/ SyncLog \/ SyncLogFails \/ Flush \/ TruncateFails
           \/ SyncTruncation \/ SyncTruncationFails
  BY <1>1, LogSteps DEF Promise!Next
<1>2. CASE CreateTable \/ CreateFails \/ FillTable \/ FillFails \/ StartMerge \/ RefuseMerge
             \/ MergeTables \/ MergeFails
  BY <1>2, SettleTableWrites DEF Promise!Next
<1>3. CASE DropOlder \/ DropNewer
  BY <1>3, SettleRemovals DEF Promise!Next
<1>4. CASE TruncateLog
  BY <1>4, SettleTruncation DEF Promise!Next
<1>5. CASE AppendRecord
  BY <1>5, AppendAttempts DEF Promise!Next
<1>6. CASE Apply
  BY <1>6, ApplyWrites DEF Promise!Next
<1>7. CASE Crash \/ Close
  BY <1>7, StopImplements DEF Promise!Next
<1>8. CASE OpenEngine
  BY <1>8, StartImplements DEF Promise!Next
<1>9. CASE OpenFails \/ UNCHANGED vars
  BY <1>9, IdleSteps DEF Promise!Next
<1> QED BY <1>1, <1>2, <1>3, <1>4, <1>5, <1>6, <1>7, <1>8, <1>9 DEF Next, Step

\* A write that was acknowledged is found by every later start, one that failed
\* may be found or not, and nothing else changes what Get answers: the engine
\* keeps the promise of DurableMap when Put writes one pair and RunCompaction
\* finds at most two tables.
THEOREM EngineImplementsDurableMap ==
  ASSUME SinglePairs, CompactLimit <= 2
  PROVE  Spec => ImplementsDurableMap
<1>1. Init => RefInv /\ Promise!Init
  BY RefInit
<1>2. RefInv /\ [Next]_vars => RefInv'
  BY RefInvStep
<1>3. RefInv /\ RefInv' /\ [Next]_vars => [Promise!Next]_(Promise!vars)
  BY RefStep
<1> QED BY <1>1, <1>2, <1>3, PTL DEF Spec, ImplementsDurableMap, Promise!Spec

\* The promise with its theorems: the same map, as DurableMapProofs sees it.
Kept == INSTANCE DurableMapProofs WITH kv <- Reads, outcomes <- Outcomes, open <- Opened

\* What Put and Delete acknowledged stays in the engine: a key on which Get and
\* every possible restart agree keeps its value, through flushes, compactions,
\* failed calls, crashes and starts, until a request for that key is attempted.
THEOREM AcknowledgedWritesStay ==
  ASSUME SinglePairs, CompactLimit <= 2
  PROVE  Spec => Kept!SettledUntilAttempted
<1>1. Promise!Init => Kept!Init
  BY DEF Promise!Init, Kept!Init
<1>2. [Promise!Next]_(Promise!vars) => [Kept!Next]_(Kept!vars)
  BY DEF Promise!Next, Promise!vars, Promise!Settle, Promise!Stop, Promise!Start,
     Promise!Attempt, Promise!Write, Promise!Answers, Kept!Next, Kept!vars, Kept!Settle,
     Kept!Stop, Kept!Start, Kept!Attempt, Kept!Write, Kept!Answers
<1>3. Kept!Spec => Kept!SettledUntilAttempted
  BY Kept!AcknowledgedStays DEF Kept!AcknowledgedStays
<1> QED BY <1>1, <1>2, <1>3, EngineImplementsDurableMap, PTL
        DEF ImplementsDurableMap, Promise!Spec, Kept!Spec
=============================================================================
