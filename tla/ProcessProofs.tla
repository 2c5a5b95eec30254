--------------------------- MODULE ProcessProofs ----------------------------
(***************************************************************************)
(* Proofs about Shutdown and Process, for any number of handlers and keys, *)
(* any burst and rate: the end of a process is orderly, also with the rate *)
(* limiter in front, and the limiter keeps its promises.                   *)
(***************************************************************************)
EXTENDS Process, TLAPS

-----------------------------------------------------------------------------
(* The end of a process, as Shutdown has it. *)

\* Who is where according to the lock s.mu: exclusive holders are alone.
LockInv ==
  /\ \A h \in Writers : handler[h] = "inside" <=> owner = h
  /\ \A h \in Readers : handler[h] = "inside" <=> h \in sharers
  /\ loop = "save" <=> owner = "loop"
  /\ main = "close" <=> owner = "main"
  /\ owner # Nobody => sharers = {}

\* How far the main goroutine is tells what became of the others.
PhaseInv ==
  /\ ~open <=> main \in {"return", "gone"}
  /\ main \in {"lock", "close", "return", "gone"} => loop = "exited"
  /\ ~Timer => loop = "exited"
  /\ ~late /\ main \notin {"serve", "drain"} =>
       \A h \in Handlers : handler[h] = "away"

Inv == TypeOK /\ LockInv /\ PhaseInv

\* The three are true at the start.
LEMMA InvInit == Init => Inv
BY ShutdownAssumption DEF Init, Inv, TypeOK, LockInv, PhaseInv, Handlers

\* Each step of a handler keeps them.
LEMMA HandlerStep ==
  ASSUME Inv, NEW h \in Handlers, Arrive(h) \/ Enter(h) \/ Leave(h)
  PROVE  Inv'
<1> USE ShutdownAssumption DEF Inv, TypeOK, LockInv, PhaseInv, Handlers
<1>1. CASE Arrive(h)
  BY <1>1 DEF Arrive
<1>2. CASE Enter(h)
  <2>1. CASE h \in Writers
    BY <1>2, <2>1 DEF Enter, Running, Free
  <2>2. CASE h \in Readers
    BY <1>2, <2>2 DEF Enter, Running
  <2> QED BY <2>1, <2>2
<1>3. CASE Leave(h)
  BY <1>3 DEF Leave, Running
<1> QED BY <1>1, <1>2, <1>3

\* Each step of the snapshot goroutine keeps them.
LEMMA LoopStep ==
  ASSUME Inv, Tick \/ LoopLocks \/ LoopSaves \/ LoopStops
  PROVE  Inv'
<1> USE ShutdownAssumption DEF Inv, TypeOK, LockInv, PhaseInv, Handlers, Running
<1>1. CASE Tick
  BY <1>1 DEF Tick
<1>2. CASE LoopLocks
  BY <1>2 DEF LoopLocks, Free
<1>3. CASE LoopSaves
  BY <1>3 DEF LoopSaves
<1>4. CASE LoopStops
  BY <1>4 DEF LoopStops
<1> QED BY <1>1, <1>2, <1>3, <1>4

\* Each step of the main goroutine keeps them.
LEMMA MainStepInv ==
  ASSUME Inv, Signal \/ MainLocks \/ MainStep
  PROVE  Inv'
<1> USE ShutdownAssumption DEF Inv, TypeOK, LockInv, PhaseInv, Handlers
<1>1. CASE Signal
  BY <1>1 DEF Signal
<1>2. CASE Drained
  BY <1>2 DEF Drained
<1>3. CASE DrainTimesOut
  BY <1>3 DEF DrainTimesOut
<1>4. CASE StopLoop
  BY <1>4 DEF StopLoop
<1>5. CASE Waited
  BY <1>5 DEF Waited
<1>6. CASE MainLocks
  BY <1>6 DEF MainLocks, Free
<1>7. CASE CloseEngine
  BY <1>7 DEF CloseEngine
<1>8. CASE Exit
  BY <1>8 DEF Exit
<1> QED BY <1>1, <1>2, <1>3, <1>4, <1>5, <1>6, <1>7, <1>8 DEF MainStep

\* The inductive invariant holds in every reachable state.
THEOREM InvHolds == Spec => []Inv
<1>1. Init => Inv
  BY InvInit
<1>2. Inv /\ [Next]_vars => Inv'
  <2> SUFFICES ASSUME Inv, [Next]_vars PROVE Inv'
    OBVIOUS
  <2>1. CASE UNCHANGED vars
    BY <2>1 DEF vars, Inv, TypeOK, LockInv, PhaseInv
  <2>2. CASE Next
    BY <2>2, HandlerStep, LoopStep, MainStepInv DEF Next
  <2> QED BY <2>1, <2>2
<1> QED BY <1>1, <1>2, PTL DEF Spec

\* The snapshot goroutine saves only while the engine is open, and alone, with
\* any number of handlers and whether or not draining times out.
THEOREM SnapshotsSafe == Spec => []SavesBeforeClose
<1>1. Inv => SavesBeforeClose
  <2> SUFFICES ASSUME Inv, loop = "save"
               PROVE  open /\ \A h \in Handlers : handler[h] # "inside"
    BY DEF SavesBeforeClose
  <2>1. open
    BY DEF Inv, PhaseInv, TypeOK
  <2>2. owner = "loop" /\ sharers = {}
    BY ShutdownAssumption DEF Inv, LockInv, TypeOK, Handlers
  <2> QED BY <2>1, <2>2, ShutdownAssumption DEF Inv, LockInv, Handlers
<1> QED BY <1>1, InvHolds, PTL

\* Unless draining timed out, every handler that was accepted is served while
\* the engine is open.
THEOREM HandlersServed == Spec => []ServedOpen
<1>1. Inv => ServedOpen
  BY DEF Inv, PhaseInv, ServedOpen
<1> QED BY <1>1, InvHolds, PTL

-----------------------------------------------------------------------------
(* The process with its rate limiter. *)

\* The safety part of ProcessSpec.
Steps == ProcessInit /\ [][ProcessNext]_processVars

\* What a bucket holds was not admitted yet, and a client that was told to wait
\* finds a token after that time.
Balanced(k) == admitted[k] * One + Filled(k) <= Full + period * Rate
Refilling(k) ==
  promised[k] # Nothing =>
    level[k] = Nothing \/ level[k] + (idle[k] + promised[k]) * Rate >= One

LimiterInv ==
  /\ LimiterTypeOK
  /\ \A k \in Keys : Balanced(k) /\ Refilling(k)

-----------------------------------------------------------------------------
(* A bucket. *)

\* The numbers a step computes with.
LEMMA Numbers ==
  /\ Full \in Nat /\ One \in Nat /\ Rate \in Nat /\ Full >= One /\ One > 0 /\ Rate > 0
  /\ Stale \in Nat /\ Stale * Rate >= Full
<1>1. Burst \in Nat /\ Burst >= 1 /\ One \in Nat /\ One >= 1
  BY RateLimiterAssumption
<1>2. Burst * One >= 1 * One
  BY <1>1
<1> QED BY <1>1, <1>2, RateLimiterAssumption DEF Full

\* A bucket is neither overdrawn nor more than full.
LEMMA FilledRange ==
  ASSUME LimiterTypeOK, NEW k \in Keys
  PROVE  /\ Filled(k) \in 0 .. Full
         /\ idle[k] * Rate \in Nat
         /\ level[k] # Nothing => level[k] \in 0 .. Full
<1>1. level[k] \in (0 .. Full) \cup {Nothing} /\ idle[k] \in Nat
  BY Numbers DEF LimiterTypeOK
<1>2. idle[k] * Rate \in Nat
  BY <1>1, Numbers
<1> QED BY <1>1, <1>2, Numbers DEF Filled

\* Nobody has asked: every bucket is full.
LEMMA LimiterStarts == LimiterInit => LimiterInv
<1> SUFFICES ASSUME LimiterInit PROVE LimiterInv
  OBVIOUS
<1>1. LimiterTypeOK
  BY Numbers DEF LimiterInit, LimiterTypeOK
<1>2. ASSUME NEW k \in Keys PROVE Balanced(k) /\ Refilling(k)
  BY Numbers DEF LimiterInit, Balanced, Refilling, Filled
<1> QED BY <1>1, <1>2 DEF LimiterInv

\* A token is taken and counted.
LEMMA TakeKeeps ==
  ASSUME LimiterInv, NEW k \in Keys, Take(k)
  PROVE  LimiterInv'
<1> USE Numbers DEF Take
<1>0. LimiterTypeOK /\ Filled(k) \in 0 .. Full /\ Filled(k) - One \in 0 .. Full
  BY FilledRange DEF LimiterInv
<1>1. LimiterTypeOK'
  BY <1>0 DEF LimiterTypeOK
<1>2. ASSUME NEW j \in Keys, j # k PROVE Balanced(j)' /\ Refilling(j)'
  <2>1. /\ level'[j] = level[j] /\ idle'[j] = idle[j]
        /\ admitted'[j] = admitted[j] /\ promised'[j] = promised[j]
    BY <1>0, <1>2 DEF LimiterTypeOK
  <2>2. Balanced(j) /\ Refilling(j)
    BY DEF LimiterInv
  <2> QED BY <2>1, <2>2 DEF Balanced, Refilling, Filled
<1>3. Balanced(k)' /\ Refilling(k)'
  <2>1. /\ level'[k] = Filled(k) - One /\ idle'[k] = 0
        /\ admitted'[k] = admitted[k] + 1 /\ promised'[k] = Nothing
    BY <1>0 DEF LimiterTypeOK
  <2>2. Filled(k)' = Filled(k) - One
    BY <1>0, <2>1, RateLimiterAssumption DEF Filled
  <2>3. admitted[k] \in Nat /\ (admitted[k] + 1) * One = admitted[k] * One + One
    BY <1>0 DEF LimiterTypeOK
  <2>4. admitted[k] * One \in Nat /\ period * Rate \in Nat
    BY <1>0, <2>3 DEF LimiterTypeOK
  <2>5. Balanced(k)
    BY DEF LimiterInv
  <2> QED BY <1>0, <2>1, <2>2, <2>3, <2>4, <2>5 DEF Balanced, Refilling
<1> QED BY <1>1, <1>2, <1>3 DEF LimiterInv

\* A refused request leaves the bucket as full as it found it.
LEMMA DenyKeeps ==
  ASSUME LimiterInv, NEW k \in Keys, Deny(k)
  PROVE  LimiterInv'
<1> USE Numbers DEF Deny
<1>0. LimiterTypeOK /\ Filled(k) \in 0 .. Full
  BY FilledRange DEF LimiterInv
<1>1. LimiterTypeOK'
  BY <1>0 DEF LimiterTypeOK
<1>2. ASSUME NEW j \in Keys, j # k PROVE Balanced(j)' /\ Refilling(j)'
  <2>1. /\ level'[j] = level[j] /\ idle'[j] = idle[j]
        /\ admitted'[j] = admitted[j] /\ promised'[j] = promised[j]
    BY <1>0, <1>2 DEF LimiterTypeOK
  <2>2. Balanced(j) /\ Refilling(j)
    BY DEF LimiterInv
  <2> QED BY <2>1, <2>2 DEF Balanced, Refilling, Filled
<1>3. Balanced(k)' /\ Refilling(k)'
  <2>1. level'[k] = Filled(k) /\ idle'[k] = 0 /\ promised'[k] = promised[k]
    BY <1>0 DEF LimiterTypeOK
  <2>2. Filled(k)' = Filled(k)
    BY <1>0, <2>1, RateLimiterAssumption DEF Filled
  <2>3. Balanced(k) /\ Refilling(k)
    BY DEF LimiterInv
  <2>4. Filled(k) = level[k] + idle[k] * Rate /\ level[k] # Nothing
    BY <1>0 DEF Filled
  <2>5. ASSUME promised[k] # Nothing
        PROVE  (idle[k] + promised[k]) * Rate = idle[k] * Rate + promised[k] * Rate
    BY <1>0, <2>5 DEF LimiterTypeOK
  <2>6. ASSUME promised[k] # Nothing PROVE (0 + promised[k]) * Rate = promised[k] * Rate
    BY <1>0, <2>6 DEF LimiterTypeOK
  <2>7. Refilling(k)'
    <3> SUFFICES ASSUME promised[k] # Nothing
                 PROVE  Filled(k) + (0 + promised[k]) * Rate >= One
      BY <2>1 DEF Refilling
    <3>1. level[k] + (idle[k] * Rate + promised[k] * Rate) >= One
      BY <2>3, <2>4, <2>5 DEF Refilling
    <3>2. promised[k] * Rate \in Nat /\ idle[k] * Rate \in Nat /\ level[k] \in Nat
      BY <1>0, <2>4, FilledRange DEF LimiterTypeOK
    <3> QED BY <2>4, <2>6, <3>1, <3>2
  <2> QED BY <2>2, <2>3, <2>7 DEF Balanced
<1> QED BY <1>1, <1>2, <1>3 DEF LimiterInv

\* So many seconds bring what is missing.
LEMMA RetryRounded ==
  ASSUME NEW d \in Nat, NEW r \in Nat \ {0}
  PROVE  (d + r - 1) \div r \in Nat /\ ((d + r - 1) \div r) * r >= d
OBVIOUS

\* After the seconds a client is told, the bucket holds a token.
LEMMA PromiseKeeps ==
  ASSUME LimiterInv, NEW k \in Keys, Promise(k)
  PROVE  LimiterInv'
<1> USE Numbers DEF Promise
<1>0. LimiterTypeOK /\ Rate * Second \in Nat \ {0} /\ Second \in Nat
  BY RateLimiterAssumption DEF LimiterInv
<1> DEFINE p == RetryAfter(k) * Second
<1>1. p \in Nat /\ (level[k] = Nothing \/ level[k] + p * Rate >= One)
  <2>1. CASE level[k] = Nothing \/ level[k] >= One
    <3>1. p = 0
      BY <1>0, <2>1 DEF RetryAfter
    <3>2. p * Rate = 0
      BY <3>1
    <3> QED BY <1>0, <2>1, <3>1, <3>2 DEF LimiterTypeOK
  <2>2. CASE level[k] # Nothing /\ level[k] < One
    <3> DEFINE d == One - level[k]
               n == (d + Rate * Second - 1) \div (Rate * Second)
    <3>1. d \in Nat /\ level[k] \in Nat /\ level[k] + d = One
      BY <1>0, <2>2 DEF LimiterTypeOK
    <3>2. RetryAfter(k) = n
      BY <2>2, <3>1 DEF RetryAfter
    <3>3. n \in Nat /\ n * (Rate * Second) >= d
      BY <1>0, <3>1, RetryRounded
    <3> HIDE DEF n, d
    <3>4. (n * Second) * Rate = n * (Rate * Second) /\ n * Second \in Nat
      BY <1>0, <3>3
    <3>5. (n * Second) * Rate >= d /\ (n * Second) * Rate \in Nat
      BY <3>3, <3>4
    <3> QED BY <3>1, <3>2, <3>4, <3>5
  <2> QED BY <1>0, <2>1, <2>2 DEF LimiterTypeOK
<1> HIDE DEF p
<1>2. promised'[k] \in {promised[k], p} /\ \A j \in Keys : j # k => promised'[j] = promised[j]
  BY <1>0 DEF LimiterTypeOK, Sooner, p
<1>3. LimiterTypeOK'
  <2>1. promised' = [promised EXCEPT ![k] = Sooner(promised[k], p)]
    BY DEF p
  <2>2. Sooner(promised[k], p) \in Nat \cup {Nothing}
    BY <1>0, <1>1 DEF Sooner, LimiterTypeOK
  <2> QED BY <1>0, <2>1, <2>2 DEF LimiterTypeOK
<1>4. ASSUME NEW j \in Keys PROVE Balanced(j)' /\ Refilling(j)'
  <2>1. Balanced(j) /\ Refilling(j)
    BY DEF LimiterInv
  <2>2. Balanced(j)'
    BY <2>1 DEF Balanced, Filled
  <2>3. CASE promised'[j] = promised[j]
    BY <2>1, <2>2, <2>3 DEF Refilling
  <2>4. CASE j = k /\ promised'[j] = p
    <3>1. CASE level[k] = Nothing
      BY <2>2, <2>4, <3>1 DEF Refilling
    <3>2. CASE level[k] # Nothing
      <4>1. level[k] \in Nat /\ idle[k] \in Nat
        BY <1>0, <3>2 DEF LimiterTypeOK
      <4>2. (idle[k] + p) * Rate = idle[k] * Rate + p * Rate
        BY <1>1, <4>1
      <4>3. idle[k] * Rate \in Nat /\ p * Rate \in Nat
        BY <1>1, <4>1
      <4>4. level[k] + (idle[k] + p) * Rate >= One
        BY <1>1, <3>2, <4>1, <4>2, <4>3
      <4> QED BY <2>2, <2>4, <4>4 DEF Refilling
    <3> QED BY <3>1, <3>2
  <2> QED BY <1>2, <2>3, <2>4
<1> QED BY <1>3, <1>4 DEF LimiterInv

\* A bucket that Prune drops was full by then.
LEMMA PruneKeeps == ASSUME LimiterInv, Prune PROVE LimiterInv'
<1> USE Numbers DEF Prune
<1>0. LimiterTypeOK
  BY DEF LimiterInv
<1>1. LimiterTypeOK'
  BY <1>0 DEF LimiterTypeOK
<1>2. ASSUME NEW k \in Keys PROVE Balanced(k)' /\ Refilling(k)'
  <2>0. Balanced(k) /\ Refilling(k)
    BY DEF LimiterInv
  <2>1. CASE level'[k] = level[k]
    BY <2>0, <2>1 DEF Balanced, Refilling, Filled
  <2>2. CASE level'[k] = Nothing /\ idle[k] > Stale /\ level[k] # Nothing
    <3>1. idle[k] \in Nat /\ level[k] \in Nat
      BY <1>0, <2>2 DEF LimiterTypeOK
    <3>2. idle[k] * Rate >= Stale * Rate
      BY <2>2, <3>1
    <3>3. Filled(k) = Full
      BY <2>2, <3>1, <3>2, FilledRange, <1>0 DEF Filled
    <3>4. Filled(k)' = Full
      BY <2>2 DEF Filled
    <3> QED BY <2>0, <2>2, <3>3, <3>4 DEF Balanced, Refilling
  <2> QED BY <1>0, <2>1, <2>2 DEF LimiterTypeOK
<1> QED BY <1>1, <1>2 DEF LimiterInv

\* A tick brings a bucket at most Rate, and a promise a tick closer.
LEMMA TickKeeps == ASSUME LimiterInv, ClockTicks PROVE LimiterInv'
<1> USE Numbers DEF ClockTicks
<1>0. LimiterTypeOK
  BY DEF LimiterInv
<1>1. LimiterTypeOK'
  BY <1>0, RateLimiterAssumption DEF LimiterTypeOK
<1>2. ASSUME NEW k \in Keys PROVE Balanced(k)' /\ Refilling(k)'
  <2>0. Balanced(k) /\ Refilling(k)
    BY DEF LimiterInv
  <2>1. /\ level'[k] = level[k] /\ admitted'[k] = admitted[k] /\ idle[k] \in Nat
        /\ idle'[k] = IF idle[k] > Stale THEN idle[k] ELSE idle[k] + 1
        /\ promised'[k] = IF promised[k] \in {Nothing, 0} THEN promised[k] ELSE promised[k] - 1
    BY <1>0 DEF LimiterTypeOK
  <2>2. (idle[k] + 1) * Rate = idle[k] * Rate + Rate /\ idle[k] * Rate \in Nat
    BY <2>1
  <2>3. (period + 1) * Rate = period * Rate + Rate /\ period * Rate \in Nat
    BY <1>0 DEF LimiterTypeOK
  <2>4. Filled(k) \in 0 .. Full /\ Filled(k)' \in 0 .. Full /\ Filled(k)' <= Filled(k) + Rate
    <3>1. Filled(k) \in 0 .. Full /\ Filled(k)' \in 0 .. Full
      BY <1>0, <1>1, FilledRange DEF Filled, LimiterTypeOK
    <3>2. CASE level[k] = Nothing
      BY <2>1, <3>1, <3>2 DEF Filled
    <3>3. CASE level[k] # Nothing
      <4>1. level[k] \in 0 .. Full
        BY <1>0, <3>3 DEF LimiterTypeOK
      <4>2. idle'[k] * Rate \in {idle[k] * Rate, idle[k] * Rate + Rate}
        BY <2>1, <2>2
      <4> QED BY <2>1, <2>2, <3>1, <3>3, <4>1, <4>2 DEF Filled
    <3> QED BY <3>2, <3>3
  <2>5. Balanced(k)'
    <3>1. admitted[k] * One \in Nat
      BY <1>0 DEF LimiterTypeOK
    <3> QED BY <2>0, <2>1, <2>3, <2>4, <3>1 DEF Balanced
  <2>6. Refilling(k)'
    <3> SUFFICES ASSUME promised'[k] # Nothing, level[k] # Nothing
                 PROVE  level[k] + (idle'[k] + promised'[k]) * Rate >= One
      BY <2>1 DEF Refilling
    <3>1. promised[k] \in Nat /\ promised'[k] \in Nat /\ level[k] \in Nat
      BY <1>0, <2>1, RateLimiterAssumption DEF LimiterTypeOK
    <3>2. level[k] + (idle[k] + promised[k]) * Rate >= One
      BY <2>0, <3>1, RateLimiterAssumption DEF Refilling
    <3>3. CASE idle[k] > Stale
      <4>1. idle'[k] + promised'[k] >= Stale /\ idle'[k] + promised'[k] \in Nat
        BY <2>1, <3>1, <3>3
      <4>2. (idle'[k] + promised'[k]) * Rate >= Stale * Rate
        BY <4>1
      <4>3. (idle'[k] + promised'[k]) * Rate \in Nat /\ Stale * Rate \in Nat
        BY <4>1
      <4> QED BY <3>1, <4>2, <4>3
    <3>4. CASE idle[k] <= Stale
      <4>1. idle'[k] + promised'[k] >= idle[k] + promised[k] /\ idle'[k] + promised'[k] \in Nat
        BY <2>1, <3>1, <3>4
      <4>2. (idle'[k] + promised'[k]) * Rate >= (idle[k] + promised[k]) * Rate
        BY <2>1, <3>1, <4>1
      <4>3. (idle'[k] + promised'[k]) * Rate \in Nat /\ (idle[k] + promised[k]) * Rate \in Nat
        BY <2>1, <3>1, <4>1
      <4> QED BY <3>1, <3>2, <4>2, <4>3
    <3> QED BY <2>1, <3>3, <3>4, Numbers
  <2> QED BY <2>5, <2>6
<1> QED BY <1>1, <1>2 DEF LimiterInv

\* A new period begins with what the buckets hold, which is at most the burst.
LEMMA LookKeeps == ASSUME LimiterInv, LookFromNow PROVE LimiterInv'
<1> USE Numbers DEF LookFromNow
<1>0. LimiterTypeOK
  BY DEF LimiterInv
<1>1. LimiterTypeOK'
  BY <1>0 DEF LimiterTypeOK
<1>2. ASSUME NEW k \in Keys PROVE Balanced(k)' /\ Refilling(k)'
  <2>1. Filled(k)' = Filled(k) /\ Filled(k) \in 0 .. Full /\ admitted'[k] = 0 /\ period' = 0
    BY <1>0, FilledRange DEF Filled
  <2>2. Refilling(k)
    BY DEF LimiterInv
  <2> QED BY <2>1, <2>2 DEF Balanced, Refilling
<1> QED BY <1>1, <1>2 DEF LimiterInv

-----------------------------------------------------------------------------
(* The process. *)

\* Every step of the process is a step of Shutdown or leaves its variables
\* alone: the limiter only delays or refuses what may arrive at any time.
LEMMA StepIsShutdown == ASSUME ProcessNext PROVE [Next]_vars
<1>1. ASSUME NEW h \in Handlers, Admit(h) \/ Refuse(h) \/ Answer(h) \/ Beyond(Enter(h)) \/ Beyond(Leave(h))
      PROVE  [Next]_vars
  BY <1>1 DEF Admit, Refuse, Answer, Beyond, Next
<1>2. CASE Beyond(Tick) \/ Beyond(LoopLocks) \/ Beyond(LoopSaves) \/ Beyond(LoopStops)
           \/ Beyond(Signal) \/ Beyond(MainLocks)
  BY <1>2 DEF Beyond, Next
<1>3. CASE MainGoesOn
  BY <1>3 DEF MainGoesOn, Beyond, Next
<1>4. CASE Limit
  BY <1>4 DEF Limit
<1> QED BY <1>1, <1>2, <1>3, <1>4 DEF ProcessNext

\* A step takes a token, refuses one, answers, lets time pass, or has nothing to
\* do with the limiter.
LEMMA StepKeepsLimiter ==
  ASSUME LimiterInv, refused \in SUBSET Handlers, [ProcessNext]_processVars
  PROVE  LimiterInv' /\ refused' \in SUBSET Handlers
<1>1. \A h \in Handlers : Key(h) \in Keys
  BY ProcessAssumption DEF Key
<1>2. ASSUME NEW h \in Handlers, Admit(h) PROVE LimiterInv' /\ refused' = refused
  BY <1>1, <1>2, TakeKeeps DEF Admit
<1>3. ASSUME NEW h \in Handlers, Refuse(h) PROVE LimiterInv' /\ refused' \in SUBSET Handlers
  BY <1>1, <1>3, DenyKeeps DEF Refuse
<1>4. ASSUME NEW h \in Handlers, Answer(h) PROVE LimiterInv' /\ refused' \in SUBSET Handlers
  BY <1>1, <1>4, PromiseKeeps DEF Answer
<1>5. CASE Limit
  BY <1>5, TickKeeps, LookKeeps, PruneKeeps DEF Limit
<1>6. CASE UNCHANGED <<limiterVars, refused>>
  BY <1>6 DEF limiterVars, LimiterInv, LimiterTypeOK, Balanced, Refilling, Filled
<1>7. CASE ProcessNext
  BY <1>2, <1>3, <1>4, <1>5, <1>6, <1>7 DEF ProcessNext, Beyond, MainGoesOn
<1> QED BY <1>6, <1>7 DEF processVars

\* The process does nothing at its end that Shutdown does not do.
THEOREM ProcessImplementsShutdown == ProcessSpec => Spec
<1>1. ProcessInit => Init
  BY DEF ProcessInit
<1>2. [ProcessNext]_processVars => [Next]_vars
  BY StepIsShutdown DEF processVars, vars
<1> QED BY <1>1, <1>2, PTL DEF ProcessSpec, Spec

\* The limiter's accounts are right in every state.
LEMMA LimiterInvHolds == ProcessSpec => [](LimiterInv /\ refused \in SUBSET Handlers)
<1>1. ProcessInit => LimiterInv /\ refused \in SUBSET Handlers
  BY LimiterStarts DEF ProcessInit
<1>2. (LimiterInv /\ refused \in SUBSET Handlers) /\ [ProcessNext]_processVars
        => (LimiterInv /\ refused \in SUBSET Handlers)'
  BY StepKeepsLimiter
<1> QED BY <1>1, <1>2, PTL DEF ProcessSpec

\* Every variable keeps its type: no bucket is overdrawn or more than full.
THEOREM ProcessTypeCorrect == ProcessSpec => []ProcessTypeOK
<1>1. Inv /\ LimiterInv /\ refused \in SUBSET Handlers => ProcessTypeOK
  BY DEF Inv, LimiterInv, ProcessTypeOK
<1> QED BY <1>1, InvHolds, ProcessImplementsShutdown, LimiterInvHolds, PTL

\* In no period are more requests of a key admitted than the burst and what the
\* period's time is worth (Allow), however requests, refusals and calls of
\* Prune are spaced.
THEOREM ProcessLimited == ProcessSpec => []Limited
<1>1. LimiterInv => Limited
  <2> SUFFICES ASSUME LimiterInv, NEW k \in Keys
               PROVE  admitted[k] * One <= Full + period * Rate
    BY DEF Limited
  <2>1. Balanced(k) /\ Filled(k) \in 0 .. Full
    BY FilledRange DEF LimiterInv
  <2>2. admitted[k] * One \in Nat /\ period * Rate \in Nat
    BY Numbers DEF LimiterInv, LimiterTypeOK
  <2> QED BY <2>1, <2>2, Numbers DEF Balanced
<1> QED BY <1>1, LimiterInvHolds, PTL

\* Waiting as long as Retry-After says is enough, unless another request of the
\* key was faster.
THEOREM ProcessRetrySuffices == ProcessSpec => []RetrySuffices
<1>1. LimiterInv => RetrySuffices
  <2> SUFFICES ASSUME LimiterInv, NEW k \in Keys, promised[k] = 0 PROVE Filled(k) >= One
    BY DEF RetrySuffices
  <2>1. LimiterTypeOK /\ Refilling(k)
    BY DEF LimiterInv
  <2>2. idle[k] \in Nat /\ idle[k] + 0 = idle[k]
    BY <2>1 DEF LimiterTypeOK
  <2>3. level[k] = Nothing \/ level[k] + idle[k] * Rate >= One
    BY <2>1, <2>2, RateLimiterAssumption DEF Refilling
  <2> QED BY <2>1, <2>3, Numbers, FilledRange DEF Filled
<1> QED BY <1>1, LimiterInvHolds, PTL

\* With the limiter in front, too, the snapshot goroutine saves only while the
\* engine is open, and alone.
THEOREM ProcessSavesBeforeClose == ProcessSpec => []SavesBeforeClose
BY SnapshotsSafe, ProcessImplementsShutdown, PTL

\* With the limiter in front, too, the handlers that are waited for run on an
\* open engine.
THEOREM ProcessServedOpen == ProcessSpec => []ServedOpen
BY HandlersServed, ProcessImplementsShutdown, PTL
=============================================================================
