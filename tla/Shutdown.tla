------------------------------ MODULE Shutdown ------------------------------
(***************************************************************************)
(* The end of a LaightDB process: launch.Start drains the HTTP server and  *)
(* closes the store while request handlers and the snapshot goroutine of   *)
(* the store still want s.mu, and the engine is gone after that.           *)
(*                                                                         *)
(* One action per step of a goroutine between two synchronisations. A      *)
(* definition marked "Variant" is a plausible mistake in the definition    *)
(* after it, not part of Next.                                             *)
(***************************************************************************)
EXTENDS FiniteSets

CONSTANTS
  Writers, Readers,   \* handlers that take s.mu exclusively, or shared
  Nobody,
  Timer               \* LAIGHTDB_SNAPSHOT_INTERVAL is set

Handlers == Writers \cup Readers

ASSUME ShutdownAssumption ==
  /\ Writers \cap Readers = {}
  /\ Timer \in BOOLEAN
  /\ Handlers \cap {"main", "loop"} = {}
  /\ Nobody \notin Handlers \cup {"main", "loop"}

VARIABLES
  main,      \* where launch.Start and the deferred store.Close are
  loop,      \* where the snapshot goroutine is; "exited" if there is none
  handler,   \* where each handler is
  owner,     \* who holds s.mu exclusively
  sharers,   \* who holds it shared
  stopped,   \* snapshotStop is closed
  open,      \* e.wal is not nil
  late       \* draining took longer than the ten seconds it is given

vars == <<main, loop, handler, owner, sharers, stopped, open, late>>

TypeOK ==
  /\ main \in {"serve", "drain", "stop", "wait", "lock", "close", "return", "gone"}
  /\ loop \in {"select", "lock", "save", "exited"}
  /\ handler \in [Handlers -> {"away", "lock", "inside"}]
  /\ owner \in Writers \cup {Nobody, "main", "loop"}
  /\ sharers \in SUBSET Readers
  /\ stopped \in BOOLEAN /\ open \in BOOLEAN /\ late \in BOOLEAN

Init ==
  /\ main = "serve" /\ loop = (IF Timer THEN "select" ELSE "exited")
  /\ handler = [h \in Handlers |-> "away"]
  /\ owner = Nobody /\ sharers = {}
  /\ stopped = FALSE /\ open = TRUE /\ late = FALSE

Running == main # "gone"
Free == owner = Nobody /\ sharers = {}

-----------------------------------------------------------------------------
(* Handlers. A handler whose call finds the engine closed panics; its       *)
(* deferred Unlock runs all the same.                                       *)

\* The listener accepts until Shutdown is called.
Arrive(h) ==
  /\ main = "serve" /\ handler[h] = "away"
  /\ handler' = [handler EXCEPT ![h] = "lock"]
  /\ UNCHANGED <<main, loop, owner, sharers, stopped, open, late>>

Enter(h) ==
  /\ Running /\ handler[h] = "lock"
  /\ IF h \in Writers
       THEN Free /\ owner' = h /\ UNCHANGED sharers
       ELSE owner = Nobody /\ sharers' = sharers \cup {h} /\ UNCHANGED owner
  /\ handler' = [handler EXCEPT ![h] = "inside"]
  /\ UNCHANGED <<main, loop, stopped, open, late>>

Leave(h) ==
  /\ Running /\ handler[h] = "inside"
  /\ owner' = IF owner = h THEN Nobody ELSE owner
  /\ sharers' = sharers \ {h}
  /\ handler' = [handler EXCEPT ![h] = "away"]
  /\ UNCHANGED <<main, loop, stopped, open, late>>

-----------------------------------------------------------------------------
(* The snapshot goroutine. A select with both channels ready may take       *)
(* either.                                                                  *)

Tick ==
  /\ Running /\ loop = "select"
  /\ loop' = "lock"
  /\ UNCHANGED <<main, handler, owner, sharers, stopped, open, late>>

LoopLocks ==
  /\ Running /\ loop = "lock" /\ Free
  /\ owner' = "loop" /\ loop' = "save"
  /\ UNCHANGED <<main, handler, sharers, stopped, open, late>>

LoopSaves ==
  /\ Running /\ loop = "save"
  /\ owner' = Nobody /\ loop' = "select"
  /\ UNCHANGED <<main, handler, sharers, stopped, open, late>>

LoopStops ==
  /\ Running /\ loop = "select" /\ stopped
  /\ loop' = "exited"
  /\ UNCHANGED <<main, handler, owner, sharers, stopped, open, late>>

-----------------------------------------------------------------------------
(* The main goroutine: a signal, srv.Shutdown, store.Close, exit.           *)

Signal ==
  /\ main = "serve"
  /\ main' = "drain"
  /\ UNCHANGED <<loop, handler, owner, sharers, stopped, open, late>>

\* Variant: handlers that still wait for the lock are not waited for.
DrainedEarly ==
  /\ main = "drain" /\ \A h \in Handlers : handler[h] # "inside"
  /\ main' = "stop"
  /\ UNCHANGED <<loop, handler, owner, sharers, stopped, open, late>>

Drained ==
  /\ main = "drain" /\ \A h \in Handlers : handler[h] = "away"
  /\ main' = "stop"
  /\ UNCHANGED <<loop, handler, owner, sharers, stopped, open, late>>

DrainTimesOut ==
  /\ main = "drain"
  /\ main' = "stop" /\ late' = TRUE
  /\ UNCHANGED <<loop, handler, owner, sharers, stopped, open>>

\* Variant: the channel is not closed.
StopLoopUnsignalled ==
  /\ main = "stop"
  /\ main' = IF Timer THEN "wait" ELSE "lock"
  /\ UNCHANGED <<loop, handler, owner, sharers, stopped, open, late>>

StopLoop ==
  /\ main = "stop"
  /\ IF Timer THEN stopped' = TRUE /\ main' = "wait"
              ELSE UNCHANGED stopped /\ main' = "lock"
  /\ UNCHANGED <<loop, handler, owner, sharers, open, late>>

\* Variant: nobody waits for the goroutine.
WaitedNot ==
  /\ main = "wait"
  /\ main' = "lock"
  /\ UNCHANGED <<loop, handler, owner, sharers, stopped, open, late>>

Waited ==
  /\ main = "wait" /\ loop = "exited"
  /\ main' = "lock"
  /\ UNCHANGED <<loop, handler, owner, sharers, stopped, open, late>>

MainLocks ==
  /\ main = "lock" /\ Free
  /\ owner' = "main" /\ main' = "close"
  /\ UNCHANGED <<loop, handler, sharers, stopped, open, late>>

\* saveSnapshots and Engine.Close, then the deferred Unlock.
CloseEngine ==
  /\ main = "close"
  /\ open' = FALSE /\ owner' = Nobody
  /\ main' = "return"
  /\ UNCHANGED <<loop, handler, sharers, stopped, late>>

Exit ==
  /\ main = "return"
  /\ main' = "gone"
  /\ UNCHANGED <<loop, handler, owner, sharers, stopped, open, late>>

-----------------------------------------------------------------------------
MainStep ==
  \/ Drained \/ DrainTimesOut \/ StopLoop \/ Waited \/ CloseEngine \/ Exit

Next ==
  \/ \E h \in Handlers : Arrive(h) \/ Enter(h) \/ Leave(h)
  \/ Tick \/ LoopLocks \/ LoopSaves \/ LoopStops
  \/ Signal \/ MainLocks \/ MainStep

Spec == Init /\ [][Next]_vars

-----------------------------------------------------------------------------
(* Properties. *)

\* The snapshot goroutine never saves after the engine was closed, and never
\* while anybody else is inside the store.
SavesBeforeClose ==
  loop = "save" => open /\ \A h \in Handlers : handler[h] # "inside"

\* Unless draining timed out, no handler ever runs on a closed engine.
ServedOpen == ~late => \A h \in Handlers : handler[h] # "away" => open

\* After a signal the process ends: Close waits for the snapshot goroutine and
\* for s.mu, and gets both.
Terminates == main = "drain" ~> main = "gone"
=============================================================================
