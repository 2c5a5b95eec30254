----------------------------- MODULE DurableMap -----------------------------
(***************************************************************************)
(* What the storage engine of src/internal/storage promises its callers,   *)
(* with no log, table or file in sight.                                    *)
(*                                                                         *)
(*   kv[k]        the value that reads of k return;                        *)
(*   outcomes[k]  the values that reads of k may return after a restart: a *)
(*                write that is under way, or that failed half way, may be *)
(*                found by the next start or not;                          *)
(*   open         whether it runs; while it is down, kv is what the next   *)
(*                start will answer.                                       *)
(*                                                                         *)
(* The promise is in the guard of Write: while the map is open, a value    *)
(* becomes readable only when every restart would find it. Nothing is      *)
(* promised across keys.                                                   *)
(***************************************************************************)
CONSTANTS Keys,    \* the keys callers use
          Values,  \* the values they store
          None     \* the answer to a read of a key that holds no value

VARIABLES kv, outcomes, open

vars == <<kv, outcomes, open>>

Answers == Values \cup {None}

TypeOK ==
  /\ kv \in [Keys -> Answers]
  /\ outcomes \in [Keys -> (SUBSET Answers) \ {{}}]
  /\ open \in BOOLEAN

Init ==
  /\ kv = [k \in Keys |-> None]
  /\ outcomes = [k \in Keys |-> {None}]
  /\ open \in BOOLEAN

\* A request to store v under k (None: to delete k) reached the disk, wholly
\* or in part: a restart may find it, reads do not see it yet.
Attempt(k, v) ==
  /\ open
  /\ UNCHANGED <<open, kv>>
  /\ \E S \in (SUBSET (outcomes[k] \cup {v})) \ {{}} :
       outcomes' = [outcomes EXCEPT ![k] = S]

\* The request takes effect, once every restart would find it.
Write(k, v) ==
  /\ open
  /\ outcomes[k] = {v}
  /\ kv' = [kv EXCEPT ![k] = v]
  /\ UNCHANGED <<outcomes, open>>

\* The store rules some outcomes out, or makes what reads see an outcome.
Settle ==
  /\ UNCHANGED <<open, kv>>
  /\ outcomes' \in [Keys -> (SUBSET Answers) \ {{}}]
  /\ \A k \in Keys : outcomes'[k] \subseteq outcomes[k] \cup {kv[k]}

\* A stop, clean or not: the next start answers one of the outcomes. The machine
\* may lose power after the process has stopped, too.
Stop ==
  /\ open' = FALSE
  /\ kv' \in [Keys -> Answers]
  /\ outcomes' \in [Keys -> (SUBSET Answers) \ {{}}]
  /\ \A k \in Keys : kv'[k] \in outcomes[k] /\ outcomes'[k] \subseteq outcomes[k]

Start ==
  /\ ~open /\ open' = TRUE
  /\ UNCHANGED <<kv, outcomes>>

Next ==
  \/ Settle \/ Stop \/ Start
  \/ \E k \in Keys, v \in Answers : Attempt(k, v) \/ Write(k, v)

Spec == Init /\ [][Next]_vars

\* Every restart would return what a read of k returns now.
Settled(k) == outcomes[k] = {kv[k]}

\* A key on which reads and restarts agree keeps its value, whatever stops and
\* starts happen, until a new request for that very key is attempted: what Put
\* and Delete of src/internal/storage/engine.go acknowledge stays.
SettledUntilAttempted ==
  [][\A k \in Keys :
       Settled(k) =>
         \/ Settled(k)' /\ kv'[k] = kv[k]
         \/ \E v \in Answers : Attempt(k, v)]_vars
=============================================================================
