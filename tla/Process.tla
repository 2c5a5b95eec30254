------------------------------- MODULE Process -------------------------------
(***************************************************************************)
(* A serving process as launch.Start wires it: requests reach the handlers *)
(* of Shutdown through the RateLimiter. The limiter runs before            *)
(* auth.Middleware, so a request has no user yet and its key is always     *)
(* its address.                                                            *)
(***************************************************************************)
EXTENDS Shutdown, RateLimiter

CONSTANT Address    \* where the requests come from that a handler gets

ASSUME ProcessAssumption == Address \in [Handlers -> Keys]

VARIABLE refused    \* handlers between Allow and RetryAfter

processVars == <<vars, limiterVars, refused>>

ProcessTypeOK == TypeOK /\ LimiterTypeOK /\ refused \in SUBSET Handlers

ProcessInit == Init /\ LimiterInit /\ refused = {}

\* rateLimitKey, without a user in the context.
Key(h) == Address[h]

Waiting(h) == main = "serve" /\ handler[h] = "away" /\ h \notin refused

Admit(h) ==
  /\ Waiting(h) /\ Take(Key(h)) /\ Arrive(h)
  /\ UNCHANGED refused

Refuse(h) ==
  /\ Waiting(h) /\ Deny(Key(h))
  /\ refused' = refused \cup {h}
  /\ UNCHANGED vars

\* The answer 429 with its Retry-After header.
Answer(h) ==
  /\ Running /\ h \in refused /\ Promise(Key(h))
  /\ refused' = refused \ {h}
  /\ UNCHANGED vars

\* Steps of a process that has let the request through, or has none.
Beyond(A) == A /\ UNCHANGED <<limiterVars, refused>>

\* Draining waits for requests that are being refused, too.
MainGoesOn == Beyond(MainStep) /\ (Drained => refused = {})

\* After the listener is closed nobody asks for the time.
Limit ==
  /\ main = "serve"
  /\ ClockTicks \/ LookFromNow \/ Prune
  /\ UNCHANGED <<vars, refused>>

ProcessNext ==
  \/ \E h \in Handlers :
       Admit(h) \/ Refuse(h) \/ Answer(h) \/ Beyond(Enter(h)) \/ Beyond(Leave(h))
  \/ Beyond(Tick) \/ Beyond(LoopLocks) \/ Beyond(LoopSaves) \/ Beyond(LoopStops)
  \/ Beyond(Signal) \/ Beyond(MainLocks) \/ MainGoesOn
  \/ Limit

\* Goroutines run; a mutex is handed on to whoever waits long enough
\* (sync.RWMutex starves nobody); once the channel is closed the select takes
\* it between two ticks. Nothing forces a request, an answer to a refused one,
\* a tick or a signal.
ProcessSpec ==
  /\ ProcessInit /\ [][ProcessNext]_processVars
  /\ WF_processVars(MainGoesOn) /\ SF_processVars(Beyond(MainLocks))
  /\ \A h \in Handlers : SF_processVars(Beyond(Enter(h))) /\ WF_processVars(Beyond(Leave(h)))
  /\ SF_processVars(Beyond(LoopLocks)) /\ WF_processVars(Beyond(LoopSaves))
  /\ SF_processVars(Beyond(LoopStops))
=============================================================================
