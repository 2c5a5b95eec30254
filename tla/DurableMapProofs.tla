-------------------------- MODULE DurableMapProofs --------------------------
(* Theorems about DurableMap, for all keys and values. *)
EXTENDS DurableMap, TLAPS

\* The map and its outcomes keep their types.
THEOREM TypeCorrect == Spec => []TypeOK
<1>1. Init => TypeOK
  <2>1. None \in Answers /\ {None} \in (SUBSET Answers) \ {{}}
    BY DEF Answers
  <2> QED BY <2>1 DEF Init, TypeOK
<1>2. TypeOK /\ [Next]_vars => TypeOK'
  <2> SUFFICES ASSUME TypeOK, [Next]_vars PROVE TypeOK'
    OBVIOUS
  <2> USE DEF TypeOK
  <2>1. ASSUME NEW k \in Keys, NEW v \in Answers, Attempt(k, v) PROVE TypeOK'
    <3>1. PICK S \in (SUBSET (outcomes[k] \cup {v})) \ {{}} :
                 outcomes' = [outcomes EXCEPT ![k] = S]
      BY <2>1 DEF Attempt
    <3>2. S \in (SUBSET Answers) \ {{}}
      BY <3>1
    <3> QED BY <2>1, <3>1, <3>2 DEF Attempt
  <2>2. ASSUME NEW k \in Keys, NEW v \in Answers, Write(k, v) PROVE TypeOK'
    BY <2>2 DEF Write
  <2>3. CASE Settle
    BY <2>3 DEF Settle
  <2>4. CASE Stop \/ Start
    BY <2>4 DEF Stop, Start
  <2>5. CASE UNCHANGED vars
    BY <2>5 DEF vars
  <2> QED BY <2>1, <2>2, <2>3, <2>4, <2>5 DEF Next
<1> QED BY <1>1, <1>2, PTL DEF Spec

\* A key on which reads and restarts agree keeps its value until a request for
\* that key is attempted: the meaning of durability.
THEOREM AcknowledgedStays == Spec => SettledUntilAttempted
<1> DEFINE A == \A k \in Keys :
                  Settled(k) => \/ Settled(k)' /\ kv'[k] = kv[k]
                                \/ \E v \in Answers : Attempt(k, v)
<1>1. TypeOK /\ [Next]_vars => [A]_vars
  <2> SUFFICES ASSUME TypeOK, [Next]_vars, NEW k \in Keys, Settled(k),
                      ~\E v \in Answers : Attempt(k, v)
               PROVE  Settled(k)' /\ kv'[k] = kv[k]
    OBVIOUS
  <2> USE DEF Settled, TypeOK
  <2>1. ASSUME NEW l \in Keys, NEW v \in Answers, Attempt(l, v)
        PROVE  Settled(k)' /\ kv'[k] = kv[k]
    <3>1. k # l
      BY <2>1
    <3> QED BY <2>1, <3>1 DEF Attempt
  <2>2. ASSUME NEW l \in Keys, NEW v \in Answers, Write(l, v)
        PROVE  Settled(k)' /\ kv'[k] = kv[k]
    BY <2>2 DEF Write
  <2>3. CASE Settle
    <3>1. outcomes'[k] \subseteq {kv[k]} /\ outcomes'[k] # {} /\ kv' = kv
      <4>1. outcomes' \in [Keys -> (SUBSET Answers) \ {{}}] /\ kv' = kv
            /\ outcomes'[k] \subseteq outcomes[k] \cup {kv[k]}
        BY <2>3 DEF Settle
      <4>2. outcomes[k] \cup {kv[k]} = {kv[k]}
        OBVIOUS
      <4>3. outcomes'[k] # {}
        BY <4>1
      <4> QED BY <4>1, <4>2, <4>3
    <3> QED BY <3>1
  <2>4. CASE Stop \/ Start
    <3>1. outcomes'[k] \subseteq {kv[k]} /\ outcomes'[k] # {} /\ kv'[k] \in {kv[k]}
      <4>1. outcomes' \in [Keys -> (SUBSET Answers) \ {{}}]
            /\ kv'[k] \in outcomes[k] /\ outcomes'[k] \subseteq outcomes[k]
        BY <2>4 DEF Stop, Start
      <4>2. outcomes[k] = {kv[k]}
        OBVIOUS
      <4>3. outcomes'[k] # {}
        BY <4>1
      <4> QED BY <4>1, <4>2, <4>3
    <3> QED BY <3>1
  <2>5. CASE UNCHANGED vars
    BY <2>5 DEF vars
  <2> QED BY <2>1, <2>2, <2>3, <2>4, <2>5 DEF Next
<1> QED BY <1>1, TypeCorrect, PTL DEF Spec, SettledUntilAttempted
=============================================================================
