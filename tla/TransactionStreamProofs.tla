------------------------ MODULE TransactionStreamProofs ------------------------
(****************************************************************************)
(* What a subscriber may conclude from TransactionStream, and so, by         *)
(* LogPluginsProofs!Refinement, from the plugin: the order of the stream and  *)
(* what it may lack.                                                         *)
(****************************************************************************)
EXTENDS TransactionStream, TLAPS

Places == 1 .. Len(stream)

Types ==
    /\ pool \in Nat
    /\ ended \in BOOLEAN
    /\ stream \in Seq(Nat)
    /\ waiting \subseteq 1..pool

\* What was sent entered the pool, and each before the next.
Increasing ==
    /\ \A i \in Places : stream[i] \in 1..pool
    /\ \A i, j \in Places : i < j => stream[i] < stream[j]

\* What waits entered after all that was sent.
WaitingIsNewer == \A i \in Places : \A t \in waiting : stream[i] < t

\* What is not there waits, was cut, or came up when the stream had ended.
Complete ==
    \A t \in 1..pool : t \in waiting \/ t \in cut \/ ended \/ \E i \in Places : stream[i] = t

StreamInv == Types /\ Increasing /\ WaitingIsNewer /\ Complete

-------------------------------------------------------------------------------
LEMMA EnterStep ==
    ASSUME StreamInv, Enter PROVE StreamInv'
<1> USE DEF StreamInv, Enter, Places
<1>1. Types'
  BY DEF Types
<1>2. Increasing'
  BY DEF Types, Increasing
<1>3. WaitingIsNewer'
  BY DEF Types, Increasing, WaitingIsNewer
<1>4. Complete'
  <2> SUFFICES ASSUME NEW t \in 1..pool', t \notin waiting', t \notin cut', ~ended'
               PROVE  \E i \in Places' : stream'[i] = t
    BY DEF Complete
  <2>1. t \in 1..pool /\ t \notin waiting /\ t \notin cut /\ ~ended
    BY DEF Types
  <2> QED
    BY <2>1 DEF Complete
<1> QED
  BY <1>1, <1>2, <1>3, <1>4

LEMMA DeliverStep ==
    ASSUME StreamInv, NEW t \in waiting, Deliver(t) PROVE StreamInv'
<1> USE DEF StreamInv, Deliver, Turn
<1> DEFINE n == Len(stream)
<1>1. t \in 1..pool /\ t \in Nat /\ n \in Nat
  BY DEF Types
<1>2. /\ Places = 1..n /\ Places' = 1..(n + 1)
      /\ stream'[n + 1] = t
      /\ \A i \in 1..n : stream'[i] = stream[i]
  BY <1>1 DEF Types, Places
<1>3. Types'
  BY <1>1 DEF Types
<1>4. \A i \in 1..n : stream[i] < t
  BY <1>2 DEF WaitingIsNewer
<1>5. Increasing'
  <2>1. \A i \in 1..(n + 1) : stream'[i] \in 1..pool
    BY <1>1, <1>2 DEF Increasing
  <2>2. ASSUME NEW i \in 1..(n + 1), NEW j \in 1..(n + 1), i < j
        PROVE  stream'[i] < stream'[j]
    <3>1. i \in 1..n /\ stream'[i] = stream[i]
      BY <1>1, <1>2, <2>2
    <3>2. CASE j = n + 1
      BY <1>2, <1>4, <3>1, <3>2
    <3>3. CASE j \in 1..n
      BY <1>2, <2>2, <3>1, <3>3 DEF Increasing
    <3> QED
      BY <1>1, <3>2, <3>3
  <2> QED
    BY <1>2, <2>1, <2>2 DEF Increasing
<1>6. WaitingIsNewer'
  <2> SUFFICES ASSUME NEW i \in 1..(n + 1), NEW u \in waiting' PROVE stream'[i] < u
    BY <1>2 DEF WaitingIsNewer
  <2>1. u \in waiting /\ u # t /\ u \in Nat /\ t <= u
    BY DEF Types
  <2>2. CASE i = n + 1
    BY <1>1, <1>2, <2>1, <2>2
  <2>3. CASE i \in 1..n
    BY <1>2, <2>1, <2>3 DEF WaitingIsNewer
  <2> QED
    BY <1>1, <2>2, <2>3
<1>7. Complete'
  <2> SUFFICES ASSUME NEW u \in 1..pool, u \notin waiting', u \notin cut, ~ended
               PROVE  \E i \in 1..(n + 1) : stream'[i] = u
    BY <1>2 DEF Complete
  <2>1. CASE u = t
    BY <1>1, <1>2, <2>1
  <2>2. CASE u # t
    <3>1. PICK i \in 1..n : stream[i] = u
      BY <1>2, <2>2 DEF Complete
    <3> QED
      BY <1>1, <1>2, <3>1
  <2> QED
    BY <2>1, <2>2
<1> QED
  BY <1>3, <1>5, <1>6, <1>7

\* From the start and in every step: a subscriber gets the transactions in the
\* order they entered the pool, none twice, and lacks only those geth cut and
\* those that came up after the end.
THEOREM StreamOfPool == Spec => [](Increasing /\ Complete)
<1>1. Init => StreamInv
  <2> SUFFICES ASSUME Init PROVE StreamInv
    OBVIOUS
  <2>1. Places = {} /\ 1..pool = {}
    BY DEF Init, Places
  <2>2. Types
    <3>1. stream \in Seq(Nat)
      BY DEF Init
    <3> QED
      BY <3>1 DEF Init, Types
  <2>3. Increasing /\ WaitingIsNewer /\ Complete
    BY <2>1 DEF Increasing, WaitingIsNewer, Complete
  <2> QED
    BY <2>2, <2>3 DEF StreamInv
<1>2. StreamInv /\ [Next]_vars => StreamInv'
  <2> SUFFICES ASSUME StreamInv, [Next]_vars PROVE StreamInv'
    OBVIOUS
  <2>1. CASE Enter
    BY <2>1, EnterStep
  <2>2. CASE End
    BY <2>2 DEF End, StreamInv, Types, Increasing, WaitingIsNewer, Complete, Places
  <2>3. ASSUME NEW t \in waiting, Deliver(t) PROVE StreamInv'
    BY <2>3, DeliverStep
  <2>4. ASSUME NEW t \in waiting, Lose(t) PROVE StreamInv'
    <3>1. Types' /\ Increasing' /\ WaitingIsNewer'
      BY <2>4 DEF Lose, Turn, StreamInv, Types, Increasing, WaitingIsNewer, Places
    <3>2. Complete'
      BY <2>4 DEF Lose, Turn, StreamInv, Complete, Places
    <3> QED
      BY <3>1, <3>2 DEF StreamInv
  <2>5. CASE UNCHANGED vars
    BY <2>5 DEF vars, StreamInv, Types, Increasing, WaitingIsNewer, Complete, Places
  <2> QED
    BY <2>1, <2>2, <2>3, <2>4, <2>5 DEF Next
<1>3. StreamInv => Increasing /\ Complete
  BY DEF StreamInv
<1> QED
  BY <1>1, <1>2, <1>3, PTL DEF Spec
===============================================================================
