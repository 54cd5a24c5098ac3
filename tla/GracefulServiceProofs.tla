------------------------- MODULE GracefulServiceProofs -------------------------
(****************************************************************************)
(* What a client may conclude from GracefulService, and so, by               *)
(* BeaconProxyProofs!Refinement, from the process: who is cut off, and that a *)
(* sealed door lets nobody in.                                               *)
(****************************************************************************)
EXTENDS GracefulService, TLAPS

GraceIsLate == grace => door = "sealed"

\* A client is cut off only by a service that died, and only when the grace
\* had run out or the door was never sealed.
CutOnlyLate ==
    \A c \in Clients : client[c] = "cut" => ~alive /\ (grace \/ door # "sealed")

\* Nobody is inside a service that is dead.
DeadIsEmpty == ~alive => \A c \in Clients : client[c] \in {"out", "cut"}

ServiceInv == TypeOK /\ GraceIsLate /\ CutOnlyLate /\ DeadIsEmpty

\* A sealed door stays sealed, and who is outside stays outside.
SealedForGood ==
    [][door = "sealed" =>
         /\ door' = "sealed"
         /\ \A c \in Clients : client[c] = "out" => client'[c] = "out"]_vars

-------------------------------------------------------------------------------
LEMMA ServiceStep ==
    ASSUME ServiceInv, [Next]_vars PROVE ServiceInv'
<1> USE DEF ServiceInv, TypeOK, GraceIsLate, CutOnlyLate, DeadIsEmpty
<1>1. CASE Swing
  BY <1>1 DEF Swing
<1>2. ASSUME NEW c \in Clients, Enter(c) PROVE ServiceInv'
  BY <1>2 DEF Enter
<1>3. ASSUME NEW c \in Clients, Begin(c) PROVE ServiceInv'
  BY <1>3 DEF Begin
<1>4. ASSUME NEW c \in Clients, Finish(c) PROVE ServiceInv'
  BY <1>4 DEF Finish
<1>5. CASE Leave
  BY <1>5 DEF Leave
<1>6. CASE Expire
  BY <1>6 DEF Expire
<1>7. CASE Die
  BY <1>7 DEF Die
<1>8. CASE UNCHANGED vars
  BY <1>8 DEF vars
<1> QED
  BY <1>1, <1>2, <1>3, <1>4, <1>5, <1>6, <1>7, <1>8 DEF Next

LEMMA SealedStep ==
    ASSUME ServiceInv, [Next]_vars, door = "sealed", NEW d \in Clients, client[d] = "out"
    PROVE  client'[d] = "out"
<1> USE DEF ServiceInv, TypeOK
<1>1. CASE Swing
  BY <1>1 DEF Swing
<1>2. ASSUME NEW c \in Clients, Begin(c) \/ Finish(c) PROVE client'[d] = "out"
  BY <1>2 DEF Begin, Finish
<1>3. CASE Leave
  BY <1>3 DEF Leave
<1>4. CASE Expire
  BY <1>4 DEF Expire
<1>5. CASE Die
  BY <1>5 DEF Die
<1>6. CASE UNCHANGED vars
  BY <1>6 DEF vars
<1> QED
  BY <1>1, <1>2, <1>3, <1>4, <1>5, <1>6 DEF Next, Enter

\* A sealed service that dies has either given its clients the period of grace
\* or has none left; and it takes no new ones while it waits.
THEOREM GraceIsKept == Spec => []CutOnlyLate /\ SealedForGood
<1>1. Init => ServiceInv
  BY DEF Init, ServiceInv, TypeOK, GraceIsLate, CutOnlyLate, DeadIsEmpty
<1>2. ServiceInv /\ [Next]_vars => ServiceInv'
  BY ServiceStep
<1>3. ServiceInv /\ [Next]_vars /\ door = "sealed" => door' = "sealed"
  BY DEF Next, vars, Swing, Enter, Begin, Finish, Leave, Expire, Die
<1>4. ServiceInv /\ [Next]_vars =>
        [door = "sealed" =>
           /\ door' = "sealed"
           /\ \A c \in Clients : client[c] = "out" => client'[c] = "out"]_vars
  BY <1>3, SealedStep
<1>5. ServiceInv => CutOnlyLate
  BY DEF ServiceInv
<1> QED
  BY <1>1, <1>2, <1>4, <1>5, PTL DEF Spec, SealedForGood
===============================================================================
