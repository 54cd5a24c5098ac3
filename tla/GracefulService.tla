--------------------------- MODULE GracefulService ---------------------------
(****************************************************************************)
(* What the beacon proxy promises to its clients about coming up and going   *)
(* away, with nothing said of goroutines, signals or HTTP.                   *)
(*                                                                           *)
(* The door opens and closes until it is sealed for good.  A client that came *)
(* in through the open door may be served any number of times, also after    *)
(* the door is sealed.  Once it is sealed the service waits: it may die only *)
(* when nobody is inside any more or when the period of grace has run out.   *)
(* A service that dies with its door unsealed promised nothing.              *)
(****************************************************************************)
CONSTANT Clients

VARIABLES
    door,     \* "closed" | "open" | "sealed"
    client,   \* what each client is doing
    grace,    \* has the period of grace run out?
    alive

vars == <<door, client, grace, alive>>

Init ==
    /\ door = "closed"
    /\ client = [c \in Clients |-> "out"]
    /\ grace = FALSE
    /\ alive = TRUE

\* Until it is sealed the door may be opened and closed at will.
Swing ==
    /\ alive
    /\ door # "sealed"
    /\ door' \in {"closed", "open", "sealed"}
    /\ UNCHANGED <<client, grace, alive>>

Enter(c) ==
    /\ alive
    /\ door = "open"
    /\ client[c] = "out"
    /\ client' = [client EXCEPT ![c] = "in"]
    /\ UNCHANGED <<door, grace, alive>>

Begin(c) ==
    /\ alive
    /\ client[c] = "in"
    /\ client' = [client EXCEPT ![c] = "served"]
    /\ UNCHANGED <<door, grace, alive>>

\* Service ends; the client stays or is shown out.
Finish(c) ==
    /\ alive
    /\ client[c] = "served"
    /\ \E s \in {"in", "out"} : client' = [client EXCEPT ![c] = s]
    /\ UNCHANGED <<door, grace, alive>>

\* Waiting clients leave, or are shown out together.
Leave ==
    /\ alive
    /\ \E C \in SUBSET {c \in Clients : client[c] = "in"} :
          client' = [c \in Clients |-> IF c \in C THEN "out" ELSE client[c]]
    /\ UNCHANGED <<door, grace, alive>>

Expire ==
    /\ alive
    /\ door = "sealed"
    /\ grace' = TRUE
    /\ UNCHANGED <<door, client, alive>>

\* Whoever is being served when the service dies is cut off.
Die ==
    /\ alive
    /\ door = "sealed" => grace \/ \A c \in Clients : client[c] = "out"
    /\ alive' = FALSE
    /\ client' = [c \in Clients |-> IF client[c] = "served" THEN "cut" ELSE "out"]
    /\ UNCHANGED <<door, grace>>

Next ==
    \/ Swing \/ Leave \/ Expire \/ Die
    \/ \E c \in Clients : Enter(c) \/ Begin(c) \/ Finish(c)

Spec == Init /\ [][Next]_vars

TypeOK ==
    /\ door \in {"closed", "open", "sealed"}
    /\ client \in [Clients -> {"out", "in", "served", "cut"}]
    /\ grace \in BOOLEAN
    /\ alive \in BOOLEAN
===============================================================================
