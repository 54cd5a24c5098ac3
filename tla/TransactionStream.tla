--------------------------- MODULE TransactionStream ---------------------------
(****************************************************************************)
(* What subscribers of the transaction stream are promised, whatever carries *)
(* the transactions from geth's pool to them: the transactions come in the   *)
(* order they entered the pool, each of them once.  One that is lost was cut *)
(* when geth died, or its turn came when the stream had ended.  Nothing is   *)
(* sent on a stream that has ended.                                          *)
(****************************************************************************)
EXTENDS Naturals, Sequences

VARIABLES
    pool,       \* how many transactions have entered the pool
    cut,        \* those that entered when geth died
    waiting,    \* those whose turn has not come
    stream,     \* what subscribers were sent
    ended       \* has the stream ended?

vars == <<pool, cut, waiting, stream, ended>>

Init ==
    /\ pool = 0
    /\ cut = {}
    /\ waiting = {}
    /\ stream = <<>>
    /\ ended = FALSE

Enter ==
    /\ pool' = pool + 1
    /\ waiting' = waiting \cup {pool + 1}
    /\ cut' \in {cut, cut \cup {pool + 1}}
    /\ UNCHANGED <<stream, ended>>

\* It is the turn of the one that has waited longest.
Turn(t) ==
    /\ t \in waiting
    /\ \A u \in waiting : t <= u
    /\ waiting' = waiting \ {t}
    /\ UNCHANGED <<pool, cut, ended>>

Deliver(t) ==
    /\ ~ended
    /\ Turn(t)
    /\ stream' = Append(stream, t)

Lose(t) ==
    /\ ended \/ t \in cut
    /\ Turn(t)
    /\ UNCHANGED stream

End ==
    /\ ended' = TRUE
    /\ UNCHANGED <<pool, cut, waiting, stream>>

Next == Enter \/ End \/ \E t \in waiting : Deliver(t) \/ Lose(t)

Spec == Init /\ [][Next]_vars
===============================================================================
