------------------------------ MODULE OneAttempt ------------------------------
(****************************************************************************)
(* What whoever starts geth may rely on, whichever bootstrapper there is:    *)
(* any number of attempts may work on a data directory, but the one that     *)
(* closes it, by putting CURRENT there, is the last to change it.  Geth only *)
(* starts when no attempt is under way, and from then on the directory is    *)
(* its own.  All of this as long as the directory can be read.               *)
(****************************************************************************)

VARIABLES
    stage,      \* "open", "closing" by the attempt under way, or "closed"
    contents,   \* what attempts put there
    geth,       \* has geth run?
    blind       \* could the directory once not be read?

vars == <<stage, contents, geth, blind>>

Init ==
    /\ stage = "open"
    /\ geth = FALSE
    /\ blind = FALSE

\* An attempt may do anything to an open directory, or to one it is closing.
Work ==
    /\ stage # "closed"
    /\ UNCHANGED <<stage, geth, blind>>

BeginClosing ==
    /\ stage = "open"
    /\ stage' = "closing"
    /\ UNCHANGED <<geth, blind>>

\* The attempt ends, with its last change or without one.
Close ==
    /\ stage = "closing"
    /\ stage' = "closed"
    /\ UNCHANGED <<geth, blind>>

\* Geth closes a directory that no attempt did.
GethStarts ==
    /\ stage # "closing"
    /\ stage' = "closed"
    /\ geth' = TRUE
    /\ UNCHANGED <<contents, blind>>

\* Nothing is promised any more.
Misread == blind' = TRUE

Next == Work \/ BeginClosing \/ Close \/ GethStarts \/ Misread

Spec == Init /\ [][Next]_vars
===============================================================================
