------------------------------- MODULE DataDir -------------------------------
(****************************************************************************)
(* The data directory of a geth node and the process that prepares it: what  *)
(* both bootstrappers of node-manager/geth/bootstrap.go share.               *)
(*                                                                           *)
(* Whoever calls Bootstrap is not in this repository.  It is taken to do so  *)
(* whenever its process starts, to start geth when that returns nil and to   *)
(* stop when it returns an error, and to be started again.  The process and  *)
(* its children may be killed at any point; what they wrote stays.           *)
(****************************************************************************)
EXTENDS Naturals

CONSTANT MaxFaults      \* bound: crashes, failed transfers, writes and reads

ASSUME FaultsAssumption == MaxFaults \in Nat

VARIABLES
    kind,       \* "genesis" | "noURL" | "tarball": the bootstrapper configured
    pc,         \* where the process is: "down", in Bootstrap, "nil" or "error"
    marker,     \* is a file named CURRENT anywhere in the directory?
    live,       \* has geth run on the directory?
    misread,    \* did a call fail to read the directory?
    faults      \* faults so far

processVars == <<kind, pc, marker, live, misread, faults>>

DataDirInit ==
    /\ kind \in {"genesis", "noURL", "tarball"}
    /\ pc = "down"
    /\ marker = FALSE
    /\ live = FALSE
    /\ misread = FALSE
    /\ faults = 0

Fault ==
    /\ faults < MaxFaults
    /\ faults' = faults + 1

\* A step of the process from p to q, that succeeds or that fails.
Goes(p, q) == pc = p /\ pc' = q /\ UNCHANGED <<kind, live, misread, faults>>
Fails(p, q) == pc = p /\ pc' = q /\ Fault /\ UNCHANGED <<kind, live, misread>>

Call == Goes("down", "check") /\ UNCHANGED marker

Killed ==
    /\ pc # "down"
    /\ pc' = "down"
    /\ Fault
    /\ UNCHANGED <<kind, marker, live, misread>>

Stops == Goes("error", "down") /\ UNCHANGED marker

\* Geth opens its database, or makes one, and from then on it is the one who
\* writes there.
GethRuns ==
    /\ pc = "nil"
    /\ ~live
    /\ live' = TRUE
    /\ marker' = TRUE
    /\ UNCHANGED <<kind, pc, misread, faults>>

\* A bug: not looking for CURRENT.
CheckNothing(next) ==
    /\ Goes("check", IF kind = "noURL" THEN "nil" ELSE next)
    /\ UNCHANGED marker

\* isBootstrapped: the walk ends at the first CURRENT, and at the first error,
\* which is only logged: the answer is no.  Without a genesis URL nobody asks.
Check(next) ==
    \/ /\ Goes("check", IF marker \/ kind = "noURL" THEN "nil" ELSE next)
       /\ UNCHANGED marker
    \/ /\ kind # "noURL"
       /\ pc = "check"
       /\ pc' = next
       /\ misread' = TRUE
       /\ Fault
       /\ UNCHANGED <<kind, marker, live>>

Life == Call \/ Killed \/ Stops \/ GethRuns
===============================================================================
