------------------------------ MODULE Bootstrap ------------------------------
(****************************************************************************)
(* A node's data directory through any number of starts, with whichever      *)
(* bootstrapper is configured.                                               *)
(****************************************************************************)
EXTENDS GenesisBootstrap, TarballBootstrap

vars == <<processVars, genesisVars, tarballVars>>

Init == DataDirInit /\ GenesisInit /\ TarballInit

Bootstrapping ==
    \/ GenesisStep /\ UNCHANGED tarballVars
    \/ TarballStep /\ UNCHANGED genesisVars

Starting == (Call \/ Stops \/ GethRuns) /\ UNCHANGED <<genesisVars, tarballVars>>

Next ==
    \/ Bootstrapping
    \/ Life /\ UNCHANGED <<genesisVars, tarballVars>>
    \/ pc = "nil" /\ live /\ UNCHANGED vars

Spec == Init /\ [][Next]_vars

\* The process is started again after every stop and goes on while it runs.
FairSpec == Spec /\ WF_vars(Bootstrapping) /\ WF_vars(Starting)

-------------------------------------------------------------------------------
(* Properties                                                                 *)

TypeOK ==
    /\ kind \in {"genesis", "noURL", "tarball"}
    /\ pc \in {"down", "check", "nil", "error", "mkdir", "fetch", "write", "fill",
               "init", "commit", "open", "next", "create", "copy"}
    /\ marker \in BOOLEAN
    /\ live \in BOOLEAN
    /\ misread \in BOOLEAN
    /\ faults \in 0..MaxFaults
    /\ genesis \in {"absent", "partial", "complete"}
    /\ chain \in {"none", "opened", "initialised"}
    /\ file \in [1..Entries -> {"absent", "partial", "complete"}]
    /\ entry \in 1..(Entries + 1)

\* CURRENT on disk, extracted from the archive, vouches for every file in
\* front of it in the archive, however many attempts were interrupted and
\* whatever they left behind, as long as the directory could be read.
CurrentVouches ==
    file[Current] # "absent" /\ ~misread =>
        \A i \in 1..Entries : i < Current => file[i] = "complete"

\* Geth never comes up on a directory that a GenesisBootstrapper prepared
\* without "geth init" having been at its database: it would quietly start the
\* chain of its default network.  The other value, "opened", is what an init
\* leaves that was cut short just then; Bootstrap takes it for done.
GethHasGenesis == kind = "genesis" /\ live => chain # "none"

\* Each bootstrapper runs its own steps.
OwnSteps ==
    /\ pc \in {"mkdir", "fetch", "write", "fill", "init", "commit"} => kind = "genesis"
    /\ pc \in {"open", "next", "create", "copy"} => kind = "tarball"

\* How far an extraction is, and that none is under way in a directory that
\* had CURRENT when it began.
Extraction ==
    /\ pc \in {"create", "copy"} => entry \in 1..Entries
    /\ pc = "copy" => file[entry] = "partial"
    /\ pc \in {"next", "create", "copy"} =>
          \A i \in 1..Entries : i < entry => file[i] = "complete"
    /\ ~misread /\ marker =>
          /\ pc # "open"
          /\ pc \in {"next", "create"} => Current < entry
          /\ pc = "copy" => Current <= entry

\* What CURRENT means: somebody has been at the database.
MarkerOrigin ==
    /\ file[Current] # "absent" => marker
    /\ live => marker
    /\ kind = "genesis" /\ (marker \/ pc \in {"commit", "nil"}) => chain # "none"
    /\ live /\ ~misread => pc \in {"down", "check", "nil", "error"}
    /\ marker /\ ~misread => pc \notin {"mkdir", "fetch", "write", "fill", "init"}

\* How genesis.json comes about: only one that is not there is fetched, and
\* nobody has been at the database before it was complete.
GenesisOrigin ==
    /\ genesis # "absent" => kind = "genesis"
    /\ pc \in {"fetch", "write"} => genesis = "absent"
    /\ pc = "fill" => genesis = "partial"
    /\ kind = "genesis" /\ genesis # "complete" => chain = "none"

\* The inductive invariant behind the theorems of BootstrapProofs.
IInv ==
    /\ TypeOK /\ OwnSteps /\ Extraction /\ MarkerOrigin /\ GenesisOrigin
    /\ CurrentVouches

\* Once geth has run on a directory no restart extracts an archive over its
\* chain or initialises it again, as long as the directory could be read.
LiveChainUntouched == [][live /\ ~misread' => UNCHANGED <<file, genesis, chain>>]_vars

\* A genesis file that an interrupted write left half-written is never written
\* again, because Bootstrap only asks whether it is there; and it never gets as
\* far as geth, because "geth init" refuses it, however the process is restarted.
HalfGenesisIsFinal ==
    [][genesis = "partial" /\ pc # "fill" => genesis' = "partial" /\ ~live']_vars

\* The steps between isBootstrapped and the end of Bootstrap.
AtWork == pc \in {"mkdir", "fetch", "write", "fill", "init", "commit",
                  "open", "next", "create", "copy"}

Stage == IF ~marker THEN "open" ELSE IF AtWork THEN "closing" ELSE "closed"

Contract ==
    INSTANCE OneAttempt WITH stage <- Stage, contents <- <<file, genesis, chain>>,
                             geth <- live, blind <- misread

\* Both bootstrappers, through kills and failures at every step, are attempts of
\* which only one closes the directory.
ClosesOnce == Contract!Spec

\* When faults stop geth comes up in the end, whatever crashed before; except
\* when a genesis file was left half-written, which is never fetched again.
GethComesUp == <>live \/ <>[](kind = "genesis" /\ genesis = "partial")

\* createChainData returns an error for every file it could not create or
\* write (bootstrap.go:193 "unable to create file", :198): when it did not get
\* to the end geth is not to be started on what there is.
GethHasWholeArchive ==
    kind = "tarball" /\ live => \A i \in 1..Entries : file[i] = "complete"
===============================================================================
