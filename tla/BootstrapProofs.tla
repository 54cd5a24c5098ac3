---------------------------- MODULE BootstrapProofs ----------------------------
(****************************************************************************)
(* What holds of Bootstrap for archives of any length with CURRENT at any    *)
(* place, and however often the process is killed or something fails.        *)
(*                                                                           *)
(* The argument: an extraction only begins in a directory without CURRENT,   *)
(* it goes through the archive in order, and so CURRENT appears when all     *)
(* that is in front of it is complete; from then on no other one begins.     *)
(* A genesis file is only fetched where there is none, and the database is   *)
(* only opened with a complete one.                                          *)
(****************************************************************************)
EXTENDS Bootstrap, TLAPS

USE FaultsAssumption, EntriesAssumption

\* Counting a fault stays within the bound.
LEMMA FaultTypes == ASSUME TypeOK, faults' = faults \/ Fault PROVE faults' \in 0..MaxFaults
BY DEF TypeOK, Fault

\* The process starting, stopping, being killed, and handing over to geth.
LEMMA LifeStep ==
    ASSUME IInv, Life, UNCHANGED <<genesisVars, tarballVars>>
    PROVE  IInv'
<1>1. /\ UNCHANGED <<kind, misread, genesis, chain, file, entry>>
      /\ \/ pc' \in {"down", "check"} /\ UNCHANGED <<marker, live>>
         \/ pc = "nil" /\ pc' = pc /\ live' /\ marker' /\ live' \in BOOLEAN /\ marker' \in BOOLEAN
      /\ faults' = faults \/ Fault
  BY DEF Life, Call, Killed, Stops, GethRuns, Goes, genesisVars, tarballVars
<1>2. TypeOK'
  BY <1>1, FaultTypes DEF IInv, TypeOK
<1>3. OwnSteps' /\ Extraction'
  BY <1>1 DEF IInv, OwnSteps, Extraction
<1>4. MarkerOrigin' /\ CurrentVouches'
  BY <1>1 DEF IInv, MarkerOrigin, CurrentVouches
<1>5. GenesisOrigin'
  BY <1>1 DEF IInv, GenesisOrigin
<1> QED
  BY <1>2, <1>3, <1>4, <1>5 DEF IInv

\* What isBootstrapped establishes about a bootstrapper that goes on to next.
LEMMA CheckStep ==
    ASSUME IInv, NEW next \in {"mkdir", "open"}, Check(next),
           next = "mkdir" => kind \in {"genesis", "noURL"},
           next = "open" => kind = "tarball",
           UNCHANGED <<genesisVars, tarballVars>>
    PROVE  IInv'
<1>1. /\ UNCHANGED <<kind, marker, live, genesis, chain, file, entry>>
      /\ pc = "check"
      /\ \/ /\ pc' = IF marker \/ kind = "noURL" THEN "nil" ELSE next
            /\ UNCHANGED misread
         \/ pc' = next /\ misread' = TRUE /\ kind # "noURL"
      /\ faults' = faults \/ Fault
  BY DEF Check, Goes, genesisVars, tarballVars
<1>2. TypeOK'
  BY <1>1, FaultTypes DEF IInv, TypeOK
<1>3. OwnSteps' /\ Extraction'
  BY <1>1 DEF IInv, OwnSteps, Extraction, TypeOK
<1>4. MarkerOrigin' /\ CurrentVouches'
  BY <1>1 DEF IInv, MarkerOrigin, CurrentVouches, TypeOK
<1>5. GenesisOrigin'
  BY <1>1 DEF IInv, GenesisOrigin
<1> QED
  BY <1>2, <1>3, <1>4, <1>5 DEF IInv

\* The steps of GenesisBootstrapper only see CURRENT when they made it.
LEMMA GenesisStepInv ==
    ASSUME IInv, GenesisStep, UNCHANGED tarballVars
    PROVE  IInv'
<1>1. CASE GenesisChecks
  BY <1>1, CheckStep DEF GenesisChecks
<1>2. CASE ~GenesisChecks
  <2>1. /\ UNCHANGED <<kind, live, misread, file, entry>>
        /\ pc \in {"mkdir", "fetch", "write", "fill", "init", "commit"}
        /\ pc' \in {"fetch", "write", "fill", "init", "commit", "nil", "error"}
        /\ faults' = faults \/ Fault
    BY <1>2 DEF GenesisStep, Mkdir, Fetch, Create, Fill, InitOpens, OpensDatabase, InitCommits,
                Goes, Fails, genesisVars, tarballVars
  <2>2. /\ genesis' \in {"absent", "partial", "complete"}
        /\ chain' \in {"none", "opened", "initialised"}
        /\ chain # "none" => chain' # "none"
        /\ marker' \in BOOLEAN
        /\ marker => marker'
        /\ marker' = marker \/ pc' = "commit"
        /\ pc' = "commit" => chain' # "none"
        /\ pc' = "nil" => chain' # "none"
        /\ pc = "commit" => pc' \in {"nil", "error"}
    BY <1>2 DEF IInv, TypeOK, GenesisStep, Mkdir, Fetch, Create, Fill, InitOpens, OpensDatabase,
                InitCommits, Goes, Fails, genesisVars, tarballVars
  <2>3. kind = "genesis"
    BY <2>1 DEF IInv, OwnSteps
  <2>4. TypeOK'
    BY <2>1, <2>2, FaultTypes DEF IInv, TypeOK
  <2>5. OwnSteps' /\ Extraction'
    BY <2>1, <2>2, <2>3 DEF OwnSteps, Extraction
  <2>6. MarkerOrigin' /\ CurrentVouches'
    BY <2>1, <2>2 DEF IInv, MarkerOrigin, CurrentVouches
  <2>7. GenesisOrigin'
    BY <1>2, <2>3 DEF IInv, GenesisOrigin, TypeOK, GenesisStep, Mkdir, Fetch, Create, Fill,
         InitOpens, OpensDatabase, InitCommits, MarkerOrigin, Goes, Fails, genesisVars
  <2> QED
    BY <2>4, <2>5, <2>6, <2>7 DEF IInv
<1> QED
  BY <1>1, <1>2

\* The steps of TarballBootstrapper.
LEMMA TarballStepInv ==
    ASSUME IInv, TarballStep, UNCHANGED genesisVars
    PROVE  IInv'
<1>1. CASE TarballChecks
  BY <1>1, CheckStep DEF TarballChecks
<1>2. CASE ~TarballChecks
  <2>1. /\ UNCHANGED <<kind, live, misread, genesis, chain>>
        /\ pc \in {"open", "next", "create", "copy"}
        /\ pc' \in {"next", "create", "copy", "nil", "error"}
        /\ faults' = faults \/ Fault
    BY <1>2 DEF TarballStep, Open, NextEntry, CreateFile, CopyFile, Goes, Fails,
                genesisVars, tarballVars
  <2>2. kind = "tarball" /\ ~(live /\ ~misread)
    BY <2>1 DEF IInv, OwnSteps, MarkerOrigin
  <2>3. OwnSteps'
    BY <2>1, <2>2 DEF OwnSteps
  <2>3a. GenesisOrigin'
    BY <2>1, <2>2 DEF IInv, GenesisOrigin
  <2>4. entry \in 1..(Entries + 1) /\ Entries \in Nat /\ Current \in 1..Entries
    BY DEF IInv, TypeOK
  <2>5. CASE Open \/ NextEntry
    <3>1. TypeOK'
      BY <2>1, <2>5, FaultTypes DEF IInv, TypeOK, Open, NextEntry, Goes, Fails, tarballVars
    <3>2. Extraction'
      BY <2>1, <2>4, <2>5 DEF IInv, Extraction, Open, NextEntry, Goes, Fails, tarballVars
    <3>3. MarkerOrigin' /\ CurrentVouches'
      BY <2>1, <2>2, <2>5 DEF IInv, MarkerOrigin, CurrentVouches, Open, NextEntry, tarballVars
    <3> QED
      BY <2>3, <2>3a, <3>1, <3>2, <3>3 DEF IInv
  <2>6. CASE CreateFile
    <3>1. TypeOK'
      BY <2>1, <2>6, FaultTypes DEF IInv, TypeOK, CreateFile, Goes, Fails
    <3>2. Extraction'
      BY <2>1, <2>4, <2>6 DEF IInv, TypeOK, Extraction, CreateFile, Goes, Fails
    <3>3. MarkerOrigin'
      BY <2>1, <2>2, <2>4, <2>6 DEF IInv, TypeOK, MarkerOrigin, CreateFile, Goes, Fails
    <3>4. CurrentVouches'
      BY <2>1, <2>4, <2>6 DEF IInv, TypeOK, CurrentVouches, Extraction, MarkerOrigin,
                              CreateFile, Goes, Fails
    <3> QED
      BY <2>3, <2>3a, <3>1, <3>2, <3>3, <3>4 DEF IInv
  <2>7. CASE CopyFile
    <3>1. TypeOK'
      BY <2>1, <2>4, <2>7, FaultTypes DEF IInv, TypeOK, Extraction, CopyFile, Goes, Fails, tarballVars
    <3>2. Extraction'
      BY <2>1, <2>4, <2>7 DEF IInv, TypeOK, Extraction, CopyFile, Goes, Fails, tarballVars
    <3>3. MarkerOrigin'
      BY <2>1, <2>2, <2>4, <2>7 DEF IInv, TypeOK, Extraction, MarkerOrigin, CopyFile, Goes,
                                    Fails, tarballVars
    <3>4. CurrentVouches'
      BY <2>1, <2>4, <2>7 DEF IInv, TypeOK, CurrentVouches, Extraction, MarkerOrigin,
                              CopyFile, Goes, Fails, tarballVars
    <3> QED
      BY <2>3, <2>3a, <3>1, <3>2, <3>3, <3>4 DEF IInv
  <2> QED
    BY <1>2, <2>5, <2>6, <2>7 DEF TarballStep
<1> QED
  BY <1>1, <1>2

\* Every step keeps IInv.
LEMMA InvariantStep == ASSUME IInv, [Next]_vars PROVE IInv'
<1>1. CASE UNCHANGED vars
  BY <1>1 DEF vars, processVars, genesisVars, tarballVars, IInv, TypeOK, OwnSteps, Extraction,
              MarkerOrigin, GenesisOrigin, CurrentVouches
<1> QED
  BY <1>1, LifeStep, GenesisStepInv, TarballStepInv DEF Next, Bootstrapping

\* IInv holds in every state of Bootstrap.
THEOREM Invariance == Spec => []IInv
<1>1. Init => IInv
  <2> SUFFICES ASSUME Init PROVE IInv
    OBVIOUS
  <2> USE DEF Init, DataDirInit, GenesisInit, TarballInit
  <2>1. TypeOK
    <3>1. entry \in 1..(Entries + 1) /\ faults \in 0..MaxFaults
      OBVIOUS
    <3>2. file \in [1..Entries -> {"absent", "partial", "complete"}]
      OBVIOUS
    <3> QED
      BY <3>1, <3>2 DEF TypeOK
  <2>2. OwnSteps /\ Extraction /\ MarkerOrigin /\ GenesisOrigin /\ CurrentVouches
    BY DEF OwnSteps, Extraction, MarkerOrigin, GenesisOrigin, CurrentVouches
  <2> QED
    BY <2>1, <2>2 DEF IInv
<1>2. IInv /\ [Next]_vars => IInv'
  BY InvariantStep
<1> QED
  BY <1>1, <1>2, PTL DEF Spec

\* Every variable has its type.
THEOREM TypeCorrectness == Spec => []TypeOK
BY Invariance, PTL DEF IInv

\* CURRENT vouches for all that is in front of it in the archive.
THEOREM Vouching == Spec => []CurrentVouches
BY Invariance, PTL DEF IInv

\* No geth comes up on a database whose genesis nobody has been at.
THEOREM GenesisFirst == Spec => []GethHasGenesis
<1>1. IInv => GethHasGenesis
  BY DEF IInv, MarkerOrigin, GethHasGenesis
<1> QED
  BY <1>1, Invariance, PTL

\* A chain that geth has run on is never bootstrapped over.
THEOREM ChainKept == Spec => LiveChainUntouched
<1>1. IInv /\ [Next]_vars => [live /\ ~misread' => UNCHANGED <<file, genesis, chain>>]_vars
  <2> SUFFICES ASSUME IInv, Next, live, ~misread'
               PROVE  UNCHANGED <<file, genesis, chain>>
    OBVIOUS
  <2>1. ASSUME ~misread PROVE UNCHANGED <<file, genesis, chain>>
    <3>1. pc \in {"down", "check", "nil", "error"}
      BY <2>1 DEF IInv, MarkerOrigin
    <3> QED
      BY <3>1 DEF Next, Bootstrapping, GenesisStep, TarballStep, GenesisChecks, Mkdir, Fetch,
           Create, Fill, InitOpens, OpensDatabase, InitCommits, TarballChecks, Open, NextEntry,
           CreateFile, CopyFile, Goes, Fails, vars, genesisVars, tarballVars
  <2>2. ~misread
    BY DEF IInv, TypeOK, Next, Bootstrapping, Life, Call, Killed, Stops, GethRuns, Check,
           GenesisStep, TarballStep, GenesisChecks, Mkdir, Fetch, Create, Fill, InitOpens,
           OpensDatabase, InitCommits, TarballChecks, Open, NextEntry, CreateFile, CopyFile,
           Goes, Fails, vars, processVars
  <2> QED
    BY <2>1, <2>2
<1> QED
  BY <1>1, Invariance, PTL DEF Spec, LiveChainUntouched

\* Half a genesis file stays, and keeps geth from coming up: no step but the one
\* that fills it writes it, and nothing gets past "geth init" with it.
THEOREM HalfGenesis == Spec => HalfGenesisIsFinal
<1>1. IInv /\ [Next]_vars =>
        [genesis = "partial" /\ pc # "fill" => genesis' = "partial" /\ ~live']_vars
  <2> SUFFICES ASSUME IInv, Next, genesis = "partial", pc # "fill"
               PROVE  genesis' = "partial" /\ ~live'
    OBVIOUS
  <2>1. kind = "genesis" /\ chain = "none" /\ ~live /\ pc \notin {"nil", "write"}
    BY DEF IInv, GenesisOrigin, MarkerOrigin
  <2>2. UNCHANGED <<genesis, live>>
    BY <2>1 DEF Next, Bootstrapping, Life, Call, Killed, Stops, GethRuns, Check,
         GenesisStep, TarballStep, GenesisChecks, Mkdir, Fetch, Create, Fill, InitOpens,
         OpensDatabase, InitCommits, TarballChecks, Open, NextEntry, CreateFile, CopyFile,
         Goes, Fails, vars, genesisVars
  <2> QED
    BY <2>1, <2>2
<1> QED
  BY <1>1, Invariance, PTL DEF Spec, HalfGenesisIsFinal

\* What the steps of Bootstrapping are for the contract: an attempt works, begins
\* to close the directory or closes it, unless the directory was misread.
LEMMA WorkRefines ==
    ASSUME IInv, Bootstrapping, ~misread'
    PROVE  /\ UNCHANGED <<live, misread>>
           /\ Stage # "closed" \/ UNCHANGED <<marker, file, genesis, chain>>
           /\ Stage = "open" => Stage' \in {"open", "closing"} \/ UNCHANGED <<file, genesis, chain>>
           /\ Stage = "open" /\ Stage' = "closed" => FALSE
           /\ Stage = "closing" => Stage' # "open"
           /\ Stage = "closed" => Stage' = "closed"
<1> USE DEF Stage, AtWork
<1>1. CASE GenesisChecks \/ TarballChecks
  <2>1. /\ pc = "check" /\ UNCHANGED <<marker, live, misread, file, genesis, chain>>
        /\ marker => pc' = "nil"
    BY <1>1 DEF Bootstrapping, GenesisStep, TarballStep, GenesisChecks, TarballChecks, Check, Goes,
         genesisVars, tarballVars, Mkdir, Fetch, Create, Fill, InitOpens, OpensDatabase, InitCommits,
         Open, NextEntry, CreateFile, CopyFile, Fails
  <2> QED
    BY <2>1
<1>2. CASE ~(GenesisChecks \/ TarballChecks)
  <2>1. /\ AtWork /\ UNCHANGED <<live, misread>> /\ marker \in BOOLEAN
        /\ marker => marker'
        /\ marker' /\ ~marker => pc' \in {"commit", "copy"}
    BY <1>2 DEF IInv, TypeOK, Bootstrapping, GenesisStep, TarballStep, Mkdir, Fetch, Create, Fill,
         InitOpens, OpensDatabase, InitCommits, Open, NextEntry, CreateFile, CopyFile, Goes, Fails,
         genesisVars, tarballVars
  <2> QED
    BY <2>1
<1> QED
  BY <1>1, <1>2

\* Both bootstrappers keep the contract.
THEOREM Refinement == Spec => ClosesOnce
<1> USE DEF Contract!Init, Contract!Next, Contract!vars, Contract!Work, Contract!BeginClosing,
            Contract!Close, Contract!GethStarts, Contract!Misread
<1>1. Init => Contract!Init
  BY DEF Init, DataDirInit, Stage
<1>2. IInv /\ [Next]_vars => [Contract!Next]_Contract!vars
  <2> SUFFICES ASSUME IInv, [Next]_vars PROVE [Contract!Next]_Contract!vars
    OBVIOUS
  <2>1. CASE UNCHANGED vars \/ (pc = "nil" /\ live /\ UNCHANGED vars)
    BY <2>1 DEF vars, processVars, genesisVars, tarballVars, Stage, AtWork
  <2>2. CASE misread'
    <3>1. misread' = TRUE
      <4>1. misread' \in BOOLEAN
        BY InvariantStep DEF IInv, TypeOK
      <4> QED
        BY <2>2, <4>1
    <3> QED
      BY <3>1
  <2>3. CASE Bootstrapping /\ ~misread'
    BY <2>3, WorkRefines DEF Stage
  <2>4. CASE Life /\ UNCHANGED <<genesisVars, tarballVars>> /\ ~misread'
    <3>1. CASE GethRuns
      BY <2>4, <3>1 DEF GethRuns, genesisVars, tarballVars, Stage, AtWork
    <3>2. CASE Call \/ Killed \/ Stops
      <4>1. /\ UNCHANGED <<marker, live, misread, file, genesis, chain>>
            /\ pc' \in {"down", "check"}
        BY <2>4, <3>2 DEF Call, Killed, Stops, Goes, genesisVars, tarballVars
      <4> QED
        BY <4>1 DEF Stage, AtWork
    <3> QED
      BY <2>4, <3>1, <3>2 DEF Life
  <2> QED
    BY <2>1, <2>2, <2>3, <2>4 DEF Next
<1> QED
  BY <1>1, <1>2, Invariance, PTL DEF Spec, ClosesOnce, Contract!Spec
===============================================================================
