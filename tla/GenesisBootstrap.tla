--------------------------- MODULE GenesisBootstrap ---------------------------
(****************************************************************************)
(* GenesisBootstrapper: fetch genesis.json unless it is there, then have     *)
(* "geth init" make the database from it.                                    *)
(****************************************************************************)
EXTENDS DataDir

VARIABLES
    genesis,    \* genesis.json: "absent" | "partial" | "complete"
    chain       \* the database: "none" | "opened" | "initialised"

genesisVars == <<genesis, chain>>

GenesisInit ==
    /\ genesis = "absent"
    /\ chain = "none"

GenesisChecks ==
    /\ kind \in {"genesis", "noURL"}
    /\ Check("mkdir")
    /\ UNCHANGED genesisVars

\* MkdirAll, then the fetch unless there is a file of that name, whatever is in it.
Mkdir ==
    /\ kind = "genesis"
    /\ \/ Goes("mkdir", IF genesis = "absent" THEN "fetch" ELSE "init")
       \/ Fails("mkdir", "error")
    /\ UNCHANGED <<marker, genesisVars>>

\* downloadDstoreObject reads all of the object before it writes any of it.
Fetch ==
    /\ Goes("fetch", "write") \/ Fails("fetch", "error")
    /\ UNCHANGED <<marker, genesisVars>>

\* ioutil.WriteFile: the file is there, short, before it is written, and stays
\* so when writing fails.
Create ==
    /\ Goes("write", "fill") /\ genesis' = "partial"
    /\ UNCHANGED <<marker, chain>>

Fill ==
    /\ \/ Goes("fill", "init") /\ genesis' = "complete"
       \/ Fails("fill", "error") /\ UNCHANGED genesis
    /\ UNCHANGED <<marker, chain>>

\* "geth init" opens the database, of which CURRENT is one of the first files.
OpensDatabase ==
    /\ genesis = "complete"
    /\ Goes("init", "commit")
    /\ marker' = TRUE
    /\ chain' = IF chain = "none" THEN "opened" ELSE chain
    /\ UNCHANGED genesis

\* A bug: an init command whose failure is only logged.
InitOpensOrLogs ==
    \/ OpensDatabase
    \/ genesis # "complete" /\ Goes("init", "nil") /\ UNCHANGED <<marker, genesisVars>>

\* It reads genesis.json first, and refuses a part of it.
InitOpens ==
    \/ OpensDatabase
    \/ genesis # "complete" /\ Goes("init", "error") /\ UNCHANGED <<marker, genesisVars>>
    \/ Fails("init", "error") /\ UNCHANGED <<marker, genesisVars>>

\* It writes the genesis block, unless the database has one.
InitCommits ==
    /\ \/ Goes("commit", "nil") /\ chain' = "initialised"
       \/ Fails("commit", "error") /\ UNCHANGED chain
    /\ UNCHANGED <<marker, genesis>>

GenesisStep ==
    GenesisChecks \/ Mkdir \/ Fetch \/ Create \/ Fill \/ InitOpens \/ InitCommits
===============================================================================
