--------------------------- MODULE TarballBootstrap ---------------------------
(****************************************************************************)
(* TarballBootstrapper: extract an archive of a database into the data       *)
(* directory, entry by entry.  One of the entries is CURRENT, the file that  *)
(* isBootstrapped looks for.  Directory entries are left out: making one     *)
(* twice changes nothing, and to fail to is to fail to create what is in it. *)
(****************************************************************************)
EXTENDS DataDir

CONSTANTS
    Entries,    \* number of files in the archive
    Current     \* the place of CURRENT among them

ASSUME EntriesAssumption == Entries \in Nat /\ Current \in 1..Entries

VARIABLES
    file,       \* file[i]: what is on disk of the i-th: "absent" | "partial" | "complete"
    entry       \* the entry the reader is at

tarballVars == <<file, entry>>

TarballInit ==
    /\ file = [i \in 1..Entries |-> "absent"]
    /\ entry = 1

TarballChecks ==
    /\ kind = "tarball"
    /\ Check("open")
    /\ UNCHANGED tarballVars

\* OpenObject is the one step whose error Bootstrap returns.
Open ==
    /\ \/ Goes("open", "next")
       \/ Fails("open", "error")
    /\ entry' = 1
    /\ UNCHANGED <<marker, file>>

\* A bug: taking the end of the archive for an entry like any other.
NextForever ==
    /\ IF entry > Entries
       THEN Goes("next", "next") /\ entry' = 1
       ELSE Goes("next", "create") /\ UNCHANGED entry
    /\ UNCHANGED <<marker, file>>

\* A bug: not noticing the end of the archive at all.
NextPastEnd ==
    /\ Goes("next", "create")
    /\ UNCHANGED <<marker, tarballVars>>

\* tr.Next: the end of the archive, the next entry, or an error, which like
\* every error of createChainData is dropped.
NextEntry ==
    /\ \/ Goes("next", IF entry > Entries THEN "nil" ELSE "create")
       \/ Fails("next", "nil")
    /\ UNCHANGED <<marker, tarballVars>>

\* A bug: leaving files alone that an earlier attempt created.
CreateMissing ==
    /\ pc = "create"
    /\ IF file[entry] = "absent"
       THEN Goes("create", "copy") /\ file' = [file EXCEPT ![entry] = "partial"] /\ UNCHANGED entry
       ELSE Goes("create", "next") /\ entry' = entry + 1 /\ UNCHANGED file
    /\ marker' = (marker \/ entry = Current)

\* os.Create truncates what is there.
CreateFile ==
    /\ \/ /\ Goes("create", "copy")
          /\ file' = [file EXCEPT ![entry] = "partial"]
          /\ marker' = (marker \/ entry = Current)
       \/ /\ Fails("create", "nil")
          /\ UNCHANGED <<marker, file>>
    /\ UNCHANGED entry

CopyFile ==
    /\ \/ /\ Goes("copy", "next")
          /\ file' = [file EXCEPT ![entry] = "complete"]
          /\ entry' = entry + 1
       \/ /\ Fails("copy", "nil")
          /\ UNCHANGED tarballVars
    /\ UNCHANGED marker

TarballStep == TarballChecks \/ Open \/ NextEntry \/ CreateFile \/ CopyFile
===============================================================================
