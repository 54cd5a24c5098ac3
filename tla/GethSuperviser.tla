---------------------------- MODULE GethSuperviser ----------------------------
(****************************************************************************)
(* The fields that the goroutines of node-manager/geth share, and the        *)
(* operations of superviser.go on them: commands over the IPC socket,        *)
(* setEnodeStr, and the reads AddPeer and EnsurePeersByDNS make of the       *)
(* fields without taking infoMutex.                                          *)
(****************************************************************************)
EXTENDS GethNode

CONSTANTS
    Addresses,  \* the addresses this machine may have
    NoAddress,  \* none that other machines can reach
    NoEnode     \* the empty string

\* The enodes the supervised node may have: its key and where it is.  The port is
\* always 30303.  A peer with its key is the node itself, wherever it is.
Own == [key: 0..MaxKeys, ip: Addresses]

ASSUME OwnAssumption ==
    /\ NoAddress \notin Addresses
    /\ NoEnode \notin Peers \cup Own
    /\ Peers \cap Own = {}

VARIABLES
    address,          \* the last address getIPAddress has found
    enodeStr,         \* a string: the enode its pointer and the one its length are of
    connectedPeers,   \* the peers Monitor last stored
    writing,          \* what Monitor is storing, holding infoMutex, and how far
    crashed           \* "no", or how the process died: "torn" | "slice"

shared == <<address, enodeStr, connectedPeers, writing, crashed>>

String(e) == [ptr |-> e, len |-> e]

NoWrite == [field |-> "none", enode |-> NoEnode, list |-> {}, half |-> FALSE]

SharedInit ==
    /\ address \in Addresses
    /\ enodeStr = String(NoEnode)
    /\ connectedPeers = {}
    /\ writing = NoWrite
    /\ crashed = "no"

SharedTypeOK ==
    /\ address \in Addresses
    /\ enodeStr \in [ptr: Own \cup {NoEnode}, len: Own \cup {NoEnode}]
    /\ connectedPeers \subseteq Peers
    /\ writing \in [field: {"none", "enodeStr", "connectedPeers"}, enode: Own \cup {NoEnode},
                    list: SUBSET Peers, half: BOOLEAN]
    /\ crashed \in {"no", "torn", "slice"}

-------------------------------------------------------------------------------
(* sendGethCommand: dial, write the command, read to the end of the reply.    *)
(* There is no deadline: a node that hangs is waited for.                     *)

\* What IsRunning says, and whether the IPC socket takes connections.
Running == node # "down"
Listening == node \in {"up", "hung"}

Dial(g) ==
    /\ link[g] = "closed"
    /\ Listening
    /\ link' = [link EXCEPT ![g] = "open"]

\* A bug: a readString that takes the end of the stream for a full buffer.
ResultsUnlessCut(g) ==
    CASE link[g] = "closed" /\ ~Listening  -> {"error"}
      [] link[g] = "open" /\ node = "up"   -> {"answer"}
      [] OTHER                             -> {}

\* What the command returns, once it returns.
Results(g) ==
    CASE link[g] = "closed" /\ ~Listening  -> {"error"}
      [] link[g] = "broken"                -> {"error", "empty"}
      [] link[g] = "open" /\ node = "up"   -> {"answer"}
      [] OTHER                             -> {}

\* A bug: a connection that is not closed after the reply.
ReturnOpen(g) == UNCHANGED link

Return(g) == link' = [link EXCEPT ![g] = "closed"]

-------------------------------------------------------------------------------
(* Monitor writes under infoMutex, but the readers do not take it: a read may *)
(* fall between the stores that make up one assignment.  A string is two      *)
(* words in memory, and a store of it two stores, in either order.            *)

BeginEnode(e) == writing' = [NoWrite EXCEPT !.field = "enodeStr", !.enode = e]

\* Bugs: a list that starts with an empty string, one that is never emptied.
BeginPeersBlank(l) ==
    writing' = [NoWrite EXCEPT !.field = "connectedPeers", !.list = l \cup {NoEnode}]
BeginPeersKeeping(l) ==
    writing' = [NoWrite EXCEPT !.field = "connectedPeers", !.list = l \cup connectedPeers]

BeginPeers(l) == writing' = [NoWrite EXCEPT !.field = "connectedPeers", !.list = l]

\* The first of the stores.
StoreHalf ==
    /\ writing.field # "none"
    /\ ~writing.half
    /\ writing' = [writing EXCEPT !.half = TRUE]
    /\ IF writing.field = "enodeStr"
       THEN \/ enodeStr' = [enodeStr EXCEPT !.ptr = writing.enode]
            \/ enodeStr' = [enodeStr EXCEPT !.len = writing.enode]
       ELSE UNCHANGED enodeStr
    /\ UNCHANGED connectedPeers

\* The last one.
StoreRest ==
    /\ writing.half
    /\ enodeStr' = IF writing.field = "enodeStr" THEN String(writing.enode) ELSE enodeStr
    /\ connectedPeers' = IF writing.field = "connectedPeers" THEN writing.list ELSE connectedPeers
    /\ writing' = NoWrite

\* len(s.enodeStr) >= 20
LongEnode == enodeStr.len # NoEnode

\* What a ServerID finds that is called now, on some other goroutine: it asks
\* for a string that is not empty, which is to look at its length.  What it then
\* gives are the characters of one enode, as many as another one may have.
ServerID ==
    CASE ~LongEnode                          -> "error"
      [] LongEnode /\ enodeStr.ptr = NoEnode -> "torn"
      [] LongEnode /\ enodeStr.ptr # NoEnode -> "id"

\* Whoever called it may not survive what it makes of the length of another string.
ServeID ==
    /\ LongEnode
    /\ enodeStr.ptr # enodeStr.len
    /\ crashed' = "torn"
    /\ UNCHANGED <<address, enodeStr, connectedPeers, writing>>

\* A slice header read between the stores has the pointer of one list and the
\* length of the other: part of either list, or memory that is neither.
Torn == {"torn"}

PeersRead ==
    IF writing.field = "connectedPeers" /\ writing.half /\ writing.list # connectedPeers
    THEN SUBSET connectedPeers \cup SUBSET writing.list \cup {Torn}
    ELSE {connectedPeers}

\* Bugs: storing what geth gave even when it is empty; storing only the first.
SetsAnyEnodeStr(given, ip) == ip # NoAddress /\ given # enodeStr.ptr
SetsOnce(given, ip) == ip # NoAddress /\ given # NoEnode /\ enodeStr.ptr = NoEnode

\* setEnodeStr, up to the assignment: the enode geth gave, with the address in it
\* replaced by the local one.  Nothing is stored when there is no such address,
\* when geth gave nothing, and when nothing changes.
SetsEnodeStr(given, ip) == ip # NoAddress /\ given # NoEnode /\ given # enodeStr.ptr
===============================================================================
