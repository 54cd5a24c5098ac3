------------------------------- MODULE GethNode -------------------------------
(****************************************************************************)
(* The geth process that node-manager supervises, as far as the superviser   *)
(* can see it: whether it runs, what it answers on its IPC socket, which     *)
(* peers it is connected to and which it was told to stay connected to.      *)
(*                                                                           *)
(* This is the environment: it is modelled from how node-manager/geth uses   *)
(* it.  A reply is written at once, so that a command whose node dies first  *)
(* gets an error or an empty reply (readString takes EOF for the end of the  *)
(* reply); only a block with its transactions is large enough to be cut.     *)
(****************************************************************************)
EXTENDS Naturals

CONSTANTS
    Peers,      \* other nodes
    MaxHead,    \* bound: the chain's last block number
    MaxFaults,  \* bound: crashes, hangs, lost connections and failed lookups
    MaxKeys,    \* bound: how often geth comes back with another node key
    MayHang     \* may geth or a peer stop answering without closing?

ASSUME NodeAssumption ==
    /\ MaxHead \in Nat
    /\ MaxFaults \in Nat
    /\ MaxKeys \in Nat
    /\ MayHang \in BOOLEAN

VARIABLES
    node,       \* "down" | "starting" | "up" | "hung"
    link,       \* link[g]: goroutine g's connection to the IPC socket
    key,        \* geth's node key: how many others it has had before
    head,       \* number of the head block
    peers,      \* peers geth is connected to
    static,     \* peers it was told to connect to, until it exits
    faults      \* faults so far

Goroutines == {"monitor", "enforcer"}

NodeInit ==
    /\ node = "down"
    /\ link = [g \in Goroutines |-> "closed"]
    /\ key = 0
    /\ head = 0
    /\ peers = {}
    /\ static = {}
    /\ faults = 0

Fault ==
    /\ faults < MaxFaults
    /\ faults' = faults + 1

Start ==
    /\ node = "down"
    /\ node' = "starting"
    /\ UNCHANGED <<link, key, head, peers, static, faults>>

\* Its IPC socket appears some time after the process.
Ready ==
    /\ node = "starting"
    /\ node' = "up"
    /\ UNCHANGED <<link, key, head, peers, static, faults>>

\* A crash breaks the open connections, forgets the peers and may lose blocks
\* that were not flushed.  If its data directory is replaced before the next
\* start, geth makes itself a new key there; a key that is lost stays lost.
Crash ==
    /\ Fault
    /\ node # "down"
    /\ node' = "down"
    /\ link' = [g \in Goroutines |-> IF link[g] = "open" THEN "broken" ELSE link[g]]
    /\ key' \in {key, key + 1} /\ key' <= MaxKeys
    /\ head' \in 0..head
    /\ peers' = {}
    /\ static' = {}

\* geth stays there but does not answer any more.
Hang ==
    /\ MayHang
    /\ Fault
    /\ node = "up"
    /\ node' = "hung"
    /\ UNCHANGED <<link, key, head, peers, static>>

ImportBlock ==
    /\ node = "up"
    /\ head < MaxHead
    /\ head' = head + 1
    /\ UNCHANGED <<node, link, key, peers, static, faults>>

Connect(p) ==
    /\ node = "up"
    /\ p \notin peers
    /\ peers' = peers \cup {p}
    /\ UNCHANGED <<node, link, key, head, static, faults>>

Disconnect(p) ==
    /\ Fault
    /\ p \in peers
    /\ peers' = peers \ {p}
    /\ UNCHANGED <<node, link, key, head, static>>

NodeStep ==
    \/ Start \/ Ready \/ Crash \/ Hang \/ ImportBlock
    \/ \E p \in Peers : Connect(p) \/ Disconnect(p)

NodeTypeOK ==
    /\ node \in {"down", "starting", "up", "hung"}
    /\ link \in [Goroutines -> {"closed", "open", "broken"}]
    /\ key \in 0..MaxKeys
    /\ head \in 0..MaxHead
    /\ peers \subseteq Peers
    /\ faults \in 0..MaxFaults
===============================================================================
