------------------------------ MODULE Monitoring ------------------------------
(****************************************************************************)
(* The Monitor goroutine of node-manager/geth/monitoring.go: every two       *)
(* seconds it asks geth for its enode, its peers and its head block, one     *)
(* command after the other, while geth may die or restart in between.        *)
(****************************************************************************)
EXTENDS GethSuperviser

CONSTANT ReportsHead    \* is there a headBlockUpdateFunc?

ASSUME ReportsHeadAssumption == ReportsHead \in BOOLEAN

VARIABLES
    monitor,    \* where the loop is: a command, a write, or "sleep"
    warm,       \* has the first minute passed?
    lastBlock,  \* the block number geth gave in this round
    report      \* the last call of headBlockUpdateFunc

monitorVars == <<monitor, warm, lastBlock, report>>

NoReport == [num |-> 0, id |-> "none", time |-> "none"]

MonitorInit ==
    /\ monitor = "sleep"
    /\ warm = FALSE
    /\ lastBlock = 0
    /\ report = NoReport

Commands == {"nodeInfo", "peers", "blockNumber", "getBlock"}

MonitorTypeOK ==
    /\ monitor \in Commands \cup {"sleep", "storeEnode", "storePeers"}
    /\ warm \in BOOLEAN
    /\ lastBlock \in 0..MaxHead
    /\ report \in [num: 0..MaxHead, id: {"none", "block"}, time: {"none", "epoch", "block"}]

unseen == <<node, key, head, peers, static, faults, crashed, address>>

MinutePasses ==
    /\ ~warm
    /\ warm' = TRUE
    /\ UNCHANGED <<unseen, link, enodeStr, connectedPeers, writing, monitor, lastBlock, report>>

\* A round only starts when the node runs.
MonitorWakes ==
    /\ monitor = "sleep"
    /\ Running
    /\ monitor' = "nodeInfo"
    /\ UNCHANGED <<unseen, link, enodeStr, connectedPeers, writing, warm, lastBlock, report>>

MonitorDials ==
    /\ monitor \in Commands
    /\ Dial("monitor")
    /\ UNCHANGED <<unseen, enodeStr, connectedPeers, writing, monitorVars>>

\* Where the round goes after the peers.
AfterPeers == IF ReportsHead THEN "blockNumber" ELSE "sleep"

\* admin_nodeInfo.  In the first minute a failure ends the round.  A reply is
\* handed to setEnodeStr, whose own error is dropped.  It looks for the local
\* address: to have none, or another one than before, counts as a fault.
NodeInfo ==
    /\ monitor = "nodeInfo"
    /\ \E res \in Results("monitor") :
          \/ /\ res = "error"
             /\ monitor' = IF warm THEN "peers" ELSE "sleep"
             /\ UNCHANGED <<faults, address, writing>>
          \/ /\ res # "error"
             /\ \E ip \in Addresses \cup {NoAddress} :
                   LET given == IF res = "answer" THEN [key |-> key, ip |-> ip] ELSE NoEnode
                       sets == SetsEnodeStr(given, ip)
                   IN  /\ IF ip = address THEN UNCHANGED faults ELSE Fault
                       /\ address' = IF ip = NoAddress THEN address ELSE ip
                       /\ IF sets THEN BeginEnode(given) ELSE UNCHANGED writing
                       /\ monitor' = IF sets THEN "storeEnode" ELSE "peers"
    /\ Return("monitor")
    /\ UNCHANGED <<node, key, head, peers, static, crashed, enodeStr, connectedPeers,
                   warm, lastBlock, report>>

\* admin_peers: an empty reply is an empty list.  A peer that dialled in is
\* listed with the port it came from, which is not the text AddPeer looks for.
AdminPeers ==
    /\ monitor = "peers"
    /\ \E res \in Results("monitor") :
          IF res = "error"
          THEN monitor' = AfterPeers /\ UNCHANGED writing
          ELSE /\ \E listed \in SUBSET (IF res = "answer" THEN peers ELSE {}) : BeginPeers(listed)
               /\ monitor' = "storePeers"
    /\ Return("monitor")
    /\ UNCHANGED <<unseen, enodeStr, connectedPeers, warm, lastBlock, report>>

MonitorStores ==
    /\ monitor \in {"storeEnode", "storePeers"}
    /\ \/ StoreHalf /\ UNCHANGED monitor
       \/ /\ StoreRest
          /\ monitor' = IF monitor = "storeEnode" THEN "peers" ELSE AfterPeers
    /\ UNCHANGED <<unseen, link, warm, lastBlock, report>>

\* eth_blockNumber: errors, empty replies and block 0 end the round.
BlockNumber ==
    /\ monitor = "blockNumber"
    /\ \E res \in Results("monitor") :
          /\ lastBlock' = IF res = "answer" THEN head ELSE 0
          /\ monitor' = IF lastBlock' = 0 THEN "sleep" ELSE "getBlock"
    /\ Return("monitor")
    /\ UNCHANGED <<unseen, enodeStr, connectedPeers, writing, warm, report>>

\* A bug: asking for the block that comes next.
BlockReportsNext(res) ==
    IF res = "answer"
    THEN {IF lastBlock < head THEN <<"block", "block">> ELSE <<"none", "epoch">>}
    ELSE {}

\* eth_getBlockByNumber for that number, and the call of headBlockUpdateFunc
\* with whatever could be read: a block geth does not have (any more) and an
\* empty reply have neither hash nor timestamp, a reply that was cut may have
\* the hash only, or both, in front of the cut.
BlockReports(res) ==
    CASE res = "answer" /\ lastBlock <= head -> {<<"block", "block">>}
      [] res = "answer" /\ lastBlock > head  -> {<<"none", "epoch">>}
      [] res = "empty" -> {<<"none", "epoch">>, <<"block", "epoch">>, <<"block", "block">>}
      [] OTHER -> {}

GetBlock ==
    /\ monitor = "getBlock"
    /\ \E res \in Results("monitor") :
          \/ res = "error" /\ UNCHANGED report
          \/ \E b \in BlockReports(res) :
                report' = [num |-> lastBlock, id |-> b[1], time |-> b[2]]
    /\ monitor' = "sleep"
    /\ lastBlock' = 0
    /\ Return("monitor")
    /\ UNCHANGED <<unseen, enodeStr, connectedPeers, writing, warm>>

MonitorStep ==
    \/ MonitorWakes \/ MonitorDials \/ NodeInfo \/ AdminPeers \/ MonitorStores
    \/ BlockNumber \/ GetBlock
===============================================================================
