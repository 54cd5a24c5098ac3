----------------------------- MODULE Supervision -----------------------------
(****************************************************************************)
(* A superviser with both its goroutines, Monitor and EnsurePeersByDNS, at   *)
(* work on one geth process.                                                 *)
(****************************************************************************)
EXTENDS Monitoring, PeerEnforcement

nodeVars == <<node, link, key, head, peers, static, faults>>
vars == <<nodeVars, shared, monitorVars, enforcerVars>>

Init == NodeInit /\ SharedInit /\ MonitorInit /\ EnforcerInit

Alive == crashed = "no"

Environment == NodeStep /\ UNCHANGED <<shared, monitorVars, enforcerVars>>

MonitorRuns == Alive /\ (MonitorStep \/ MinutePasses) /\ UNCHANGED enforcerVars

HandlerRuns == Alive /\ ServeID /\ UNCHANGED <<nodeVars, monitorVars, enforcerVars>>

EnforcerRuns == Alive /\ (EnforcerStep \/ PeerNeverAnswers) /\ UNCHANGED monitorVars

\* The process is dead, or geth hangs and is waited for.
Stopped == (~Alive \/ node = "hung") /\ UNCHANGED vars

Next == Environment \/ MonitorRuns \/ EnforcerRuns \/ HandlerRuns \/ Stopped

Spec == Init /\ [][Next]_vars

\* The two goroutines are scheduled, geth is restarted by its superviser and
\* dials the peers it was told to keep.  A node or a peer that hangs owes
\* nothing, and no peer need connect of its own accord.
Fairness ==
    /\ WF_vars(Alive /\ MonitorStep /\ UNCHANGED enforcerVars)
    /\ WF_vars(Alive /\ EnforcerStep /\ UNCHANGED monitorVars)
    /\ WF_vars((Start \/ Ready) /\ UNCHANGED <<shared, monitorVars, enforcerVars>>)
    /\ \A p \in Peers :
          WF_vars(p \in static /\ Connect(p) /\ UNCHANGED <<shared, monitorVars, enforcerVars>>)

FairSpec == Spec /\ Fairness

-------------------------------------------------------------------------------
(* Properties                                                                 *)

TypeOK ==
    /\ NodeTypeOK /\ static \subseteq Peers \cup Own
    /\ SharedTypeOK /\ MonitorTypeOK /\ EnforcerTypeOK

Wanted == (UNION {HostPeers[h] : h \in Hostnames}) \ {Self}

\* The enodes of geth's earlier keys, which nobody has any more.
Former == {e \in Own : e.key < key}

\* AddPeer slices the first 19 characters of enodeStr long after
\* EnsurePeersByDNS checked its length: lookups and HTTP calls lie in between,
\* geth may die, restart with another key and answer nothing, and Monitor may
\* store another enode meanwhile.  The string is never short by then.
NeverSlicesShortEnode == crashed # "slice"

\* Why it never is: Monitor only ever stores an enode over the empty string or
\* over an older enode, and in between only the two words of that one assignment
\* can be seen.  A length that is there stays, and keys get newer.
EnodeProgress ==
    /\ writing.field = "enodeStr" =>
          /\ writing.enode \in Own /\ writing.enode.key <= key
          /\ enodeStr.ptr # NoEnode => enodeStr.ptr.key <= writing.enode.key
    /\ enodeStr.ptr # NoEnode => enodeStr.ptr.key <= key
    /\ ~(writing.field = "enodeStr" /\ writing.half) => enodeStr.ptr = enodeStr.len
    /\ enforcer # "sleep" => LongEnode

\* Geth is only ever told to connect to nodes behind the wanted names, and
\* never to itself, although it is behind them too and may get another address
\* or another key between the lookup and the command: at worst it is told to
\* connect to what it was before.
OnlyWantedAdded == static \subseteq Wanted \cup Former

\* Monitor is in a store exactly while an assignment is under way, and it is
\* the assignment of the field it stores.
WriteMatches ==
    /\ monitor = "storeEnode" => writing.field = "enodeStr"
    /\ monitor = "storePeers" => writing.field = "connectedPeers"
    /\ monitor \notin {"storeEnode", "storePeers"} => writing = NoWrite

\* Enodes are looked up behind the wanted names, those of the supervised node are
\* not newer than what it goes by, and AddPeer sends none of its present key.
AddsPeers ==
    /\ \A e \in allEnodes :
          e \in Wanted \/ (e \in Own /\ enodeStr.ptr # NoEnode /\ e.key <= enodeStr.ptr.key)
    /\ adding \in IF enforcer = "addPeer" THEN Wanted \cup Former ELSE {Nobody}

\* Every command has a connection of its own, which the goroutine closes before
\* it does anything else, whether geth answered, crashed or restarted meanwhile;
\* and an unbroken one leads to a geth that is there.
ConnectionsAreOwned ==
    /\ link["monitor"] # "closed" => monitor \in Commands
    /\ link["enforcer"] # "closed" => enforcer = "addPeer"
    /\ \A g \in Goroutines : link[g] = "open" => Listening

\* monitoring.go:26 says of Monitor that it "periodically checks the head block
\* num and block time": what it reports is a block and its time.
ReportsAreBlocks == report.num > 0 => report.id = "block" /\ report.time = "block"

\* As long as nothing has failed it is: the number comes from one reply and the
\* block from the next, and geth imports blocks in between.
OnlyFaultsSpoilReports == faults = 0 => ReportsAreBlocks

\* The block that Monitor asks for is one that geth has, until the first fault.
AsksForKnown ==
    faults = 0 =>
        /\ \A g \in Goroutines : link[g] # "broken"
        /\ monitor = "getBlock" => lastBlock <= head /\ node = "up"

\* The inductive invariant behind the theorems of SupervisionProofs.
IInv ==
    /\ TypeOK
    /\ WriteMatches
    /\ EnodeProgress
    /\ NeverSlicesShortEnode
    /\ OnlyWantedAdded
    /\ AddsPeers
    /\ ConnectionsAreOwned
    /\ AsksForKnown
    /\ OnlyFaultsSpoilReports

\* Other nodes ask for the ID and connect to what they are given.  Once ServerID
\* has given one it always gives one, and never one with an older key, whether
\* geth restarts, answers nothing or Monitor is between the two stores of
\* another enode.
IDNeverWithdrawn ==
    [][ServerID = "id" => ServerID' = "id" /\ enodeStr.ptr.key <= enodeStr'.ptr.key]_vars

\* When faults stop, what ServerID gives becomes the key that geth has and the
\* address that the machine has, whatever they were before, and stays so.
IDCatchesUp ==
    <>[](enodeStr = String([key |-> key, ip |-> address])) \/ <>~Alive \/ <>[](node = "hung")

\* When faults stop, every wanted peer is connected for good in the end,
\* although AddPeer skips peers on the word of a list that may be stale: after
\* a restart geth has forgotten them and the list still has them.  A geth or a
\* peer that hangs is waited for instead.
WantedEventuallyConnected ==
    <>[](Wanted \subseteq peers) \/ <>~Alive \/ <>[](node = "hung" \/ enforcer = "stuck")

\* Without a hang both loops go round for ever: no command is waited for that
\* nobody will answer, and nobody waits for the other.
BothKeepPolling ==
    <>~Alive \/ ([]<>(monitor = "sleep") /\ []<>(monitor # "sleep")
                 /\ []<>(enforcer = "sleep") /\ []<>(enforcer # "sleep"))

\* superviser.go:204 says of EnsurePeersByDNS that it "periodically checks IP
\* addresses on the given FQDNs".
EnforcesPeriodically == []<>(enforcer = "lookup") \/ <>~Alive
===============================================================================
