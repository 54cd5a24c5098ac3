--------------------------- MODULE SupervisionProofs ---------------------------
(****************************************************************************)
(* What holds of Supervision for every set of nodes, every wanted names and  *)
(* however often geth crashes, hangs and restarts.                           *)
(*                                                                           *)
(* IInv is inductive.  Its core is about the fields, who stores them and who *)
(* reads them: each actor has a lemma for it, whose proof takes the actions  *)
(* one by one.  What IInv says of connections and of reports has a lemma     *)
(* each, for all actors.                                                     *)
(****************************************************************************)
EXTENDS Supervision, TLAPS

Core ==
    /\ TypeOK /\ WriteMatches /\ EnodeProgress /\ NeverSlicesShortEnode
    /\ OnlyWantedAdded /\ AddsPeers

\* The wanted nodes are other nodes.
LEMMA WantedPeers == Wanted \subseteq Peers /\ \A h \in Hostnames : HostPeers[h] \subseteq Wanted \cup {Self}
<1>1. \A h \in Hostnames : HostPeers[h] \subseteq Peers \cup {Self}
  BY HostsAssumption
<1> QED
  BY <1>1 DEF Wanted

\* Who is told to connect to whom is a matter of other nodes and former enodes.
LEMMA WantedTypes == Wanted \cup Former \subseteq Peers \cup Own
BY WantedPeers DEF Former

\* The keys of the enodes in Own are numbers, and a former key stays former.
LEMMA FormerStays ==
    ASSUME key \in 0..MaxKeys, key' \in 0..MaxKeys, key <= key'
    PROVE  Former \subseteq Former'
<1>1. \A e \in Own : e.key \in Nat
  BY NodeAssumption DEF Own
<1> QED
  BY <1>1, NodeAssumption DEF Former

\* What geth does on its own touches none of the superviser's fields, makes it
\* forget peers but never remember more, and its key newer but never older.
LEMMA EnvironmentStep == ASSUME IInv, Environment PROVE Core'
<1> USE NodeAssumption
<1>1. UNCHANGED <<shared, monitorVars, enforcerVars>>
  BY DEF Environment
<1>2. NodeStep
  BY DEF Environment
<1>3. NodeTypeOK' /\ key <= key' /\ static' \subseteq Wanted \cup Former
  <2>1. NodeTypeOK /\ static \subseteq Wanted \cup Former
    BY DEF IInv, TypeOK, OnlyWantedAdded
  <2>2. CASE Start \/ Ready \/ Hang
    BY <2>1, <2>2 DEF Start, Ready, Hang, Fault, NodeTypeOK
  <2>3. CASE Crash
    BY <2>1, <2>3 DEF Crash, Fault, NodeTypeOK
  <2>4. CASE ImportBlock
    BY <2>1, <2>4 DEF ImportBlock, NodeTypeOK
  <2>5. ASSUME NEW p \in Peers, Connect(p) \/ Disconnect(p)
        PROVE  NodeTypeOK' /\ key <= key' /\ static' \subseteq Wanted \cup Former
    BY <2>1, <2>5 DEF Connect, Disconnect, Fault, NodeTypeOK
  <2> QED
    BY <1>2, <2>2, <2>3, <2>4, <2>5 DEF NodeStep
<1>4. Former \subseteq Former' /\ key \in Nat /\ key' \in Nat
  BY <1>3, FormerStays DEF IInv, TypeOK, NodeTypeOK
<1>5. SharedTypeOK' /\ MonitorTypeOK' /\ EnforcerTypeOK'
  BY <1>1 DEF IInv, TypeOK, SharedTypeOK, MonitorTypeOK, EnforcerTypeOK,
              shared, monitorVars, enforcerVars
<1>6. WriteMatches' /\ NeverSlicesShortEnode'
  BY <1>1 DEF IInv, WriteMatches, NeverSlicesShortEnode, shared, monitorVars
<1>7. AddsPeers'
  BY <1>1, <1>4 DEF IInv, AddsPeers, Nobody, Former, shared, enforcerVars
<1>8. EnodeProgress'
  <2>1. /\ \A e \in Own : e.key \in Nat
        /\ enodeStr.ptr \in Own \cup {NoEnode}
    BY DEF Own, IInv, TypeOK, SharedTypeOK
  <2> QED
    BY <1>1, <1>3, <1>4, <2>1 DEF IInv, EnodeProgress, LongEnode, shared, enforcerVars
<1>9. OnlyWantedAdded' /\ (static \subseteq Peers \cup Own)'
  BY <1>3, <1>4, WantedTypes DEF OnlyWantedAdded
<1> QED
  BY <1>3, <1>5, <1>6, <1>7, <1>8, <1>9 DEF Core, TypeOK

\* A connection to the socket is opened and closed by whoever owns it.
LEMMA LinkTypes ==
    ASSUME link \in [Goroutines -> {"closed", "open", "broken"}],
           NEW g \in Goroutines, Dial(g) \/ Return(g)
    PROVE  link' \in [Goroutines -> {"closed", "open", "broken"}]
BY DEF Dial, Return

\* The keys of own enodes can be compared.
LEMMA OwnKeys == \A e \in Own : e.key \in Nat
BY NodeAssumption DEF Own

\* What a string points to is replaced by something as new at least.
Grows == enodeStr.ptr # NoEnode => enodeStr'.ptr # NoEnode /\ enodeStr.ptr.key <= enodeStr'.ptr.key

LEMMA StoresGrow == ASSUME IInv, MonitorStores \/ UNCHANGED enodeStr PROVE Grows
<1>1. writing.field = "enodeStr" =>
         /\ writing.enode \in Own /\ writing.enode # NoEnode
         /\ enodeStr.ptr # NoEnode => enodeStr.ptr.key <= writing.enode.key
  BY OwnAssumption DEF IInv, EnodeProgress
<1>2. enodeStr \in [ptr: Own \cup {NoEnode}, len: Own \cup {NoEnode}]
      /\ (enodeStr.ptr # NoEnode => enodeStr.ptr.key \in Nat)
  BY OwnKeys DEF IInv, TypeOK, SharedTypeOK
<1>3. enodeStr'.ptr \in {enodeStr.ptr} \cup (IF writing.field = "enodeStr" THEN {writing.enode} ELSE {})
  BY <1>2 DEF MonitorStores, StoreHalf, StoreRest, String
<1> QED
  BY <1>1, <1>2, <1>3 DEF Grows

\* What Monitor does: an enode is only ever stored over the empty string or over
\* an older one, and it is the one geth gave; so a long enode stays long whatever
\* happens to geth between the commands.
LEMMA MonitorStepInv == ASSUME IInv, MonitorRuns PROVE Core'
<1> USE NodeAssumption, OwnAssumption, ReportsHeadAssumption
<1>1. UNCHANGED enforcerVars
  BY DEF MonitorRuns
<1>2. EnforcerTypeOK'
  BY <1>1 DEF IInv, TypeOK, EnforcerTypeOK, enforcerVars
<1>3. ASSUME UNCHANGED unseen, MonitorStores \/ UNCHANGED enodeStr,
             link' \in [Goroutines -> {"closed", "open", "broken"}],
             MonitorTypeOK', SharedTypeOK', WriteMatches', EnodeProgress'
      PROVE  Core'
  <2>1. AddsPeers'
    <3>1. UNCHANGED <<allEnodes, adding, enforcer, Wanted, Former>>
      BY <1>1, <1>3 DEF enforcerVars, unseen, Wanted, Former
    <3>2. SharedTypeOK
      BY DEF IInv, TypeOK
    <3>3. Grows
      BY <1>3, StoresGrow
    <3>4. enodeStr.ptr # NoEnode => enodeStr.ptr.key \in Nat /\ enodeStr'.ptr.key \in Nat
      BY <1>3, <3>2, <3>3, OwnKeys DEF SharedTypeOK, Grows
    <3> QED
      BY <3>1, <3>3, <3>4, OwnKeys DEF IInv, AddsPeers, Nobody, Grows
  <2> QED
    BY <1>2, <1>3, <2>1 DEF IInv, Core, TypeOK, NodeTypeOK, NeverSlicesShortEnode, OnlyWantedAdded,
                            Former, unseen
<1>4. CASE MinutePasses \/ MonitorWakes
  <2> USE <1>4 DEF MinutePasses, MonitorWakes
  <2>1. MonitorTypeOK' /\ SharedTypeOK'
    BY DEF IInv, TypeOK, MonitorTypeOK, SharedTypeOK, Commands, unseen
  <2>2. WriteMatches' /\ EnodeProgress'
    BY <1>1 DEF IInv, WriteMatches, EnodeProgress, LongEnode, NoWrite, enforcerVars, unseen
  <2> QED
    BY <1>3, <2>1, <2>2 DEF IInv, TypeOK, NodeTypeOK
<1>5. CASE MonitorDials
  <2> USE <1>5 DEF MonitorDials
  <2>1. MonitorTypeOK' /\ SharedTypeOK'
    BY DEF IInv, TypeOK, MonitorTypeOK, SharedTypeOK, unseen, monitorVars
  <2>2. WriteMatches' /\ EnodeProgress'
    BY <1>1 DEF IInv, WriteMatches, EnodeProgress, LongEnode, NoWrite, enforcerVars, monitorVars, unseen
  <2>3. link' \in [Goroutines -> {"closed", "open", "broken"}]
    BY LinkTypes DEF IInv, TypeOK, NodeTypeOK, Goroutines
  <2> QED
    BY <1>3, <2>1, <2>2, <2>3
<1>6. CASE NodeInfo
  <2>1. /\ monitor = "nodeInfo"
        /\ UNCHANGED <<node, key, head, peers, static, crashed, enodeStr, connectedPeers,
                       warm, lastBlock, report>>
        /\ Return("monitor")
    BY <1>6 DEF NodeInfo
  <2>2. faults' \in 0..MaxFaults /\ address' \in Addresses
    <3>1. faults \in 0..MaxFaults /\ address \in Addresses
      BY DEF IInv, TypeOK, NodeTypeOK, SharedTypeOK
    <3>2. UNCHANGED faults \/ Fault
      BY <1>6 DEF NodeInfo
    <3>3. address' = address \/ address' \in Addresses
      BY <1>6 DEF NodeInfo
    <3> QED
      BY <3>1, <3>2, <3>3 DEF Fault
  <2>3. \/ UNCHANGED writing /\ monitor' \in {"sleep", "peers"}
        \/ /\ \E ip \in Addresses :
                 writing' = [field |-> "enodeStr", enode |-> [key |-> key, ip |-> ip],
                             list |-> {}, half |-> FALSE]
           /\ monitor' = "storeEnode"
    BY <1>6 DEF NodeInfo, BeginEnode, SetsEnodeStr, NoWrite
  <2>4. NodeTypeOK' /\ (static \subseteq Peers \cup Own)' /\ OnlyWantedAdded' /\ AddsPeers'
    <3>1. link' \in [Goroutines -> {"closed", "open", "broken"}]
      BY <2>1, LinkTypes DEF IInv, TypeOK, NodeTypeOK, Goroutines
    <3> QED
      BY <1>1, <2>1, <2>2, <3>1 DEF IInv, TypeOK, NodeTypeOK, OnlyWantedAdded, AddsPeers, Nobody,
                                    Former, enforcerVars
  <2>5. \A ip \in Addresses : [key |-> key, ip |-> ip] \in Own
    BY DEF Own, IInv, TypeOK, NodeTypeOK
  <2>6. SharedTypeOK' /\ MonitorTypeOK'
    <3>1. MonitorTypeOK'
      BY <2>1, <2>3 DEF IInv, TypeOK, MonitorTypeOK, Commands
    <3>2. writing' \in [field: {"none", "enodeStr", "connectedPeers"}, enode: Own \cup {NoEnode},
                        list: SUBSET Peers, half: BOOLEAN]
      <4>1. {} \in SUBSET Peers
        OBVIOUS
      <4>2. CASE UNCHANGED writing
        BY <4>2 DEF IInv, TypeOK, SharedTypeOK
      <4>3. ASSUME NEW e \in Own,
                   writing' = [field |-> "enodeStr", enode |-> e, list |-> {}, half |-> FALSE]
            PROVE  writing' \in [field: {"none", "enodeStr", "connectedPeers"},
                                 enode: Own \cup {NoEnode}, list: SUBSET Peers, half: BOOLEAN]
        BY <4>1, <4>3
      <4> QED
        BY <2>3, <2>5, <4>2, <4>3
    <3> QED
      BY <2>1, <2>2, <3>1, <3>2 DEF IInv, TypeOK, SharedTypeOK
  <2>7. WriteMatches'
    BY <2>1, <2>3 DEF IInv, WriteMatches, NoWrite
  <2>8. EnodeProgress'
    <3>1. writing = NoWrite
      BY <2>1 DEF IInv, WriteMatches
    <3>2. UNCHANGED <<key, enodeStr, enforcer>>
      BY <1>1, <2>1 DEF enforcerVars
    <3>3. key \in Nat
      BY DEF IInv, TypeOK, NodeTypeOK
    <3>4. CASE UNCHANGED writing
      BY <3>1, <3>2, <3>4 DEF IInv, EnodeProgress, LongEnode
    <3>5. ASSUME NEW ip \in Addresses,
                 writing' = [field |-> "enodeStr", enode |-> [key |-> key, ip |-> ip],
                             list |-> {}, half |-> FALSE]
          PROVE  EnodeProgress'
      BY <2>5, <3>1, <3>2, <3>3, <3>5 DEF IInv, EnodeProgress, LongEnode, NoWrite
    <3> QED
      BY <2>3, <3>4, <3>5
  <2> QED
    BY <1>2, <2>1, <2>4, <2>6, <2>7, <2>8 DEF IInv, Core, TypeOK, NeverSlicesShortEnode
<1>7. CASE AdminPeers
  <2>1. PICK l \in SUBSET Peers :
          \/ UNCHANGED writing /\ monitor' = AfterPeers
          \/ BeginPeers(l) /\ monitor' = "storePeers"
    BY <1>7 DEF AdminPeers, IInv, TypeOK, NodeTypeOK
  <2>2. /\ monitor = "peers"
        /\ UNCHANGED <<unseen, enodeStr, connectedPeers, warm, lastBlock, report>>
        /\ Return("monitor")
    BY <1>7 DEF AdminPeers
  <2>3. link' \in [Goroutines -> {"closed", "open", "broken"}]
    BY <2>2, LinkTypes DEF IInv, TypeOK, NodeTypeOK, Goroutines
  <2>4. writing = NoWrite
    BY <2>2 DEF IInv, WriteMatches
  <2>5. SharedTypeOK' /\ MonitorTypeOK'
    BY <2>1, <2>2, <2>4 DEF IInv, TypeOK, SharedTypeOK, MonitorTypeOK, Commands, BeginPeers,
                            NoWrite, AfterPeers, unseen
  <2>6. WriteMatches' /\ EnodeProgress'
    BY <1>1, <2>1, <2>2, <2>4 DEF IInv, WriteMatches, EnodeProgress, LongEnode, NoWrite,
                                  BeginPeers, AfterPeers, enforcerVars, unseen
  <2> QED
    BY <1>3, <2>2, <2>3, <2>5, <2>6
<1>8. CASE MonitorStores
  <2>1. monitor \in {"storeEnode", "storePeers"} /\ UNCHANGED <<unseen, link, warm, lastBlock, report>>
    BY <1>8 DEF MonitorStores
  <2>2. link' \in [Goroutines -> {"closed", "open", "broken"}]
    BY <2>1 DEF IInv, TypeOK, NodeTypeOK
  <2>3. /\ enodeStr \in [ptr: Own \cup {NoEnode}, len: Own \cup {NoEnode}]
        /\ \A e \in Own : e # NoEnode
        /\ key \in Nat
    BY DEF IInv, TypeOK, SharedTypeOK, NodeTypeOK
  <2>4. UNCHANGED <<key, enforcer>>
    BY <1>1, <2>1 DEF unseen, enforcerVars
  <2>5. CASE StoreHalf /\ UNCHANGED monitor
    <3>1. writing' = [writing EXCEPT !.half = TRUE]
      BY <2>5 DEF StoreHalf
    <3>2. SharedTypeOK' /\ MonitorTypeOK'
      BY <2>1, <2>3, <2>5, <3>1
         DEF StoreHalf, IInv, TypeOK, SharedTypeOK, MonitorTypeOK, EnodeProgress, unseen
    <3>3. WriteMatches'
      BY <2>1, <2>5, <3>1 DEF StoreHalf, IInv, TypeOK, SharedTypeOK, WriteMatches
    <3>4. EnodeProgress'
      BY <2>3, <2>4, <2>5, <3>1, OwnKeys
         DEF StoreHalf, IInv, TypeOK, SharedTypeOK, EnodeProgress, LongEnode
    <3> QED
      BY <1>3, <1>8, <2>1, <2>2, <3>2, <3>3, <3>4
  <2>6. CASE StoreRest /\ monitor' = IF monitor = "storeEnode" THEN "peers" ELSE AfterPeers
    <3>1. SharedTypeOK' /\ MonitorTypeOK'
      BY <2>1, <2>6 DEF StoreRest, IInv, TypeOK, SharedTypeOK, MonitorTypeOK, NoWrite, String,
                        EnodeProgress, AfterPeers, Commands, unseen
    <3>2. WriteMatches'
      BY <2>1, <2>6 DEF StoreRest, IInv, WriteMatches, AfterPeers
    <3>3. EnodeProgress'
      BY <2>3, <2>4, <2>6, OwnKeys
         DEF StoreRest, String, IInv, EnodeProgress, LongEnode, NoWrite
    <3> QED
      BY <1>3, <1>8, <2>1, <2>2, <3>1, <3>2, <3>3
  <2> QED
    BY <1>8, <2>5, <2>6 DEF MonitorStores
<1>9. CASE BlockNumber \/ GetBlock
  <2>1. /\ monitor \in {"blockNumber", "getBlock"}
        /\ monitor' \in {"sleep", "getBlock"}
        /\ UNCHANGED <<unseen, enodeStr, connectedPeers, writing, warm>>
        /\ Return("monitor")
    BY <1>9 DEF BlockNumber, GetBlock
  <2>2. link' \in [Goroutines -> {"closed", "open", "broken"}]
    BY <2>1, LinkTypes DEF IInv, TypeOK, NodeTypeOK, Goroutines
  <2>3. lastBlock' \in 0..MaxHead
    BY <1>9 DEF BlockNumber, GetBlock, IInv, TypeOK, NodeTypeOK
  <2>4. report' \in [num: 0..MaxHead, id: {"none", "block"}, time: {"none", "epoch", "block"}]
    <3>1. \A res \in Results("monitor") : \A b \in BlockReports(res) :
            b[1] \in {"none", "block"} /\ b[2] \in {"none", "epoch", "block"}
      BY DEF BlockReports
    <3> QED
      BY <1>9, <3>1 DEF BlockNumber, GetBlock, IInv, TypeOK, MonitorTypeOK
  <2>5. MonitorTypeOK' /\ SharedTypeOK'
    BY <2>1, <2>3, <2>4 DEF IInv, TypeOK, MonitorTypeOK, SharedTypeOK, Commands, unseen
  <2>6. WriteMatches' /\ EnodeProgress'
    BY <1>1, <2>1 DEF IInv, WriteMatches, EnodeProgress, LongEnode, enforcerVars, unseen
  <2> QED
    BY <1>3, <2>1, <2>2, <2>5, <2>6
<1> QED
  BY <1>4, <1>5, <1>6, <1>7, <1>8, <1>9 DEF MonitorRuns, MonitorStep

\* Whoever AddPeer is about to add is wanted, or was the supervised node under a
\* key that is not the present one: keys are looked up before they are compared.
LEMMA EnforcerStepInv == ASSUME IInv, EnforcerRuns PROVE Core'
<1> USE NodeAssumption, OwnAssumption, HostsAssumption
<1>1. UNCHANGED monitorVars /\ crashed = "no"
  BY DEF EnforcerRuns, Alive
<1>2. ASSUME UNCHANGED <<node, key, head, peers, address, enodeStr, connectedPeers, writing>>,
             link' \in [Goroutines -> {"closed", "open", "broken"}],
             faults' \in 0..MaxFaults,
             crashed' \in {"no", "torn"},
             static' \subseteq Wanted \cup Former, EnforcerTypeOK', AddsPeers',
             enforcer # "sleep" \/ enforcer' = "sleep" \/ LongEnode
      PROVE  Core'
  <2>1. SharedTypeOK' /\ MonitorTypeOK' /\ NodeTypeOK'
    BY <1>1, <1>2 DEF IInv, TypeOK, SharedTypeOK, MonitorTypeOK, NodeTypeOK, monitorVars
  <2>2. WriteMatches' /\ EnodeProgress' /\ NeverSlicesShortEnode' /\ OnlyWantedAdded'
    BY <1>1, <1>2 DEF IInv, WriteMatches, EnodeProgress, LongEnode, NeverSlicesShortEnode,
                      OnlyWantedAdded, Former, monitorVars
  <2> QED
    BY <1>2, <2>1, <2>2, WantedTypes DEF Core, TypeOK
<1>3. static \subseteq Wanted \cup Former
  BY DEF IInv, OnlyWantedAdded
<1>4. /\ link \in [Goroutines -> {"closed", "open", "broken"}]
      /\ faults \in 0..MaxFaults
      /\ crashed \in {"no", "torn", "slice"}
  BY DEF IInv, TypeOK, NodeTypeOK, SharedTypeOK
<1>5. CASE EnforcerWakes
  BY <1>1, <1>2, <1>3, <1>4, <1>5
     DEF EnforcerWakes, IInv, TypeOK, EnforcerTypeOK, AddsPeers, Nobody, Former, shared
<1>6. ASSUME NEW h \in Hostnames, LookUp(h) PROVE Core'
  <2>1. faults' \in 0..MaxFaults
    BY <1>4, <1>6 DEF LookUp, Fault
  <2>2. \A e \in allEnodes' : e \in allEnodes \/ e \in Wanted \/ e \in OwnAnswer
    BY <1>6, WantedPeers DEF LookUp
  <2>3. \A e \in OwnAnswer : e \in Own /\ enodeStr.ptr # NoEnode /\ e = enodeStr.ptr /\ e.key <= e.key
    BY OwnKeys DEF OwnAnswer, ServerID, LongEnode, IInv, TypeOK, SharedTypeOK
  <2>4. EnforcerTypeOK' /\ AddsPeers'
    BY <1>6, <2>2, <2>3, WantedTypes DEF LookUp, IInv, TypeOK, EnforcerTypeOK, AddsPeers, Nobody,
                                         Former, shared
  <2> QED
    BY <1>1, <1>2, <1>3, <1>4, <1>6, <2>1, <2>4 DEF LookUp, shared
<1>7. CASE PeerNeverAnswers
  BY <1>1, <1>2, <1>3, <1>4, <1>7
     DEF PeerNeverAnswers, Fault, IInv, TypeOK, EnforcerTypeOK, AddsPeers, Nobody, Former, shared
<1>8. CASE LookedUp \/ RoundEnds
  BY <1>1, <1>2, <1>3, <1>4, <1>8
     DEF LookedUp, RoundEnds, IInv, TypeOK, EnforcerTypeOK, AddsPeers, Nobody, Former, shared
<1>9. ASSUME NEW e \in Peers \cup Own, AddPeerChecks(e) PROVE Core'
  <2>1. LongEnode
    BY <1>9 DEF AddPeerChecks, IInv, EnodeProgress
  <2>2. /\ enforcer = "add"
        /\ UNCHANGED <<node, link, key, head, peers, static, faults, address, enodeStr,
                       connectedPeers, writing>>
    BY <1>9 DEF AddPeerChecks
  <2>3. \/ crashed' = "torn" /\ UNCHANGED enforcerVars
        \/ /\ allEnodes' = allEnodes \ {e}
           /\ UNCHANGED <<crashed, enforcer, hosts, adding>>
        \/ /\ e \in allEnodes /\ (e \in Own => e.key # enodeStr.ptr.key)
           /\ adding' = e
           /\ enforcer' = "addPeer"
           /\ UNCHANGED <<crashed, hosts, allEnodes>>
    BY <1>9, <2>1 DEF AddPeerChecks, Skipped
  <2>4. ASSUME e \in allEnodes, e \in Own => e.key # enodeStr.ptr.key
        PROVE  e \in Wanted \cup Former
    <3>1. CASE e \in Wanted
      BY <3>1
    <3>2. CASE e \in Own /\ enodeStr.ptr # NoEnode /\ e.key <= enodeStr.ptr.key
      <4>1. enodeStr.ptr.key \in Nat /\ enodeStr.ptr.key <= key /\ e.key \in Nat /\ key \in Nat
        BY <3>2, OwnKeys DEF IInv, TypeOK, SharedTypeOK, NodeTypeOK, EnodeProgress
      <4> QED
        BY <2>4, <3>2, <4>1 DEF Former
    <3> QED
      BY <2>4, <3>1, <3>2 DEF IInv, AddsPeers
  <2>5. AddsPeers'
    BY <2>2, <2>3, <2>4 DEF IInv, AddsPeers, Nobody, Former, enforcerVars
  <2>6. EnforcerTypeOK'
    BY <2>2, <2>3 DEF IInv, TypeOK, EnforcerTypeOK, enforcerVars
  <2> QED
    BY <1>1, <1>2, <1>3, <1>4, <2>1, <2>2, <2>3, <2>5, <2>6
<1>10. CASE AddPeerDials
  <2>1. link' \in [Goroutines -> {"closed", "open", "broken"}]
    BY <1>4, <1>10, LinkTypes DEF AddPeerDials, Goroutines
  <2> QED
    BY <1>1, <1>2, <1>3, <1>4, <1>10, <2>1
       DEF AddPeerDials, IInv, TypeOK, EnforcerTypeOK, AddsPeers, Nobody, Former, shared, enforcerVars
<1>11. CASE AddPeerReturns
  <2>1. link' \in [Goroutines -> {"closed", "open", "broken"}]
    BY <1>4, <1>11, LinkTypes DEF AddPeerReturns, Goroutines
  <2>2. adding \in Wanted \cup Former
    BY <1>11 DEF AddPeerReturns, IInv, AddsPeers
  <2>3. static' \subseteq Wanted \cup Former
    BY <1>3, <1>11, <2>2 DEF AddPeerReturns
  <2>4. EnforcerTypeOK' /\ AddsPeers'
    BY <1>11 DEF AddPeerReturns, IInv, TypeOK, EnforcerTypeOK, AddsPeers, Nobody, shared
  <2> QED
    BY <1>1, <1>2, <1>4, <1>11, <2>1, <2>3, <2>4 DEF AddPeerReturns, shared
<1> QED
  BY <1>5, <1>6, <1>7, <1>8, <1>9, <1>10, <1>11 DEF EnforcerRuns, EnforcerStep

\* An HTTP handler only ever reads, and what it reads is not longer than what
\* AddPeer slices.
LEMMA HandlerStepInv == ASSUME IInv, HandlerRuns PROVE Core'
<1>1. /\ crashed' = "torn"
      /\ UNCHANGED <<nodeVars, address, enodeStr, connectedPeers, writing, monitorVars, enforcerVars>>
  BY DEF HandlerRuns, ServeID
<1>2. TypeOK'
  BY <1>1 DEF IInv, TypeOK, NodeTypeOK, SharedTypeOK, MonitorTypeOK, EnforcerTypeOK,
              nodeVars, monitorVars, enforcerVars
<1>3. WriteMatches' /\ EnodeProgress'
  BY <1>1 DEF IInv, WriteMatches, EnodeProgress, LongEnode, nodeVars, monitorVars, enforcerVars
<1>4. NeverSlicesShortEnode' /\ OnlyWantedAdded' /\ AddsPeers'
  BY <1>1 DEF IInv, NeverSlicesShortEnode, OnlyWantedAdded, AddsPeers, Nobody, Former,
              nodeVars, enforcerVars
<1> QED
  BY <1>2, <1>3, <1>4 DEF Core

\* Every step keeps the core of IInv.
LEMMA CoreStep == ASSUME IInv, [Next]_vars PROVE Core'
<1>1. CASE UNCHANGED vars
  BY <1>1 DEF vars, nodeVars, shared, monitorVars, enforcerVars, Core, IInv, TypeOK, NodeTypeOK,
      SharedTypeOK, MonitorTypeOK, EnforcerTypeOK, WriteMatches, EnodeProgress, LongEnode,
      NeverSlicesShortEnode, OnlyWantedAdded, AddsPeers, Nobody, Former
<1> QED
  BY <1>1, EnvironmentStep, MonitorStepInv, EnforcerStepInv, HandlerStepInv DEF Next, Stopped

\* Goroutines dial when they have no connection, and wait on the one they have
\* until it is closed; geth breaks those it leaves behind.
LEMMA ConnectionsStep == ASSUME IInv, [Next]_vars PROVE ConnectionsAreOwned'
<1> USE DEF ConnectionsAreOwned, Goroutines, Listening
<1>1. /\ link \in [Goroutines -> {"closed", "open", "broken"}]
      /\ ConnectionsAreOwned
  BY DEF IInv, TypeOK, NodeTypeOK
<1>2. CASE Environment
  <2>1. UNCHANGED <<monitor, enforcer>>
    BY <1>2 DEF Environment, monitorVars, enforcerVars
  <2>2. CASE Crash
    BY <1>1, <2>1, <2>2 DEF Crash
  <2>3. CASE ~Crash
    <3>1. UNCHANGED link /\ (Listening => Listening')
      BY <1>2, <2>3 DEF Environment, NodeStep, Start, Ready, Hang, ImportBlock, Connect, Disconnect
    <3> QED
      BY <1>1, <2>1, <3>1
  <2> QED
    BY <2>2, <2>3
<1>3. CASE MonitorRuns
  <2>1. UNCHANGED <<node, enforcer>>
    BY <1>3 DEF MonitorRuns, MonitorStep, MinutePasses, MonitorWakes, MonitorDials, NodeInfo,
         AdminPeers, MonitorStores, BlockNumber, GetBlock, enforcerVars, unseen
  <2>2. CASE MonitorDials
    BY <1>1, <2>1, <2>2 DEF MonitorDials, Dial, monitorVars
  <2>3. CASE NodeInfo \/ AdminPeers \/ BlockNumber \/ GetBlock
    <3>1. Return("monitor")
      BY <2>3 DEF NodeInfo, AdminPeers, BlockNumber, GetBlock
    <3> QED
      BY <1>1, <2>1, <3>1 DEF Return
  <2>4. CASE MinutePasses \/ MonitorWakes \/ MonitorStores
    <3>1. UNCHANGED link /\ (monitor' = monitor \/ monitor \notin Commands)
      BY <2>4 DEF MinutePasses, MonitorWakes, MonitorStores, Commands
    <3> QED
      BY <1>1, <2>1, <3>1
  <2> QED
    BY <1>3, <2>2, <2>3, <2>4 DEF MonitorRuns, MonitorStep
<1>4. CASE EnforcerRuns
  <2>1. UNCHANGED <<node, monitor>>
    BY <1>4 DEF EnforcerRuns, EnforcerStep, EnforcerWakes, LookUp, PeerNeverAnswers, LookedUp,
         AddPeerChecks, AddPeerDials, AddPeerReturns, RoundEnds, monitorVars
  <2>2. CASE AddPeerDials
    BY <1>1, <2>1, <2>2 DEF AddPeerDials, Dial, enforcerVars
  <2>3. CASE AddPeerReturns
    BY <1>1, <2>1, <2>3 DEF AddPeerReturns, Return
  <2>4. CASE ~(AddPeerDials \/ AddPeerReturns)
    <3>1. UNCHANGED link /\ (enforcer' = enforcer \/ enforcer # "addPeer")
      BY <1>4, <2>4 DEF EnforcerRuns, EnforcerStep, EnforcerWakes, LookUp, PeerNeverAnswers,
           LookedUp, AddPeerChecks, RoundEnds
    <3> QED
      BY <1>1, <2>1, <3>1
  <2> QED
    BY <2>2, <2>3, <2>4
<1>5. CASE HandlerRuns \/ UNCHANGED vars
  <2>1. UNCHANGED <<node, link, monitor, enforcer>>
    BY <1>5 DEF HandlerRuns, vars, nodeVars, monitorVars, enforcerVars
  <2> QED
    BY <1>1, <2>1
<1> QED
  BY <1>2, <1>3, <1>4, <1>5 DEF Next, Stopped

\* Faults are counted and never forgotten.
LEMMA FaultsStay == ASSUME IInv, [Next]_vars, faults' = 0 PROVE faults = 0 /\ ~Fault
<1>1. faults \in Nat
  BY NodeAssumption DEF IInv, TypeOK, NodeTypeOK
<1>2. faults' = faults \/ faults' = faults + 1
  <2>1. CASE Environment
    BY <2>1 DEF Environment, NodeStep, Start, Ready, Crash, Hang, ImportBlock, Connect, Disconnect,
                Fault
  <2>2. CASE MonitorRuns
    BY <2>2 DEF MonitorRuns, MonitorStep, MinutePasses, MonitorWakes, MonitorDials, NodeInfo,
         AdminPeers, MonitorStores, BlockNumber, GetBlock, unseen, Fault
  <2>3. CASE EnforcerRuns
    BY <2>3 DEF EnforcerRuns, EnforcerStep, EnforcerWakes, LookUp, PeerNeverAnswers, LookedUp,
         AddPeerChecks, AddPeerDials, AddPeerReturns, RoundEnds, Fault
  <2>4. CASE HandlerRuns \/ UNCHANGED vars
    BY <2>4 DEF HandlerRuns, vars, nodeVars
  <2> QED
    BY <2>1, <2>2, <2>3, <2>4 DEF Next, Stopped
<1> QED
  BY <1>1, <1>2 DEF Fault

\* The number that blockNumber gave is the number of a block that geth had then,
\* and without a fault it has every block it had.
LEMMA ReportsStep == ASSUME IInv, [Next]_vars PROVE AsksForKnown' /\ OnlyFaultsSpoilReports'
<1>1. SUFFICES ASSUME faults' = 0 PROVE AsksForKnown' /\ ReportsAreBlocks'
  BY DEF AsksForKnown, OnlyFaultsSpoilReports
<1>2. /\ faults = 0 /\ ~Fault
      /\ \A g \in Goroutines : link[g] # "broken"
      /\ monitor = "getBlock" => lastBlock <= head /\ node = "up"
      /\ ReportsAreBlocks
  BY <1>1, FaultsStay DEF IInv, AsksForKnown, OnlyFaultsSpoilReports
<1>3. /\ link \in [Goroutines -> {"closed", "open", "broken"}]
      /\ head \in Nat /\ lastBlock \in Nat
  BY NodeAssumption DEF IInv, TypeOK, NodeTypeOK, MonitorTypeOK
<1>4. ASSUME UNCHANGED report,
             \A g \in Goroutines : link'[g] \in {link[g], "open", "closed"},
             monitor' = "getBlock" => lastBlock' <= head' /\ node' = "up"
      PROVE  AsksForKnown' /\ ReportsAreBlocks'
  BY <1>2, <1>4 DEF AsksForKnown, ReportsAreBlocks
<1>5. ASSUME NEW g \in Goroutines, Dial(g) \/ Return(g)
      PROVE  \A h \in Goroutines : link'[h] \in {link[h], "open", "closed"}
  BY <1>3, <1>5 DEF Dial, Return
<1>6. CASE Environment
  <2>1. UNCHANGED <<link, monitor, lastBlock, report>> /\ head <= head' /\ (node = "up" => node' = "up")
    BY <1>2, <1>3, <1>6 DEF Environment, NodeStep, Start, Ready, Crash, Hang, ImportBlock, Connect,
         Disconnect, monitorVars
  <2>2. head' \in Nat
    BY <1>3, <1>6 DEF Environment, NodeStep, Start, Ready, Crash, Hang, ImportBlock, Connect, Disconnect
  <2> QED
    BY <1>2, <1>3, <1>4, <2>1, <2>2
<1>7. CASE MonitorRuns
  <2>1. CASE MinutePasses \/ MonitorWakes \/ MonitorStores
    <3>1. UNCHANGED <<link, head, node, lastBlock, report>>
          /\ (monitor' = "getBlock" => monitor = "getBlock")
      BY <2>1 DEF MinutePasses, MonitorWakes, MonitorStores, AfterPeers, unseen
    <3> QED
      BY <1>2, <1>4, <3>1
  <2>2. CASE MonitorDials
    <3>1. UNCHANGED <<head, node, monitor, lastBlock, report>>
      BY <2>2 DEF MonitorDials, unseen, monitorVars
    <3>2. \A h \in Goroutines : link'[h] \in {link[h], "open", "closed"}
      BY <1>5, <2>2 DEF MonitorDials, Goroutines
    <3> QED
      BY <1>2, <1>4, <3>1, <3>2
  <2>3. CASE NodeInfo \/ AdminPeers
    <3>1. UNCHANGED report /\ monitor' # "getBlock"
      BY <2>3 DEF NodeInfo, AdminPeers, AfterPeers
    <3>2. \A h \in Goroutines : link'[h] \in {link[h], "open", "closed"}
      BY <1>5, <2>3 DEF NodeInfo, AdminPeers, Goroutines
    <3> QED
      BY <1>4, <3>1, <3>2
  <2>4. CASE BlockNumber
    <3>1. PICK res \in Results("monitor") :
            /\ lastBlock' = IF res = "answer" THEN head ELSE 0
            /\ monitor' = IF lastBlock' = 0 THEN "sleep" ELSE "getBlock"
      BY <2>4 DEF BlockNumber
    <3>2. UNCHANGED <<report, head, node>>
      BY <2>4 DEF BlockNumber, unseen
    <3>3. monitor' = "getBlock" => res = "answer" /\ node = "up"
      BY <3>1 DEF Results
    <3>4. \A h \in Goroutines : link'[h] \in {link[h], "open", "closed"}
      BY <1>5, <2>4 DEF BlockNumber, Goroutines
    <3> QED
      BY <1>3, <1>4, <3>1, <3>2, <3>3, <3>4
  <2>5. CASE GetBlock
    <3>1. /\ monitor = "getBlock" /\ monitor' = "sleep"
          /\ Return("monitor")
      BY <2>5 DEF GetBlock
    <3>2. \A h \in Goroutines : link'[h] \in {link[h], "open", "closed"}
      BY <1>5, <3>1 DEF Goroutines
    <3>3. AsksForKnown'
      BY <1>2, <3>1, <3>2 DEF AsksForKnown
    <3>4. PICK res \in Results("monitor") :
            \/ res = "error" /\ UNCHANGED report
            \/ \E b \in BlockReports(res) :
                  report' = [num |-> lastBlock, id |-> b[1], time |-> b[2]]
      BY <2>5 DEF GetBlock
    <3>5. res \in {"error", "answer"} /\ lastBlock <= head
      BY <1>2, <3>1 DEF Results, Goroutines
    <3>6. \A b \in BlockReports(res) : b = <<"block", "block">>
      BY <1>3, <3>5 DEF BlockReports
    <3>7. ReportsAreBlocks'
      BY <1>2, <3>4, <3>6 DEF ReportsAreBlocks
    <3> QED
      BY <3>3, <3>7
  <2> QED
    BY <1>7, <2>1, <2>2, <2>3, <2>4, <2>5 DEF MonitorRuns, MonitorStep
<1>8. CASE EnforcerRuns
  <2>1. UNCHANGED <<head, node, monitor, lastBlock, report>>
    BY <1>8 DEF EnforcerRuns, EnforcerStep, EnforcerWakes, LookUp, PeerNeverAnswers, LookedUp,
         AddPeerChecks, AddPeerDials, AddPeerReturns, RoundEnds, monitorVars
  <2>2. UNCHANGED link \/ Dial("enforcer") \/ Return("enforcer")
    BY <1>8 DEF EnforcerRuns, EnforcerStep, EnforcerWakes, LookUp, PeerNeverAnswers, LookedUp,
         AddPeerChecks, AddPeerDials, AddPeerReturns, RoundEnds
  <2>3. \A h \in Goroutines : link'[h] \in {link[h], "open", "closed"}
    BY <1>5, <2>2 DEF Goroutines
  <2> QED
    BY <1>2, <1>4, <2>1, <2>3
<1>9. CASE HandlerRuns \/ UNCHANGED vars
  <2>1. UNCHANGED <<node, link, head, monitor, lastBlock, report>>
    BY <1>9 DEF HandlerRuns, vars, nodeVars, monitorVars
  <2> QED
    BY <1>2, <1>4, <2>1
<1> QED
  BY <1>6, <1>7, <1>8, <1>9 DEF Next, Stopped

\* IInv holds in every state of Supervision: whichever way commands, stores,
\* reads, crashes and restarts interleave.
THEOREM Invariance == Spec => []IInv
<1>1. Init => IInv
  <2> SUFFICES ASSUME Init PROVE IInv
    OBVIOUS
  <2> USE NodeAssumption, OwnAssumption, ReportsHeadAssumption
  <2>1. TypeOK
    <3>1. NodeTypeOK /\ static \subseteq Peers \cup Own
      BY DEF Init, NodeInit, NodeTypeOK
    <3>2. SharedTypeOK
      BY DEF Init, SharedInit, SharedTypeOK, NoWrite, String
    <3>3. MonitorTypeOK
      <4>1. 0 \in 0..MaxHead
        OBVIOUS
      <4>2. NoReport \in [num: 0..MaxHead, id: {"none", "block"}, time: {"none", "epoch", "block"}]
        BY <4>1 DEF NoReport
      <4> QED
        BY <4>1, <4>2 DEF Init, MonitorInit, MonitorTypeOK
    <3>4. EnforcerTypeOK
      BY DEF Init, EnforcerInit, EnforcerTypeOK, Nobody
    <3> QED
      BY <3>1, <3>2, <3>3, <3>4 DEF TypeOK
  <2>2. WriteMatches /\ EnodeProgress /\ NeverSlicesShortEnode /\ OnlyWantedAdded /\ AddsPeers
    BY DEF Init, NodeInit, SharedInit, MonitorInit, EnforcerInit, WriteMatches, EnodeProgress,
           NoWrite, String, NeverSlicesShortEnode, OnlyWantedAdded, AddsPeers, Nobody
  <2>3. ConnectionsAreOwned /\ AsksForKnown /\ OnlyFaultsSpoilReports
    BY DEF Init, NodeInit, MonitorInit, ConnectionsAreOwned, Goroutines, AsksForKnown,
           OnlyFaultsSpoilReports, ReportsAreBlocks, NoReport
  <2> QED
    BY <2>1, <2>2, <2>3 DEF IInv
<1>2. IInv /\ [Next]_vars => IInv'
  BY CoreStep, ConnectionsStep, ReportsStep DEF IInv, Core
<1> QED
  BY <1>1, <1>2, PTL DEF Spec

\* Every variable has its type.
THEOREM TypeCorrectness == Spec => []TypeOK
BY Invariance, PTL DEF IInv

\* AddPeer never slices an enode that is shorter than the slice, although it
\* was measured long before and without infoMutex.
THEOREM NoShortSlice == Spec => []NeverSlicesShortEnode
BY Invariance, PTL DEF IInv

\* Geth is only told to connect to nodes behind the wanted names, and never to
\* itself, although it is behind one of them and its key and address change
\* between the lookup and the command.
THEOREM OnlyWanted == Spec => []OnlyWantedAdded
BY Invariance, PTL DEF IInv

\* No connection is left open by a command that is over, and none is waited on
\* that geth has left.
THEOREM ConnectionsOwned == Spec => []ConnectionsAreOwned
BY Invariance, PTL DEF IInv

\* The number and the block of a report come from two replies; it takes a fault
\* between them for the report not to be about a block.
THEOREM ReportsSpoiled == Spec => []OnlyFaultsSpoilReports
BY Invariance, PTL DEF IInv

\* An ID that ServerID has given is never withdrawn, nor replaced by one of an
\* older key: in the middle of the store of another enode both words are there,
\* and the pointer is of one of the two.
THEOREM IDStays == Spec => IDNeverWithdrawn
<1>1. IInv /\ [Next]_vars =>
         [ServerID = "id" => ServerID' = "id" /\ enodeStr.ptr.key <= enodeStr'.ptr.key]_vars
  <2> SUFFICES ASSUME IInv, Next, ServerID = "id"
               PROVE  ServerID' = "id" /\ enodeStr.ptr.key <= enodeStr'.ptr.key
    OBVIOUS
  <2>1. enodeStr.ptr # NoEnode /\ enodeStr.len # NoEnode
    BY DEF ServerID, LongEnode
  <2>2. MonitorStores \/ UNCHANGED enodeStr
    BY DEF Next, Environment, MonitorRuns, EnforcerRuns, HandlerRuns, Stopped, MonitorStep,
           MinutePasses, MonitorWakes, MonitorDials, NodeInfo, AdminPeers, BlockNumber, GetBlock,
           EnforcerStep, EnforcerWakes, LookUp, PeerNeverAnswers, LookedUp, AddPeerChecks,
           AddPeerDials, AddPeerReturns, RoundEnds, ServeID, vars, shared, unseen
  <2>3. Grows
    BY <2>2, StoresGrow
  <2>4. enodeStr'.len # NoEnode
    <3>1. writing.field = "enodeStr" => writing.enode # NoEnode
      BY OwnAssumption DEF IInv, EnodeProgress
    <3>2. enodeStr \in [ptr: Own \cup {NoEnode}, len: Own \cup {NoEnode}]
      BY DEF IInv, TypeOK, SharedTypeOK
    <3> QED
      BY <2>1, <2>2, <3>1, <3>2 DEF MonitorStores, StoreHalf, StoreRest, String
  <2> QED
    BY <2>1, <2>3, <2>4 DEF Grows, ServerID, LongEnode
<1> QED
  BY <1>1, Invariance, PTL DEF Spec, IDNeverWithdrawn
===============================================================================
