--------------------------- MODULE PeerEnforcement ---------------------------
(****************************************************************************)
(* The EnsurePeersByDNS goroutine of node-manager/geth/superviser.go: every  *)
(* ten seconds it looks up the wanted hosts, asks each address for its enode *)
(* over HTTP, and has geth add the ones that are neither connected nor       *)
(* itself.                                                                   *)
(****************************************************************************)
EXTENDS GethSuperviser

CONSTANTS
    Hostnames,   \* the wanted host names
    HostPeers,   \* the nodes behind each name
    Self         \* stands for the supervised node there, which may be among them

ASSUME HostsAssumption ==
    /\ Self \notin Peers
    /\ HostPeers \in [Hostnames -> SUBSET (Peers \cup {Self})]

VARIABLES
    enforcer,    \* "sleep" | "lookup" | "add" | "addPeer" | "stuck"
    hosts,       \* names not looked up yet in this round
    allEnodes,   \* enodes still to be added in this round
    adding       \* the one AddPeer is sending

enforcerVars == <<enforcer, hosts, allEnodes, adding>>

Nobody == NoEnode

EnforcerInit ==
    /\ enforcer = "sleep"
    /\ hosts = {}
    /\ allEnodes = {}
    /\ adding = Nobody

EnforcerTypeOK ==
    /\ enforcer \in {"sleep", "lookup", "add", "addPeer", "stuck"}
    /\ hosts \subseteq Hostnames
    /\ allEnodes \subseteq Peers \cup Own
    /\ adding \in Peers \cup Own \cup {Nobody}

\* A round needs a running node whose enode is known; the length of the string
\* is read without the mutex.
EnforcerWakes ==
    /\ enforcer = "sleep"
    /\ Running
    /\ LongEnode
    /\ enforcer' = "lookup"
    /\ hosts' = Hostnames
    /\ allEnodes' = {}
    /\ UNCHANGED <<node, link, key, head, peers, static, faults, shared, adding>>

\* What the supervised node answers for itself: its ServerID, if there is one.
\* Between two stores its address may not be whole, but its key is the pointer's.
OwnAnswer == IF ServerID = "id" THEN {enodeStr.ptr} ELSE {}

\* getEnodesFromPeers: addresses that cannot be looked up, do not answer or
\* answer something else are left out, which counts as a fault.
LookUp(h) ==
    /\ enforcer = "lookup"
    /\ h \in hosts
    /\ \E found \in SUBSET HostPeers[h] :
          /\ IF found = HostPeers[h] THEN UNCHANGED faults ELSE Fault
          /\ allEnodes' = allEnodes \cup (found \ {Self})
                                    \cup (IF Self \in found THEN OwnAnswer ELSE {})
    /\ hosts' = hosts \ {h}
    /\ UNCHANGED <<node, link, key, head, peers, static, shared, enforcer, adding>>

\* http.Get has no timeout: a peer that accepts and never answers keeps the
\* goroutine for ever.
PeerNeverAnswers ==
    /\ MayHang
    /\ Fault
    /\ enforcer = "lookup"
    /\ hosts # {}
    /\ enforcer' = "stuck"
    /\ UNCHANGED <<node, link, key, head, peers, static, shared, hosts, allEnodes, adding>>

LookedUp ==
    /\ enforcer = "lookup"
    /\ hosts = {}
    /\ enforcer' = "add"
    /\ UNCHANGED <<node, link, key, head, peers, static, faults, shared, hosts, allEnodes, adding>>

\* A bug: an AddPeer that knows itself by its whole enode.
SkippedIfSame(e, seen) == e \in seen \cup {enodeStr.ptr}

\* strings.Contains over the connected peers and the first 19 characters of the
\* own enode, which are the beginning of its key.
Skipped(e, seen) == e \in seen \/ (e \in Own /\ e.key = enodeStr.ptr.key)

\* AddPeer, up to the command: the slice of connected peers and the beginning of
\* the own enode, both read without the mutex.
AddPeerChecks(e) ==
    /\ enforcer = "add"
    /\ e \in allEnodes
    /\ \E seen \in PeersRead :
          \/ /\ seen = Torn \/ ServerID = "torn"
             /\ crashed' = "torn"
             /\ UNCHANGED enforcerVars
          \/ /\ ~LongEnode
             /\ crashed' = "slice"
             /\ UNCHANGED enforcerVars
          \/ /\ seen # Torn /\ ServerID = "id" /\ Skipped(e, seen)
             /\ allEnodes' = allEnodes \ {e}
             /\ UNCHANGED <<crashed, enforcer, hosts, adding>>
          \/ /\ seen # Torn /\ ServerID = "id" /\ ~Skipped(e, seen)
             /\ adding' = e
             /\ enforcer' = "addPeer"
             /\ UNCHANGED <<crashed, hosts, allEnodes>>
    /\ UNCHANGED <<node, link, key, head, peers, static, faults, address, enodeStr,
                   connectedPeers, writing>>

AddPeerDials ==
    /\ enforcer = "addPeer"
    /\ Dial("enforcer")
    /\ UNCHANGED <<node, key, head, peers, static, faults, shared, enforcerVars>>

\* Errors, and replies without a true result, are only logged.
AddPeerReturns ==
    /\ enforcer = "addPeer"
    /\ \E res \in Results("enforcer") :
          static' = IF res = "answer" THEN static \cup {adding} ELSE static
    /\ Return("enforcer")
    /\ allEnodes' = allEnodes \ {adding}
    /\ adding' = Nobody
    /\ enforcer' = "add"
    /\ UNCHANGED <<node, key, head, peers, faults, shared, hosts>>

RoundEnds ==
    /\ enforcer = "add"
    /\ allEnodes = {}
    /\ enforcer' = "sleep"
    /\ UNCHANGED <<node, link, key, head, peers, static, faults, shared, hosts, allEnodes, adding>>

EnforcerStep ==
    \/ EnforcerWakes \/ LookedUp \/ AddPeerDials \/ AddPeerReturns \/ RoundEnds
    \/ \E h \in Hostnames : LookUp(h)
    \/ \E e \in Peers \cup Own : AddPeerChecks(e)
===============================================================================
