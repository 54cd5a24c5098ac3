---------------------------- MODULE MCSupervision ----------------------------
(* Model values for TLC: which nodes the wanted names resolve to.             *)
EXTENDS Supervision

CONSTANTS p1, here, there

OnePeer == {p1}

OneAddress == {here}
TwoAddresses == {here, there}

\* A headless service that lists the supervised node among its peers.
OneName == {"peers"}
OneNamePeers == [h \in OneName |-> {p1, Self}]

\* Two names for the same peers, the supervised node among them: its enode is
\* looked up twice in a round and may have changed in between.
TwoNames == {"peers", "boot"}
TwoNamesPeers == [h \in TwoNames |-> {p1, Self}]
===============================================================================
