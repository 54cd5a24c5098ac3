---------------------------- MODULE MCBeaconProxy ----------------------------
(* Model values for TLC: the requests clients send in the runs.               *)
EXTENDS BeaconProxy, TLC

Post(m, p) == [path |-> "/", verb |-> "POST", ctype |-> Json, method |-> m, param |-> p]

Probe == [path |-> "/healthz", verb |-> "GET", ctype |-> "text/plain",
          method |-> "garbage", param |-> "good"]

\* One request for every way through the pipeline.
SampleRequests ==
    { Probe,
      [Probe EXCEPT !.path = "deeper"],
      [Probe EXCEPT !.path = "/call"],
      [Post("engine_newPayloadV1", "good") EXCEPT !.ctype = "text/plain"],
      Post("garbage", "good"),
      Post("eth_syncing", "illTyped"),
      Post("engine_forkchoiceUpdatedV1", "good"),
      Post("eth_getBlockByNumber", "good"),
      Post("eth_getBlockByNumber", "pending") }

\* One that is served and a probe: enough for the questions of the drain.
TwoRequests == {Probe, Post("eth_syncing", "good")}

OneRequest == {Post("eth_syncing", "good")}

\* One that is served and one whose handler panics.
ServedAndPanics == OneRequest \cup {Post("eth_getBlockByNumber", "good")}

ForkchoiceUpdate == {Post("engine_forkchoiceUpdatedV1", "good")}

Symmetry == Permutations(Conns)
===============================================================================
