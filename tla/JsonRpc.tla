------------------------------- MODULE JsonRpc -------------------------------
(****************************************************************************)
(* What the JSON-RPC server of the beacon proxy does with one request, as    *)
(* pure operators: the routes of json-rpc/server.go, the request validation  *)
(* of json-rpc/validator.go and the handlers of json-rpc/services.           *)
(* BeaconProxy interleaves these steps with the life of the process.         *)
(*                                                                           *)
(* A request is a record                                                     *)
(*   path    the route class of the URL      verb    the HTTP verb           *)
(*   ctype   the content type it declares    method  the RPC method it names *)
(*   param   what its parameters decode to                                   *)
(****************************************************************************)

\* Route classes.  "/{token}" is any other single segment, "deeper" any path
\* that none of the patterns match (such as /a/b or a trailing slash).
RpcPaths == {"/", "/{token}", "/call", "/call/{token}",
             "/json-rpc", "/json-rpc/{token}"}

Paths == RpcPaths \cup {"/healthz", "deeper"}

Verbs == {"GET", "POST"}

Json == "application/json"
ContentTypes == {Json, "text/plain"}

\* Where the router sends a request.  The health route comes first and takes
\* every verb, so that "healthz" is never a token; a known path with the wrong
\* verb is a 405, anything else a 404.
Route(r) ==
    CASE r.path = "/healthz"                       -> "health"
      [] r.path \in RpcPaths /\ r.verb = "POST"    -> "rpc"
      [] r.path \in RpcPaths /\ r.verb # "POST"    -> "405"
      [] OTHER                                     -> "404"

\* A bug: a content type that no codec is registered for.
ForceWrongType(r) == [r EXCEPT !.ctype = "json"]

\* The middleware of the RPC routes: whatever the client declared, the RPC
\* server is shown JSON.
ForceJson(r) == [r EXCEPT !.ctype = Json]

\* The argument types of the methods: which interface the server asks about
\* each of them implements.
TransitionConfigurationV1Args == {"Validateable"}
\* A bug: a Validate method that was forgotten.
ExecutionPayloadV1ArgsBare    == {}
ExecutionPayloadV1Args        == {"Validateable"}
ExecutionPayloadV2Args        == {"Validateable"}
ForkchoiceStateV1Args         == {"Validateable"}
ForkchoiceUpdatedV1Args       == {}
PayloadAttributesV1Args       == {"Validateable"}
PayloadAttributesV2Args       == {"Validateable"}
PayloadStatusV1Args           == {"Validateable"}
WithdrawalV1Args              == {"Validateable"}
ChainIdArgs                   == {"Validateable"}
SyncingArgs                   == {"Validateable"}
GetBlockByNumberArgs          == {"Validateable"}

\* The methods RegisterService finds on the two services, with the argument
\* type of each.
EngineService ==
    [engine_exchangeTransitionConfigurationV1 |-> TransitionConfigurationV1Args,
     engine_executionPayLoadV1                |-> ExecutionPayloadV1Args,
     engine_executePayLoadV2                  |-> ExecutionPayloadV2Args,
     engine_forkchoiceStateV1                 |-> ForkchoiceStateV1Args,
     engine_forkchoiceUpdatedV1               |-> ForkchoiceUpdatedV1Args,
     engine_newPayloadV1                      |-> ExecutionPayloadV1Args,
     engine_payloadAttributesV1               |-> PayloadAttributesV1Args,
     engine_payloadAttributesV2               |-> PayloadAttributesV2Args,
     engine_payloadStatusV1                   |-> PayloadStatusV1Args,
     engine_transitionConfigurationV1         |-> TransitionConfigurationV1Args,
     engine_withdrawalV1                      |-> WithdrawalV1Args]

EthService ==
    [eth_chainId          |-> ChainIdArgs,
     eth_syncing          |-> SyncingArgs,
     eth_getBlockByNumber |-> GetBlockByNumberArgs]

Methods == DOMAIN EngineService \cup DOMAIN EthService

ArgsOf(m) == IF m \in DOMAIN EngineService THEN EngineService[m] ELSE EthService[m]

\* "garbage" stands for a body that is not JSON-RPC at all, "other" for a
\* method that no service has.
MethodNames == Methods \cup {"garbage", "other"}

\* "pending" is the one block reference GetBlockByNumber tells apart;
\* "illTyped" parameters do not decode into the argument type.
Params == {"good", "pending", "illTyped"}

AllRequests == [path: Paths, verb: Verbs, ctype: ContentTypes,
                method: MethodNames, param: Params]

\* A bug: a decoding error that is dropped.
DecodeAnyParams(r) ==
    CASE r.ctype # Json                                  -> "415"
      [] r.ctype = Json /\ r.method \notin Methods       -> "rpcError"
      [] OTHER                                           -> "decoded"

\* The RPC server up to the point where the arguments are decoded: the codec
\* is chosen by content type, then the method is looked up, then the
\* parameters are read.
Decode(r) ==
    CASE r.ctype # Json                                  -> "415"
      [] r.ctype = Json /\ r.method \notin Methods       -> "rpcError"
      [] r.ctype = Json /\ r.method \in Methods
                        /\ r.param = "illTyped"          -> "rpcError"
      [] OTHER                                           -> "decoded"

\* Validation only asks whether the argument type has a Validate method; the
\* method itself is never called.
ValidateRequest(r) == "Validateable" \in ArgsOf(r.method)

\* The handlers.  Every engine method and two of the three eth methods answer
\* with a reply; GetBlockByNumber refuses "pending" and calls the executor,
\* which NewEthService leaves nil, on anything else: a panic, on which
\* net/http drops the connection without an answer.
Handler(r) ==
    CASE r.method # "eth_getBlockByNumber"                        -> "reply"
      [] r.method = "eth_getBlockByNumber" /\ r.param = "pending" -> "rpcError"
      [] OTHER                                                    -> "panic"

\* What a client can be told.
Answers == {"ok", "503", "404", "405", "415", "rpcError", "notValidateable", "reply"}
===============================================================================
