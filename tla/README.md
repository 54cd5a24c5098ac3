# Formal models of geth-proxy

TLA+ models of the programs in this repository, the TLC runs that check them on
small instances and the TLAPS proofs that hold for every instance.

The repository holds two bodies of code. `cmd/beacon-proxy` with `json-rpc` is a
JSON-RPC server that a consensus client talks to in place of an execution client.
`node-manager` supervises a geth process: it prepares its data directory, polls it
over its IPC socket and keeps it connected to its peers. The proxy does not use
the node manager, and what calls the node manager is in another repository. As
committed the code does not build (`server.go` uses `rpc` without importing it,
`eth_get_block_by_number.go:22` imports a path that is none and line 42 lacks a package
name); the models follow the evident meaning.

## Inventory

| component | source | state | operations | hard part |
|---|---|---|---|---|
| beacon proxy process | `cmd/beacon-proxy/serve.go`, `json-rpc/server.go` | where the main and the Serve goroutine are, the shutter, `httpServer`, exit status, connections | start, listen, signal, shut down, drain, exit | two goroutines race to shut down while requests run |
| request pipeline | `json-rpc/server.go`, `validator.go`, `services` | none | route, force the content type, decode, validate, invoke, answer | hooks registered apart that must act in order |
| geth superviser | `node-manager/geth/superviser.go` | `enodeStr`, `connectedPeers`, `lastBlockSeen` | IPC commands, `setEnodeStr`, `AddPeer`, `EnsurePeersByDNS`, `ServerID`, `lastBlockSeenLogPlugin`, `LastSeenBlockNum` | reads without the mutex the writer takes; geth restarts under it |
| geth monitor | `node-manager/geth/monitoring.go` | its place in the round | four IPC commands in a row | geth dies between two of them |
| bootstrap | `node-manager/geth/bootstrap.go` | the data directory | `Bootstrap` of two kinds | killed at any point; the disk is the only memory |
| transaction pool plugin | `node-manager/trx_pool_log_plugin.go` | the stream server | `LogLine`, `Close` | panics on lines it does not understand; geth dies in the middle of one |
| log transformation | `node-manager/logging.go` | none | rewrite a line | none, and tested |
| JSON codec | `json-rpc/services/codec.go`, `types.go` | the count and the remainder of one write loop | encode, write | short writes, writers that fail |
| configuration | `config/chain_config.go`, `cmd/beacon-proxy/main.go`, `constants.go`, `namer.go`, `types.go` | none | tables, flags, formats | none |

How they interact: the main goroutine of the proxy starts `Server.Serve` and
waits for a signal or for the server's `shutter`; both goroutines may call
`Shutdown`, whose callback drains the HTTP server; the connections are served by
goroutines of `net/http` and see the shutter in `/healthz`. `Monitor` and
`EnsurePeersByDNS` are two goroutines over one `Superviser`: the first writes
`enodeStr` and `connectedPeers` under `infoMutex`, the second reads them without
it; both speak to geth through a fresh IPC connection per command; handlers in other
programs call `ServerID` on goroutines of their own. A third goroutine, of the external
superviser, reads what geth prints and calls the log plugins with each line: one of them stores
`lastBlockSeen`, another one feeds a stream of transactions. `Bootstrap` runs before geth,
and geth finds what it left. The handlers' replies go through the codec to the client.

## Modules

| module | models |
|---|---|
| `JsonRpc` | the pipeline as pure operators on abstract requests: routes, methods with their argument types, decoding, validation, handlers |
| `BeaconProxy` | the process: goroutines, shutter, drain and connections |
| `GracefulService` | the abstract service the process implements |
| `GethNode` | geth as the superviser sees it (environment) |
| `GethSuperviser` | the shared fields, IPC commands, stores in two halves, unlocked reads, `ServerID` |
| `Monitoring` | the `Monitor` loop |
| `PeerEnforcement` | the `EnsurePeersByDNS` loop and `AddPeer` |
| `Supervision` | both loops, and handlers that call `ServerID`, on one geth |
| `DataDir` | the data directory, the process that prepares it and `isBootstrapped` |
| `GenesisBootstrap`, `TarballBootstrap` | the two bootstrappers |
| `Bootstrap` | a directory through any number of starts |
| `OneAttempt` | the abstract bootstrapper both kinds implement |
| `GethOutput` | what one geth after the other prints into the pipe (environment) |
| `LogPlugins` | the last block seen and the transaction stream, line by line |
| `TransactionStream` | the abstract stream the transaction plugin implements |
| `Codec` | one call of `Encode` with its write loop |
| `BeaconProxyProofs`, `SupervisionProofs`, `BootstrapProofs`, `LogPluginsProofs`, `CodecProofs` | theorems about the components |
| `GracefulServiceProofs`, `TransactionStreamProofs` | what may be concluded from two of the abstract specifications |
| `MCBeaconProxy`, `MCSupervision` | values of the constants for TLC |

Operators whose comment says "A bug:" are not part of any specification. Each is
a variant of the operator that follows it, with a fault one could plausibly
introduce in the code; replacing the one by the other makes a property fail, which
`PROJECT.json` records under "mutants".

### The beacon proxy

`main` follows `serveJSONRPCE`, `serve` follows `Server.Serve`, `phase`, `owner`
and `shutErr` are the shutter, `drain` is how far the `OnTerminating` callback is,
on whichever goroutine `owner` says. A connection is "new" or "idle" or has a
request in one of the stages "route", "decode", "validate", "invoke", "write";
`Exit` marks what it cuts off "killed".

External behaviour, from how the code uses it and as of Go 1.19:

* `shutter.Shutdown` runs its callback on the first caller and returns at once to
  every other; `Terminated` is closed when the callback has returned.
* `http.Server.Shutdown` sets its flag, closes the listener, waits for the accept
  loop to end, then polls, closing connections that are idle, or new and silent
  for five seconds, until none is left or the context is over. `ListenAndServe`
  looks at the flag before and after it binds. A connection accepted just before
  the listener was closed is served.
* a panic in a handler is recovered per connection.
* `httpServer` is written by Serve and read by the callback without
  synchronisation: see `SeenHttpServer` for the values a read may find.

Left out: the second signal (on which derr kills the process), the branch of
`Serve` for a failing `zap.NewStdLogAt` (it cannot fail for a valid level), the
rewriting of `r.Method` by the interceptor (nothing reads it), notifications.

### The superviser

The enode of the supervised node is what `setEnodeStr` makes of geth's answer: geth's key, the
address `getIPAddress` finds, and the port 30303. Both may change. Geth comes back with another
`key` when its data directory was replaced between two starts, and a lookup of the local address
may find the other `address`, or none, which counts as a fault. So Monitor stores an enode over the
empty string and over older enodes, and an enode looked up for the supervised node may be one that
is not its own any more when `AddPeer` compares it with the beginning of `enodeStr`. The
comparison is by the first 19 characters, which are the beginning of the key: another address of
the same key is still skipped, an earlier key is not (`Former`; nobody answers for it). A key that is lost
stays lost: putting an old data directory back is not modelled.

A string is two machine words, its pointer and its length, and Go guarantees nothing about a read
that races with a store. `enodeStr` has the enode each of the two words is of; `StoreHalf` and
`StoreRest` are the two stores of one assignment, in either order, and `PeersRead`
gives what a read of the slice of peers may find. A length without characters, and a slice of garbage,
end the process (`crashed = "torn"`); so does a slice expression out of range ("slice"). The
length of one enode with the characters of another one is an ID for `ServerID`, which only asks
whether the string is empty, that is, for its length; a handler that makes use of it may die of
it (`ServeID`), since one of them may be longer. No property excludes "torn": the code does not.
The race itself is recorded as a hazard.

`admin_peers` may leave any connected peer out of the list that is stored: a peer that dialled in is
listed with another port than the text `AddPeer` compares with.

Abstractions: hosts are looked up and enodes added in any order (the code uses the
order of the flag and of DNS answers); small
replies of geth come whole or not at all, a block with its transactions may be cut
at the end of the stream; while geth is "starting" it runs but has no socket yet.
Whether there is a head block callback is the constant `ReportsHead`.

### The bootstrap

The caller of `Bootstrap` is external: it calls it at each start, starts geth on
nil, and is restarted after an error. A kill ends the process and "geth init" with
it. What was written stays: losing unsynced data in a crash of the machine is not
modelled. A panic, such as that of `fileExists` (bootstrap.go:217) on a file that cannot be
examined, is a kill. `misread` remembers that a walk of the directory ended on an error, after
which the code goes on as if nothing had been there. An archive is `Entries` files
with CURRENT in place `Current`; `file[i]` is what is on disk. The comment of
`GenesisBootstrapper` (bootstrap.go:32) also speaks of a static node file; there is
no code for it.

`OneAttempt` says what the caller may rely on, whichever bootstrapper is configured: attempts
change an open directory at will, the one that puts CURRENT there closes it and is the last to
change it, and geth starts when none is at work. `Stage` maps a state to it: "open" without
CURRENT, "closing" when CURRENT is there and the process still between `isBootstrapped` and the
end of `Bootstrap`, else "closed". After a walk that ended on an error nothing is promised (`blind`).

### The log plugins

The lines of one geth after the other reach the plugins through one pipe, in order. A geth
that dies may leave the beginning of a line (`whole = FALSE`), and may come back without
its last blocks; it prints a block before it stores it. `dialect` is the prefix of this build of
geth, "DMLOG" or "FIRE". `lastBlockSeenLogPlugin` parses what is left of a number
(`Beginnings`: some of its digits, for numbers of up to ten) and stores it, or leaves the field
alone when nothing is left.

A transaction line has the fields `TrxText` behind its tag, of which a cut line has some, the
last one perhaps in part. `LogLine` of the transaction plugin splits every line into `Chunks` and has each chunk
decoded by its place (`Decoders`): `Outcomes` says what comes of it. A line without its tag is
ignored. One with another number of fields panics, and so may one with a field that is not of
the decoder's kind, or not all there. When the cut is in the last field, the plugin may also push a
transaction that has part of its input. A panic ends the process. What geth prints is external and
known from this decoder only: the log format has no other description in this repository.
The constants are bounds only. `Close` shuts the stream server down, after which nobody is pushed to.

`TransactionStream` says what a subscriber may rely on, with nothing said of geths, lines or the pipe: each
transaction has its turn in the order in which it entered the pool, and is sent once, unless geth
died while it printed it or the stream had ended. `Waiting` maps the pipe to it: the transactions whose
lines have not been read.

### The codec

`byteWritten`, `buffer` and `out` are the variables of `Encode`, `sink` is what the writer
has got; bytes are told apart by their place. The writer is external and keeps
the contract of `io.Writer`: it takes a beginning of what it is given, which may be
nothing of it, or fails having taken some.

## Runs

| run | what it checks and shows | bounds |
|---|---|---|
| BeaconProxySafety | types, the shutdown protocol (`IInv`), that only a drain out of time cuts requests off, that a failing listener is reported, that replies come out of the whole pipeline and every request that can be served gets one, that the probe is truthful | 2 connections, one request for each way through the pipeline; 63k states |
| BeaconProxyLive | refinement of `GracefulService`; every shutdown ends | 2 connections, a request that is served and one whose handler panics; 13k states |
| BeaconProxyInterrupts | violation: the drain interrupts what takes longer than 15 seconds | 1 connection |
| BeaconProxyForkchoice | violation: engine_forkchoiceUpdatedV1 can not be served | 1 connection |
| SupervisionSafety | types, `IInv`, no short slice, geth told to connect to wanted peers, or at worst to what it was itself before, no IPC connection left open by its command, the ID neither withdrawn nor set back, in the end the one geth has, wanted peers connected in the end | 1 peer, 2 names it and the node itself are behind, 2 addresses, 1 change of the key, 3 faults, hangs allowed; 607k states |
| SupervisionPolling | both loops go on for ever; a report that is not of a block comes after a fault | 1 wanted peer, 2 blocks, 2 faults, 1 address, no hang; 229k states |
| SupervisionHeadReport | violation: a report without hash or time | 1 fault |
| SupervisionHang | violation: one hang stops the peer enforcement | 1 fault |
| BootstrapRestarts | refinement of `OneAttempt`, CURRENT vouches, genesis first, a live chain is kept, a half-written genesis stays, geth comes up | 3 files with CURRENT in the middle, 3 faults; 728 states |
| BootstrapDropsError | violation: geth is started on half an archive | 3 files, 1 fault |
| LogPlugins | the last block seen is never ahead and in the end current, the stream is complete and refines `TransactionStream`, whole lines split and decode so that only cut ones panic, every block is seen | blocks 8 to 10, 3 transactions, 3 lines in the pipe, 2 deaths; 327k states |
| Codec | each byte once and in order, nil means all, `Encode` returns | replies of 0 to 8 bytes, every way to cut them; 212 states |

Why the bounds are enough. Two connections: one that keeps the drain waiting and
one that comes and goes; the process treats connections alike and has no
state that counts them. Three faults in `SupervisionSafety`: a crash that changes the key, a change
of the address and one more while the loops recover. One peer: `AddPeer` takes one enode
at a time, and the two names make it and the node itself come up twice in a round. Two
faults in `SupervisionPolling`: one to make geth forget and one while the loops recover. The head only matters as "the block
asked for is there or not"; with two, Monitor's question may also be about a block that has a successor. Three faults in
`Bootstrap`: an attempt that leaves a part, a second that fails differently, and a kill.
`LogPlugins`: the numbers go from one digit to two, so that a cut makes one smaller; after two deaths there
are lines of three geths in the pipe, of which one re-counts what another one lost; three
transactions, so that one can be cut between two others. `Codec`: eight bytes can be written in up to
eight writes. In `SupervisionSafety` no block is ever imported, since Monitor's head report
touches none of the fields that run is about. The theorems below have none of these bounds.

Fairness. `BeaconProxy`: goroutines are scheduled, the timer of the drain fires, an
accept loop whose listener was closed ends; nothing is assumed of clients, of the
listener or of signals. `Supervision`: both goroutines are scheduled, geth is restarted
(the superviser's job) and gets ready, and geth dials the peers it was told to keep;
peers that connect by themselves, and answers of a geth or a peer that hangs, are not
assumed: `WantedEventuallyConnected` has an exception for what hangs in the end. `Bootstrap`:
the process goes on and is started again. `LogPlugins`: the reader reads what there is;
geth owes nothing. `Codec`: `Encode` goes on, and its writer does not take nothing for ever without an error;
it need never fail.

## What the violations say

* `server.go:109` promises not to interrupt active connections; line 111 gives them 15 seconds.
* `validator.go:32` wants every argument type to have `Validate`;
  `ForkchoiceUpdatedV1Args` has none, alone among the argument types of the registered methods.
* `monitoring.go:75-82` reports what it could read, and not to have been able to read
  it is a hash of "" and the year 1970.
* `superviser.go:204` says "periodically"; neither `http.Get` nor the IPC socket has a deadline.
* `bootstrap.go:158` drops the error of `createChainData`.

Two more things the bootstrap models show without a run of their own. A genesis file
left half-written is never fetched again, so that "geth init" fails for ever: the
exception in `GethComesUp`, and the property `HalfGenesisIsFinal`. "geth init" killed after it made CURRENT and before it wrote
the genesis block is taken for done: the value "opened" in `GethHasGenesis`.

## Proofs

The theorems about the components follow one pattern: an inductive invariant `IInv`, checked by TLC in a
safety run, with a lemma per actor that its steps preserve it. No theorem has a hypothesis besides the
named assumptions on the constants.

* `BeaconProxyProofs`: `IInv` relates the shutter to the two goroutines (`OneShutdown`),
  says where errors come from (`ErrorOrigin`), what each stage of the drain has
  established about listener and connections (`DrainProgress`) and that a drain is skipped only
  when the server was not accepting yet, so that every request there is came late (`SkipIsEarly`). The types alone do not
  give `CleanDrain`: one must know that the accept loop has ended before the polls begin,
  and that nothing but its owner ends the drain. `Refinement` maps each step to a step
  or a stutter of `GracefulService`. `PipelineSound` has an invariant of its own, one
  conjunct per stage; `ServableServed` and `HealthTruth` are parts of it. Assumption: `RequestsAssumption`.

  That a shutdown ends is a liveness property and out of the prover's reach, but the two facts its
  argument rests on are not. `BoundedLife`: `StepsLeft`, a number from 0 to 14, gets
  smaller with every step of main, Serve, the callback or a signal, and only clients, connections and
  unsuccessful polls leave it as it is. `NoDeadlock`: once there is a reason to stop, some
  goroutine can go on until the process has exited. `SomebodyGoesOn` names the guards of the actions that are
  scheduled fairly; it stands for ENABLED, which the prover cannot unfold. With
  the fairness of those actions, the two facts are why `ShutdownCompletes` holds for any number of connections.
* `SupervisionProofs`: `EnodeProgress` is why a check made long ago is still good when
  `AddPeer` slices: Monitor only ever stores an enode, over the empty string or over one of a key that is
  not newer, so a length that is there stays and keys do not go back. `WriteMatches` ties Monitor's place to
  the assignment under way. `IDStays`, an action property, has the same reason, through both stores of an
  assignment (`StoresGrow`). `OnlyWanted` needs to know what the enforcer carries from the lookup to the command
  (`AddsPeers`): an enode of the node itself that passes the comparison is of an older key than the one Monitor
  goes by, and so one geth does not have. `ConnectionsOwned` says that each goroutine closes what it dialled, in whatever state geth is
  then. For `ReportsSpoiled` one must know that the block Monitor asks for is one geth has had since it was asked for its
  number (`AsksForKnown`). Assumptions: `NodeAssumption`, `OwnAssumption` (no
  enode of the supervised node is one of its peers), `HostsAssumption`, `ReportsHeadAssumption`.
* `BootstrapProofs`: `Extraction` says that an extraction only runs in a directory which
  had no CURRENT and that all before the reader's place is complete; `MarkerOrigin` says
  what CURRENT means, and `GenesisOrigin` that a database which geth init has been at began with a whole genesis file. From these
  follow `Vouching`, `GenesisFirst`, the action properties
  `ChainKept` and `HalfGenesis`, and the step of the refinement: a step that changes the directory finds it open, or is the
  one attempt that closes it. Assumptions: `FaultsAssumption`, `EntriesAssumption`.
* `LogPluginsProofs`: `PipeIsTrue` relates the pipe to what geth said and what was pushed,
  `LastWordIsHead` says that the last block line in the pipe is about the head, or that there
  is none and the head was seen; with the pipe empty this is `Current`. What a cut number may be is only used as
  "none larger". `Refinement` maps a transaction printed to `Enter`, a line of one that is read to its turn,
  `Close` to the end of the stream, and the rest to a stutter; a panic is the turn of a cut one. `PanicCause` rests on what `PipeIsTrue` says of a whole line, that it has all
  its fields, and on the lemma `Fields`: they are as many as the chunks, and the decoders are those of the fields.
  That a transaction which made the plugin panic is not in the stream needs the order of the pipe. `StreamOrder`
  is a part of `IInv` that is also stated by itself. Assumption: `OutputAssumption`.
* `CodecProofs`: `LoopInvariant` says that the count, the remainder and what the writer has are one
  cut of the reply. Assumption: `SizeAssumption`, which any bound on the size satisfies.
* `GracefulServiceProofs` and `TransactionStreamProofs` say what the abstract specifications are worth.
  `GraceIsKept`: a client is cut off only when the grace has run out or the door was never sealed, and a sealed door
  lets nobody in. `StreamOfPool`: the stream is increasing, and a transaction it lacks waits, was cut, or
  came up after the end. By the two `Refinement` theorems the same holds of the process and of the plugin.

Only model-checked: the liveness properties (`ShutdownCompletes`, `IDCatchesUp`, `WantedEventuallyConnected`,
`BothKeepPolling`, `GethComesUp`, `EveryBlockSeen`, `EncodeReturns`), which need fairness and
ENABLED; the prover has no rule for them.

## Not modelled

* `node-manager/logging.go`: two pure functions on text, tested case by case in `logging_test.go`.
  A model of them would be a model of regular expressions.
* `config/chain_config.go`: tables. `NetworkNameToChainConfig` has no caller; `ToBstreamBlockRef`
  converts the argument of a call on an executor that is always nil.
* `cmd/beacon-proxy/main.go` and `constants.go`: flags, a delay before the start and a pprof listener that
  shares no state with the rest.
* `node-manager/namer.go`, `types.go`, `superviser.go`, and `MarshalLogObject` and `GetCommand`: formats.
* `json-rpc/services/types.go`: the text of a reply. Replies are one value here.
* The second signal, a signal before the handler is set up (`serve.go:50`), and a crash of the
  machine that loses writes: what happens is up to the runtime or the file system.

What could still be added: what `Monitor` stores compared with what geth said when (a bound on how stale the
list is, in rounds), and larger archives with several kinds of files.
