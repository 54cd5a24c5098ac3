------------------------------ MODULE LogPlugins ------------------------------
(****************************************************************************)
(* The log plugins of node-manager, which the goroutine that reads geth's    *)
(* output calls with each line: lastBlockSeenLogPlugin of geth/superviser.go *)
(* and trx_pool_log_plugin.go.  The third one, which passes lines on to a    *)
(* logger or to the console, keeps no state and is left out.                 *)
(****************************************************************************)
EXTENDS GethOutput

VARIABLES
    lastBlockSeen,  \* the superviser's field
    pushed,         \* transactions handed to the subscribers of the stream server
    closed,         \* was the plugin closed?
    panicked        \* has a plugin taken the process down?

pluginVars == <<lastBlockSeen, pushed, closed, panicked>>
vars == <<gethVars, pluginVars>>

Init ==
    /\ OutputInit
    /\ lastBlockSeen = 0
    /\ pushed = <<>>
    /\ closed = FALSE
    /\ panicked = FALSE

\* A bug: a second prefix that was forgotten.
KnowsOnlyDMLOG(line) == line.prefix = "DMLOG"

\* Both plugins go by either prefix.
Known(line) == line.prefix \in {"DMLOG", "FIRE"}

\* What a decimal number, of ten digits at most, becomes when its last digits,
\* or none of them, are cut off.
Beginnings(n) == {m \in 1..n : \E k \in 0..9 : m = n \div 10^k}

\* A bug: reading the number as hexadecimal, as hex2uint does (here of two digits).
HexNumbers(line) == {((line.num \div 10) * 16) + (line.num % 10)}

\* What ParseUint makes of what is behind the tag; an error, which leaves
\* lastBlockSeen alone, is the last of the possible outcomes.
BlockNumbers(line) ==
    IF line.whole THEN {line.num} ELSE Beginnings(line.num) \cup {lastBlockSeen}

\* A bug: never going back, although geth may.
SeesHigher(line) ==
    IF Known(line) /\ IsBlock(line)
    THEN \E n \in BlockNumbers(line) : lastBlockSeen' = IF n > lastBlockSeen THEN n ELSE lastBlockSeen
    ELSE UNCHANGED lastBlockSeen

lastBlockSeenLogPlugin(line) ==
    IF Known(line) /\ IsBlock(line)
    THEN lastBlockSeen' \in BlockNumbers(line)
    ELSE UNCHANGED lastBlockSeen

\* What LastSeenBlockNum gives, on any goroutine: the field is one word.
LastSeenBlockNum == lastBlockSeen

\* SplitInChunks(line, 12), the tag being the first of them.
Chunks == 12

\* A bug: the gas price and the nonce the other way round.
DecodersSwapped ==
    <<"hex", "hex", "hex", "hex", "hex", "hex", "hex", "dec", "dec", "hex", "hex">>

\* What readPoolTrxBegin decodes the other chunks from: FromHex takes "hex",
\* FromUint64 takes "dec".
Decoders ==
    <<"hex", "hex", "hex", "hex", "hex", "hex", "hex", "dec", "hex", "dec", "hex">>

\* A line without its tag is not looked at.  SplitInChunks wants the number of
\* chunks, and each of them is decoded; whatever fails panics.  A number of the
\* other kind, and a beginning of one, may decode or not: so part of the input
\* is a transaction with part of its input, or a panic.
Outcomes(line) ==
    CASE line.fields = 0                  -> {"ignore"}
      [] line.fields \notin {0, Chunks}   -> {"panic"}
      [] line.fields = Chunks ->
            IF line.whole /\ Decoders = TrxText THEN {"push"} ELSE {"push", "panic"}

\* A bug: a stream server that goes on after it was shut down.
PushAlways(t) == pushed' = Append(pushed, t)

\* A stream server that was shut down has no subscribers any more.
PushTransaction(t) == IF closed THEN UNCHANGED pushed ELSE pushed' = Append(pushed, t)

\* LogLine of TrxPoolLogPlugin.
LogLine(line) ==
    IF Known(line) /\ IsTrx(line)
    THEN \E result \in Outcomes(line) :
            /\ IF result = "push" THEN PushTransaction(line.num) ELSE UNCHANGED pushed
            /\ panicked' = (result = "panic")
    ELSE UNCHANGED <<pushed, panicked>>

ReadLine ==
    /\ out # <<>>
    /\ lastBlockSeenLogPlugin(Head(out))
    /\ LogLine(Head(out))
    /\ out' = Tail(out)
    /\ UNCHANGED <<dialect, running, head, printed, top, entered, cutTrx, deaths, closed>>

\* The superviser shuts down; lines may still be read after that.
Close ==
    /\ ~closed
    /\ closed' = TRUE
    /\ UNCHANGED <<gethVars, lastBlockSeen, pushed, panicked>>

\* The process is gone, or geth has come to its bounds and everything is read.
Stopped ==
    /\ panicked \/ (out = <<>> /\ running /\ head = MaxHead /\ entered = MaxTrx)
    /\ UNCHANGED vars

Next ==
    \/ ~panicked /\ GethStep /\ UNCHANGED pluginVars
    \/ ~panicked /\ ReadLine
    \/ ~panicked /\ Close
    \/ Stopped

Spec == Init /\ [][Next]_vars

\* The reader reads what there is.
FairSpec == Spec /\ WF_vars(~panicked /\ ReadLine)

-------------------------------------------------------------------------------
(* Properties                                                                 *)

TypeOK ==
    /\ dialect \in {"DMLOG", "FIRE"}
    /\ running \in BOOLEAN
    /\ head \in First..MaxHead
    /\ printed \in BOOLEAN
    /\ top \in First..MaxHead
    /\ entered \in 0..MaxTrx
    /\ cutTrx \subseteq 1..entered
    /\ out \in Seq(Line)
    /\ deaths \in 0..MaxDeaths
    /\ lastBlockSeen \in 0..MaxHead
    /\ pushed \in Seq(1..MaxTrx)
    /\ closed \in BOOLEAN
    /\ panicked \in BOOLEAN

\* LastSeenBlockNum is never a block that geth has not come to, although it may
\* be read out of the part of a line that a dying geth left: a cut makes a
\* number smaller and never larger.
LastSeenNeverAhead == LastSeenBlockNum <= top

\* When everything is read, LastSeenBlockNum is the block geth is at: also when
\* it died, lost blocks and counts them again, and when what it left was cut;
\* as soon as the one that runs now has finalised a block.
DrainedMeansCurrent == printed /\ out = <<>> => LastSeenBlockNum = head

\* The stream has the transactions in the order they entered the pool, none twice.
PushedInOrder == \A i, j \in DOMAIN pushed : i < j => pushed[i] < pushed[j]

Pushed(t) == \E i \in DOMAIN pushed : pushed[i] = t
InPipe(t) == \E i \in DOMAIN out : IsTrx(out[i]) /\ out[i].num = t

\* Only a cut or the end of the plugin keeps a transaction from the stream.
NoneLost ==
    ~panicked /\ ~closed => \A t \in (1..entered) \ cutTrx : Pushed(t) \/ InPipe(t)

\* A line that geth printed to its end never takes the process down: the twelve
\* fields are there and each is what it is decoded from.  What does is a
\* transaction that was cut, and it is not in the stream.
PanicsOnlyOnCut == panicked => \E t \in cutTrx : ~Pushed(t) /\ ~InPipe(t)

\* What the pipe holds is what geth said, and not yet pushed.
PipeIsTrue ==
    /\ \A i \in DOMAIN out :
          /\ IsBlock(out[i]) => out[i].num <= top
          /\ IsTrx(out[i]) =>
                /\ out[i].num \in 1..entered
                /\ IF out[i].whole THEN out[i].fields = TrxFields ELSE out[i].num \in cutTrx
    /\ \A i, j \in DOMAIN out : i < j /\ IsTrx(out[i]) /\ IsTrx(out[j]) => out[i].num < out[j].num
    /\ \A i \in DOMAIN pushed :
          /\ pushed[i] <= entered
          /\ \A j \in DOMAIN out : IsTrx(out[j]) => pushed[i] < out[j].num

\* The last block line in the pipe, if there is one, is about the head.
LastWordIsHead ==
    printed =>
        \/ lastBlockSeen = head /\ \A i \in DOMAIN out : ~IsBlock(out[i])
        \/ \E i \in DOMAIN out :
              /\ IsBlock(out[i]) /\ out[i].whole /\ out[i].num = head
              /\ \A j \in DOMAIN out : j > i => ~IsBlock(out[j])

\* The inductive invariant behind the theorems of LogPluginsProofs.
IInv ==
    /\ TypeOK /\ LastSeenNeverAhead /\ PushedInOrder /\ NoneLost /\ PanicsOnlyOnCut
    /\ PipeIsTrue /\ LastWordIsHead

\* The transactions whose lines are in the pipe.
Waiting == {out[i].num : i \in {j \in DOMAIN out : IsTrx(out[j])}}

Promise ==
    INSTANCE TransactionStream WITH pool <- entered, cut <- cutTrx, waiting <- Waiting,
                                    stream <- pushed, ended <- closed

\* Geth's pipe and the plugin at its end keep the promise of TransactionStream,
\* step by step, through deaths of geth, cut lines, panics and the shutdown.
IsStream == Promise!Spec

\* Every block that geth finalises is the last one seen at some time after,
\* unless a plugin has panicked before it was read.
EveryBlockSeen ==
    \A n \in First..MaxHead :
        printed /\ head = n ~> LastSeenBlockNum = n \/ panicked
===============================================================================
