--------------------------- MODULE LogPluginsProofs ---------------------------
(****************************************************************************)
(* What holds of LogPlugins for chains of any length, any number of          *)
(* transactions and a pipe of any size, however often geth dies.             *)
(*                                                                           *)
(* Each action is first reduced to what it does to the pipe (a line more at  *)
(* its end, or one less at its front); the conjuncts of IInv follow.         *)
(****************************************************************************)
EXTENDS LogPlugins, TLAPS

USE OutputAssumption

\* A pipe with a line more at its end.
LEMMA Longer ==
    ASSUME NEW s \in Seq(Line), NEW x \in Line
    PROVE  /\ Append(s, x) \in Seq(Line)
           /\ DOMAIN Append(s, x) = 1..(Len(s) + 1)
           /\ DOMAIN s = 1..Len(s)
           /\ \A i \in 1..Len(s) : Append(s, x)[i] = s[i]
           /\ Append(s, x)[Len(s) + 1] = x
           /\ Len(s) \in Nat
OBVIOUS

\* A pipe without its first line.
LEMMA Shorter ==
    ASSUME NEW s \in Seq(Line), s # <<>>
    PROVE  /\ Tail(s) \in Seq(Line)
           /\ Head(s) = s[1]
           /\ Head(s) \in Line
           /\ Len(s) \in Nat \ {0}
           /\ DOMAIN s = 1..Len(s)
           /\ DOMAIN Tail(s) = 1..(Len(s) - 1)
           /\ \A i \in 1..(Len(s) - 1) : Tail(s)[i] = s[i + 1]
OBVIOUS

\* A cut never makes a number larger, and what cannot be read changes nothing.
LEMMA NumbersBounded ==
    ASSUME NEW line \in Line, NEW n \in BlockNumbers(line)
    PROVE  n = lastBlockSeen \/ (n \in Nat /\ n <= line.num)
BY DEF BlockNumbers, Beginnings, Line

\* A transaction line has the fields that the plugin looks for.
LEMMA Fields ==
    /\ TrxFields = Chunks /\ Decoders = TrxText
    /\ TrxFields \in Nat \ {0} /\ 0..TrxFields \subseteq Nat
<1>1. Len(TrxText) = 11
  BY DEF TrxText
<1>2. Decoders = TrxText
  BY DEF TrxText, Decoders
<1> QED
  BY <1>1, <1>2 DEF TrxFields, Chunks

\* In every state of LogPlugins the line geth prints next is one.
LEMMA LineTypes ==
    ASSUME TypeOK, NEW n \in Nat, NEW whole \in BOOLEAN
    PROVE  /\ BlockLine(n, whole) \in Line
           /\ \A fields \in Nat : TrxLine(n, whole, fields) \in Line
BY DEF TypeOK, BlockLine, TrxLine, Line

\* A geth that starts, or dies between two lines, leaves the pipe alone.
LEMMA PipeUnchanged ==
    ASSUME IInv, TypeOK',
           UNCHANGED <<out, top, entered, cutTrx, pluginVars>>,
           printed' => printed /\ UNCHANGED head
    PROVE  IInv'
<1>1. LastSeenNeverAhead' /\ PushedInOrder' /\ PanicsOnlyOnCut'
  BY DEF IInv, LastSeenNeverAhead, LastSeenBlockNum, PushedInOrder, PanicsOnlyOnCut, Pushed, InPipe,
         IsTrx, pluginVars
<1>2. NoneLost' /\ PipeIsTrue'
  BY DEF IInv, NoneLost, PipeIsTrue, Pushed, InPipe, IsTrx, IsBlock, pluginVars
<1>3. LastWordIsHead'
  BY DEF IInv, LastWordIsHead, IsBlock, pluginVars
<1> QED
  BY <1>1, <1>2, <1>3 DEF IInv

\* A block printed is the highest one so far, or one printed again.
LEMMA BlockPrinted ==
    ASSUME IInv, TypeOK', ~panicked, NEW whole \in BOOLEAN, PrintsBlock(whole),
           UNCHANGED <<entered, cutTrx, pluginVars>>,
           IF whole THEN head' = head + 1 ELSE ~printed'
    PROVE  IInv'
<1> DEFINE x == BlockLine(head + 1, whole)
<1>1. /\ out \in Seq(Line) /\ x \in Line
      /\ head \in Nat /\ top \in Nat /\ lastBlockSeen \in Nat /\ top' \in Nat
      /\ out' = Append(out, x)
      /\ x.num = head + 1 /\ x.whole = whole /\ IsBlock(x) /\ ~IsTrx(x)
  BY LineTypes DEF IInv, TypeOK, PrintsBlock, BlockLine, IsBlock, IsTrx
<1>2. head + 1 <= top' /\ top <= top'
  BY <1>1 DEF PrintsBlock, HigherTop
<1> HIDE DEF x
<1>3. /\ DOMAIN out' = 1..(Len(out) + 1)
      /\ DOMAIN out = 1..Len(out)
      /\ \A i \in 1..Len(out) : out'[i] = out[i]
      /\ out'[Len(out) + 1] = x
      /\ Len(out) \in Nat
  BY <1>1, Longer
<1>4. LastSeenNeverAhead' /\ PushedInOrder' /\ PanicsOnlyOnCut'
  BY <1>1, <1>2 DEF IInv, LastSeenNeverAhead, LastSeenBlockNum, PushedInOrder, PanicsOnlyOnCut,
                    pluginVars
<1>5. NoneLost'
  BY <1>1, <1>3 DEF IInv, NoneLost, Pushed, InPipe, IsTrx, pluginVars
<1>6. PipeIsTrue'
  <2>1. \A i \in DOMAIN out' :
          /\ IsBlock(out'[i]) => out'[i].num <= top'
          /\ IsTrx(out'[i]) =>
                /\ out'[i].num \in 1..entered
                /\ IF out'[i].whole THEN out'[i].fields = TrxFields ELSE out'[i].num \in cutTrx
    <3>1. ASSUME NEW i \in 1..Len(out)
          PROVE  /\ IsBlock(out[i]) => out[i].num <= top'
                 /\ IsTrx(out[i]) =>
                       /\ out[i].num \in 1..entered
                       /\ IF out[i].whole THEN out[i].fields = TrxFields ELSE out[i].num \in cutTrx
      <4>1. out[i].num \in Nat
        <5>1. out[i] \in Line
          BY <1>1
        <5> QED
          BY <5>1 DEF Line
      <4>2. IsBlock(out[i]) => out[i].num <= top
        BY <1>3 DEF IInv, PipeIsTrue
      <4>3. IsBlock(out[i]) => out[i].num <= top'
        BY <1>1, <1>2, <4>1, <4>2
      <4> QED
        BY <1>3, <4>3 DEF IInv, PipeIsTrue
    <3> QED
      BY <1>1, <1>2, <1>3, <3>1
  <2>2. \A i, j \in DOMAIN out' :
          i < j /\ IsTrx(out'[i]) /\ IsTrx(out'[j]) => out'[i].num < out'[j].num
    BY <1>1, <1>3 DEF IInv, PipeIsTrue
  <2>3. \A i \in DOMAIN pushed :
          /\ pushed[i] <= entered
          /\ \A j \in DOMAIN out' : IsTrx(out'[j]) => pushed[i] < out'[j].num
    BY <1>1, <1>3 DEF IInv, PipeIsTrue
  <2> QED
    BY <2>1, <2>2, <2>3 DEF PipeIsTrue, IsBlock, IsTrx, pluginVars
<1>7. LastWordIsHead'
  BY <1>1, <1>3 DEF LastWordIsHead, IsBlock
<1> QED
  BY <1>4, <1>5, <1>6, <1>7 DEF IInv

\* A transaction printed is one that no line before it was about.
LEMMA TrxPrinted ==
    ASSUME IInv, TypeOK', ~panicked, NEW whole \in BOOLEAN, NEW fields \in Nat,
           PrintsTrx(whole, fields), whole => fields = TrxFields,
           UNCHANGED <<top, pluginVars>>,
           cutTrx' = IF whole THEN cutTrx ELSE cutTrx \cup {entered + 1},
           printed' => printed /\ UNCHANGED head
    PROVE  IInv'
<1> DEFINE x == TrxLine(entered + 1, whole, fields)
<1>1. /\ out \in Seq(Line) /\ x \in Line
      /\ entered \in Nat /\ entered' = entered + 1
      /\ cutTrx \subseteq 1..entered
      /\ pushed \in Seq(1..MaxTrx)
      /\ out' = Append(out, x)
      /\ x.num = entered + 1 /\ x.whole = whole /\ x.fields = fields
      /\ IsTrx(x) /\ ~IsBlock(x)
  BY LineTypes DEF IInv, TypeOK, PrintsTrx, TrxLine, IsBlock, IsTrx
<1> HIDE DEF x
<1>3. /\ DOMAIN out' = 1..(Len(out) + 1)
      /\ DOMAIN out = 1..Len(out)
      /\ \A i \in 1..Len(out) : out'[i] = out[i]
      /\ out'[Len(out) + 1] = x
      /\ Len(out) \in Nat
  BY <1>1, Longer
<1>4. LastSeenNeverAhead' /\ PushedInOrder' /\ PanicsOnlyOnCut'
  BY <1>1 DEF IInv, LastSeenNeverAhead, LastSeenBlockNum, PushedInOrder, PanicsOnlyOnCut,
              pluginVars
<1>5. NoneLost'
  <2>1. SUFFICES ASSUME ~panicked, ~closed, NEW t \in (1..entered') \ cutTrx'
                 PROVE  Pushed(t)' \/ InPipe(t)'
    BY DEF NoneLost, pluginVars
  <2>2. CASE t = entered + 1
    <3>1. Len(out) + 1 \in DOMAIN out' /\ IsTrx(out'[Len(out) + 1]) /\ out'[Len(out) + 1].num = t
      BY <1>1, <1>3, <2>2
    <3> QED
      BY <3>1 DEF InPipe, IsTrx
  <2>3. CASE t # entered + 1
    <3>1. t \in (1..entered) \ cutTrx
      BY <1>1, <2>3
    <3>2. Pushed(t) \/ InPipe(t)
      BY <2>1, <3>1 DEF IInv, NoneLost
    <3> QED
      BY <1>3, <3>2 DEF Pushed, InPipe, pluginVars
  <2> QED
    BY <2>2, <2>3
<1>6. PipeIsTrue'
  <2>1. \A i \in DOMAIN out' :
          /\ IsBlock(out'[i]) => out'[i].num <= top
          /\ IsTrx(out'[i]) =>
                /\ out'[i].num \in 1..entered'
                /\ IF out'[i].whole THEN out'[i].fields = TrxFields ELSE out'[i].num \in cutTrx'
    BY <1>1, <1>3 DEF IInv, PipeIsTrue
  <2>2. \A i, j \in DOMAIN out' :
          i < j /\ IsTrx(out'[i]) /\ IsTrx(out'[j]) => out'[i].num < out'[j].num
    BY <1>1, <1>3 DEF IInv, PipeIsTrue
  <2>3. \A i \in DOMAIN pushed :
          /\ pushed[i] <= entered'
          /\ \A j \in DOMAIN out' : IsTrx(out'[j]) => pushed[i] < out'[j].num
    <3>1. \A i \in DOMAIN pushed : pushed[i] \in Nat
      BY <1>1
    <3> QED
      BY <1>1, <1>3, <3>1 DEF IInv, PipeIsTrue
  <2> QED
    BY <2>1, <2>2, <2>3 DEF PipeIsTrue, IsBlock, IsTrx, pluginVars
<1>7. LastWordIsHead'
  <2>1. SUFFICES ASSUME printed, UNCHANGED head PROVE LastWordIsHead'
    BY DEF LastWordIsHead
  <2>2. CASE lastBlockSeen = head /\ \A i \in DOMAIN out : ~IsBlock(out[i])
    <3>1. ASSUME NEW i \in DOMAIN out' PROVE ~IsBlock(out'[i])
      <4>1. CASE i = Len(out) + 1
        BY <1>1, <1>3, <4>1
      <4>2. CASE i # Len(out) + 1
        BY <1>3, <2>2, <4>2
      <4> QED
        BY <4>1, <4>2
    <3> QED
      BY <2>1, <2>2, <3>1 DEF LastWordIsHead, IsBlock, pluginVars
  <2>3. ASSUME NEW i \in DOMAIN out, IsBlock(out[i]), out[i].whole, out[i].num = head,
               \A j \in DOMAIN out : j > i => ~IsBlock(out[j])
        PROVE  LastWordIsHead'
    <3>1. \A j \in DOMAIN out' : j > i => ~IsBlock(out'[j])
      BY <1>1, <1>3, <2>3
    <3> QED
      BY <1>3, <2>1, <2>3, <3>1 DEF LastWordIsHead, IsBlock
  <2> QED
    BY <2>1, <2>2, <2>3 DEF IInv, LastWordIsHead
<1> QED
  BY <1>4, <1>5, <1>6, <1>7 DEF IInv

\* What reading does to lastBlockSeen.  A whole block line sets it; any other
\* line leaves it alone, or sets it to something no larger than the number cut.
LEMMA ReaderSees ==
    ASSUME IInv, TypeOK', ReadLine
    PROVE  /\ LastSeenNeverAhead'
           /\ ~IsBlock(out[1]) => UNCHANGED lastBlockSeen
           /\ IsBlock(out[1]) /\ out[1].whole => lastBlockSeen' = out[1].num
<1>1. out \in Seq(Line) /\ out # <<>> /\ lastBlockSeenLogPlugin(Head(out)) /\ UNCHANGED top
  BY DEF IInv, TypeOK, ReadLine
<1>2. Head(out) = out[1] /\ out[1] \in Line /\ 1 \in DOMAIN out
  BY <1>1, Shorter
<1>3. Known(out[1])
  BY <1>2 DEF Known, Line
<1>4. IF IsBlock(out[1]) THEN lastBlockSeen' \in BlockNumbers(out[1]) ELSE UNCHANGED lastBlockSeen
  BY <1>1, <1>2, <1>3 DEF lastBlockSeenLogPlugin
<1>5. IsBlock(out[1]) /\ out[1].whole => lastBlockSeen' = out[1].num
  BY <1>4 DEF BlockNumbers
<1>6. LastSeenNeverAhead'
  <2>1. lastBlockSeen <= top /\ top \in Nat /\ lastBlockSeen \in Nat /\ out[1].num \in Nat
    BY <1>2 DEF IInv, TypeOK, LastSeenNeverAhead, LastSeenBlockNum, Line
  <2>2. CASE IsBlock(out[1])
    <3>1. out[1].num <= top
      BY <1>2, <2>2 DEF IInv, PipeIsTrue
    <3>2. lastBlockSeen' = lastBlockSeen \/ (lastBlockSeen' \in Nat /\ lastBlockSeen' <= out[1].num)
      BY <1>2, <1>4, <2>2, NumbersBounded
    <3>3. lastBlockSeen' <= top
      BY <2>1, <3>1, <3>2
    <3> QED
      BY <1>1, <3>3 DEF LastSeenNeverAhead, LastSeenBlockNum
  <2>3. CASE ~IsBlock(out[1])
    BY <1>1, <1>4, <2>1, <2>3 DEF LastSeenNeverAhead, LastSeenBlockNum
  <2> QED
    BY <2>2, <2>3
<1> QED
  BY <1>4, <1>5, <1>6

\* What reading does to the stream: a transaction that was not cut splits into
\* the chunks there should be, decodes, and goes there unless the plugin was
\* closed; what panics was cut.
LEMMA ReaderPushes ==
    ASSUME IInv, ~panicked, ReadLine
    PROVE  /\ pushed' = pushed \/ (IsTrx(out[1]) /\ pushed' = Append(pushed, out[1].num))
           /\ panicked' => IsTrx(out[1]) /\ ~out[1].whole /\ pushed' = pushed
           /\ IsTrx(out[1]) /\ out[1].whole /\ ~closed => pushed' = Append(pushed, out[1].num)
<1>1. out \in Seq(Line) /\ out # <<>> /\ LogLine(Head(out))
  BY DEF IInv, TypeOK, ReadLine
<1>2. Head(out) = out[1] /\ Known(out[1]) /\ 1 \in DOMAIN out
  BY <1>1, Shorter DEF Known, Line
<1>3. CASE IsTrx(out[1])
  <2>1. PICK result \in Outcomes(out[1]) :
          /\ IF result = "push" THEN PushTransaction(out[1].num) ELSE UNCHANGED pushed
          /\ panicked' = (result = "panic")
    BY <1>1, <1>2, <1>3 DEF LogLine
  <2>2. CASE out[1].whole
    <3>1. out[1].fields = Chunks /\ out[1].fields # 0
      BY <1>2, <1>3, <2>2, Fields DEF IInv, PipeIsTrue
    <3>2. result = "push"
      BY <2>1, <2>2, <3>1, Fields DEF Outcomes
    <3> QED
      BY <1>3, <2>1, <2>2, <3>2 DEF PushTransaction
  <2>3. CASE ~out[1].whole
    BY <1>3, <2>1, <2>3 DEF PushTransaction
  <2> QED
    BY <2>2, <2>3
<1>4. CASE ~IsTrx(out[1])
  BY <1>1, <1>2, <1>4 DEF LogLine
<1> QED
  BY <1>3, <1>4

\* A line read is one less to come, and what comes is later than what it said.
LEMMA LineRead == ASSUME IInv, TypeOK', ~panicked, ReadLine PROVE IInv'
<1>1. /\ out \in Seq(Line) /\ out # <<>> /\ out' = Tail(out)
      /\ UNCHANGED <<head, printed, top, entered, cutTrx, closed>>
      /\ entered \in Nat /\ cutTrx \subseteq 1..entered
      /\ pushed \in Seq(1..MaxTrx)
  BY DEF IInv, TypeOK, ReadLine
<1>2. /\ out[1] \in Line
      /\ Len(out) \in Nat \ {0}
      /\ DOMAIN out = 1..Len(out)
      /\ DOMAIN out' = 1..(Len(out) - 1)
      /\ \A i \in 1..(Len(out) - 1) : out'[i] = out[i + 1]
  BY <1>1, Shorter
<1>3. \A i \in DOMAIN out' : i + 1 \in DOMAIN out /\ out'[i] = out[i + 1]
  BY <1>2
<1>4. pushed' = pushed \/ (IsTrx(out[1]) /\ pushed' = Append(pushed, out[1].num))
  BY ReaderPushes
<1>5. ASSUME IsTrx(out[1]), pushed' = Append(pushed, out[1].num)
      PROVE  /\ DOMAIN pushed' = 1..(Len(pushed) + 1)
             /\ DOMAIN pushed = 1..Len(pushed)
             /\ Len(pushed) \in Nat
             /\ \A i \in 1..Len(pushed) : pushed'[i] = pushed[i]
             /\ pushed'[Len(pushed) + 1] = out[1].num
  BY <1>1, <1>5
<1>6. LastSeenNeverAhead'
  BY ReaderSees
<1>7. PushedInOrder'
  <2>1. CASE pushed' = pushed
    BY <2>1 DEF IInv, PushedInOrder
  <2>2. CASE IsTrx(out[1]) /\ pushed' = Append(pushed, out[1].num)
    <3>1. \A i \in DOMAIN pushed : pushed[i] < out[1].num
      BY <1>2, <2>2 DEF IInv, PipeIsTrue
    <3> QED
      BY <1>5, <2>2, <3>1 DEF IInv, PushedInOrder
  <2> QED
    BY <1>4, <2>1, <2>2
<1>8. PanicsOnlyOnCut'
  <2>1. PICK t : t = out[1].num
    OBVIOUS
  <2>2. SUFFICES ASSUME panicked' = TRUE PROVE t \in cutTrx' /\ ~Pushed(t)' /\ ~InPipe(t)'
    <3>1. panicked' \in BOOLEAN
      BY DEF TypeOK
    <3> QED
      BY <3>1 DEF PanicsOnlyOnCut
  <2>3. 1 \in DOMAIN out /\ IsTrx(out[1]) /\ ~out[1].whole /\ pushed' = pushed
    BY <1>2, <2>2, ReaderPushes
  <2>4. t \in cutTrx /\ t \in Nat
    BY <1>2, <2>1, <2>3 DEF IInv, PipeIsTrue, Line
  <2>5. ~Pushed(t)'
    <3>1. \A i \in DOMAIN pushed : pushed[i] < t
      BY <2>1, <2>3 DEF IInv, PipeIsTrue
    <3>2. \A i \in DOMAIN pushed : pushed[i] \in 1..MaxTrx
      BY <1>1
    <3>3. \A i \in DOMAIN pushed : pushed[i] # t
      BY <2>4, <3>1, <3>2
    <3> QED
      BY <2>3, <3>3 DEF Pushed
  <2>6. ASSUME NEW i \in DOMAIN out', IsTrx(out'[i]) PROVE out'[i].num # t
    <3>1. i + 1 \in DOMAIN out /\ 1 < i + 1 /\ out'[i] = out[i + 1]
      BY <1>2
    <3>2. t < out[i + 1].num
      BY <2>1, <2>3, <2>6, <3>1 DEF IInv, PipeIsTrue
    <3>3. out[i + 1] \in Line
      BY <1>1, <3>1
    <3>4. out[i + 1].num \in Nat
      BY <3>3 DEF Line
    <3> QED
      BY <2>4, <3>1, <3>2, <3>4
  <2>7. ~InPipe(t)'
    BY <2>6 DEF InPipe, IsTrx
  <2> QED
    BY <1>1, <2>4, <2>5, <2>7
<1>9. NoneLost'
  <2>1. SUFFICES ASSUME ~panicked', ~closed, NEW t \in (1..entered) \ cutTrx
                 PROVE  Pushed(t)' \/ InPipe(t)'
    BY <1>1 DEF NoneLost
  <2>2. Pushed(t) \/ InPipe(t)
    BY <2>1 DEF IInv, NoneLost
  <2>3. CASE Pushed(t)
    BY <1>4, <1>5, <2>3 DEF Pushed
  <2>4. ASSUME NEW i \in DOMAIN out, IsTrx(out[i]), out[i].num = t
        PROVE  Pushed(t)' \/ InPipe(t)'
    <3>1. CASE i = 1
      <4>1. out[1].whole
        BY <1>2, <2>4, <3>1 DEF IInv, PipeIsTrue, Line
      <4>2. pushed' = Append(pushed, out[1].num)
        BY <2>1, <2>4, <3>1, <4>1, ReaderPushes
      <4> QED
        BY <1>5, <2>4, <3>1, <4>2 DEF Pushed
    <3>2. CASE i # 1
      <4>1. i - 1 \in DOMAIN out' /\ out'[i - 1] = out[i]
        BY <1>2, <2>4, <3>2
      <4> QED
        BY <2>4, <4>1 DEF InPipe, IsTrx
    <3> QED
      BY <3>1, <3>2
  <2> QED
    BY <2>2, <2>3, <2>4 DEF InPipe
<1>10. PipeIsTrue'
  <2>1. \A i \in DOMAIN out' :
          /\ IsBlock(out'[i]) => out'[i].num <= top
          /\ IsTrx(out'[i]) =>
                /\ out'[i].num \in 1..entered
                /\ IF out'[i].whole THEN out'[i].fields = TrxFields ELSE out'[i].num \in cutTrx
    BY <1>3 DEF IInv, PipeIsTrue
  <2>2. \A i, j \in DOMAIN out' :
          i < j /\ IsTrx(out'[i]) /\ IsTrx(out'[j]) => out'[i].num < out'[j].num
    BY <1>2, <1>3 DEF IInv, PipeIsTrue
  <2>3. \A i \in DOMAIN pushed :
          /\ pushed[i] <= entered
          /\ \A j \in DOMAIN out' : IsTrx(out'[j]) => pushed[i] < out'[j].num
    BY <1>3 DEF IInv, PipeIsTrue
  <2>4. IsTrx(out[1]) =>
          /\ out[1].num <= entered
          /\ \A j \in DOMAIN out' : IsTrx(out'[j]) => out[1].num < out'[j].num
    <3>1. IsTrx(out[1]) => out[1].num <= entered
      BY <1>1, <1>2 DEF IInv, PipeIsTrue
    <3>2. ASSUME IsTrx(out[1]), NEW j \in DOMAIN out', IsTrx(out'[j])
          PROVE  out[1].num < out'[j].num
      <4>1. 1 \in DOMAIN out /\ 1 < j + 1
        BY <1>2
      <4> QED
        BY <1>3, <3>2, <4>1 DEF IInv, PipeIsTrue
    <3> QED
      BY <3>1, <3>2
  <2>5. \A i \in DOMAIN pushed' :
          /\ pushed'[i] <= entered
          /\ \A j \in DOMAIN out' : IsTrx(out'[j]) => pushed'[i] < out'[j].num
    <3>1. CASE pushed' = pushed
      BY <2>3, <3>1
    <3>2. CASE IsTrx(out[1]) /\ pushed' = Append(pushed, out[1].num)
      BY <1>5, <2>3, <2>4, <3>2
    <3> QED
      BY <1>4, <3>1, <3>2
  <2> QED
    BY <1>1, <2>1, <2>2, <2>5 DEF PipeIsTrue, IsBlock, IsTrx
<1>11. LastWordIsHead'
  <2>1. SUFFICES ASSUME printed PROVE LastWordIsHead'
    BY <1>1 DEF LastWordIsHead
  <2>2. CASE lastBlockSeen = head /\ \A i \in DOMAIN out : ~IsBlock(out[i])
    <3>1. \A i \in DOMAIN out' : ~IsBlock(out'[i])
      BY <1>3, <2>2
    <3>2. lastBlockSeen' = head
      BY <1>2, <2>2, ReaderSees
    <3> QED
      BY <1>1, <3>1, <3>2 DEF LastWordIsHead, IsBlock
  <2>3. ASSUME NEW i \in DOMAIN out, IsBlock(out[i]), out[i].whole, out[i].num = head,
               \A j \in DOMAIN out : j > i => ~IsBlock(out[j])
        PROVE  LastWordIsHead'
    <3>1. CASE i = 1
      <4>1. lastBlockSeen' = head
        BY <2>3, <3>1, ReaderSees
      <4>2. \A j \in DOMAIN out' : ~IsBlock(out'[j])
        BY <1>2, <1>3, <2>3, <3>1
      <4> QED
        BY <1>1, <4>1, <4>2 DEF LastWordIsHead, IsBlock
    <3>2. CASE i # 1
      <4>1. i - 1 \in DOMAIN out' /\ out'[i - 1] = out[i]
        BY <1>2, <2>3, <3>2
      <4>2. \A j \in DOMAIN out' : j > i - 1 => ~IsBlock(out'[j])
        BY <1>2, <1>3, <2>3
      <4> QED
        BY <1>1, <2>3, <4>1, <4>2 DEF LastWordIsHead, IsBlock
    <3> QED
      BY <3>1, <3>2
  <2> QED
    BY <2>1, <2>2, <2>3 DEF IInv, LastWordIsHead
<1> QED
  BY <1>6, <1>7, <1>8, <1>9, <1>10, <1>11 DEF IInv

\* The types, action by action.
LEMMA TypesKept == ASSUME IInv, [Next]_vars PROVE TypeOK'
<1> USE DEF TypeOK
<1>1. IInv => TypeOK
  BY DEF IInv
<1>2. CASE UNCHANGED vars
  BY <1>1, <1>2 DEF vars, gethVars, pluginVars
<1>3. CASE ~panicked /\ GethStep /\ UNCHANGED pluginVars
  <2>1. CASE Start
    BY <1>1, <1>3, <2>1 DEF Start, pluginVars
  <2>2. ASSUME NEW whole \in BOOLEAN, PrintsBlock(whole)
        PROVE  out' \in Seq(Line) /\ top' \in First..MaxHead
    <3>1. out' = Append(out, BlockLine(head + 1, whole)) /\ head + 1 \in First..MaxHead
      BY <1>1, <2>2 DEF PrintsBlock
    <3>2. BlockLine(head + 1, whole) \in Line
      BY <1>1, LineTypes
    <3>3. top' \in First..MaxHead
      BY <1>1, <2>2, <3>1 DEF PrintsBlock, HigherTop
    <3>4. out \in Seq(Line)
      BY <1>1
    <3> HIDE DEF TypeOK
    <3> QED
      BY <3>1, <3>2, <3>3, <3>4, Longer
  <2>3. ASSUME NEW whole \in BOOLEAN, NEW fields \in Nat, PrintsTrx(whole, fields)
        PROVE  out' \in Seq(Line) /\ entered' \in 0..MaxTrx /\ entered + 1 \in 1..entered'
    <3>1. out' = Append(out, TrxLine(entered + 1, whole, fields))
      BY <2>3 DEF PrintsTrx
    <3>2. TrxLine(entered + 1, whole, fields) \in Line
      <4>1. entered + 1 \in Nat /\ TypeOK
        BY <1>1
      <4> HIDE DEF TypeOK
      <4> QED
        BY <4>1, LineTypes
    <3>3. entered' \in 0..MaxTrx /\ entered + 1 \in 1..entered'
      BY <1>1, <2>3 DEF PrintsTrx
    <3>4. out \in Seq(Line)
      BY <1>1
    <3> HIDE DEF TypeOK
    <3> QED
      BY <3>1, <3>2, <3>3, <3>4, Longer
  <2>4. CASE FinaliseBlock
    <3>1. head' \in First..MaxHead /\ printed' \in BOOLEAN
      BY <1>1, <2>4 DEF FinaliseBlock, PrintsBlock
    <3>2. out' \in Seq(Line) /\ top' \in First..MaxHead
      BY <2>2, <2>4 DEF FinaliseBlock
    <3> QED
      BY <1>1, <1>3, <2>4, <3>1, <3>2 DEF FinaliseBlock, pluginVars
  <2>5. CASE EnterPool
    <3>1. out' \in Seq(Line) /\ entered' \in 0..MaxTrx
      BY <2>3, <2>5, Fields DEF EnterPool
    <3>2. cutTrx' \subseteq 1..entered'
      BY <1>1, <2>5 DEF EnterPool, PrintsTrx
    <3> QED
      BY <1>1, <1>3, <2>5, <3>1, <3>2 DEF EnterPool, pluginVars
  <2>6. CASE Die
    <3>1. /\ running' = FALSE /\ printed' = FALSE /\ dialect' = dialect
          /\ head' \in First..MaxHead /\ deaths' \in 0..MaxDeaths
      BY <1>1, <2>6 DEF Die
    <3>2. CASE UNCHANGED <<top, entered, cutTrx, out>>
      BY <1>1, <1>3, <3>1, <3>2 DEF pluginVars
    <3>3. CASE PrintsBlock(FALSE) /\ UNCHANGED <<entered, cutTrx>>
      BY <1>1, <1>3, <2>2, <3>1, <3>3 DEF pluginVars
    <3>4. ASSUME NEW fields \in 0..TrxFields, PrintsTrx(FALSE, fields),
                 cutTrx' = cutTrx \cup {entered + 1}, UNCHANGED top
          PROVE  TypeOK'
      <4>1. out' \in Seq(Line) /\ entered' \in 0..MaxTrx /\ entered + 1 \in 1..entered'
        BY <2>3, <3>4, Fields
      <4>2. cutTrx' \subseteq 1..entered'
        BY <1>1, <3>4, <4>1 DEF PrintsTrx
      <4> QED
        BY <1>1, <1>3, <3>1, <3>4, <4>1, <4>2 DEF pluginVars
    <3> QED
      BY <2>6, <3>2, <3>3, <3>4 DEF Die
  <2> QED
    BY <1>3, <2>1, <2>4, <2>5, <2>6 DEF GethStep
<1>4. CASE ~panicked /\ ReadLine
  <2>1. out \in Seq(Line) /\ out # <<>> /\ out' = Tail(out) /\ pushed \in Seq(1..MaxTrx)
    BY <1>1, <1>4 DEF ReadLine
  <2>2. out' \in Seq(Line) /\ Head(out) = out[1] /\ out[1] \in Line /\ 1 \in DOMAIN out
    BY <2>1, Shorter
  <2>3. lastBlockSeen' \in 0..MaxHead
    <3>1. CASE IsBlock(out[1])
      <4>1. out[1].num <= top /\ out[1].num \in Nat
        BY <2>2, <3>1 DEF IInv, PipeIsTrue, Line
      <4>2. lastBlockSeen' = lastBlockSeen \/ (lastBlockSeen' \in Nat /\ lastBlockSeen' <= out[1].num)
        BY <1>4, <2>2, <3>1, NumbersBounded DEF ReadLine, lastBlockSeenLogPlugin
      <4> QED
        BY <1>1, <4>1, <4>2
    <3>2. CASE ~IsBlock(out[1])
      BY <1>1, <1>4, <2>2, <3>2 DEF ReadLine, lastBlockSeenLogPlugin
    <3> QED
      BY <3>1, <3>2
  <2>4. pushed' \in Seq(1..MaxTrx) /\ panicked' \in BOOLEAN
    <3>1. IsTrx(out[1]) => out[1].num \in 1..MaxTrx
      BY <1>1, <2>2 DEF IInv, PipeIsTrue
    <3>2. pushed' = pushed \/ (IsTrx(out[1]) /\ pushed' = Append(pushed, out[1].num))
      BY <1>4, ReaderPushes
    <3>3. panicked' \in BOOLEAN
      BY <1>1, <1>4, <2>2 DEF ReadLine, LogLine
    <3>4. CASE pushed' = pushed
      BY <2>1, <3>3, <3>4
    <3>5. CASE IsTrx(out[1]) /\ pushed' = Append(pushed, out[1].num)
      <4>1. pushed \in Seq(1..MaxTrx) /\ out[1].num \in 1..MaxTrx
        BY <2>1, <3>1, <3>5
      <4>2. Append(pushed, out[1].num) \in Seq(1..MaxTrx)
        BY <4>1
      <4> QED
        BY <3>3, <3>5, <4>2
    <3> QED
      BY <3>2, <3>4, <3>5
  <2> QED
    BY <1>1, <1>4, <2>2, <2>3, <2>4 DEF ReadLine
<1>5. CASE ~panicked /\ Close
  BY <1>1, <1>5 DEF Close, gethVars
<1> QED
  BY <1>2, <1>3, <1>4, <1>5 DEF Next, Stopped

\* IInv holds in every state of LogPlugins: however geth prints, dies and is
\* started again while its lines are read.
THEOREM Invariance == Spec => []IInv
<1>1. Init => IInv
  <2> SUFFICES ASSUME Init PROVE IInv
    OBVIOUS
  <2>1. TypeOK
    <3>1. First \in First..MaxHead /\ 0 \in 0..MaxHead /\ 0 \in 0..MaxTrx /\ 0 \in 0..MaxDeaths
      BY First <= MaxHead, 0 <= MaxHead
    <3>2. <<>> \in Seq(Line) /\ <<>> \in Seq(1..MaxTrx)
      OBVIOUS
    <3> QED
      BY <3>1, <3>2 DEF Init, OutputInit, TypeOK
  <2>2. LastSeenNeverAhead /\ PushedInOrder /\ NoneLost /\ PanicsOnlyOnCut
    BY DEF Init, OutputInit, LastSeenNeverAhead, LastSeenBlockNum, PushedInOrder, NoneLost,
           PanicsOnlyOnCut
  <2>3. PipeIsTrue /\ LastWordIsHead
    BY DEF Init, OutputInit, PipeIsTrue, LastWordIsHead
  <2> QED
    BY <2>1, <2>2, <2>3 DEF IInv
<1>2. IInv /\ [Next]_vars => IInv'
  <2> SUFFICES ASSUME IInv, [Next]_vars PROVE IInv'
    OBVIOUS
  <2>1. TypeOK'
    BY TypesKept
  <2>2. CASE UNCHANGED vars
    BY <2>1, <2>2, PipeUnchanged DEF vars, gethVars
  <2>3. CASE ~panicked /\ GethStep /\ UNCHANGED pluginVars
    <3>1. CASE Start
      BY <2>1, <2>3, <3>1, PipeUnchanged DEF Start
    <3>2. CASE FinaliseBlock
      BY <2>1, <2>3, <3>2, BlockPrinted DEF FinaliseBlock
    <3>3. CASE EnterPool
      BY <2>1, <2>3, <3>3, Fields, TrxPrinted DEF EnterPool
    <3>4. CASE Die
      <4>1. CASE UNCHANGED <<top, entered, cutTrx, out>>
        BY <2>1, <2>3, <3>4, <4>1, PipeUnchanged DEF Die
      <4>2. CASE PrintsBlock(FALSE) /\ UNCHANGED <<entered, cutTrx>>
        BY <2>1, <2>3, <3>4, <4>2, BlockPrinted DEF Die
      <4>3. ASSUME NEW fields \in 0..TrxFields, PrintsTrx(FALSE, fields),
                   cutTrx' = cutTrx \cup {entered + 1}, UNCHANGED top
            PROVE  IInv'
        BY <2>1, <2>3, <3>4, <4>3, Fields, TrxPrinted DEF Die
      <4> QED
        BY <3>4, <4>1, <4>2, <4>3 DEF Die
    <3> QED
      BY <2>3, <3>1, <3>2, <3>3, <3>4 DEF GethStep
  <2>4. CASE ~panicked /\ ReadLine
    BY <2>1, <2>4, LineRead
  <2>5. CASE ~panicked /\ Close
    BY <2>1, <2>5 DEF Close, gethVars, IInv, LastSeenNeverAhead, LastSeenBlockNum, PushedInOrder,
         NoneLost, PanicsOnlyOnCut, PipeIsTrue, LastWordIsHead, Pushed, InPipe, IsBlock, IsTrx
  <2> QED
    BY <2>2, <2>3, <2>4, <2>5 DEF Next, Stopped
<1> QED
  BY <1>1, <1>2, PTL DEF Spec

\* Every variable has its type.
THEOREM TypeCorrectness == Spec => []TypeOK
BY Invariance, PTL DEF IInv

\* LastSeenBlockNum is never a block geth has not come to.
THEOREM NeverAhead == Spec => []LastSeenNeverAhead
BY Invariance, PTL DEF IInv

\* When all is read LastSeenBlockNum is geth's head: the last block line in the
\* pipe always is about it.
THEOREM Current == Spec => []DrainedMeansCurrent
<1>1. IInv => DrainedMeansCurrent
  BY DEF IInv, LastWordIsHead, DrainedMeansCurrent, LastSeenBlockNum
<1> QED
  BY <1>1, Invariance, PTL

\* The stream keeps the order of the pool.
THEOREM StreamOrder == Spec => []PushedInOrder
BY Invariance, PTL DEF IInv

\* A transaction is only lost to a cut, a panic or the end of the plugin.
THEOREM StreamComplete == Spec => []NoneLost
BY Invariance, PTL DEF IInv

\* A plugin panics on a transaction whose line was cut, which it has not pushed;
\* the line of any other splits into its chunks, and these decode.
THEOREM PanicCause == Spec => []PanicsOnlyOnCut
BY Invariance, PTL DEF IInv

-------------------------------------------------------------------------------
(* LogPlugins implements TransactionStream.                                   *)

\* Who waits is in the pipe, now and after a step.
LEMMA WaitingIs ==
    /\ \A t : t \in Waiting <=> InPipe(t)
    /\ \A t : t \in Waiting' <=> InPipe(t)'
BY DEF Waiting, InPipe

\* A step that leaves the stream alone, and the transactions in the pipe.
LEMMA NothingForStream ==
    ASSUME UNCHANGED <<entered, cutTrx, pushed, closed>>, Waiting' = Waiting
    PROVE  UNCHANGED Promise!vars
BY DEF Promise!vars

\* A block line makes nobody wait.
LEMMA BlockWaits ==
    ASSUME IInv, NEW whole \in BOOLEAN, PrintsBlock(whole) PROVE Waiting' = Waiting
<1> DEFINE x == BlockLine(head + 1, whole)
<1>1. out \in Seq(Line) /\ x \in Line /\ out' = Append(out, x) /\ ~IsTrx(x)
  BY LineTypes DEF IInv, TypeOK, PrintsBlock, BlockLine, IsTrx
<1> HIDE DEF x
<1>2. /\ DOMAIN out' = 1..(Len(out) + 1)
      /\ DOMAIN out = 1..Len(out)
      /\ \A i \in 1..Len(out) : out'[i] = out[i]
      /\ out'[Len(out) + 1] = x
      /\ Len(out) \in Nat
  BY <1>1, Longer
<1>3. \A t : InPipe(t)' <=> InPipe(t)
  BY <1>1, <1>2 DEF InPipe, IsTrx
<1> QED
  BY <1>3, WaitingIs

\* The line of a transaction makes that one wait, and the pool's count go up.
LEMMA TrxEnters ==
    ASSUME IInv, NEW whole \in BOOLEAN, NEW fields \in Nat, PrintsTrx(whole, fields),
           UNCHANGED <<pushed, closed>>,
           cutTrx' = IF whole THEN cutTrx ELSE cutTrx \cup {entered + 1}
    PROVE  Promise!Enter
<1> DEFINE x == TrxLine(entered + 1, whole, fields)
<1>1. /\ out \in Seq(Line) /\ x \in Line /\ out' = Append(out, x)
      /\ IsTrx(x) /\ x.num = entered + 1 /\ entered' = entered + 1
  BY LineTypes DEF IInv, TypeOK, PrintsTrx, TrxLine, IsTrx
<1> HIDE DEF x
<1>2. /\ DOMAIN out' = 1..(Len(out) + 1)
      /\ DOMAIN out = 1..Len(out)
      /\ \A i \in 1..Len(out) : out'[i] = out[i]
      /\ out'[Len(out) + 1] = x
      /\ Len(out) \in Nat
  BY <1>1, Longer
<1>3. \A t : InPipe(t)' <=> InPipe(t) \/ t = entered + 1
  BY <1>1, <1>2 DEF InPipe, IsTrx
<1>4. Waiting' = Waiting \cup {entered + 1}
  BY <1>3, WaitingIs
<1> QED
  BY <1>1, <1>4 DEF Promise!Enter

\* A transaction whose line is read is pushed, unless it was cut or the plugin
\* is closed.
LEMMA ReaderDelivers ==
    ASSUME IInv, ReadLine, IsTrx(out[1])
    PROVE  \/ ~closed /\ pushed' = Append(pushed, out[1].num)
           \/ UNCHANGED pushed /\ (closed \/ out[1].num \in cutTrx)
<1>1. out \in Seq(Line) /\ out # <<>> /\ LogLine(Head(out))
  BY DEF IInv, TypeOK, ReadLine
<1>2. Head(out) = out[1] /\ out[1] \in Line /\ 1 \in DOMAIN out /\ Known(out[1])
  BY <1>1, Shorter DEF Known, Line
<1>3. IF out[1].whole THEN out[1].fields = TrxFields ELSE out[1].num \in cutTrx
  BY <1>2 DEF IInv, PipeIsTrue
<1>4. PICK result \in Outcomes(out[1]) :
        IF result = "push" THEN PushTransaction(out[1].num) ELSE UNCHANGED pushed
  BY <1>1, <1>2 DEF LogLine
<1>5. out[1].whole => result = "push"
  BY <1>3, <1>4, Fields DEF Outcomes
<1> QED
  BY <1>3, <1>4, <1>5 DEF PushTransaction

\* Reading a line is the turn of the transaction it is about, who has waited
\* longest: every other line of the pipe is about a later one.
LEMMA ReaderTurns ==
    ASSUME IInv, ReadLine PROVE [Promise!Next]_(Promise!vars)
<1>1. /\ out \in Seq(Line) /\ out # <<>> /\ out' = Tail(out)
      /\ UNCHANGED <<entered, cutTrx, closed>>
  BY DEF IInv, TypeOK, ReadLine
<1>2. /\ Head(out) = out[1] /\ out[1] \in Line
      /\ Len(out) \in Nat \ {0}
      /\ DOMAIN out = 1..Len(out)
      /\ DOMAIN out' = 1..(Len(out) - 1)
      /\ \A i \in 1..(Len(out) - 1) : out'[i] = out[i + 1]
  BY <1>1, Shorter
<1>3. \A i \in DOMAIN out : i = 1 \/ (i - 1 \in DOMAIN out' /\ out'[i - 1] = out[i])
  BY <1>2
<1>4. \A i \in DOMAIN out' : i + 1 \in DOMAIN out /\ 1 < i + 1 /\ out'[i] = out[i + 1]
  BY <1>2
<1>5. CASE ~IsTrx(out[1])
  <2>1. UNCHANGED pushed
    BY <1>2, <1>5 DEF ReadLine, LogLine
  <2>2. \A t : InPipe(t)' <=> InPipe(t)
    BY <1>3, <1>4, <1>5 DEF InPipe, IsTrx
  <2> QED
    BY <1>1, <2>1, <2>2, WaitingIs, NothingForStream
<1>6. CASE IsTrx(out[1])
  <2> DEFINE t == out[1].num
  <2>1. \A j \in DOMAIN out : 1 < j /\ IsTrx(out[j]) => t < out[j].num
    BY <1>2, <1>6 DEF IInv, PipeIsTrue
  <2>2. t \in Nat /\ \A j \in DOMAIN out : out[j].num \in Nat
    <3>1. \A line \in Line : line.num \in Nat
      BY DEF Line
    <3>2. \A j \in DOMAIN out : out[j] \in Line
      BY <1>1
    <3> QED
      BY <1>2, <3>1, <3>2
  <2>3. InPipe(t)
    BY <1>2, <1>6 DEF InPipe
  <2>4. \A u : InPipe(u) => t <= u
    BY <1>2, <2>1, <2>2 DEF InPipe
  <2>5. \A u : InPipe(u)' <=> InPipe(u) /\ u # t
    <3>1. ASSUME NEW u, InPipe(u)' PROVE InPipe(u) /\ u # t
      <4>1. PICK i \in DOMAIN out' : IsTrx(out'[i]) /\ out'[i].num = u
        BY <3>1 DEF InPipe, IsTrx
      <4>2. /\ i + 1 \in DOMAIN out /\ 1 < i + 1
            /\ IsTrx(out[i + 1]) /\ out[i + 1].num = u
        BY <1>4, <4>1
      <4>3. t < u /\ u \in Nat
        BY <2>1, <2>2, <4>2
      <4> QED
        BY <2>2, <4>2, <4>3 DEF InPipe
    <3>2. ASSUME NEW u, InPipe(u), u # t PROVE InPipe(u)'
      BY <1>3, <3>2 DEF InPipe, IsTrx
    <3> QED
      BY <3>1, <3>2
  <2>6. Promise!Turn(t)
    BY <1>1, <2>3, <2>4, <2>5, WaitingIs DEF Promise!Turn
  <2>7. Promise!Deliver(t) \/ Promise!Lose(t)
    BY <1>6, <2>6, ReaderDelivers DEF Promise!Deliver, Promise!Lose
  <2> QED
    BY <2>3, <2>7, WaitingIs DEF Promise!Next
<1> QED
  BY <1>5, <1>6

\* The pipe and the plugin keep the promise to subscribers, for any number of
\* transactions and however geth dies.
THEOREM Refinement == Spec => IsStream
<1>1. Init => Promise!Init
  <2>1. Init => ~\E t : InPipe(t)
    BY DEF Init, OutputInit, InPipe
  <2> QED
    BY <2>1, WaitingIs DEF Init, OutputInit, Promise!Init
<1>2. IInv /\ [Next]_vars => [Promise!Next]_(Promise!vars)
  <2> SUFFICES ASSUME IInv, [Next]_vars PROVE [Promise!Next]_(Promise!vars)
    OBVIOUS
  <2>1. ASSUME UNCHANGED <<out, entered, cutTrx, pushed, closed>>
        PROVE  UNCHANGED Promise!vars
    BY <2>1, NothingForStream DEF Waiting, IsTrx
  <2>2. CASE UNCHANGED vars \/ Stopped
    BY <2>1, <2>2 DEF Stopped, vars, gethVars, pluginVars
  <2>3. CASE GethStep /\ UNCHANGED pluginVars
    <3>1. UNCHANGED <<pushed, closed>>
      BY <2>3 DEF pluginVars
    <3>2. CASE Start
      BY <2>1, <3>1, <3>2 DEF Start
    <3>3. CASE FinaliseBlock
      BY <3>1, <3>3, BlockWaits, NothingForStream DEF FinaliseBlock
    <3>4. CASE EnterPool
      BY <3>1, <3>4, Fields, TrxEnters DEF EnterPool, Promise!Next
    <3>5. CASE Die
      <4>1. CASE UNCHANGED <<top, entered, cutTrx, out>>
        BY <2>1, <3>1, <4>1
      <4>2. CASE PrintsBlock(FALSE) /\ UNCHANGED <<entered, cutTrx>>
        BY <3>1, <4>2, BlockWaits, NothingForStream
      <4>3. ASSUME NEW fields \in 0..TrxFields, PrintsTrx(FALSE, fields),
                   cutTrx' = cutTrx \cup {entered + 1}
            PROVE  [Promise!Next]_(Promise!vars)
        BY <3>1, <4>3, Fields, TrxEnters DEF Promise!Next
      <4> QED
        BY <3>5, <4>1, <4>2, <4>3 DEF Die
    <3> QED
      BY <2>3, <3>2, <3>3, <3>4, <3>5 DEF GethStep
  <2>4. CASE ReadLine
    BY <2>4, ReaderTurns
  <2>5. CASE Close
    <3>1. UNCHANGED <<entered, cutTrx, pushed>> /\ Waiting' = Waiting /\ closed' = TRUE
      BY <2>5 DEF Close, gethVars, Waiting, IsTrx
    <3> QED
      BY <3>1 DEF Promise!Next, Promise!End
  <2> QED
    BY <2>2, <2>3, <2>4, <2>5 DEF Next
<1> QED
  BY <1>1, <1>2, Invariance, PTL DEF Spec, IsStream, Promise!Spec
===============================================================================
