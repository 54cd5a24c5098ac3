------------------------------ MODULE CodecProofs ------------------------------
(****************************************************************************)
(* What Encode guarantees for replies of any length and every way a writer   *)
(* may take them.                                                            *)
(****************************************************************************)
EXTENDS Codec, SequenceTheorems, TLAPS

USE SizeAssumption

\* What a write moves: the first k bytes that are left become the last k that
\* were taken, and the reply stays what it was.
LEMMA Moved ==
    ASSUME NEW S, NEW s \in Seq(S), NEW b \in 0..Len(s),
           NEW rest, rest = SubSeq(s, b + 1, Len(s)),
           NEW k \in 0..Len(rest)
    PROVE  /\ b + k \in 0..Len(s)
           /\ SubSeq(s, 1, b) \o SubSeq(rest, 1, k) = SubSeq(s, 1, b + k)
           /\ SubSeq(rest, k + 1, Len(rest)) = SubSeq(s, b + k + 1, Len(s))
<1>1. Len(s) \in Nat /\ \A i \in 1..Len(s) : s[i] \in S
  OBVIOUS
<1>2. Len(rest) = Len(s) - b /\ b + k \in 0..Len(s)
  BY <1>1, SubSeqProperties
<1>3. SubSeq(rest, 1, k) = SubSeq(s, b + 1, b + k)
  <2>1. CASE k = 0
    <3>1. SubSeq(rest, 1, k) = <<>> /\ SubSeq(s, b + 1, b + k) = <<>>
      BY <1>1, <2>1, SubSeqEmpty
    <3> QED
      BY <3>1
  <2>2. CASE k # 0
    <3>1. /\ b + 1 \in 1..Len(s) /\ Len(s) \in 1..Len(s)
          /\ 1 \in 1..(Len(s) - (b + 1) + 1) /\ k \in 1..(Len(s) - (b + 1) + 1)
      BY <1>1, <1>2, <2>2
    <3>2. SubSeq(SubSeq(s, b + 1, Len(s)), 1, k) = SubSeq(s, (b + 1) + 1 - 1, (b + 1) + k - 1)
      BY <3>1, SubSeqOfSubSeq
    <3>3. (b + 1) + 1 - 1 = b + 1 /\ (b + 1) + k - 1 = b + k
      BY <1>1
    <3> QED
      BY <3>2, <3>3
  <2> QED
    BY <2>1, <2>2
<1>4. SubSeq(s, 1, b) \o SubSeq(s, b + 1, b + k) = SubSeq(s, 1, b + k)
  <2>1. 1 \in 1..(Len(s) + 1) /\ b \in (1 - 1)..Len(s) /\ b + k \in b..Len(s)
    BY <1>1, <1>2
  <2> QED
    BY <2>1, ConcatAdjacentSubSeq
<1>5. SubSeq(rest, k + 1, Len(rest)) = SubSeq(s, b + k + 1, Len(s))
  <2>1. CASE k = Len(rest)
    <3>1. SubSeq(rest, k + 1, Len(rest)) = <<>> /\ SubSeq(s, b + k + 1, Len(s)) = <<>>
      BY <1>1, <1>2, <2>1, SubSeqEmpty
    <3> QED
      BY <3>1
  <2>2. CASE k # Len(rest)
    <3>1. /\ b + 1 \in 1..Len(s) /\ Len(s) \in 1..Len(s)
          /\ k + 1 \in 1..(Len(s) - (b + 1) + 1)
          /\ Len(s) - b \in 1..(Len(s) - (b + 1) + 1)
      BY <1>1, <1>2, <2>2
    <3>2. SubSeq(SubSeq(s, b + 1, Len(s)), k + 1, Len(s) - b)
            = SubSeq(s, (b + 1) + (k + 1) - 1, (b + 1) + (Len(s) - b) - 1)
      BY <3>1, SubSeqOfSubSeq
    <3>3. (b + 1) + (k + 1) - 1 = b + k + 1 /\ (b + 1) + (Len(s) - b) - 1 = Len(s)
      BY <1>1
    <3> QED
      BY <1>2, <3>2, <3>3
  <2> QED
    BY <2>1, <2>2
<1> QED
  BY <1>2, <1>3, <1>4, <1>5

\* A beginning and an end of a reply are made of its bytes.
LEMMA PartTypes ==
    ASSUME NEW S, NEW s \in Seq(S), NEW b \in 0..Len(s)
    PROVE  SubSeq(s, 1, b) \in Seq(S) /\ SubSeq(s, b + 1, Len(s)) \in Seq(S)
<1>1. Len(s) \in Nat /\ \A i \in 1..Len(s) : s[i] \in S
  OBVIOUS
<1>2. \A i \in 1..b : s[i] \in S
  BY <1>1
<1>3. \A i \in (b + 1)..Len(s) : s[i] \in S
  BY <1>1
<1>4. SubSeq(s, 1, b) \in Seq(S)
  BY <1>1, <1>2, SubSeqProperties
<1>5. b + 1 \in Int /\ Len(s) \in Int
  BY <1>1
<1>6. SubSeq(s, b + 1, Len(s)) \in Seq(S)
  BY <1>3, <1>5, SubSeqProperties
<1> QED
  BY <1>4, <1>6

\* IInv holds whatever the writer does.
THEOREM Invariance == Spec => []IInv
<1>1. Init => IInv
  <2> SUFFICES ASSUME Init PROVE IInv
    OBVIOUS
  <2>1. out = <<>> /\ out \in Seq(1..MaxSize) /\ Len(out) = 0 /\ byteWritten = 0
    BY DEF Init
  <2>2. SubSeq(out, 1, 0) = <<>> /\ SubSeq(out, 0 + 1, Len(out)) = <<>>
    BY <2>1, SubSeqEmpty
  <2>3. 0 \in 0..Len(out)
    BY <2>1
  <2> QED
    BY <2>1, <2>2, <2>3 DEF Init, IInv, TypeOK, LoopInvariant, SinkIsBeginning, NilMeansAll
<1>2. IInv /\ [Next]_vars => IInv'
  <2> SUFFICES ASSUME IInv, [Next]_vars PROVE IInv'
    OBVIOUS
  <2> USE DEF IInv
  <2>1. CASE UNCHANGED vars \/ Returned
    BY <2>1 DEF vars, Returned, TypeOK, LoopInvariant, SinkIsBeginning, NilMeansAll
  <2>2. CASE Marshal
    <3>1. out = <<>> /\ byteWritten = 0 /\ sink = <<>> /\ byteWritten' = 0 /\ sink' = <<>>
      <4>1. UNCHANGED <<byteWritten, sink>> /\ pc = "marshal"
        BY <2>2 DEF Marshal
      <4>2. out = <<>> /\ byteWritten \in 0..Len(out) /\ sink = SubSeq(out, 1, byteWritten)
        BY <4>1 DEF TypeOK, LoopInvariant
      <4>3. byteWritten = 0 /\ SubSeq(out, 1, 0) = <<>>
        BY <4>2, SubSeqEmpty
      <4> QED
        BY <4>1, <4>2, <4>3
    <3>2. CASE pc' = "write"
      <4>1. PICK n \in 0..MaxSize : out' = [i \in 1..n |-> i]
        BY <2>2, <3>2 DEF Marshal
      <4>2. out' \in Seq(1..MaxSize) /\ buffer' = out' /\ Len(out') \in Nat
        BY <2>2, <3>2, <4>1 DEF Marshal
      <4>3. SubSeq(out', 1, 0) = <<>> /\ SubSeq(out', 0 + 1, Len(out')) = out'
        BY <4>2, SubSeqEmpty, SubSeqFull
      <4>4. 0 \in 0..Len(out') /\ <<>> \in Seq(1..MaxSize)
        BY <4>2
      <4> QED
        BY <3>1, <3>2, <4>2, <4>3, <4>4 DEF TypeOK, LoopInvariant, SinkIsBeginning, NilMeansAll
    <3>3. CASE pc' = "error"
      <4>1. UNCHANGED <<out, buffer, byteWritten, sink>>
        BY <2>2, <3>3 DEF Marshal
      <4> QED
        BY <3>3, <4>1 DEF TypeOK, LoopInvariant, SinkIsBeginning, NilMeansAll
    <3> QED
      BY <2>2, <3>2, <3>3 DEF Marshal
  <2>3. CASE Write \/ WriteFails
    <3>1. PICK k \in 0..Len(buffer) :
            /\ Takes(k)
            /\ \/ Advance(k) /\ pc' = pc
               \/ pc' = "error" /\ UNCHANGED <<byteWritten, buffer>>
      BY <2>3 DEF Write, WriteFails
    <3>2. /\ pc = "write" /\ out' = out
          /\ out \in Seq(1..MaxSize) /\ byteWritten \in 0..Len(out)
          /\ sink = SubSeq(out, 1, byteWritten)
          /\ buffer = SubSeq(out, byteWritten + 1, Len(out))
      BY <2>3 DEF Write, WriteFails, TypeOK, LoopInvariant
    <3>3. /\ byteWritten + k \in 0..Len(out)
          /\ sink' = SubSeq(out, 1, byteWritten + k)
          /\ SubSeq(buffer, k + 1, Len(buffer)) = SubSeq(out, byteWritten + k + 1, Len(out))
      BY <3>1, <3>2, Moved DEF Takes
    <3>4. sink' \in Seq(1..MaxSize) /\ SubSeq(out, byteWritten + k + 1, Len(out)) \in Seq(1..MaxSize)
      BY <3>2, <3>3, PartTypes
    <3>5. SinkIsBeginning'
      BY <3>2, <3>3 DEF SinkIsBeginning
    <3>6. CASE Advance(k) /\ pc' = pc
      <4>1. /\ byteWritten' = byteWritten + k
            /\ buffer' = SubSeq(out, byteWritten + k + 1, Len(out))
        BY <3>3, <3>6 DEF Advance
      <4> QED
        BY <3>2, <3>3, <3>4, <3>5, <3>6, <4>1 DEF TypeOK, LoopInvariant, NilMeansAll
    <3>7. CASE pc' = "error" /\ UNCHANGED <<byteWritten, buffer>>
      BY <3>2, <3>4, <3>5, <3>7 DEF TypeOK, LoopInvariant, NilMeansAll
    <3> QED
      BY <3>1, <3>6, <3>7
  <2>4. CASE Return
    <3>1. /\ pc = "write" /\ pc' = "nil" /\ UNCHANGED <<out, byteWritten, buffer, sink>>
          /\ out \in Seq(1..MaxSize) /\ byteWritten \in 0..Len(out)
          /\ sink = SubSeq(out, 1, byteWritten) /\ ~(byteWritten < Len(out))
      BY <2>4 DEF Return, More, TypeOK, LoopInvariant
    <3>2. byteWritten = Len(out)
      BY <3>1
    <3>3. sink = out
      BY <3>1, <3>2, SubSeqFull
    <3> QED
      BY <3>1, <3>3 DEF TypeOK, LoopInvariant, SinkIsBeginning, NilMeansAll
  <2> QED
    BY <2>1, <2>2, <2>3, <2>4 DEF Next
<1> QED
  BY <1>1, <1>2, PTL DEF Spec

\* Every variable has its type.
THEOREM TypeCorrectness == Spec => []TypeOK
BY Invariance, PTL DEF IInv

\* The writer gets the first bytes of the reply, each once and in order.
THEOREM Beginning == Spec => []SinkIsBeginning
BY Invariance, PTL DEF IInv

\* Nil is only returned for a reply that was written whole.
THEOREM NilIsWhole == Spec => []NilMeansAll
BY Invariance, PTL DEF IInv
===============================================================================
