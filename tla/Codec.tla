-------------------------------- MODULE Codec --------------------------------
(****************************************************************************)
(* EthereumJSONRPCEncoder of json-rpc/services/codec.go: one call of Encode, *)
(* which writes a marshalled reply to a writer that may take a part of what  *)
(* it is given, nothing of it, or fail at any point.                         *)
(****************************************************************************)
EXTENDS Naturals, Sequences

CONSTANT MaxSize    \* bound: the length of a reply

ASSUME SizeAssumption == MaxSize \in Nat

VARIABLES
    pc,             \* "marshal" | "write" | "nil" | "error": the last two, returned
    out,            \* the reply; its bytes are told apart by their place
    byteWritten,    \* how many of them were written
    buffer,         \* the ones left to write
    sink            \* what the writer has taken

vars == <<pc, out, byteWritten, buffer, sink>>

Init ==
    /\ pc = "marshal"
    /\ out = <<>>
    /\ byteWritten = 0
    /\ buffer = <<>>
    /\ sink = <<>>

Marshal ==
    /\ pc = "marshal"
    /\ \/ /\ pc' = "write"
          /\ \E n \in 0..MaxSize : out' = [i \in 1..n |-> i]
          /\ buffer' = out'
       \/ pc' = "error" /\ UNCHANGED <<out, buffer>>
    /\ UNCHANGED <<byteWritten, sink>>

\* A bug: going round once more when everything is written.
MoreOrEqual == byteWritten <= Len(out)

More == byteWritten < Len(out)

\* Bugs: taking a short write for a whole one, and writing it all again.
AdvanceAll(k) == byteWritten' = Len(out) /\ buffer' = <<>>
AdvanceCountOnly(k) == byteWritten' = byteWritten + k /\ UNCHANGED buffer

Advance(k) ==
    /\ byteWritten' = byteWritten + k
    /\ buffer' = SubSeq(buffer, k + 1, Len(buffer))

\* The writer takes the first k bytes of the buffer.
Takes(k) == sink' = sink \o SubSeq(buffer, 1, k)

Write ==
    /\ pc = "write"
    /\ More
    /\ \E k \in 0..Len(buffer) : Takes(k) /\ Advance(k)
    /\ UNCHANGED <<pc, out>>

\* A writer may have taken some when it fails; the count of these is dropped.
WriteFails ==
    /\ pc = "write"
    /\ More
    /\ \E k \in 0..Len(buffer) : Takes(k)
    /\ pc' = "error"
    /\ UNCHANGED <<out, byteWritten, buffer>>

Return ==
    /\ pc = "write"
    /\ ~More
    /\ pc' = "nil"
    /\ UNCHANGED <<out, byteWritten, buffer, sink>>

Returned == pc \in {"nil", "error"} /\ UNCHANGED vars

Next == Marshal \/ Write \/ WriteFails \/ Return \/ Returned

Spec == Init /\ [][Next]_vars

\* Encode goes on, and its writer does not take nothing for ever without saying
\* so, as io.Writer requires; it need never fail.
FairSpec == Spec /\ WF_vars(Marshal \/ Return) /\ WF_vars(Write)

-------------------------------------------------------------------------------
(* Properties                                                                 *)

TypeOK ==
    /\ pc \in {"marshal", "write", "nil", "error"}
    /\ out \in Seq(1..MaxSize)
    /\ byteWritten \in 0..Len(out)
    /\ buffer \in Seq(1..MaxSize)
    /\ sink \in Seq(1..MaxSize)

\* However the writes are cut up and wherever they fail, the writer has got the
\* first bytes of the reply: each once, in order, none left out.
SinkIsBeginning == \E k \in 0..Len(out) : sink = SubSeq(out, 1, k)

\* Encode only returns nil when the writer has got all of the reply.
NilMeansAll == pc = "nil" => sink = out

\* The loop: the count says where the reply is cut into what the writer has and
\* what is left.
LoopInvariant ==
    /\ pc = "marshal" => out = <<>>
    /\ pc \in {"marshal", "write"} =>
          /\ sink = SubSeq(out, 1, byteWritten)
          /\ buffer = SubSeq(out, byteWritten + 1, Len(out))

\* The inductive invariant behind the theorems of CodecProofs.
IInv == TypeOK /\ LoopInvariant /\ SinkIsBeginning /\ NilMeansAll

\* Encode returns.
EncodeReturns == <>(pc \in {"nil", "error"})
===============================================================================
