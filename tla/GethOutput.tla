------------------------------ MODULE GethOutput ------------------------------
(****************************************************************************)
(* What an instrumented geth prints for the log plugins of node-manager: a   *)
(* line for each block it finalises, a line for each transaction that enters *)
(* its pool.  The lines of one geth after the other go through one pipe, in  *)
(* order; a geth that dies in the middle of a line leaves a part of it.      *)
(*                                                                           *)
(* This is the environment, modelled from what the plugins take for a line.  *)
(* A block is printed while it is finalised and stored after that, so that a *)
(* block whose line was cut is not part of the chain afterwards.  Lines that *)
(* no plugin looks at are left out.                                          *)
(****************************************************************************)
EXTENDS Naturals, Sequences

CONSTANTS
    First,      \* the block geth is at when it first starts
    MaxHead,    \* bound: the last block
    MaxTrx,     \* bound: transactions
    MaxPipe,    \* bound: lines printed and not yet read
    MaxDeaths   \* bound: deaths of geth

ASSUME OutputAssumption ==
    /\ First \in Nat /\ MaxHead \in Nat /\ First <= MaxHead
    /\ MaxTrx \in Nat /\ MaxPipe \in Nat /\ MaxDeaths \in Nat

VARIABLES
    dialect,    \* what this geth puts in front of a line: "DMLOG" | "FIRE"
    running,    \* does geth run?
    head,       \* the last block finalised
    printed,    \* has it finalised one since it was started?
    top,        \* the highest block it has printed, or begun to
    entered,    \* number of transactions printed, or begun
    cutTrx,     \* those of them whose line was cut
    out,        \* the pipe
    deaths      \* deaths so far

gethVars == <<dialect, running, head, printed, top, entered, cutTrx, out, deaths>>

\* What geth writes behind the tag of a transaction line, field by field: hash,
\* from, to, value, v, r, s, gas, gas price, nonce and input.
TrxText == <<"hex", "hex", "hex", "hex", "hex", "hex", "hex", "dec", "hex", "dec", "hex">>

\* The tag is a field too.
TrxFields == 1 + Len(TrxText)

\* Of a transaction line that was cut, "fields" says how many have reached the
\* pipe, the last of them perhaps in part: none if the cut is in the tag.
Line == [prefix: {"DMLOG", "FIRE"}, tag: {"FINALIZE_BLOCK", "TRX_ENTER_POOL"},
         num: Nat, whole: BOOLEAN, fields: Nat]

BlockLine(n, whole) ==
    [prefix |-> dialect, tag |-> "FINALIZE_BLOCK", num |-> n, whole |-> whole, fields |-> 2]
TrxLine(t, whole, fields) ==
    [prefix |-> dialect, tag |-> "TRX_ENTER_POOL", num |-> t, whole |-> whole, fields |-> fields]

IsBlock(line) == line.tag = "FINALIZE_BLOCK"
IsTrx(line) == line.tag = "TRX_ENTER_POOL"

OutputInit ==
    /\ dialect \in {"DMLOG", "FIRE"}
    /\ running = FALSE
    /\ head = First
    /\ printed = FALSE
    /\ top = First
    /\ entered = 0
    /\ cutTrx = {}
    /\ out = <<>>
    /\ deaths = 0

Start ==
    /\ ~running
    /\ running' = TRUE
    /\ UNCHANGED <<dialect, head, printed, top, entered, cutTrx, out, deaths>>

HigherTop == top' = IF head + 1 > top THEN head + 1 ELSE top

PrintsBlock(whole) ==
    /\ running
    /\ head < MaxHead
    /\ Len(out) < MaxPipe
    /\ out' = Append(out, BlockLine(head + 1, whole))
    /\ HigherTop

PrintsTrx(whole, fields) ==
    /\ running
    /\ entered < MaxTrx
    /\ Len(out) < MaxPipe
    /\ out' = Append(out, TrxLine(entered + 1, whole, fields))
    /\ entered' = entered + 1

FinaliseBlock ==
    /\ PrintsBlock(TRUE)
    /\ head' = head + 1
    /\ printed' = TRUE
    /\ UNCHANGED <<dialect, running, entered, cutTrx, deaths>>

EnterPool ==
    /\ PrintsTrx(TRUE, TrxFields)
    /\ UNCHANGED <<dialect, running, head, printed, top, cutTrx, deaths>>

\* Geth may lose the blocks it had not flushed, and leave a part of a line.
Die ==
    /\ running
    /\ deaths < MaxDeaths
    /\ deaths' = deaths + 1
    /\ running' = FALSE
    /\ printed' = FALSE
    /\ head' \in First..head
    /\ \/ UNCHANGED <<top, entered, cutTrx, out>>
       \/ PrintsBlock(FALSE) /\ UNCHANGED <<entered, cutTrx>>
       \/ /\ \E fields \in 0..TrxFields : PrintsTrx(FALSE, fields)
          /\ cutTrx' = cutTrx \cup {entered + 1}
          /\ UNCHANGED top
    /\ UNCHANGED dialect

GethStep == Start \/ FinaliseBlock \/ EnterPool \/ Die
===============================================================================
