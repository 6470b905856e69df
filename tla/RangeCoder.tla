----------------------------- MODULE RangeCoder -----------------------------
(***************************************************************************)
(* One message through the coder: a sender codes symbols with the encoder, *)
(* the finished bytes go to a receiver, which decodes them against the     *)
(* same tables.  The table of each symbol is chosen anew, as the language  *)
(* model gives a new distribution at every step.                           *)
(***************************************************************************)
EXTENDS RangeEncoder, RangeDecoder

CONSTANTS
    Tables,     \* count tables that may be used for a symbol
    MaxSyms     \* bound on the symbols of a message

ASSUME TablesAssumption ==
    \A cnt \in Tables : /\ Len(cnt) \in Nat \ {0}
                        /\ \A i \in 1 .. Len(cnt) : Triple(cnt, i) \in Triples

VARIABLES
    sent,       \* history: the (table, symbol) pairs coded
    settled     \* history: bytes that had left low when finish was called

vars == <<encVars, decVars, sent, settled>>

Init == EncInit /\ DecIdle /\ sent = <<>> /\ settled = 0

Send(cnt, i) ==
    /\ tq_ac_enc_sym(Triple(cnt, i))
    /\ sent' = Append(sent, [cnt |-> cnt, sym |-> i])
    /\ UNCHANGED <<decVars, settled>>

EncodeLoops == EncStep /\ UNCHANGED <<decVars, sent, settled>>

Finish ==
    /\ tq_ac_enc_finish
    /\ settled' = Len(buf) + pending + (IF primed THEN 1 ELSE 0)
    /\ UNCHANGED <<decVars, sent>>

\* The callers throw the message away when the overflow flag is up.
Deliver ==
    /\ epc = "finished" /\ ~ overflow
    /\ tq_ac_dec_init(buf)
    /\ UNCHANGED <<encVars, sent, settled>>

Receive ==
    /\ Len(found) < Len(sent)
    /\ DecSym(sent[Len(found) + 1].cnt)
    /\ UNCHANGED <<encVars, sent, settled>>

DecodeLoop == DecRenorm /\ UNCHANGED <<encVars, sent, settled>>

\* The message was discarded, or decoded to its last symbol.
Terminated ==
    /\ epc = "finished"
    /\ overflow \/ (dpc = "ready" /\ Len(found) = Len(sent))

Next ==
    \/ Len(sent) < MaxSyms /\ \E cnt \in Tables : \E i \in 1 .. Len(cnt) : Send(cnt, i)
    \/ EncodeLoops
    \/ Finish
    \/ Deliver
    \/ Receive
    \/ DecodeLoop
    \/ Terminated /\ UNCHANGED vars

\* Both ends are plain function calls: once started they run to their return,
\* and the sender's message is finite.
Spec == Init /\ [][Next]_vars /\ WF_vars(Next)

-----------------------------------------------------------------------------

TypeOK == EncTypeOK /\ DecTypeOK

\* Both ends enter every symbol with a range of at least TQ_AC_TOP and their
\* loops multiply a range that is never zero.
RangesWide == RangeFloor /\ DecRangeFloor

\* The contract of tq_ac.c: what the decoder finds is what the encoder coded,
\* although a carry may have run through bytes already shifted out, and
\* although trailing zero bytes were not transmitted.
RoundTrip == \A i \in 1 .. Len(found) : found[i] = sent[i].sym

\* On a genuine message the decoder's code word stays inside its interval, so
\* the clamp in tq_ac_dec_target never acts and code << 8 loses nothing.
CodeInsideRange == dpc = "ready" => code < drange

\* "the tail collapses to a single significant byte": the finished message is
\* at most one byte longer than what the symbols had shifted out of low.
SingleByteTail == epc = "finished" /\ ~ overflow => Len(buf) <= settled + 1

Channel == INSTANCE Courier WITH
    Item    <- UNION {1 .. Len(cnt) : cnt \in Tables},
    handed  <- [i \in 1 .. Len(sent) |-> sent[i].sym],
    arrived <- found,
    fate    <- IF epc # "finished" THEN "open" ELSE IF overflow THEN "lost" ELSE "sealed"

\* The coder is a courier of symbols: what was coded arrives symbol by symbol, in
\* order and complete, or is discarded for lack of buffer space, and one of the
\* two happens: the renormalisation loops of both ends terminate.
SymbolsByCourier == Channel!Spec
=============================================================================
