---------------------------- MODULE RangeDecoder ----------------------------
(***************************************************************************)
(* The range decoder of core/src/tq_ac.c: struct TqAcDec as variables.     *)
(* tq_ac_dec_target, tq_ac_find and tq_ac_dec_update are always called in  *)
(* this order with the same table, so they form one action, with a step    *)
(* per iteration of the renormalisation loop.                              *)
(*                                                                         *)
(* The decoder never fails: past the end of the wire it reads zeroes, and  *)
(* whatever the wire holds it must go on without dividing by zero or       *)
(* leaving the table.                                                      *)
(***************************************************************************)
EXTENDS AcTables

VARIABLES
    wire,       \* the message as received
    pos,        \* bytes of it consumed
    drange,     \* TqAcDec.range
    code,       \* TqAcDec.code
    starved,    \* tq_ac_get ran past the end
    dpc,        \* "idle", "ready", or in "renorm"
    found       \* symbols decoded so far

decVars == <<wire, pos, drange, code, starved, dpc, found>>

\* A digit of the wire, zero past its end.
WireDigit(w, i) == IF i <= Len(w) THEN w[i] ELSE 0

DecIdle ==
    /\ wire = <<>> /\ pos = 0 /\ drange = WORD - 1 /\ code = 0
    /\ starved = FALSE /\ dpc = "idle" /\ found = <<>>

\* tq_ac_dec_init on the received bytes: the first four are loaded.
tq_ac_dec_init(w) ==
    /\ dpc = "idle"
    /\ wire' = w
    /\ pos' = IF Len(w) < 4 THEN Len(w) ELSE 4
    /\ code' = ((WireDigit(w, 1) * Base + WireDigit(w, 2)) * Base
                  + WireDigit(w, 3)) * Base + WireDigit(w, 4)
    /\ drange' = WORD - 1
    /\ starved' = FALSE
    /\ dpc' = "ready"
    /\ found' = <<>>

\* tq_ac_dec_target, clamped to the last count of the table.
tq_ac_dec_target(tot) ==
    LET t == code \div (drange \div tot)
    IN  IF t >= tot THEN tot - 1 ELSE t

\* Target, find, and tq_ac_dec_update up to its loop, on one count table.
DecSym(cnt) ==
    LET r == drange \div Total(cnt)
        s == tq_ac_find(cnt, tq_ac_dec_target(Total(cnt)))
    IN  /\ dpc = "ready"
        /\ code' = (code - tq_ac_cum(cnt, s) * r) % WORD
        /\ drange' = r * cnt[s]
        /\ dpc' = IF drange' < TOP THEN "renorm" ELSE "ready"
        /\ found' = Append(found, s)
        /\ UNCHANGED <<wire, pos, starved>>

\* Mutant: a byte shifted in past the end is 0xFF in place of 0.
DecRenormOnes ==
    /\ dpc = "renorm"
    /\ code' = (code % TOP) * Base
                 + (IF pos < Len(wire) THEN wire[pos + 1] ELSE Base - 1)
    /\ pos' = IF pos < Len(wire) THEN pos + 1 ELSE pos
    /\ starved' = (starved \/ pos >= Len(wire))
    /\ drange' = drange * Base
    /\ dpc' = IF drange' < TOP THEN "renorm" ELSE "ready"
    /\ UNCHANGED <<wire, found>>

\* Mutant: the range is not scaled up with the code word.
DecRenormForever ==
    /\ dpc = "renorm"
    /\ code' = (code % TOP) * Base + WireDigit(wire, pos + 1)
    /\ pos' = IF pos < Len(wire) THEN pos + 1 ELSE pos
    /\ starved' = (starved \/ pos >= Len(wire))
    /\ UNCHANGED <<wire, drange, dpc, found>>

\* One iteration of `while (d->range < TQ_AC_TOP)`, with tq_ac_get.
DecRenorm ==
    /\ dpc = "renorm"
    /\ code' = (code % TOP) * Base + WireDigit(wire, pos + 1)
    /\ pos' = IF pos < Len(wire) THEN pos + 1 ELSE pos
    /\ starved' = (starved \/ pos >= Len(wire))
    /\ drange' = drange * Base
    /\ dpc' = IF drange' < TOP THEN "renorm" ELSE "ready"
    /\ UNCHANGED <<wire, found>>

-----------------------------------------------------------------------------

DecTypeOK ==
    /\ wire \in Seq(Byte)
    /\ pos \in 0 .. Len(wire)
    /\ drange \in 1 .. WORD - 1
    /\ code \in 0 .. WORD - 1
    /\ starved \in BOOLEAN
    /\ dpc \in {"idle", "ready", "renorm"}
    /\ found \in Seq(Nat)

\* Between symbols the decoder's range is at least TQ_AC_TOP whatever the wire
\* holds, so range/tot is never zero when it divides.
DecRangeFloor ==
    /\ dpc \in {"idle", "ready"} => drange >= TOP
    /\ dpc = "renorm" => drange >= Base /\ drange < TOP
=============================================================================
