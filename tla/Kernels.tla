------------------------------ MODULE Kernels -------------------------------
(***************************************************************************)
(* The integer dot products of core/src/tq_kernels.c, in the two forms the *)
(* file is compiled to: plain C on the host, and the Cortex-M7's packed    *)
(* instructions on the board.  The scales of the blocks, which both forms  *)
(* apply to the integer result in the same order, are left out.            *)
(*                                                                         *)
(* Arrays are functions from 0.  A 32-bit word is its four bytes, the      *)
(* lowest one first, as a little-endian load delivers them.                *)
(***************************************************************************)
EXTENDS Integers

GROUP == 32                 \* TQ_GROUP_SIZE
Lanes == 0 .. 3

\* An int8_t read from its byte.
Signed(byte) == IF byte >= 128 THEN byte - 256 ELSE byte

-----------------------------------------------------------------------------
(* Blocks as the converter and tq_quantize_q8 write them. *)

\* quantize_q8_0, tq_quantize_q8: one byte an element.
PackedQ80(q) == [j \in 0 .. GROUP - 1 |-> q[j] % 256]

\* quantize_q4_0: element j in the low half of byte j, j + 16 in the high half.
PackedQ40(q) == [j \in 0 .. GROUP \div 2 - 1 |-> (q[j] + 8) + 16 * (q[j + 16] + 8)]

-----------------------------------------------------------------------------
(* The generic loops. *)

GenericQ40(w, x) ==
    LET acc[n \in 0 .. GROUP \div 2] ==
          IF n = 0 THEN 0
          ELSE LET j == n - 1
               IN  acc[n - 1] + ((w[j] % 16) - 8) * Signed(x[j])
                              + ((w[j] \div 16) - 8) * Signed(x[j + 16])
    IN  acc[GROUP \div 2]

GenericQ80(w, x) ==
    LET acc[n \in 0 .. GROUP] ==
          IF n = 0 THEN 0 ELSE acc[n - 1] + Signed(w[n - 1]) * Signed(x[n - 1])
    IN  acc[GROUP]

-----------------------------------------------------------------------------
(* The instructions. *)

tq_ld32(p, j) == [k \in Lanes |-> p[j + k]]

\* Shifts to the right by a byte and by half a byte, and the mask 0x0F0F0F0F.
ShiftByte(v) == [k \in Lanes |-> IF k = 3 THEN 0 ELSE v[k + 1]]
ShiftHalf(v) == [k \in Lanes |-> v[k] \div 16 + (IF k = 3 THEN 0 ELSE 16 * (v[k + 1] % 16))]
LowHalves(v) == [k \in Lanes |-> v[k] % 16]

\* Four byte subtractions; bytes 0 and 2 sign-extended; two products added.
tq_ssub8(v, byte) == [k \in Lanes |-> (v[k] - byte) % 256]
tq_sxtb16(v) == <<Signed(v[0]), Signed(v[2])>>
tq_smlad(a, b, acc) == acc + a[1] * b[1] + a[2] * b[2]

\* The even bytes of two words, then the odd ones.
DotWords(v, x, acc) ==
    tq_smlad(tq_sxtb16(ShiftByte(v)), tq_sxtb16(ShiftByte(x)),
             tq_smlad(tq_sxtb16(v), tq_sxtb16(x), acc))

DspQ80(w, x) ==
    LET acc[n \in 0 .. GROUP \div 4] ==
          IF n = 0 THEN 0
          ELSE LET j == 4 * (n - 1)
               IN  DotWords(tq_ld32(w, j), tq_ld32(x, j), acc[n - 1])
    IN  acc[GROUP \div 4]

\* Mutant: the high halves are multiplied with the activations of the low ones.
DspQ40Adjacent(w, x) ==
    LET acc[n \in 0 .. GROUP \div 8] ==
          IF n = 0 THEN 0
          ELSE LET j  == 4 * (n - 1)
                   v  == tq_ld32(w, j)
                   lo == tq_ssub8(LowHalves(v), 8)
                   hi == tq_ssub8(LowHalves(ShiftHalf(v)), 8)
               IN  DotWords(hi, tq_ld32(x, j + 4), DotWords(lo, tq_ld32(x, j), acc[n - 1]))
    IN  acc[GROUP \div 8]

DspQ40(w, x) ==
    LET acc[n \in 0 .. GROUP \div 8] ==
          IF n = 0 THEN 0
          ELSE LET j  == 4 * (n - 1)
                   v  == tq_ld32(w, j)
                   lo == tq_ssub8(LowHalves(v), 8)
                   hi == tq_ssub8(LowHalves(ShiftHalf(v)), 8)
               IN  DotWords(hi, tq_ld32(x, j + 16), DotWords(lo, tq_ld32(x, j), acc[n - 1]))
    IN  acc[GROUP \div 8]

-----------------------------------------------------------------------------

\* tq_dot_q40_q80 and tq_dot_q80_q80 of one block as a host and a board
\* compute them, on weights q and activations a before packing.
tq_dot(role, dtype, q, a) ==
    CASE dtype = "Q4_0" /\ role = "host"  -> GenericQ40(PackedQ40(q), PackedQ80(a))
      [] dtype = "Q4_0" /\ role = "board" -> DspQ40(PackedQ40(q), PackedQ80(a))
      [] dtype = "Q8_0" /\ role = "host"  -> GenericQ80(PackedQ80(q), PackedQ80(a))
      [] dtype = "Q8_0" /\ role = "board" -> DspQ80(PackedQ80(q), PackedQ80(a))

\* The reference: the inner product of what was packed.
InnerProduct(q, a) ==
    LET sum[n \in 0 .. GROUP] == IF n = 0 THEN 0 ELSE sum[n - 1] + q[n - 1] * a[n - 1]
    IN  sum[GROUP]
=============================================================================
