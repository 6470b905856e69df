------------------------------ MODULE MemTest -------------------------------
(***************************************************************************)
(* psram_memtest of psram_flexspi2.c, as a function of what is wrong with  *)
(* the board: every word of the window is written with its own address,    *)
(* read back, and the same again with the complement.                      *)
(*                                                                         *)
(* The part is serial: a word of WordBits bits goes over Lines data lines, *)
(* bit b over line b % Lines.  Words and indices are functions of their    *)
(* bits.  The faults are the two its comment names, a stuck or shorted     *)
(* data line and an address line that is not decoded, as a hand-soldered   *)
(* joint produces them.  No caller asks for the quick form.                *)
(***************************************************************************)
EXTENDS Integers, FiniteSets

CONSTANTS
    WordBits,   \* bits of a word: 32
    Lines,      \* data lines: 4
    AddrBits,   \* address lines inside the window
    Seed        \* the bits that are set in 0xA5A5A5A5

Bits == 0 .. WordBits - 1

\* The sweep's window of 1 MB has 18 address lines: fewer than a word has bits,
\* and enough for the patterns to tell any two data lines apart.
ASSUME MemTestAssumption ==
    /\ WordBits \in Nat /\ Lines \in 1 .. WordBits /\ AddrBits \in Lines - 1 .. WordBits
    /\ Seed \subseteq Bits

\* An index of the loops, by its bits.
AddrLines == 0 .. AddrBits - 1
Words == [AddrLines -> {0, 1}]

\* One index comes after another in a loop that counts upward.
After(a, o) == \E b \in AddrLines : a[b] > o[b] /\ \A c \in AddrLines : c > b => a[c] = o[c]

\* The faults of a line.
Defects ==
    [kind : {"stuck"}, line : 0 .. Lines - 1, at : {0, 1}]
        \cup {f \in [kind : {"short"}, line : 0 .. Lines - 1, other : 0 .. Lines - 1] :
                 f.line < f.other}
        \cup [kind : {"address"}, line : 0 .. AddrBits - 1, at : {0, 1}]

Sound == [kind |-> "none"]

\* The cell an address reaches.
Decode(f, a) ==
    IF f.kind # "address" THEN a ELSE [a EXCEPT ![f.line] = f.at]

\* What arrives at the other end of the data lines; shorted lines pull each
\* other low.
Carried(f, w) ==
    CASE f.kind = "stuck" ->
            [b \in Bits |-> IF b % Lines = f.line THEN f.at ELSE w[b]]
      [] f.kind = "short" ->
            [b \in Bits |->
                LET x == b - (b % Lines) + f.line
                    y == b - (b % Lines) + f.other
                IN  IF b \in {x, y} /\ x \in Bits /\ y \in Bits
                    THEN w[x] * w[y] ELSE w[b]]
      [] OTHER -> w

\* Mutant: every word gets the same pattern.
PatternConstant(a, inverted) ==
    [b \in Bits |-> ((IF b \in Seed THEN 1 ELSE 0) + (IF inverted THEN 1 ELSE 0)) % 2]

\* i ^ 0xA5A5A5A5, or its complement.
Pattern(a, inverted) ==
    [b \in Bits |->
        ((IF b \in AddrLines THEN a[b] ELSE 0) + (IF b \in Seed THEN 1 ELSE 0)
            + (IF inverted THEN 1 ELSE 0)) % 2]

\* What a cell holds when a writing loop has ended: the last of the addresses
\* that reach the cell counts.
Stored(f, inverted, cell) ==
    LET reach == {a \in Words : Decode(f, a) = cell}
        final == CHOOSE a \in reach : \A o \in reach \ {a} : After(a, o)
    IN  Carried(f, Pattern(final, inverted))

ReadBack(f, inverted, a) ==
    Carried(f, Stored(f, inverted, Decode(f, a)))

\* The number of failing words, of the two passes together.
psram_memtest(f) ==
    Cardinality({p \in Words \X BOOLEAN :
        ReadBack(f, p[2], p[1]) # Pattern(p[1], p[2])})
=============================================================================
