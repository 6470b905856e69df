------------------------------- MODULE Arena --------------------------------
(***************************************************************************)
(* tq_carve of core/src/tq_model.c: structures carved one after the other  *)
(* out of a caller's byte array, each at a 16-byte aligned ADDRESS.        *)
(*                                                                         *)
(* Nothing is ever freed.  A request that does not fit yields NULL and     *)
(* leaves the arena as it was, so that a later, smaller one may still fit. *)
(***************************************************************************)
EXTENDS Integers, Sequences

VARIABLES
    base,       \* address of the arena
    cap,        \* its size in bytes
    used,       \* bytes carved, gaps included
    carved,     \* regions handed out, in order: [off, bytes]
    refused,    \* some request yielded NULL
    asked,      \* history: bytes asked for so far, refused requests included
    calls       \* history: requests made so far

arenaVars == <<base, cap, used, carved, refused, asked, calls>>

\* Mutant: psram_alloc's alignment of 64.
AlignTo64(v) == ((v + 63) \div 64) * 64

\* tq_align_up(v, 16)
tq_align_up(v) == ((v + 15) \div 16) * 16

\* Mutant: the offset is aligned and not the address.
NextOffPlain == tq_align_up(used)

\* Mutant: the skew is taken off without having been added.
NextOffShifted == tq_align_up(used) - (base % 16)

\* Where the next region would start, relative to the base.
NextOff == tq_align_up(used + (base % 16)) - (base % 16)

\* An arena nothing has been carved from yet.
Fresh(b, c) ==
    [base |-> b, cap |-> c, used |-> 0, carved |-> <<>>, refused |-> FALSE,
     asked |-> 0, calls |-> 0]

tq_carve(bytes) ==
    /\ IF NextOff + bytes > cap
       THEN refused' = TRUE /\ UNCHANGED <<used, carved>>
       ELSE /\ used' = NextOff + bytes
            /\ carved' = Append(carved, [off |-> NextOff, bytes |-> bytes])
            /\ UNCHANGED refused
    /\ asked' = asked + bytes
    /\ calls' = calls + 1
    /\ UNCHANGED <<base, cap>>

-----------------------------------------------------------------------------

ArenaTypeOK ==
    /\ base \in Nat /\ cap \in Nat /\ used \in Nat
    /\ carved \in Seq([off : Nat, bytes : Nat])
    /\ refused \in BOOLEAN
    /\ asked \in Nat /\ calls \in Nat

\* What tq_carve hands out: regions inside the arena and at aligned addresses,
\* "a 16-byte offset from a 2-byte-aligned base is still 2-byte aligned", of
\* which no two share a byte.
RegionsSound ==
    /\ \A i \in 1 .. Len(carved) :
          /\ (base + carved[i].off) % 16 = 0
          /\ carved[i].off + carved[i].bytes <= cap
    /\ \A i, j \in 1 .. Len(carved) :
          i < j => carved[i].off + carved[i].bytes <= carved[j].off

\* tq_carve wastes less than 16 bytes per call: it refuses a request only when
\* what was asked for, plus 15 bytes for each call, is more than the arena.
RefusedOnlyWhenFull == refused => asked + 15 * calls > cap
=============================================================================
