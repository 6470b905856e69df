---------------------------- MODULE MCSemaphore -----------------------------
(***************************************************************************)
(* Semaphore for TLC: base-4 digits, three vocabularies of 11 to 13 tokens *)
(* in three or four buckets (the last one short), one with 8-bit weights,  *)
(* and one of 17 tokens, a bucket too many; lengths 0..3 and a context of  *)
(* three.  Texts run over a space, two letters and the two bytes of a code *)
(* point, whole, cut off or out of place.  A wire of the host may be too   *)
(* long for the board's line, or for its buffer.                           *)
(***************************************************************************)
EXTENDS Semaphore

sp == 1
a  == 2
b  == 3
c1 == 4     \* first byte of a code point of two
c2 == 5
hex == 9
bos == <<7, 7>>

MCCodeLength(x) == IF x = c1 THEN 2 ELSE 1

ByteSpelled == << <<hex, sp>>, <<hex, a>>, <<hex, b>>, <<hex, c1>>, <<hex, c2>> >>

\* Ids from 0, the opening token first; longer pieces score as in `s'.
MCVocab(p, s) ==
    LET all == <<bos>> \o ByteSpelled \o p
    IN  [piece |-> [id \in 0 .. Len(all) - 1 |-> all[id + 1]],
         score |-> [id \in 0 .. Len(all) - 1 |-> IF id < 6 THEN 0 ELSE s[id - 5]]]

\* Letters, the code point and overlapping merges; a vocabulary without a
\* space; one with letters missing, spaces to merge and a piece twice; one with
\* more tokens than the coder takes.
MCVocabs ==
    << MCVocab(<< <<b>>, <<a>>, <<sp>>, <<c1, c2>>, <<a, b>>, <<sp, a>>, <<sp, a, b>> >>,
               <<0, 0, 0, 1, 3, 5, 4>>),
       MCVocab(<< <<a>>, <<sp, a>>, <<a, a>>, <<b>>, <<a, a, b>>, <<b, c1, c2>> >>,
               <<0, 2, 2, 0, 7, 3>>),
       MCVocab(<< <<sp>>, <<sp, sp>>, <<a>>, <<a, sp>>, <<a, sp>> >>,
               <<0, 1, 0, 1, 2>>),
       MCVocab(<< <<sp>>, <<a>>, <<b>>, <<a, a>>, <<a, b>>, <<b, a>>, <<b, b>>,
                  <<sp, a>>, <<sp, b>>, <<a, sp>>, <<b, sp>> >>,
               [i \in 1 .. 11 |-> i]) >>

\* Weights over the whole range of their type, no two rows alike.
HeadOf(v) ==
    LET least == IF v = 2 THEN -127 ELSE -8
        wide  == IF v = 2 THEN 255 ELSE 16
    IN  [dtype |-> IF v = 2 THEN "Q8_0" ELSE "Q4_0",
         rows  |-> [id \in Ids(v) |->
                      [j \in 0 .. GROUP - 1 |-> least + (((id + 3) * (5 * j + 2) + j * j) % wide)]]]

MCHeads == [v \in DOMAIN MCVocabs |-> HeadOf(v)]

\* Activations of both signs up to the extremes, a different one behind the
\* empty prefix and behind every third token.
MCActs ==
    [h \in 1 .. 4 |-> [j \in 0 .. GROUP - 1 |-> -127 + ((h * (37 * j + 11) + j * j) % 255)]]

MCHidden(prefix) == IF prefix = <<>> THEN 1 ELSE 2 + (prefix[Len(prefix)] % 3)

MCHostTexts ==
    UNION {[1 .. n -> {sp, a, b, c1, c2}] : n \in 0 .. 2}
        \cup { <<a, b, a>>, <<a, a, b>>, <<b, c1, c2>>, <<c1, c2, a>>, <<sp, a, b>>,
               <<a, sp, a>>, <<sp, sp, sp>>, <<c2, c1, c2>>,
               <<b, b, b, b, b>>, <<c1, a, c1, a, c1, a, c1, a>> }

MCBoardLines ==
    { << <<a>> >>, << <<a, b>> >>, << <<a>>, <<b>> >>, << <<c1, c2>>, <<a>> >>,
      << <<c2>>, <<c1>> >>, << <<a, b, a>> >>, << <<a, a>>, <<b, b>>, <<a>> >> }

MCStray == UNION {[1 .. n -> Byte] : n \in 0 .. 1}
             \cup {<<3, x>> : x \in Byte} \cup {<<1, 2, 3>>, <<2, 3, 3>>, <<3, 3, 3>>}

Rows(cnt) == {Triple(cnt, i) : i \in 1 .. Len(cnt)}

MCTables ==
    {LenTable} \cup
    UNION { UNION { {BucketTable[role][v][h]}
                      \cup {SymbolTable[role][v][h][n] : n \in 1 .. nbuckets(Cardinality(Ids(v)))}
                    : role \in Roles, h \in DOMAIN Acts }
            : v \in Codable }

MCTriples == UNION {Rows(cnt) : cnt \in MCTables}
=============================================================================
