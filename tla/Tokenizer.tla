----------------------------- MODULE Tokenizer ------------------------------
(***************************************************************************)
(* tq_encode and tq_decode of core/src/tq_tokenizer.c: a text is split     *)
(* into code points, each looked up by binary search or spelled out in     *)
(* byte tokens, and neighbours are merged by score; tokens are decoded one *)
(* by one.                                                                 *)
(*                                                                         *)
(* A string is a sequence of bytes.  The spelling "<0xNN>" of a byte token *)
(* is a mark, which no text contains, followed by the byte.                *)
(***************************************************************************)
EXTENDS Integers, Sequences, FiniteSets

CONSTANTS
    Bytes,          \* bytes of texts
    SPACE,
    MARK,           \* opens the spelling of a byte token
    CodeLength(_),  \* length of a code point by its first byte
    Vocabs,         \* the vocabularies: [piece, score], by token id from 0
    BOS,
    BufBytes,       \* buf_bytes
    OutBytes        \* out_bytes

ByteName(byte) == <<MARK, byte>>
Ids(v) == DOMAIN Vocabs[v].piece

ASSUME TokenizerAssumption ==
    /\ Bytes \subseteq Nat /\ SPACE \in Bytes /\ MARK \in Nat \ Bytes
    /\ \A byte \in Bytes : CodeLength(byte) \in 1 .. 4
    /\ \A v \in DOMAIN Vocabs :
          /\ IsFiniteSet(Ids(v))
          /\ Vocabs[v].piece \in [0 .. Cardinality(Ids(v)) - 1 -> Seq(Nat)]
          /\ Vocabs[v].score \in [Ids(v) -> Int]
          /\ BOS \in Ids(v)
          /\ \A byte \in Bytes : \E id \in Ids(v) : Vocabs[v].piece[id] = ByteName(byte)
          /\ \A id \in Ids(v) : Len(Vocabs[v].piece[id]) < OutBytes
    /\ BufBytes \in Nat /\ OutBytes \in Nat

\* The mark occurs in byte tokens only, the opening token is not spelled by the
\* bytes of a text, and no piece begins with it and another one.
ASSUME SpellingAssumption ==
    /\ CodeLength(SPACE) = 1
    /\ \A v \in DOMAIN Vocabs : \A id \in Ids(v) :
          LET p    == Vocabs[v].piece[id]
              open == Vocabs[v].piece[BOS]
          IN  /\ \A n \in 1 .. Len(p) : p[n] = MARK => n = 1 /\ Len(p) = 2
              /\ \E n \in 1 .. Len(open) : open[n] \notin Bytes \cup {MARK}
              /\ \A o \in Ids(v) : p # open \o Vocabs[v].piece[o]

VARIABLES
    text,
    vocab,      \* the vocabulary in use
    max_tokens, \* length of the caller's array
    tpc,        \* "start", "split", "merge", then "encoded" or "failed"
    split,      \* bytes of the text split
    tokens

tokVars == <<text, vocab, max_tokens, tpc, split, tokens>>

Piece(id) == Vocabs[vocab].piece[id]

-----------------------------------------------------------------------------
(* Lookup. *)

\* tq_cmp: bytewise, a prefix is less than what it begins.
Less(a, b) ==
    \E n \in 0 .. Len(a) :
        /\ n < Len(b) /\ SubSeq(a, 1, n) = SubSeq(b, 1, n)
        /\ n = Len(a) \/ a[n + 1] < b[n + 1]

\* The permutations the converter writes; equal pieces stay in order of id.
Permutation ==
    [v \in DOMAIN Vocabs |->
        [r \in Ids(v) |->
            CHOOSE id \in Ids(v) :
                r = Cardinality({o \in Ids(v) :
                                   \/ Less(Vocabs[v].piece[o], Vocabs[v].piece[id])
                                   \/ Vocabs[v].piece[o] = Vocabs[v].piece[id] /\ o < id})]]

sorted == Permutation[vocab]

\* Mutant: the search stops at a range of one entry.
LookupShort(s) ==
    LET n == Cardinality(Ids(vocab))
        find[r \in (0 .. n) \X (-1 .. n - 1)] ==
            LET mid == r[1] + (r[2] - r[1]) \div 2
            IN  IF r[1] >= r[2] THEN -1
                ELSE IF s = Piece(sorted[mid]) THEN sorted[mid]
                ELSE IF Less(s, Piece(sorted[mid])) THEN find[<<r[1], mid - 1>>]
                ELSE find[<<mid + 1, r[2]>>]
    IN  find[<<0, n - 1>>]

\* The id of a string, or -1: a binary search, on ranges <<lo, hi>>.
tq_lookup(s) ==
    LET n == Cardinality(Ids(vocab))
        find[r \in (0 .. n) \X (-1 .. n - 1)] ==
            LET mid == r[1] + (r[2] - r[1]) \div 2
            IN  IF r[1] > r[2] THEN -1
                ELSE IF s = Piece(sorted[mid]) THEN sorted[mid]
                ELSE IF Less(s, Piece(sorted[mid])) THEN find[<<r[1], mid - 1>>]
                ELSE find[<<mid + 1, r[2]>>]
    IN  find[<<0, n - 1>>]

-----------------------------------------------------------------------------
(* tq_encode. *)

TokInit ==
    /\ vocab \in DOMAIN Vocabs
    /\ tpc = "start" /\ split = 0 /\ tokens = <<>>

\* TQ_PUSH of one or more tokens; a full array ends the call.
Push(ids) ==
    IF Len(tokens) + Len(ids) > max_tokens
    THEN tpc' = "failed" /\ UNCHANGED tokens
    ELSE tokens' = tokens \o ids /\ tpc' = "split"

\* The opening token, and a space in front of a text that is not empty.
Start ==
    /\ tpc = "start"
    /\ Push(IF text # <<>> /\ tq_lookup(<<SPACE>>) >= 0
            THEN <<BOS, tq_lookup(<<SPACE>>)>> ELSE <<BOS>>)
    /\ UNCHANGED <<text, vocab, max_tokens, split>>

\* A code point that the end of the text cuts off is taken for a single byte.
PointLength ==
    LET len == CodeLength(text[split + 1])
    IN  IF split + len > Len(text) THEN 1 ELSE len

\* The byte tokens of a code point; a byte without one is left out.
ByteTokens(point) ==
    LET upto[n \in 0 .. Len(point)] ==
          IF n = 0 THEN <<>>
          ELSE LET id == tq_lookup(ByteName(point[n]))
               IN  IF id >= 0 THEN Append(upto[n - 1], id) ELSE upto[n - 1]
    IN  upto[Len(point)]

Split ==
    /\ tpc = "split" /\ split < Len(text)
    /\ LET point == SubSeq(text, split + 1, split + PointLength)
           id    == tq_lookup(point)
       IN  Push(IF id >= 0 THEN <<id>> ELSE ByteTokens(point))
    /\ split' = split + PointLength
    /\ UNCHANGED <<text, vocab, max_tokens>>

SplitDone ==
    /\ tpc = "split" /\ split >= Len(text)
    /\ tpc' = "merge"
    /\ UNCHANGED <<text, vocab, max_tokens, split, tokens>>

Joined(k) == Piece(tokens[k]) \o Piece(tokens[k + 1])

\* The neighbours that can be merged.
Mergeable ==
    {k \in 1 .. Len(tokens) - 1 :
        Len(Joined(k)) <= BufBytes /\ tq_lookup(Joined(k)) >= 0}

MergeAt(k) ==
    SubSeq(tokens, 1, k - 1) \o <<tq_lookup(Joined(k))>> \o SubSeq(tokens, k + 2, Len(tokens))

\* The pair with the best score is merged, the leftmost of several.
Merge ==
    /\ tpc = "merge"
    /\ \E k \in Mergeable :
          /\ \A o \in Mergeable :
                LET mine == Vocabs[vocab].score[tq_lookup(Joined(k))]
                    its  == Vocabs[vocab].score[tq_lookup(Joined(o))]
                IN  mine > its \/ (mine = its /\ k <= o)
          /\ tokens' = MergeAt(k)
    /\ UNCHANGED <<text, vocab, max_tokens, tpc, split>>

MergeDone ==
    /\ tpc = "merge" /\ Mergeable = {}
    /\ tpc' = "encoded"
    /\ UNCHANGED <<text, vocab, max_tokens, split, tokens>>

-----------------------------------------------------------------------------
(* tq_decode. *)

\* Mutant: the leading space of every token is dropped.
DecodedTrimmed(prev, id) ==
    LET p   == Piece(id)
        cut == IF p # <<>> /\ p[1] = SPACE THEN Tail(p) ELSE p
    IN  IF Len(cut) = 2 /\ cut[1] = MARK THEN <<cut[2]>> ELSE cut

\* A leading space is dropped behind the opening token; byte tokens stand for
\* their byte.
Decoded(prev, id) ==
    LET p   == Piece(id)
        cut == IF prev = BOS /\ p # <<>> /\ p[1] = SPACE THEN Tail(p) ELSE p
    IN  IF Len(cut) = 2 /\ cut[1] = MARK THEN <<cut[2]>>
        ELSE IF Len(cut) + 1 > OutBytes THEN SubSeq(cut, 1, OutBytes - 1)
        ELSE cut

TokStep == Start \/ Split \/ SplitDone \/ Merge \/ MergeDone

-----------------------------------------------------------------------------

\* When merging ends, no two neighbours make up a piece of the vocabulary that
\* fits the buffer: the binary search finds every piece there is.
MergedOut ==
    tpc = "encoded" =>
        \A k \in 1 .. Len(tokens) - 1 :
            Len(Joined(k)) <= BufBytes =>
                Joined(k) \notin {Piece(id) : id \in Ids(vocab)}
=============================================================================
