----------------------------- MODULE Semaphore ------------------------------
(***************************************************************************)
(* A message from one machine to another: do_message / do_decode of        *)
(* host/tq_sem.c and cmd_sem_encode / cmd_sem_decode of the firmware.  The *)
(* text is tokenized, the tokens are coded with the range coder against    *)
(* the two-level count tables of tq_ac.c, and the other end decodes the    *)
(* tokens and prints their text.                                           *)
(*                                                                         *)
(* Either end is a host or a board.  Both run the same model up to the     *)
(* last matrix; the integer products of that one are computed with the     *)
(* kernels of the end's own processor, and the other end's decoder relies  *)
(* on the same result.  The wire may arrive whole, cut short, or as bytes  *)
(* that no encoder produced; the two ends hold wires of different lengths. *)
(*                                                                         *)
(* A message is the sequence of tokens after BOS, numbered from 1: token 1 *)
(* is id 0 in the code.                                                    *)
(***************************************************************************)
EXTENDS RangeCoder, Tokenizer, Kernels

CONSTANTS
    BUCKET,         \* TQ_AC_BUCKET: 128 in the code
    MAX_BUCKETS,    \* TQ_AC_MAX_BUCKETS: 512
    LEN_SYMBOLS,    \* values of the length field, SEM_MAX_TOKENS: 256
    MaxSeq,         \* rt->max_seq at both ends
    TEXT_BYTES,     \* size of cmd_sem_encode's text: 192
    MAX_WIRE,       \* wire bytes of host/tq_sem.c: 4096
    SEM_MAX_WIRE,   \* wire bytes of the board's buffer: 640
    LINE_WIRE,      \* wire bytes a board's command line has room for: 118
    Unit,           \* weight of the most likely symbol: 2^24 in the code
    LogitUnit,      \* integer results of a dot product that double a weight
    Heads,          \* the last matrix of each vocabulary: [dtype, rows]
    Acts,           \* the activations that reach it
    Hidden(_),      \* tq_forward up to there: prefix to index in Acts
    HostTexts,      \* texts given to the host
    BoardLines,     \* command lines typed at the board, as words
    Stray           \* byte strings that may arrive instead of the wire

ASSUME SemaphoreAssumption ==
    /\ BUCKET \in 1 .. TOT /\ MAX_BUCKETS \in 1 .. TOT
    /\ {MAX_WIRE, SEM_MAX_WIRE} \subseteq Caps /\ LINE_WIRE \in Nat
    /\ MaxSeq \in Nat \ {0} /\ TEXT_BYTES \in Nat
    /\ Unit \in Nat /\ LogitUnit \in Nat \ {0}
    /\ LEN_SYMBOLS \in 1 .. TOT /\ TOT % LEN_SYMBOLS = 0
    /\ HostTexts \subseteq Seq(Bytes)
    /\ BoardLines \subseteq Seq(Seq(Bytes \ {SPACE}) \ {<<>>}) \ {<<>>}
    /\ Stray \subseteq Seq(Byte)
    /\ DOMAIN Heads = DOMAIN Vocabs
    /\ \A v \in DOMAIN Vocabs :
          /\ Heads[v].dtype \in {"Q4_0", "Q8_0"}
          /\ Heads[v].rows \in
                [Ids(v) -> [0 .. GROUP - 1 -> IF Heads[v].dtype = "Q4_0" THEN -8 .. 7
                                              ELSE -128 .. 127]]
    /\ \A h \in DOMAIN Acts : Acts[h] \in [0 .. GROUP - 1 -> -128 .. 127]
    /\ \A v \in DOMAIN Vocabs : \A n \in 0 .. LEN_SYMBOLS - 1 :
          \A prefix \in [1 .. n -> 1 .. Cardinality(Ids(v))] : Hidden(prefix) \in DOMAIN Acts
    /\ MaxSyms \in Nat /\ 2 * LEN_SYMBOLS <= MaxSyms

Roles == {"host", "board"}

-----------------------------------------------------------------------------
(* Logits, and count tables from them. *)

\* The classifier row of every token times the activation, by end, vocabulary
\* and activation.
Scores ==
    [role \in Roles |-> [v \in DOMAIN Vocabs |-> [h \in DOMAIN Acts |->
        [t \in 1 .. Cardinality(Ids(v)) |->
            tq_dot(role, Heads[v].dtype, Heads[v].rows[t - 1], Acts[h]) \div LogitUnit]]]]

\* The same from the weights themselves.
ExactScores ==
    [v \in DOMAIN Vocabs |-> [h \in DOMAIN Acts |->
        [t \in 1 .. Cardinality(Ids(v)) |->
            InnerProduct(Heads[v].rows[t - 1], Acts[h]) \div LogitUnit]]]

\* The tokens of a bucket of n, the last one possibly short.
nbuckets(n) == (n + BUCKET - 1) \div BUCKET
MAX_VOCAB == BUCKET * MAX_BUCKETS
BucketTokens(n, b) == {i \in 1 .. n : (b - 1) * BUCKET < i /\ i <= b * BUCKET}

Peak(lg, S) == CHOOSE x \in {lg[i] : i \in S} : \A i \in S : lg[i] <= x

\* tq_ac_exp2_q24 of tq_ac_delta_q16, at whole powers of two: it halves with
\* every step below the maximum, and 18 nats below is as far as it goes.
Halved[d \in 0 .. 26] == IF d = 0 THEN Unit ELSE Halved[d - 1] \div 2
Weight(l, max) == Halved[IF max - l > 26 THEN 26 ELSE max - l]

SumOver(f, S) ==
    LET sum[n \in 0 .. Len(f)] ==
          IF n = 0 THEN 0 ELSE sum[n - 1] + (IF n \in S THEN f[n] ELSE 0)
    IN  sum[Len(f)]

tq_ac_bucket_counts(lg) ==
    LET n   == Len(lg)
        max == Peak(lg, 1 .. n)
        w   == [i \in 1 .. n |-> Weight(lg[i], max)]
    IN  tq_ac_normalize([b \in 1 .. nbuckets(n) |-> SumOver(w, BucketTokens(n, b))])

\* Renormalised against the bucket's own maximum.
tq_ac_symbol_counts(lg, b) ==
    LET S   == BucketTokens(Len(lg), b)
        max == Peak(lg, S)
    IN  tq_ac_normalize([i \in 1 .. Cardinality(S) |-> Weight(lg[(b - 1) * BUCKET + i], max)])

\* Both tables of every prediction, by end, vocabulary and activation.
BucketTable ==
    [role \in Roles |-> [v \in DOMAIN Vocabs |-> [h \in DOMAIN Acts |->
        tq_ac_bucket_counts(Scores[role][v][h])]]]

SymbolTable ==
    [role \in Roles |-> [v \in DOMAIN Vocabs |-> [h \in DOMAIN Acts |->
        [b \in 1 .. nbuckets(Cardinality(Ids(v))) |->
            tq_ac_symbol_counts(Scores[role][v][h], b)]]]]

\* The flat length field: SEM_LEN_FREQ counts for every length.
LenTable == [i \in 1 .. LEN_SYMBOLS |-> TOT \div LEN_SYMBOLS]

\* The vocabularies that tq_ac_model_init accepts.
Codable == {v \in DOMAIN Vocabs : Cardinality(Ids(v)) <= MAX_VOCAB}

\* The coder is given these tables.
ASSUME CodedTablesAssumption ==
    /\ LenTable \in Tables
    /\ \A role \in Roles : \A v \in Codable : \A h \in DOMAIN Acts :
          /\ BucketTable[role][v][h] \in Tables
          /\ \A b \in 1 .. nbuckets(Cardinality(Ids(v))) : SymbolTable[role][v][h][b] \in Tables

BucketOf(tok) == ((tok - 1) \div BUCKET) + 1
SymbolOf(tok) == ((tok - 1) % BUCKET) + 1

-----------------------------------------------------------------------------

VARIABLES
    sender, receiver,   \* roles of the two ends
    line,               \* the words the sender was given
    sphase,             \* where the sender's command is
    coded,              \* tokens coded so far
    rphase,             \* where the receiver's command is
    want,               \* decoded length
    got,                \* tokens decoded so far
    out,                \* text printed by the receiver
    link                \* "none", then what the receiver read: "whole", "cut", "stray"

semVars == <<sender, receiver, line, sphase, coded, rphase, want, got, out, link>>
coderVars == <<encVars, sent, settled>>
sysVars == <<vars, tokVars, semVars>>

\* The tokens after BOS.
msg == [n \in 1 .. Len(tokens) - 1 |-> tokens[n + 1] + 1]

\* tq_forward at one end on BOS and the tokens after it, and the tables of the
\* logits it leaves.
BucketCounts(role, prefix) == BucketTable[role][vocab][Hidden(prefix)]
SymbolCounts(role, prefix, b) == SymbolTable[role][vocab][Hidden(prefix)][b]

\* cmd_sem_encode puts its arguments together with single spaces; one that
\* does not fit is left out.
BoardText(words) ==
    LET used[n \in 0 .. Len(words)] ==
          IF n = 0 THEN <<>>
          ELSE IF Len(used[n - 1]) + Len(words[n]) + 2 >= TEXT_BYTES THEN used[n - 1]
          ELSE used[n - 1] \o (IF used[n - 1] = <<>> THEN <<>> ELSE <<SPACE>>) \o words[n]
    IN  used[Len(words)]

\* The host's token array is twice as long as the board's, its wire buffer longer.
SemInit ==
    /\ Init /\ TokInit
    /\ \/ /\ sender = "host" /\ max_tokens = 2 * LEN_SYMBOLS /\ cap = MAX_WIRE
          /\ text \in HostTexts /\ line = <<text>>
       \/ /\ sender = "board" /\ max_tokens = LEN_SYMBOLS /\ cap = SEM_MAX_WIRE
          /\ line \in BoardLines /\ text = BoardText(line)
    /\ receiver = "none"
    /\ sphase = "idle" /\ coded = 0
    /\ rphase = "idle" /\ want = 0 /\ got = <<>> /\ out = <<>>
    /\ link = "none"

\* Mutant: the context limit is off by one.
TooLongByOne(role, n) ==
    \/ n - 1 >= LEN_SYMBOLS
    \/ role = "board" /\ n >= MaxSeq

\* The board refuses more tokens, BOS included, than its context holds; the
\* host only what the length field cannot express.
TooLong(role, n) ==
    \/ n - 1 >= LEN_SYMBOLS
    \/ role = "board" /\ n > MaxSeq

\* The range check of tq_forward.
ForwardOK(p) == p < MaxSeq

\* sem_ready, or open_model: the coder does not take this vocabulary.
NotReady ==
    /\ sphase = "idle" /\ vocab \notin Codable
    /\ sphase' = "refused"
    /\ UNCHANGED <<vars, tokVars, sender, receiver, line, out, coded, rphase, want, got, link>>

\* tq_encode; a full token array ends the command.
Tokenize ==
    /\ sphase = "idle" /\ vocab \in Codable
    /\ TokStep
    /\ UNCHANGED <<vars, semVars>>

\* cmd_sem_encode / sem_encode: the length field, or a refusal.
EncodeLength ==
    /\ sphase = "idle" /\ tpc = "encoded"
    /\ LET n == Len(msg) + 1
       IN  IF TooLong(sender, n)
           THEN sphase' = "refused" /\ UNCHANGED vars
           ELSE Send(LenTable, n) /\ sphase' = "token"
    /\ UNCHANGED <<tokVars, sender, receiver, line, out, coded, rphase, want, got, link>>

\* tq_forward on the prefix, then the first half of tq_ac_enc_token.
EncodeBucket ==
    /\ sphase = "token" /\ coded < Len(msg) /\ ForwardOK(coded)
    /\ Send(BucketCounts(sender, SubSeq(msg, 1, coded)), BucketOf(msg[coded + 1]))
    /\ sphase' = "symbol"
    /\ UNCHANGED <<tokVars, sender, receiver, line, out, coded, rphase, want, got, link>>

\* Mutant: the symbol is coded with the prediction that already includes it.
EncodeSymbolAhead ==
    LET tok == msg[coded + 1]
        cnt == SymbolCounts(sender, SubSeq(msg, 1, coded + 1), BucketOf(tok))
    IN  /\ sphase = "symbol"
        /\ Send(cnt, SymbolOf(tok))
        /\ coded' = coded + 1
        /\ sphase' = "token"
        /\ UNCHANGED <<tokVars, sender, receiver, line, out, rphase, want, got, link>>

\* The second half of tq_ac_enc_token.
EncodeSymbol ==
    LET tok == msg[coded + 1]
        cnt == SymbolCounts(sender, SubSeq(msg, 1, coded), BucketOf(tok))
    IN  /\ sphase = "symbol"
        /\ Send(cnt, SymbolOf(tok))
        /\ coded' = coded + 1
        /\ sphase' = "token"
        /\ UNCHANGED <<tokVars, sender, receiver, line, out, rphase, want, got, link>>

\* tq_forward fails: out of context, or an I/O error at any step.
EncodeFails ==
    /\ sphase = "token" /\ coded < Len(msg) /\ epc = "ready"
    /\ sphase' = "failed"
    /\ UNCHANGED <<vars, tokVars, sender, receiver, line, out, coded, rphase, want, got, link>>

EncodeFinish ==
    /\ sphase = "token" /\ coded = Len(msg)
    /\ Finish
    /\ sphase' = "flushing"
    /\ UNCHANGED <<tokVars, sender, receiver, line, out, coded, rphase, want, got, link>>

\* The command prints the wire, or the overflow error.
EncodeReturns ==
    /\ sphase = "flushing" /\ epc = "finished"
    /\ sphase' = IF overflow THEN "failed" ELSE "sent"
    /\ UNCHANGED <<vars, tokVars, sender, receiver, line, out, coded, rphase, want, got, link>>

SenderLoops == EncodeLoops /\ UNCHANGED <<tokVars, semVars>>

\* How many bytes of a wire get as far as the decoder: do_decode stops at the end
\* of its buffer, the shell drops what a board's command line has no room for.
Room(role) == IF role = "host" THEN MAX_WIRE ELSE LINE_WIRE
Read(role, w) == IF Len(w) <= Room(role) THEN w ELSE SubSeq(w, 1, Room(role))

\* The bytes reach the receiver's command.  On a board hex2bin gives no bytes for
\* an empty wire and for one that its buffer cannot hold, "expected hex wire bytes".
Arrive(w, how) ==
    /\ sphase = "sent" /\ rphase = "idle"
    /\ receiver' \in Roles
    /\ link' = IF how = "whole" /\ Len(w) > Room(receiver') THEN "cut" ELSE how
    /\ LET read == Read(receiver', w)
       IN  IF receiver' = "board" /\ (read = <<>> \/ Len(read) > SEM_MAX_WIRE)
           THEN rphase' = "refused" /\ UNCHANGED decVars
           ELSE rphase' = "length" /\ tq_ac_dec_init(read)
    /\ UNCHANGED <<coderVars, tokVars, sender, line, out, sphase, coded, want, got>>

ArriveWhole == Arrive(buf, "whole")
ArriveCut   == \E k \in 0 .. Len(buf) - 1 : Arrive(SubSeq(buf, 1, k), "cut")
ArriveStray == \E w \in Stray : Arrive(w, "stray")

\* The length field is decoded, then checked against the receiver's limits.
DecodeLength ==
    /\ rphase = "length"
    /\ DecSym(LenTable)
    /\ want' = found'[1] - 1
    /\ rphase' = IF TooLong(receiver, want' + 1) THEN "refused" ELSE "token"
    /\ UNCHANGED <<coderVars, tokVars, sender, receiver, line, out, sphase, coded, got, link>>

\* Mutant: the loop runs once more than the decoded length.
DecodeBucketOneMore ==
    /\ rphase = "token" /\ Len(got) <= want /\ ForwardOK(Len(got))
    /\ DecSym(BucketCounts(receiver, got))
    /\ rphase' = "symbol"
    /\ UNCHANGED <<coderVars, tokVars, sender, receiver, line, out, sphase, coded, want, got, link>>

DecodeBucket ==
    /\ rphase = "token" /\ Len(got) < want /\ ForwardOK(Len(got))
    /\ DecSym(BucketCounts(receiver, got))
    /\ rphase' = "symbol"
    /\ UNCHANGED <<coderVars, tokVars, sender, receiver, line, out, sphase, coded, want, got, link>>

\* The end of tq_ac_dec_token: TQ_ERR_TRUNCATED for an id outside the vocabulary.
DecodeSymbol ==
    LET b   == found[Len(found)]
        tok == (b - 1) * BUCKET + found'[Len(found')]
    IN  /\ rphase = "symbol"
        /\ DecSym(SymbolCounts(receiver, got, b))
        /\ IF tok <= Cardinality(Ids(vocab))
           THEN got' = Append(got, tok) /\ rphase' = "token"
           ELSE rphase' = "failed" /\ UNCHANGED got
        /\ UNCHANGED <<coderVars, tokVars, sender, receiver, line, out, sphase, coded, want, link>>

DecodeFails ==
    /\ rphase = "token" /\ Len(got) < want /\ dpc = "ready"
    /\ rphase' = "failed"
    /\ UNCHANGED <<vars, tokVars, sender, receiver, line, out, sphase, coded, want, got, link>>

\* The text of every token behind the one before it.
Printed ==
    LET id(n) == IF n = 0 THEN BOS ELSE got[n] - 1
        upto[n \in 0 .. Len(got)] ==
            IF n = 0 THEN <<>> ELSE upto[n - 1] \o Decoded(id(n - 1), id(n))
    IN  upto[Len(got)]

DecodeReturns ==
    /\ rphase = "token" /\ Len(got) = want /\ dpc = "ready"
    /\ rphase' = "done" /\ out' = Printed
    /\ UNCHANGED <<vars, tokVars, sender, receiver, line, sphase, coded, want, got, link>>

ReceiverLoop == DecodeLoop /\ UNCHANGED <<tokVars, semVars>>

SenderReturned == tpc = "failed" \/ sphase \in {"refused", "failed", "sent"}
ReceiverReturned == rphase \in {"refused", "failed", "done"}

BothReturned ==
    \/ SenderReturned /\ sphase # "sent"
    \/ ReceiverReturned /\ dpc # "renorm"

Commands ==
    \/ NotReady \/ Tokenize
    \/ EncodeLength \/ EncodeBucket \/ EncodeSymbol \/ EncodeFails
    \/ EncodeFinish \/ EncodeReturns \/ SenderLoops
    \/ DecodeLength \/ DecodeBucket \/ DecodeSymbol \/ DecodeFails
    \/ DecodeReturns \/ ReceiverLoop

SemNext ==
    \/ Commands
    \/ ArriveWhole \/ ArriveCut \/ ArriveStray
    \/ BothReturned /\ UNCHANGED sysVars

\* A command that runs is not interrupted; nobody has to carry the wire.
SemSpec == SemInit /\ [][SemNext]_sysVars /\ WF_sysVars(Commands)

-----------------------------------------------------------------------------

Fate ==
    CASE sphase \in {"refused", "failed"} \/ tpc = "failed"   -> "lost"
      [] link \in {"cut", "stray"}                            -> "lost"
      [] link = "whole" /\ rphase \in {"refused", "failed"}   -> "lost"
      [] sphase = "sent" /\ link = "none"                     -> "sealed"
      [] link = "whole" /\ rphase \notin {"refused", "failed"} -> "sealed"
      [] OTHER                                                -> "open"

Post == INSTANCE Courier WITH
    Item    <- UNION {1 .. Cardinality(Ids(v)) : v \in DOMAIN Vocabs},
    handed  <- SubSeq(msg, 1, coded),
    arrived <- IF link = "whole" THEN got ELSE <<>>,
    fate    <- Fate

\* The two table levels, the length field and the coder agree at every step: the
\* tokens the sender coded arrive one by one, unaltered and in order, unless one
\* of the ends has reported that it gave up or the wire was damaged.
TokensByCourier == Post!Safety

Spaced(words) ==
    LET all[n \in 0 .. Len(words)] ==
          IF n = 0 THEN <<>>
          ELSE all[n - 1] \o (IF n = 1 THEN <<>> ELSE <<SPACE>>) \o words[n]
    IN  all[Len(words)]

\* An intact wire prints the text that was typed, byte for byte, whatever way
\* the tokenizer took it apart: the space put in front of a text and the one
\* dropped behind the opening token, pieces, byte tokens and broken code points.
\* A board's line that fits its buffer is sent whole.
TextArrives ==
    link = "whole" /\ rphase = "done" =>
        /\ out = text
        /\ sender = "board" /\ Len(Spaced(line)) + 2 < TEXT_BYTES => out = Spaced(line)

\* "two backends, required to agree BIT-FOR-BIT": at every step of a message the
\* plain and the packed kernels compute, for every token's row of the last matrix,
\* the exact integer product of the packed weights and the activations.
KernelsAgree ==
    LET h == Hidden(SubSeq(msg, 1, coded))
    IN  sphase \in {"token", "symbol"} =>
            \A role \in Roles : Scores[role][vocab][h] = ExactScores[vocab][h]

\* A wire that reaches the decoder intact is turned away only by a board, and only
\* for the three reasons in which cmd_sem_decode is stricter than host/tq_sem.c:
\* the empty message, whose wire has no bytes; the message that fills the context
\* to the end; and the wire that is longer than the board's buffer.
IntactWireAccepted ==
    link = "whole" /\ rphase = "refused" =>
        /\ receiver = "board"
        /\ msg = <<>> \/ Len(msg) + 1 > MaxSeq \/ Len(buf) > SEM_MAX_WIRE

\* Whatever is typed, the tokenizer stays inside its array; whatever bytes arrive,
\* the coder stays inside its words and decoding inside the vocabulary, the length
\* field and the model's context; a token outside the vocabulary, the one error
\* tq_ac_dec_token can report, never occurs.
AnyWireIsHarmless ==
    LET n == Cardinality(Ids(vocab))
    IN  /\ EncTypeOK /\ DecTypeOK /\ Len(tokens) <= max_tokens
        /\ want \in 0 .. LEN_SYMBOLS - 1
        /\ \A i \in 1 .. Len(got) : got[i] \in 1 .. n
        /\ Len(got) <= want
        /\ rphase = "symbol" => found[Len(found)] \in 1 .. nbuckets(n) /\ ForwardOK(Len(got))
        /\ rphase = "failed" => Len(found) = 2 * Len(got) + 1

\* Both commands return, the receiver's whatever arrived: tokenizing, merging,
\* the coder's loops and the decoding of a length no one sent all come to an end.
CommandsReturn ==
    /\ <>SenderReturned
    /\ (rphase # "idle") ~> ReceiverReturned
=============================================================================
