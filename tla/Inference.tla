----------------------------- MODULE Inference ------------------------------
(***************************************************************************)
(* The transformer step and the loops that drive it: tq_forward and its KV *)
(* cache in core/src/tq_forward.c, under `tinyllm gen' and `tinyllm sem'   *)
(* of main.c, host/tq_run.c and host/tq_sem.c.                             *)
(*                                                                         *)
(* Nothing clears the cache between two commands.  A command may stop in   *)
(* the middle of a step when a read of the weights fails, and the next one *)
(* starts again at position 0 over what is left there.                     *)
(*                                                                         *)
(* A vector is what it was computed from: the set of cached rows, each     *)
(* <<layer, position, token>>, that went into it.                          *)
(***************************************************************************)
EXTENDS Integers, Sequences

CONSTANTS
    n_layers,
    max_seq,        \* rt->max_seq
    vocab_size,
    BOS, EOS,       \* bos_token and eos_token of the header
    HASH_STEPS,     \* SEM_HASH_STEPS: 8 in the code
    HashToken(_),   \* token of a hash step
    Prompts,        \* what tq_encode may return, BOS first
    Steps           \* values of `-n'

Tokens == 0 .. vocab_size - 1
Layers == 0 .. n_layers - 1

ASSUME InferenceAssumption ==
    /\ n_layers \in Nat \ {0} /\ max_seq \in Nat \ {0} /\ vocab_size \in Nat \ {0}
    /\ BOS \in Tokens /\ EOS \in Tokens /\ HASH_STEPS \in Nat \ {0}
    /\ \A s \in 0 .. HASH_STEPS - 1 : HashToken(s) \in Tokens
    /\ \A p \in Prompts : p \in Seq(Tokens) /\ Len(p) > 0 /\ p[1] = BOS
    /\ Steps \subseteq Int

VARIABLES
    kv,         \* the cache, one row for every layer and position
    cmd,        \* "gen", "encode", "decode" or "hash"
    forced,     \* the tokens fixed in advance (toks, sem_toks)
    limit,      \* forward passes the loop may make
    pc,         \* "idle", "forward", "store", "attend", "logits" or "next"
    pos, token, \* loop variables of the command
    l, x,       \* loop variable and residual of tq_forward
    logits,
    fed,        \* history: tokens fed, one for every position so far
    rc          \* result of the last command

vars == <<kv, cmd, forced, limit, pc, pos, token, l, x, logits, fed, rc>>

Garbage == {<<-1, -1, -1>>}

Init ==
    /\ kv = [r \in 0 .. n_layers * max_seq - 1 |-> Garbage]
    /\ cmd = "gen" /\ forced = <<BOS>> /\ limit = 0
    /\ pc = "idle" /\ pos = 0 /\ token = BOS
    /\ l = 0 /\ x = {} /\ logits = {} /\ fed = <<>> /\ rc = "OK"

-----------------------------------------------------------------------------
(* Commands. *)

Begin(c, toks, n) ==
    /\ pc = "idle"
    /\ cmd' = c /\ forced' = toks /\ limit' = n
    /\ pos' = 0 /\ token' = toks[1] /\ fed' = <<>> /\ rc' = "none"
    /\ pc' = "forward"
    /\ UNCHANGED <<kv, l, x, logits>>

\* Mutant: the steps asked for are taken as they are.
GenStepsUnclamped(steps) == steps

\* No more steps than the context has positions.
GenSteps(steps) == IF steps > max_seq THEN max_seq ELSE steps

\* cmd_gen, and main of tq_run.c: tq_encode may give at most max_seq tokens.
Gen ==
    \E p \in Prompts, steps \in Steps :
        Len(p) <= max_seq /\ Begin("gen", p, GenSteps(steps))

\* cmd_sem_encode: the last token is coded and never fed.
SemEncode ==
    \E p \in Prompts : Len(p) <= max_seq /\ Begin("encode", p, Len(p) - 1)

\* cmd_sem_decode, once the length has been decoded and found plausible.
SemDecode ==
    \E want \in 0 .. max_seq - 1 : Begin("decode", <<BOS>>, want)

\* cmd_sem_hash: a fixed number of steps, whatever the context.
SemHash ==
    Begin("hash", [s \in 1 .. HASH_STEPS |-> HashToken(s - 1)], HASH_STEPS)

Finish(err) == rc' = err /\ pc' = "idle"

LoopDone ==
    /\ pc = "forward" /\ pos >= limit
    /\ Finish("OK")
    /\ UNCHANGED <<kv, cmd, forced, limit, pos, token, l, x, logits, fed>>

-----------------------------------------------------------------------------
(* tq_forward. *)

\* Mutant: a layer's rows overlap the end of the layer before.
RowIndexNarrow(layer, t) == layer * (max_seq - 1) + t

\* Where the cache keeps a row; the scales of an int8 row sit at the same index.
RowIndex(layer, t) == layer * max_seq + t

\* A read of the weights fails and the whole command with it.
ReadFails ==
    /\ pc \in {"forward", "store", "attend", "logits"}
    /\ pc = "forward" => pos < limit /\ token \in Tokens /\ pos \in 0 .. max_seq - 1
    /\ Finish("IO")
    /\ UNCHANGED <<kv, cmd, forced, limit, pos, token, l, x, logits, fed>>

\* The range checks, and the token's row of the embedding into the residual.
Forward ==
    /\ pc = "forward" /\ pos < limit
    /\ IF token \in Tokens /\ pos \in 0 .. max_seq - 1
       THEN x' = {} /\ l' = 0 /\ pc' = "store" /\ fed' = Append(fed, token)
            /\ UNCHANGED rc
       ELSE Finish("RANGE") /\ UNCHANGED <<x, l, fed>>
    /\ UNCHANGED <<kv, cmd, forced, limit, pos, token, logits>>

\* The key and the value of this position in layer l: tq_kv_store.
Store ==
    /\ pc = "store"
    /\ kv' = [kv EXCEPT ![RowIndex(l, pos)] = x \cup {<<l, pos, token>>}]
    /\ pc' = "attend"
    /\ UNCHANGED <<cmd, forced, limit, pos, token, l, x, logits, fed, rc>>

Attended == 0 .. pos

\* Attention over the positions so far, then the feed-forward network.
Attend ==
    /\ pc = "attend"
    /\ x' = x \cup UNION {kv[RowIndex(l, t)] : t \in Attended}
    /\ l' = l + 1
    /\ pc' = IF l + 1 < n_layers THEN "store" ELSE "logits"
    /\ UNCHANGED <<kv, cmd, forced, limit, pos, token, logits, fed, rc>>

Classify ==
    /\ pc = "logits"
    /\ logits' = x
    /\ pc' = "next"
    /\ UNCHANGED <<kv, cmd, forced, limit, pos, token, l, x, fed, rc>>

-----------------------------------------------------------------------------
(* The end of a turn of the loop. *)

\* Mutant: the last given token is left out.
InPromptShort == pos + 2 < Len(forced)

\* The next token is one of the given ones.
InPrompt == pos + 1 < Len(forced)

\* The next token: given, sampled from the logits or decoded with them.
NextToken ==
    /\ pc = "next"
    /\ \E next \in IF InPrompt THEN {forced[pos + 2]} ELSE Tokens :
          /\ pos' = pos + 1
          /\ IF cmd = "gen" /\ next = EOS
             THEN Finish("OK") /\ UNCHANGED token
             ELSE token' = next /\ pc' = "forward" /\ UNCHANGED rc
    /\ UNCHANGED <<kv, cmd, forced, limit, l, x, logits, fed>>

\* tq_ac_enc_token or tq_ac_dec_token refuses: the command stops.
CoderFails ==
    /\ pc = "next" /\ cmd \in {"encode", "decode"}
    /\ Finish("IO")
    /\ UNCHANGED <<kv, cmd, forced, limit, pos, token, l, x, logits, fed>>

Next ==
    \/ Gen \/ SemEncode \/ SemDecode \/ SemHash \/ LoopDone
    \/ ReadFails \/ Forward \/ Store \/ Attend \/ Classify
    \/ NextToken \/ CoderFails

Spec == Init /\ [][Next]_vars

-----------------------------------------------------------------------------

Rows == {<<a, t, k>> : a \in Layers, t \in 0 .. max_seq - 1, k \in Tokens}

TypeOK ==
    /\ DOMAIN kv = 0 .. n_layers * max_seq - 1
    /\ \A r \in DOMAIN kv : kv[r] = Garbage \/ kv[r] \subseteq Rows
    /\ cmd \in {"gen", "encode", "decode", "hash"}
    /\ forced \in Seq(Tokens) /\ limit \in Int
    /\ pc \in {"idle", "forward", "store", "attend", "logits", "next"}
    /\ pos \in Nat /\ token \in Tokens /\ l \in 0 .. n_layers
    /\ x \subseteq Rows /\ logits \subseteq Rows
    /\ fed \in Seq(Tokens) /\ rc \in {"none", "OK", "IO", "RANGE"}

\* The logits come from exactly the tokens this command fed, every layer of
\* every position up to the present one: nothing of an earlier command, of a
\* step that was cut short or of memory never written is attended to.
LogitsFromContext ==
    pc = "next" =>
        /\ Len(fed) = pos + 1
        /\ logits = {<<a, t, fed[t + 1]>> : a \in Layers, t \in 0 .. pos}

\* tq_forward never refuses a position or a token of generation, of encoding
\* or of decoding; only the fingerprint can outrun a short context.
NeverOutOfContext ==
    rc = "RANGE" => cmd = "hash" /\ HASH_STEPS > max_seq

\* The given tokens are fed first, each once and in order; a generation that
\* ends without an error fed all of them its steps allowed, unless one was the
\* end-of-sequence token.
PromptVerbatim ==
    /\ \A t \in 1 .. Len(fed) : t <= Len(forced) => fed[t] = forced[t]
    /\ rc = "OK" /\ pc = "idle" /\ Len(fed) < limit =>
          \/ Len(fed) >= Len(forced)
          \/ EOS \in {forced[t] : t \in 2 .. Len(forced)}
=============================================================================
