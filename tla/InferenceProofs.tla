-------------------------- MODULE InferenceProofs ---------------------------
(***************************************************************************)
(* Proofs about tq_forward and the loops that drive it, for every number   *)
(* of layers, length of context, vocabulary, prompt and number of steps.   *)
(*                                                                         *)
(* The cache is never cleared, so the invariant says which of its rows are *)
(* this command's: all layers of the positions before the present one and, *)
(* inside a step, the layers already stored.  Attention reads these and no *)
(* others.                                                                 *)
(***************************************************************************)
EXTENDS Inference, TLAPS

\* What the layers below a make of the first p + 1 tokens of f.
Upto(f, a, p) == {<<b, t, f[t + 1]>> : b \in 0 .. a - 1, t \in 0 .. p}

\* What layer a keeps for position t.
RowOf(f, a, t) == Upto(f, a, t) \cup {<<a, t, f[t + 1]>>}

InStep == pc \in {"store", "attend", "logits", "next"}

\* The loop of a command: what it has fed, what comes next, how far it may go.
Loop ==
    /\ pc # "idle" =>
          /\ rc = "none"
          /\ cmd = "hash" \/ limit <= max_seq
          /\ cmd = "hash" => limit = HASH_STEPS
          /\ pos < Len(forced) => token = forced[pos + 1]
    /\ pc = "forward" => Len(fed) = pos
    /\ InStep =>
          /\ Len(fed) = pos + 1 /\ fed[pos + 1] = token
          /\ pos < max_seq
    /\ pc \in {"store", "attend"} => l < n_layers
    /\ pc = "logits" => l = n_layers

\* The rows this command has written.
Stored(a, t) ==
    \/ t < pos
    \/ /\ t = pos
       /\ \/ pc = "store" /\ a < l
          \/ pc = "attend" /\ a <= l
          \/ pc \in {"logits", "next"}

Cached ==
    pc # "idle" =>
        \A a \in Layers, t \in 0 .. max_seq - 1 :
            Stored(a, t) => kv[RowIndex(a, t)] = RowOf(fed, a, t)

Residual ==
    /\ pc \in {"store", "attend", "logits"} => x = Upto(fed, l, pos)
    /\ pc = "next" => logits = Upto(fed, n_layers, pos)

Inv ==
    /\ TypeOK /\ Loop /\ Cached /\ Residual
    /\ NeverOutOfContext /\ PromptVerbatim
-----------------------------------------------------------------------------
(* Rows of the cache. *)

\* Every row of every layer lies inside the cache.
LEMMA RowInside ==
    ASSUME NEW a \in Layers, NEW t \in 0 .. max_seq - 1
    PROVE  RowIndex(a, t) \in 0 .. n_layers * max_seq - 1
<1>1. /\ n_layers \in Nat /\ max_seq \in Nat /\ a \in Nat /\ t \in Nat
      /\ a + 1 <= n_layers /\ t < max_seq
  BY InferenceAssumption DEF Layers
<1>2. (a + 1) * max_seq <= n_layers * max_seq
  BY <1>1
<1>3. (a + 1) * max_seq = a * max_seq + max_seq /\ a * max_seq \in Nat /\ n_layers * max_seq \in Nat
  BY <1>1
<1>4. QED
  BY <1>1, <1>2, <1>3 DEF RowIndex

\* No two rows share a place.
LEMMA RowApart ==
    ASSUME NEW a \in Layers, NEW t \in 0 .. max_seq - 1,
           NEW b \in Layers, NEW u \in 0 .. max_seq - 1,
           RowIndex(a, t) = RowIndex(b, u)
    PROVE  a = b /\ t = u
<1>1. /\ max_seq \in Nat /\ a \in Nat /\ b \in Nat /\ t \in Nat /\ u \in Nat
      /\ t < max_seq /\ u < max_seq
  BY InferenceAssumption DEF Layers
<1>2. /\ a * max_seq \in Nat /\ b * max_seq \in Nat
      /\ (a + 1) * max_seq = a * max_seq + max_seq /\ (b + 1) * max_seq = b * max_seq + max_seq
  BY <1>1
<1>3. a * max_seq + t = b * max_seq + u
  BY DEF RowIndex
<1>4. ~ (a < b)
  <2> SUFFICES ASSUME a < b PROVE FALSE
    OBVIOUS
  <2>1. (a + 1) * max_seq <= b * max_seq
    BY <1>1
  <2>2. QED
    BY <1>1, <1>2, <1>3, <2>1
<1>5. ~ (b < a)
  <2> SUFFICES ASSUME b < a PROVE FALSE
    OBVIOUS
  <2>1. (b + 1) * max_seq <= a * max_seq
    BY <1>1
  <2>2. QED
    BY <1>1, <1>2, <1>3, <2>1
<1>6. a = b
  BY <1>1, <1>4, <1>5
<1>7. QED
  BY <1>1, <1>2, <1>3, <1>6

\* Membership, spelled out.
LEMMA UptoMember ==
    ASSUME NEW f, NEW a, NEW p, NEW e
    PROVE  e \in Upto(f, a, p) <=> \E b \in 0 .. a - 1, t \in 0 .. p : e = <<b, t, f[t + 1]>>
  BY SMT DEF Upto

\* A row of the cache, with the token it was computed from.
LEMMA RowMember ==
    ASSUME NEW a \in Layers, NEW t \in 0 .. max_seq - 1, NEW k \in Tokens
    PROVE  <<a, t, k>> \in Rows
  BY SMT DEF Rows

\* A row depends on the tokens up to its position only.
LEMMA RowSame ==
    ASSUME NEW f, NEW g, NEW a, NEW p \in Nat, \A t \in 0 .. p : f[t + 1] = g[t + 1]
    PROVE  Upto(f, a, p) = Upto(g, a, p) /\ RowOf(f, a, p) = RowOf(g, a, p)
<1>1. Upto(f, a, p) = Upto(g, a, p)
  BY DEF Upto
<1>2. f[p + 1] = g[p + 1]
  OBVIOUS
<1>3. QED
  BY <1>1, <1>2 DEF RowOf

\* The residual of a step starts from nothing, and a layer adds what it keeps
\* for the positions so far.
LEMMA UptoNone == ASSUME NEW f, NEW p PROVE Upto(f, 0, p) = {}
  BY DEF Upto

\* One more layer done: the rows of that layer join those below it.
LEMMA UptoMore ==
    ASSUME NEW f, NEW a \in Nat, NEW p \in Nat
    PROVE  Upto(f, a, p) \cup UNION {RowOf(f, a, t) : t \in 0 .. p} = Upto(f, a + 1, p)
<1>1. ASSUME NEW e \in Upto(f, a + 1, p)
      PROVE  e \in Upto(f, a, p) \cup UNION {RowOf(f, a, t) : t \in 0 .. p}
  <2>1. PICK b \in 0 .. (a + 1) - 1, t \in 0 .. p : e = <<b, t, f[t + 1]>>
    BY <1>1, SMT DEF Upto
  <2>2. CASE b = a
    <3>1. e \in RowOf(f, a, t)
      BY <2>1, <2>2, Zenon DEF RowOf
    <3>2. QED
      BY <3>1
  <2>3. CASE b # a
    <3>1. b \in 0 .. a - 1
      BY <2>1, <2>3
    <3>2. QED
      BY <2>1, <3>1, UptoMember, Zenon
  <2>4. QED
    BY <2>2, <2>3
<1>2. ASSUME NEW e \in Upto(f, a, p) PROVE e \in Upto(f, a + 1, p)
  <2>1. PICK b \in 0 .. a - 1, t \in 0 .. p : e = <<b, t, f[t + 1]>>
    BY <1>2, SMT DEF Upto
  <2>2. b \in 0 .. (a + 1) - 1
    BY <2>1
  <2>3. QED
    BY <2>1, <2>2, UptoMember, Zenon
<1>3. ASSUME NEW t \in 0 .. p, NEW e \in RowOf(f, a, t) PROVE e \in Upto(f, a + 1, p)
  <2>1. CASE e = <<a, t, f[t + 1]>>
    <3>1. a \in 0 .. (a + 1) - 1
      OBVIOUS
    <3>2. QED
      BY <1>3, <2>1, <3>1, UptoMember, Zenon
  <2>2. CASE e \in Upto(f, a, t)
    <3>1. PICK b \in 0 .. a - 1, u \in 0 .. t : e = <<b, u, f[u + 1]>>
      BY <2>2, SMT DEF Upto
    <3>2. b \in 0 .. (a + 1) - 1 /\ u \in 0 .. p
      BY <1>3, <3>1
    <3>3. QED
      BY <3>1, <3>2, UptoMember, Zenon
  <2>3. QED
    BY <1>3, <2>1, <2>2 DEF RowOf
<1>4. QED
  BY <1>1, <1>2, <1>3

\* Everything computed from the tokens fed is a row of the model.
LEMMA UptoRows ==
    ASSUME NEW f \in Seq(Tokens), NEW a \in 0 .. n_layers, NEW p \in 0 .. max_seq - 1, p < Len(f)
    PROVE  Upto(f, a, p) \subseteq Rows
<1> SUFFICES ASSUME NEW e \in Upto(f, a, p) PROVE e \in Rows
  OBVIOUS
<1>1. PICK b \in 0 .. a - 1, t \in 0 .. p : e = <<b, t, f[t + 1]>>
  BY SMT DEF Upto
<1>2. b \in Layers /\ t \in 0 .. max_seq - 1
  BY <1>1, InferenceAssumption DEF Layers
<1>3. f[t + 1] \in Tokens
  BY <1>1, InferenceAssumption
<1>4. QED
  BY <1>1, <1>2, <1>3, RowMember, Zenon
-----------------------------------------------------------------------------
(* The invariant, action by action. *)

\* A memory of garbage and no command yet.
LEMMA InitInv == Init => Inv
<1> SUFFICES ASSUME Init PROVE Inv
  OBVIOUS
<1>1. TypeOK
  <2>1. <<BOS>> \in Seq(Tokens) /\ BOS \in Tokens /\ n_layers \in Nat
    BY InferenceAssumption
  <2>2. /\ DOMAIN kv = 0 .. n_layers * max_seq - 1
        /\ \A r \in DOMAIN kv : kv[r] = Garbage
    BY DEF Init
  <2>3. fed \in Seq(Tokens) /\ l \in 0 .. n_layers
    BY <2>1 DEF Init
  <2>4. QED
    BY <2>1, <2>2, <2>3 DEF Init, TypeOK
<1>2. Loop /\ Cached /\ Residual
  BY DEF Init, Loop, InStep, Cached, Residual
<1>3. NeverOutOfContext /\ PromptVerbatim
  BY DEF Init, NeverOutOfContext, PromptVerbatim
<1>4. QED
  BY <1>1, <1>2, <1>3 DEF Inv

\* A new command owns no row of the cache, whatever the one before left there.
LEMMA BeginStep ==
    ASSUME Inv, NEW c \in {"gen", "encode", "decode", "hash"},
           NEW toks \in Seq(Tokens), Len(toks) > 0, NEW n \in Int,
           c = "hash" \/ n <= max_seq, c = "hash" => n = HASH_STEPS,
           Begin(c, toks, n)
    PROVE  Inv'
<1>1. /\ cmd' = c /\ forced' = toks /\ limit' = n /\ pos' = 0 /\ token' = toks[1]
      /\ fed' = <<>> /\ rc' = "none" /\ pc' = "forward"
      /\ kv' = kv /\ l' = l /\ x' = x /\ logits' = logits
  BY Zenon DEF Begin
<1>2. toks[1] \in Tokens /\ <<>> \in Seq(Tokens) /\ Len(<<>>) = 0
  OBVIOUS
<1>3. TypeOK'
  BY <1>1, <1>2 DEF Inv, TypeOK
<1>4. Loop'
  BY <1>1, <1>2 DEF Loop, InStep
<1>5. Cached'
  <2>1. \A a \in Layers, t \in 0 .. max_seq - 1 : ~ Stored(a, t)'
    BY <1>1 DEF Stored
  <2>2. QED
    BY <2>1, Zenon DEF Cached
<1>6. Residual'
  BY <1>1 DEF Residual
<1>7. NeverOutOfContext' /\ PromptVerbatim'
  BY <1>1, <1>2 DEF NeverOutOfContext, PromptVerbatim
<1>8. QED
  BY <1>3, <1>4, <1>5, <1>6, <1>7 DEF Inv

\* Each of the four commands starts with tokens of the vocabulary and, but for
\* the fingerprint, no more passes than the context has positions.
LEMMA CommandStep ==
    ASSUME Inv, Gen \/ SemEncode \/ SemDecode \/ SemHash PROVE Inv'
<1>1. max_seq \in Nat /\ HASH_STEPS \in Nat /\ HASH_STEPS > 0
  BY InferenceAssumption
<1>2. CASE Gen
  <2>1. PICK p \in Prompts, steps \in Steps : Begin("gen", p, GenSteps(steps))
    BY <1>2 DEF Gen
  <2>2. GenSteps(steps) \in Int /\ GenSteps(steps) <= max_seq
    BY <1>1, InferenceAssumption DEF GenSteps
  <2>3. p \in Seq(Tokens) /\ Len(p) > 0
    BY InferenceAssumption
  <2>4. QED
    BY <2>1, <2>2, <2>3, BeginStep
<1>3. CASE SemEncode
  <2>1. PICK p \in Prompts : Len(p) <= max_seq /\ Begin("encode", p, Len(p) - 1)
    BY <1>3 DEF SemEncode
  <2>2. p \in Seq(Tokens) /\ Len(p) > 0
    BY InferenceAssumption
  <2>3. Len(p) - 1 \in Int /\ Len(p) - 1 <= max_seq
    BY <1>1, <2>1, <2>2
  <2>4. QED
    BY <2>1, <2>2, <2>3, BeginStep
<1>4. CASE SemDecode
  <2>1. PICK want \in 0 .. max_seq - 1 : Begin("decode", <<BOS>>, want)
    BY <1>4 DEF SemDecode
  <2>2. want \in Int /\ want <= max_seq
    BY <1>1
  <2>3. <<BOS>> \in Seq(Tokens) /\ Len(<<BOS>>) > 0
    BY InferenceAssumption
  <2>4. QED
    BY <2>1, <2>2, <2>3, BeginStep
<1>5. CASE SemHash
  <2> DEFINE toks == [s \in 1 .. HASH_STEPS |-> HashToken(s - 1)]
  <2>1. \A s \in 1 .. HASH_STEPS : HashToken(s - 1) \in Tokens
    <3>1. \A s \in 1 .. HASH_STEPS : s - 1 \in 0 .. HASH_STEPS - 1
      BY <1>1
    <3>2. QED
      BY <3>1, InferenceAssumption, Zenon
  <2>2. toks \in Seq(Tokens) /\ Len(toks) = HASH_STEPS
    BY <1>1, <2>1
  <2>3. Begin("hash", toks, HASH_STEPS)
    BY <1>5 DEF SemHash
  <2> HIDE DEF toks
  <2>4. QED
    BY <1>1, <2>2, <2>3, BeginStep
<1>6. QED
  BY <1>2, <1>3, <1>4, <1>5

\* A command that stops leaves the cache as it is, to nobody.
LEMMA Stopped ==
    ASSUME Inv, pc' = "idle", rc' \in {"OK", "IO", "RANGE"}, pos' \in Nat,
           UNCHANGED <<kv, cmd, forced, limit, token, l, x, logits, fed>>,
           NeverOutOfContext', PromptVerbatim'
    PROVE  Inv'
<1>1. TypeOK'
  BY DEF Inv, TypeOK
<1>2. Loop' /\ Cached' /\ Residual'
  BY DEF Loop, InStep, Cached, Residual
<1>3. QED
  BY <1>1, <1>2 DEF Inv

\* A generation that used up its steps.
LEMMA LoopDoneStep == ASSUME Inv, LoopDone PROVE Inv'
<1>1. /\ pc = "forward" /\ pos >= limit /\ rc' = "OK" /\ pc' = "idle" /\ pos' = pos
      /\ UNCHANGED <<kv, cmd, forced, limit, token, l, x, logits, fed>>
  BY Zenon DEF LoopDone, Finish
<1>2. pos \in Nat /\ Len(fed) = pos /\ limit \in Int
  BY <1>1 DEF Inv, TypeOK, Loop
<1>3. NeverOutOfContext' /\ PromptVerbatim'
  BY <1>1, <1>2 DEF Inv, NeverOutOfContext, PromptVerbatim
<1>4. QED
  BY <1>1, <1>2, <1>3, Stopped

\* A read or a decode that fails ends the command.
LEMMA FailStep == ASSUME Inv, ReadFails \/ CoderFails PROVE Inv'
<1>1. /\ rc' = "IO" /\ pc' = "idle" /\ pos' = pos
      /\ UNCHANGED <<kv, cmd, forced, limit, token, l, x, logits, fed>>
  BY Zenon DEF ReadFails, CoderFails, Finish
<1>2. pos \in Nat
  BY DEF Inv, TypeOK
<1>3. NeverOutOfContext' /\ PromptVerbatim'
  BY <1>1 DEF Inv, NeverOutOfContext, PromptVerbatim
<1>4. QED
  BY <1>1, <1>2, <1>3, Stopped

\* The range checks: a token is always in the vocabulary, a position inside
\* the context unless the fingerprint is longer than it.
LEMMA ForwardStep == ASSUME Inv, Forward PROVE Inv'
<1>1. /\ pc = "forward" /\ pos < limit
      /\ kv' = kv /\ cmd' = cmd /\ forced' = forced /\ limit' = limit /\ pos' = pos
      /\ token' = token /\ logits' = logits
  BY Zenon DEF Forward
<1>2. /\ pos \in Nat /\ limit \in Int /\ token \in Tokens /\ fed \in Seq(Tokens)
      /\ forced \in Seq(Tokens) /\ Len(fed) = pos /\ rc = "none"
      /\ (cmd = "hash" \/ limit <= max_seq) /\ (cmd = "hash" => limit = HASH_STEPS)
      /\ (pos < Len(forced) => token = forced[pos + 1])
  BY <1>1 DEF Inv, TypeOK, Loop
<1>3. max_seq \in Nat /\ HASH_STEPS \in Nat /\ n_layers \in Nat /\ 0 < n_layers
  BY InferenceAssumption
<1>4. CASE pos \in 0 .. max_seq - 1
  <2>1. /\ x' = {} /\ l' = 0 /\ pc' = "store" /\ fed' = Append(fed, token) /\ rc' = rc
    BY <1>2, <1>4, Zenon DEF Forward
  <2>2. /\ fed' \in Seq(Tokens) /\ Len(fed') = pos + 1 /\ fed'[pos + 1] = token
        /\ \A t \in 1 .. pos : fed'[t] = fed[t]
    BY <1>2, <2>1
  <2>3. TypeOK'
    BY <1>1, <1>3, <2>1, <2>2 DEF Inv, TypeOK
  <2>4. Loop'
    BY <1>1, <1>2, <1>3, <1>4, <2>1, <2>2 DEF Loop, InStep
  <2>5. Cached'
    <3> SUFFICES ASSUME NEW a \in Layers, NEW t \in 0 .. max_seq - 1, Stored(a, t)'
                 PROVE  kv'[RowIndex(a, t)] = RowOf(fed', a, t)
      BY DEF Cached, RowIndex, RowOf, Upto
    <3>1. t < pos
      BY <1>1, <2>1 DEF Stored, Layers
    <3>2. kv[RowIndex(a, t)] = RowOf(fed, a, t)
      BY <1>1, <3>1 DEF Inv, Cached, Stored
    <3>3. \A u \in 0 .. t : fed[u + 1] = fed'[u + 1]
      BY <1>2, <2>2, <3>1
    <3>4. RowOf(fed, a, t) = RowOf(fed', a, t)
      BY <3>3, RowSame
    <3>5. QED
      BY <1>1, <3>2, <3>4
  <2>6. Residual'
    <3>1. Upto(fed', 0, pos) = {}
      BY UptoNone
    <3>2. Upto(fed, l, pos)' = Upto(fed', l', pos')
      BY DEF Upto
    <3>3. QED
      BY <1>1, <2>1, <3>1, <3>2 DEF Residual
  <2>7. NeverOutOfContext'
    BY <1>1, <2>1 DEF Inv, NeverOutOfContext
  <2>8. PromptVerbatim'
    <3>1. \A t \in 1 .. Len(fed') : t <= Len(forced) => fed'[t] = forced[t]
      <4> SUFFICES ASSUME NEW t \in 1 .. Len(fed'), t <= Len(forced) PROVE fed'[t] = forced[t]
        OBVIOUS
      <4>1. CASE t = pos + 1
        BY <1>2, <2>2, <4>1
      <4>2. CASE t # pos + 1
        <5>1. t \in 1 .. pos
          BY <1>2, <2>2, <4>2
        <5>2. QED
          BY <1>2, <2>2, <5>1 DEF Inv, PromptVerbatim
      <4>3. QED
        BY <4>1, <4>2
    <3>2. QED
      BY <1>1, <2>1, <3>1 DEF PromptVerbatim
  <2>9. QED
    BY <2>3, <2>4, <2>5, <2>6, <2>7, <2>8 DEF Inv
<1>5. CASE pos \notin 0 .. max_seq - 1
  <2>1. /\ rc' = "RANGE" /\ pc' = "idle"
        /\ UNCHANGED <<kv, cmd, forced, limit, token, l, x, logits, fed>>
    BY <1>5, Zenon DEF Forward, Finish
  <2>2. cmd = "hash" /\ HASH_STEPS > max_seq
    BY <1>1, <1>2, <1>3, <1>5
  <2>3. NeverOutOfContext' /\ PromptVerbatim'
    BY <1>1, <2>1, <2>2 DEF Inv, NeverOutOfContext, PromptVerbatim
  <2>4. QED
    BY <1>1, <1>2, <2>1, <2>3, Stopped
<1>6. QED
  BY <1>4, <1>5

\* tq_kv_store writes this position's row and no other.
LEMMA StoreStep == ASSUME Inv, Store PROVE Inv'
<1>1. /\ pc = "store" /\ pc' = "attend"
      /\ kv' = [kv EXCEPT ![RowIndex(l, pos)] = x \cup {<<l, pos, token>>}]
      /\ cmd' = cmd /\ forced' = forced /\ limit' = limit /\ pos' = pos
      /\ token' = token /\ l' = l /\ x' = x /\ logits' = logits /\ fed' = fed /\ rc' = rc
  BY Zenon DEF Store
<1>2. /\ pos \in Nat /\ token \in Tokens /\ fed \in Seq(Tokens) /\ l \in 0 .. n_layers
      /\ Len(fed) = pos + 1 /\ fed[pos + 1] = token /\ pos < max_seq /\ l < n_layers
      /\ DOMAIN kv = 0 .. n_layers * max_seq - 1 /\ x \subseteq Rows
      /\ x = Upto(fed, l, pos)
  BY <1>1 DEF Inv, TypeOK, Loop, InStep, Residual
<1>3. max_seq \in Nat /\ n_layers \in Nat
  BY InferenceAssumption
<1>4. l \in Layers /\ pos \in 0 .. max_seq - 1
  BY <1>2, <1>3 DEF Layers
<1>5. RowIndex(l, pos) \in DOMAIN kv
  BY <1>2, <1>4, RowInside
<1>6. x \cup {<<l, pos, token>>} = RowOf(fed, l, pos)
  BY <1>2 DEF RowOf
<1>7. x \cup {<<l, pos, token>>} \subseteq Rows
  BY <1>2, <1>4, RowMember
<1>8. TypeOK'
  <2>1. DOMAIN kv' = DOMAIN kv
    BY <1>1
  <2>2. \A r \in DOMAIN kv' : kv'[r] = Garbage \/ kv'[r] \subseteq Rows
    <3> SUFFICES ASSUME NEW r \in DOMAIN kv PROVE kv'[r] = Garbage \/ kv'[r] \subseteq Rows
      BY <2>1
    <3>1. CASE r = RowIndex(l, pos)
      BY <1>1, <1>7, <3>1
    <3>2. CASE r # RowIndex(l, pos)
      BY <1>1, <3>2 DEF Inv, TypeOK
    <3>3. QED
      BY <3>1, <3>2
  <2>3. QED
    BY <1>1, <2>1, <2>2 DEF Inv, TypeOK
<1>9. Loop'
  BY <1>1 DEF Inv, Loop, InStep
<1>10. Cached'
  <2> SUFFICES ASSUME NEW a \in Layers, NEW t \in 0 .. max_seq - 1, Stored(a, t)'
               PROVE  kv'[RowIndex(a, t)] = RowOf(fed, a, t)
    BY <1>1 DEF Cached, RowIndex, RowOf, Upto
  <2>1. RowIndex(a, t) \in DOMAIN kv
    BY <1>2, RowInside
  <2>2. CASE a = l /\ t = pos
    BY <1>1, <1>5, <1>6, <2>2
  <2>3. CASE ~ (a = l /\ t = pos)
    <3>1. RowIndex(a, t) # RowIndex(l, pos)
      BY <1>4, <2>3, RowApart
    <3>2. Stored(a, t)
      BY <1>1, <1>2, <1>3, <2>3 DEF Stored, Layers
    <3>3. kv[RowIndex(a, t)] = RowOf(fed, a, t)
      BY <1>1, <3>2 DEF Inv, Cached
    <3>4. QED
      BY <1>1, <2>1, <3>1, <3>3
  <2>4. QED
    BY <2>2, <2>3
<1>11. Residual'
  BY <1>1, <1>2 DEF Residual, Upto
<1>12. NeverOutOfContext' /\ PromptVerbatim'
  BY <1>1 DEF Inv, NeverOutOfContext, PromptVerbatim
<1>13. QED
  BY <1>8, <1>9, <1>10, <1>11, <1>12 DEF Inv

\* Attention in layer l sees the rows this command stored there, position by
\* position, and nothing else.
LEMMA AttendStep == ASSUME Inv, Attend PROVE Inv'
<1>1. /\ pc = "attend" /\ l' = l + 1
      /\ x' = x \cup UNION {kv[RowIndex(l, t)] : t \in Attended}
      /\ pc' = IF l + 1 < n_layers THEN "store" ELSE "logits"
      /\ kv' = kv /\ cmd' = cmd /\ forced' = forced /\ limit' = limit /\ pos' = pos
      /\ token' = token /\ logits' = logits /\ fed' = fed /\ rc' = rc
  BY Zenon DEF Attend
<1>2. /\ pos \in Nat /\ fed \in Seq(Tokens) /\ l \in 0 .. n_layers
      /\ Len(fed) = pos + 1 /\ fed[pos + 1] = token /\ pos < max_seq /\ l < n_layers
      /\ x = Upto(fed, l, pos)
  BY <1>1 DEF Inv, TypeOK, Loop, InStep, Residual
<1>3. max_seq \in Nat /\ n_layers \in Nat
  BY InferenceAssumption
<1>4. l \in Layers /\ l \in Nat /\ l + 1 \in 0 .. n_layers
  BY <1>2, <1>3 DEF Layers
<1>5. \A t \in 0 .. pos : kv[RowIndex(l, t)] = RowOf(fed, l, t)
  <2> SUFFICES ASSUME NEW t \in 0 .. pos PROVE kv[RowIndex(l, t)] = RowOf(fed, l, t)
    OBVIOUS
  <2>1. t \in 0 .. max_seq - 1 /\ (t < pos \/ t = pos)
    BY <1>2, <1>3
  <2>2. Stored(l, t)
    BY <1>1, <1>4, <2>1 DEF Stored
  <2>3. QED
    BY <1>1, <1>4, <2>1, <2>2 DEF Inv, Cached
<1>6. {kv[RowIndex(l, t)] : t \in Attended} = {RowOf(fed, l, t) : t \in 0 .. pos}
  BY <1>5 DEF Attended
<1>7. x' = Upto(fed, l + 1, pos)
  <2>1. x' = Upto(fed, l, pos) \cup UNION {RowOf(fed, l, t) : t \in 0 .. pos}
    BY <1>1, <1>2, <1>6, Zenon
  <2>2. QED
    BY <1>2, <1>4, <2>1, UptoMore, Zenon
<1>8. x' \subseteq Rows
  <2>1. pos \in 0 .. max_seq - 1 /\ pos < Len(fed)
    BY <1>2, <1>3
  <2>2. QED
    BY <1>2, <1>4, <1>7, <2>1, UptoRows
<1>9. TypeOK'
  BY <1>1, <1>4, <1>8 DEF Inv, TypeOK
<1>10. Loop'
  <2>1. pc' = "logits" => l' = n_layers
    BY <1>1, <1>2, <1>3
  <2>2. pc' = "store" => l' < n_layers
    BY <1>1
  <2>3. pc' \in {"store", "logits"}
    BY <1>1
  <2>4. QED
    BY <1>1, <2>1, <2>2, <2>3 DEF Inv, Loop, InStep
<1>11. Cached'
  <2> SUFFICES ASSUME NEW a \in Layers, NEW t \in 0 .. max_seq - 1, Stored(a, t)'
               PROVE  kv[RowIndex(a, t)] = RowOf(fed, a, t)
    BY <1>1 DEF Cached, RowIndex, RowOf, Upto
  <2>1. a \in Nat /\ a < n_layers
    BY <1>3 DEF Layers
  <2>2. a <= l \/ t < pos
    BY <1>1, <1>2, <1>3, <2>1 DEF Stored
  <2>3. t < pos \/ t = pos
    BY <1>1 DEF Stored
  <2>4. Stored(a, t)
    BY <1>1, <2>2, <2>3 DEF Stored
  <2>5. QED
    BY <1>1, <2>4 DEF Inv, Cached
<1>12. Residual'
  BY <1>1, <1>7 DEF Residual, Upto
<1>13. NeverOutOfContext' /\ PromptVerbatim'
  BY <1>1 DEF Inv, NeverOutOfContext, PromptVerbatim
<1>14. QED
  BY <1>9, <1>10, <1>11, <1>12, <1>13 DEF Inv

\* The classifier turns the last layer's state into the logits.
LEMMA ClassifyStep == ASSUME Inv, Classify PROVE Inv'
<1>1. /\ pc = "logits" /\ pc' = "next" /\ logits' = x
      /\ kv' = kv /\ cmd' = cmd /\ forced' = forced /\ limit' = limit /\ pos' = pos
      /\ token' = token /\ l' = l /\ x' = x /\ fed' = fed /\ rc' = rc
  BY Zenon DEF Classify
<1>2. TypeOK'
  BY <1>1 DEF Inv, TypeOK
<1>3. Loop'
  BY <1>1 DEF Inv, Loop, InStep
<1>4. Cached'
  <2>1. \A a, t : Stored(a, t)' => Stored(a, t)
    BY <1>1 DEF Stored
  <2>2. QED
    BY <1>1, <2>1 DEF Inv, Cached, RowIndex, RowOf, Upto
<1>5. Residual'
  BY <1>1 DEF Inv, Loop, Residual, Upto
<1>6. NeverOutOfContext' /\ PromptVerbatim'
  BY <1>1 DEF Inv, NeverOutOfContext, PromptVerbatim
<1>7. QED
  BY <1>2, <1>3, <1>4, <1>5, <1>6 DEF Inv

\* The next token is the next given one while there is one, and a generation
\* may end at the end-of-sequence token only.
LEMMA NextTokenStep == ASSUME Inv, NextToken PROVE Inv'
<1>1. PICK next \in IF InPrompt THEN {forced[pos + 2]} ELSE Tokens :
          /\ pos' = pos + 1
          /\ IF cmd = "gen" /\ next = EOS
             THEN Finish("OK") /\ UNCHANGED token
             ELSE token' = next /\ pc' = "forward" /\ UNCHANGED rc
  BY DEF NextToken
<1>2. /\ pc = "next"
      /\ kv' = kv /\ cmd' = cmd /\ forced' = forced /\ limit' = limit
      /\ l' = l /\ x' = x /\ logits' = logits /\ fed' = fed
  BY Zenon DEF NextToken
<1>3. /\ pos \in Nat /\ fed \in Seq(Tokens) /\ forced \in Seq(Tokens) /\ limit \in Int
      /\ Len(fed) = pos + 1 /\ rc = "none"
  BY <1>2 DEF Inv, TypeOK, Loop, InStep
<1>4. InPrompt => next = forced[pos + 2] /\ pos + 2 \in 1 .. Len(forced)
  BY <1>1, <1>3 DEF InPrompt
<1>5. next \in Tokens
  BY <1>1, <1>3, <1>4
<1>6. CASE cmd = "gen" /\ next = EOS
  <2>1. rc' = "OK" /\ pc' = "idle" /\ token' = token
    BY <1>1, <1>6 DEF Finish
  <2>2. NeverOutOfContext'
    BY <2>1 DEF NeverOutOfContext
  <2>3. Len(fed) >= Len(forced) \/ EOS \in {forced[t] : t \in 2 .. Len(forced)}
    <3>1. CASE InPrompt
      <4>1. pos + 2 \in 2 .. Len(forced)
        BY <1>3, <1>4, <3>1
      <4>2. QED
        BY <1>4, <1>6, <3>1, <4>1
    <3>2. CASE ~ InPrompt
      BY <1>3, <3>2 DEF InPrompt
    <3>3. QED
      BY <3>1, <3>2
  <2>4. PromptVerbatim'
    BY <1>2, <2>3 DEF Inv, PromptVerbatim
  <2>5. QED
    BY <1>1, <1>2, <1>3, <2>1, <2>2, <2>4, Stopped
<1>7. CASE ~ (cmd = "gen" /\ next = EOS)
  <2>1. rc' = rc /\ pc' = "forward" /\ token' = next /\ pos' = pos + 1
    BY <1>1, <1>7
  <2>2. TypeOK'
    BY <1>2, <1>3, <1>5, <2>1 DEF Inv, TypeOK
  <2>3. Loop'
    <3>1. pos' < Len(forced') => token' = forced'[pos' + 1]
      BY <1>2, <1>3, <1>4, <2>1 DEF InPrompt
    <3>2. QED
      BY <1>2, <1>3, <2>1, <3>1 DEF Inv, Loop, InStep
  <2>4. Cached'
    <3> SUFFICES ASSUME NEW a \in Layers, NEW t \in 0 .. max_seq - 1, Stored(a, t)'
                 PROVE  kv[RowIndex(a, t)] = RowOf(fed, a, t)
      BY <1>2 DEF Cached, RowIndex, RowOf, Upto
    <3>1. t < pos \/ t = pos
      BY <1>3, <2>1 DEF Stored
    <3>2. Stored(a, t)
      BY <1>2, <3>1 DEF Stored
    <3>3. QED
      BY <1>2, <3>2 DEF Inv, Cached
  <2>5. Residual'
    BY <2>1 DEF Residual
  <2>6. NeverOutOfContext' /\ PromptVerbatim'
    BY <1>2, <2>1 DEF Inv, NeverOutOfContext, PromptVerbatim
  <2>7. QED
    BY <2>2, <2>3, <2>4, <2>5, <2>6 DEF Inv
<1>8. QED
  BY <1>6, <1>7

\* Every step of every command keeps the invariant.
LEMMA NextInv == Inv /\ [Next]_vars => Inv'
<1> SUFFICES ASSUME Inv, [Next]_vars PROVE Inv'
  OBVIOUS
<1>1. CASE UNCHANGED vars
  <2>1. \A a, t : Stored(a, t)' => Stored(a, t)
    BY <1>1 DEF vars, Stored
  <2>2. TypeOK' /\ Loop' /\ Residual'
    BY <1>1, SMTT(30) DEF vars, Inv, TypeOK, Loop, InStep, Residual, Upto
  <2>3. Cached'
    BY <1>1, <2>1 DEF vars, Inv, Cached, RowIndex, RowOf, Upto
  <2>4. NeverOutOfContext' /\ PromptVerbatim'
    BY <1>1 DEF vars, Inv, NeverOutOfContext, PromptVerbatim
  <2>5. QED
    BY <2>2, <2>3, <2>4 DEF Inv
<1>2. CASE Next
  BY <1>2, CommandStep, LoopDoneStep, FailStep, ForwardStep, StoreStep, AttendStep,
     ClassifyStep, NextTokenStep DEF Next
<1>3. QED
  BY <1>1, <1>2

-----------------------------------------------------------------------------

\* The types of the loops and of tq_forward: in particular no garbage row of
\* the cache ever reaches the residual or the logits.
THEOREM TypeCorrect == Spec => []TypeOK
<1>1. Inv => TypeOK
  BY DEF Inv
<1>2. QED
  BY <1>1, InitInv, NextInv, PTL DEF Spec

\* The logits of every pass are computed from every layer of exactly the
\* tokens this command fed so far, though nothing clears the cache between
\* commands and a failed read may leave a step half done: for every number of
\* layers, context length, vocabulary and prompt.
THEOREM LogitsAlwaysFromContext == Spec => []LogitsFromContext
<1>1. Inv => LogitsFromContext
  <2> SUFFICES ASSUME Inv, pc = "next" PROVE LogitsFromContext
    BY DEF LogitsFromContext
  <2>1. Len(fed) = pos + 1
    BY DEF Inv, Loop, InStep
  <2>2. logits = Upto(fed, n_layers, pos)
    BY DEF Inv, Residual
  <2>3. QED
    BY <2>1, <2>2 DEF LogitsFromContext, Upto, Layers
<1>2. QED
  BY <1>1, InitInv, NextInv, PTL DEF Spec

\* tq_forward refuses no token and no position of generation, of encoding or
\* of decoding; the fingerprint runs out of context only when it is longer.
THEOREM ContextNeverOutrun == Spec => []NeverOutOfContext
<1>1. Inv => NeverOutOfContext
  BY DEF Inv
<1>2. QED
  BY <1>1, InitInv, NextInv, PTL DEF Spec

\* The prompt goes in first, each of its tokens once and in order, and a
\* generation that ends well before its steps are over has fed all of it,
\* unless the prompt itself holds the end-of-sequence token.
THEOREM PromptAlwaysVerbatim == Spec => []PromptVerbatim
<1>1. Inv => PromptVerbatim
  BY DEF Inv
<1>2. QED
  BY <1>1, InitInv, NextInv, PTL DEF Spec
=============================================================================
