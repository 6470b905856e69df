---------------------------- MODULE RuntimeInit -----------------------------
(***************************************************************************)
(* tq_runtime_init and the two sizing functions its callers use, of        *)
(* core/src/tq_model.c.  The caller asks tq_runtime_bytes and tq_kv_bytes  *)
(* how much memory a context takes, provides it, and expects the carving   *)
(* to succeed; the sizing functions repeat by hand what the carving does.  *)
(*                                                                         *)
(* Sizes are in real bytes: 4 for a float, 34 for a TqBlockQ80 of 32       *)
(* values.  One action per carve; the fast arena comes first.              *)
(***************************************************************************)
EXTENDS Arena

CONSTANTS
    Models,     \* model shapes, as tq_model_open accepts them
    MaxSeqs,    \* values of max_seq callers may ask for
    FastBases,  \* addresses of the activation arena
    CacheBases  \* addresses of the KV cache

GROUP == 32     \* TQ_GROUP_SIZE
BLOCK == 34     \* sizeof(TqBlockQ80)

Shape ==
    [dim : Nat, hidden_dim : Nat, n_layers : Nat, n_heads : Nat, head_size : Nat,
     kv_dim : Nat, n_kv_heads : Nat, vocab_size : Nat, seq_len : Nat]

ASSUME RuntimeAssumption ==
    /\ Models \subseteq Shape
    /\ \A m \in Models : m.dim % GROUP = 0 /\ m.hidden_dim % GROUP = 0
    /\ MaxSeqs \subseteq Int
    /\ FastBases \subseteq Nat /\ CacheBases \subseteq Nat
    /\ \A b \in CacheBases : b % 16 = 0   \* psram_alloc's or the heap's alignment

-----------------------------------------------------------------------------

tq_kv_bytes(m, max_seq, q8) ==
    LET n      == m.n_layers * max_seq * m.kv_dim
        scales == m.n_layers * max_seq * m.n_kv_heads
    IN  IF q8 THEN 2 * (n + tq_align_up(scales * 4) + 16)
              ELSE 2 * n * 4 + 32

\* Mutant: no slack for alignment.
RuntimeBytesTight(m, max_seq) ==
    4 * m.dim * 4 + 2 * m.hidden_dim * 4 + 2 * m.kv_dim * 4 + m.head_size * 4
        + m.n_heads * max_seq * 4 + m.vocab_size * 4
        + (m.dim \div GROUP) * BLOCK + (m.hidden_dim \div GROUP) * BLOCK

tq_runtime_bytes(m, max_seq) ==
    4 * m.dim * 4 + 2 * m.hidden_dim * 4 + 2 * m.kv_dim * 4 + m.head_size * 4
        + m.n_heads * max_seq * 4 + m.vocab_size * 4
        + (m.dim \div GROUP) * BLOCK + (m.hidden_dim \div GROUP) * BLOCK
        + 16 * 14

\* What tq_runtime_init carves, in its order.
FastRequests(m, max_seq) ==
    << m.dim * 4, m.dim * 4, m.dim * 4, m.dim * 4,          \* x, xb, xb2, q
       m.hidden_dim * 4, m.hidden_dim * 4,                  \* hb, hb3
       m.n_heads * max_seq * 4, m.vocab_size * 4,           \* att, logits
       (m.dim \div GROUP) * BLOCK, (m.hidden_dim \div GROUP) * BLOCK,
       m.kv_dim * 4, m.kv_dim * 4,                          \* kb, vb
       (m.head_size \div 2) * 4, (m.head_size \div 2) * 4 >> \* rope_cos, rope_sin

CacheRequests(m, max_seq, q8) ==
    LET n == m.n_layers * max_seq * m.kv_dim
        s == m.n_layers * max_seq * m.n_kv_heads * 4
    IN  IF q8 THEN <<n, n, s, s>> ELSE <<n * 4, n * 4>>

-----------------------------------------------------------------------------

VARIABLES
    m, max_seq, q8,     \* the arguments
    phase,              \* "start", "fast", "cache", then the result
    todo,               \* requests of the phase still to be made
    cacheBase,          \* address of the second arena
    exact               \* the caller provides exactly what the sizing says

callVars == <<m, max_seq, q8, cacheBase, exact>>
vars == <<arenaVars, callVars, phase, todo>>

ArenaIs(a) ==
    /\ base = a.base /\ cap = a.cap /\ used = a.used /\ carved = a.carved
    /\ refused = a.refused /\ asked = a.asked /\ calls = a.calls

\* A caller with memory of the size it was told, or with less.
Init ==
    /\ m \in Models /\ max_seq \in MaxSeqs /\ q8 \in BOOLEAN
    /\ cacheBase \in CacheBases
    /\ exact \in BOOLEAN
    /\ phase = "start" /\ todo = <<>>
    /\ \E b \in FastBases :
          ArenaIs(Fresh(b, IF ~ exact THEN m.dim * 16
                           ELSE IF max_seq > 0 THEN tq_runtime_bytes(m, max_seq) ELSE 0))

\* The range check, then the first arena.
Start ==
    /\ phase = "start"
    /\ IF max_seq <= 0 \/ max_seq > m.seq_len
       THEN phase' = "range" /\ UNCHANGED todo
       ELSE phase' = "fast" /\ todo' = FastRequests(m, max_seq)
    /\ UNCHANGED <<arenaVars, callVars>>

Carve ==
    /\ phase \in {"fast", "cache"} /\ todo # <<>>
    /\ tq_carve(Head(todo))
    /\ todo' = Tail(todo)
    /\ UNCHANGED <<callVars, phase>>

\* The NULL checks after the activations; then the KV cache.
FastDone ==
    /\ phase = "fast" /\ todo = <<>>
    /\ IF refused
       THEN phase' = "nomem" /\ UNCHANGED <<arenaVars, todo>>
       ELSE LET a == Fresh(cacheBase, tq_kv_bytes(m, max_seq, q8))
            IN  /\ phase' = "cache"
                /\ todo' = CacheRequests(m, max_seq, q8)
                /\ base' = a.base /\ cap' = a.cap /\ used' = a.used
                /\ carved' = a.carved /\ refused' = a.refused
                /\ asked' = a.asked /\ calls' = a.calls
    /\ UNCHANGED callVars

CacheDone ==
    /\ phase = "cache" /\ todo = <<>>
    /\ phase' = IF refused THEN "nomem" ELSE "ok"
    /\ UNCHANGED <<arenaVars, callVars, todo>>

Returned == phase \in {"ok", "nomem", "range"}

Next == Start \/ Carve \/ FastDone \/ CacheDone \/ (Returned /\ UNCHANGED vars)

Spec == Init /\ [][Next]_vars

-----------------------------------------------------------------------------

TypeOK ==
    /\ ArenaTypeOK
    /\ m \in Models /\ max_seq \in MaxSeqs /\ q8 \in BOOLEAN
    /\ phase \in {"start", "fast", "cache", "ok", "nomem", "range"}
    /\ todo \in Seq(Nat)
    /\ cacheBase \in CacheBases /\ exact \in BOOLEAN

\* finish_open checks tq_runtime_bytes against the arena and tq_kv_bytes
\* against the PSRAM and then relies on tq_runtime_init: given what the sizing
\* functions said, the carving never runs out of memory.
SizingSuffices == exact => phase # "nomem"
=============================================================================
