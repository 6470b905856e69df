------------------------------ MODULE Sampler -------------------------------
(***************************************************************************)
(* tq_sample of core/src/tq_sample.c, one call: greedy, multinomial or     *)
(* nucleus sampling, with the heap sort one iteration at a time.           *)
(*                                                                         *)
(* Logits are whole powers of two and probabilities exact: a token's is    *)
(* its weight over the sum of the weights.  The random number enters as    *)
(* the cell it falls in when the mass that is drawn from is cut into cells *)
(* of weight 1, so that tokens are as likely as they have cells.           *)
(***************************************************************************)
EXTENDS Integers, FiniteSets

CONSTANTS
    vocab_size,
    Unit,           \* weight of the most likely token
    ToppUnit,       \* topp is counted in 1/ToppUnit
    Logits,         \* what tq_forward may leave
    Settings        \* samplers: [inv_t, topp, scratch], with inv_t = 0 for a
                    \* temperature that is not positive, and scratch FALSE
                    \* for one without its two arrays

Tokens == 0 .. vocab_size - 1

ASSUME SamplerAssumption ==
    /\ vocab_size \in Nat \ {0} /\ Unit \in Nat \ {0} /\ ToppUnit \in Nat \ {0}
    /\ Logits \subseteq [Tokens -> Int]
    /\ Settings \subseteq [inv_t : Nat, topp : Int, scratch : BOOLEAN]

VARIABLES
    s,              \* the sampler's settings
    logits,         \* the logits, then the weights of softmax in their place
    prob, idx,      \* the scratch arrays
    k,              \* candidates in them
    pc,             \* "softmax", "choose", "build", "sift", "pop", "cut", "draw", "done"
    i,              \* loop variable of tq_heapsort_desc
    root, n, ret,   \* arguments of tq_sift, and the loop it returns to
    last,           \* end of the nucleus
    token           \* the result, -1 before

vars == <<s, logits, prob, idx, k, pc, i, root, n, ret, last, token>>
sortVars == <<i, root, n, ret>>

\* The sum of f[0] .. f[m - 1].
Mass(f, m) ==
    LET sum[j \in 0 .. m] == IF j = 0 THEN 0 ELSE sum[j - 1] + f[j - 1]
    IN  sum[m]

Whole == Mass(logits, vocab_size)

\* The largest, the first of several.
tq_argmax(v) ==
    CHOOSE t \in Tokens : \A o \in Tokens : v[o] < v[t] \/ (v[o] = v[t] /\ t <= o)

\* The scratch arrays come from uninitialised memory and from earlier calls.
Init ==
    /\ s \in Settings /\ logits \in Logits
    /\ prob = [t \in Tokens |-> -1] /\ idx = [t \in Tokens |-> -1]
    /\ k = 0 /\ pc = "softmax"
    /\ i = 0 /\ root = 0 /\ n = 0 /\ ret = "build" /\ last = 0 /\ token = -1

\* tq_expf: the weight halves with every step below the most likely token, and
\* what underflows has none.
Halved(d) ==
    LET h[j \in 0 .. d] == IF j = 0 THEN Unit ELSE h[j - 1] \div 2
    IN  h[d]

Return(t) == token' = t /\ pc' = "done"

Greedy ==
    /\ pc = "softmax" /\ s.inv_t = 0
    /\ Return(tq_argmax(logits))
    /\ UNCHANGED <<s, logits, prob, idx, k, sortVars, last>>

\* softmax(logits / T) in place.
Softmax ==
    /\ pc = "softmax" /\ s.inv_t > 0
    /\ logits' = LET max == logits[tq_argmax(logits)]
                 IN  [t \in Tokens |-> Halved(s.inv_t * (max - logits[t]))]
    /\ pc' = "choose"
    /\ UNCHANGED <<s, prob, idx, k, sortVars, last, token>>

NucleusOn == 0 < s.topp /\ s.topp < ToppUnit /\ s.scratch

\* The first position whose cumulated weight exceeds the draw.
Walk(f, cell) ==
    CHOOSE j \in DOMAIN f : /\ cell < Mass(f, j + 1)
                            /\ \A o \in DOMAIN f : o < j => Mass(f, o + 1) <= cell

Multinomial ==
    /\ pc = "choose" /\ ~ NucleusOn
    /\ \E cell \in 0 .. Whole - 1 : Return(Walk(logits, cell))
    /\ UNCHANGED <<s, logits, prob, idx, k, sortVars, last>>

-----------------------------------------------------------------------------
(* Nucleus. *)

\* logits[t] >= (1 - topp) / (n - 1); no token reaches it in a vocabulary of one.
ReachesCutoff(t) ==
    logits[t] * ToppUnit * (vocab_size - 1) >= (ToppUnit - s.topp) * Whole

\* The tokens that reach the cutoff are written to the scratch arrays in order.
Filter ==
    LET kept == {t \in Tokens : ReachesCutoff(t)}
        num  == Cardinality(kept)
        nth(j) == CHOOSE t \in kept : Cardinality({o \in kept : o < t}) = j
    IN  /\ pc = "choose" /\ NucleusOn
        /\ idx'  = [j \in Tokens |-> IF j < num THEN nth(j) ELSE idx[j]]
        /\ prob' = [j \in Tokens |-> IF j < num THEN logits[nth(j)] ELSE prob[j]]
        /\ k' = num
        /\ IF num = 0
           THEN Return(tq_argmax(logits)) /\ UNCHANGED i
           ELSE i' = (num \div 2) - 1 /\ pc' = "build" /\ UNCHANGED token
        /\ UNCHANGED <<s, logits, root, n, ret, last>>

Sifting(r, bound, loop) == root' = r /\ n' = bound /\ ret' = loop /\ pc' = "sift"

\* The first loop of tq_heapsort_desc.
Build ==
    /\ pc = "build"
    /\ IF i >= 0
       THEN Sifting(i, k, "build") /\ i' = i - 1
       ELSE pc' = "pop" /\ i' = k - 1 /\ UNCHANGED <<root, n, ret>>
    /\ UNCHANGED <<s, logits, prob, idx, k, last, token>>

\* Mutant: only the left child is looked at.
BiggestLeft ==
    IF 2 * root + 1 < n /\ prob[2 * root + 1] > prob[root] THEN 2 * root + 1 ELSE root

\* The root, or a child that exceeds it: the right one if it exceeds both.
Biggest ==
    LET above == {c \in {2 * root + 1, 2 * root + 2} : c < n /\ prob[c] > prob[root]}
    IN  IF above = {} THEN root
        ELSE CHOOSE c \in above :
                 \A o \in above : prob[c] > prob[o] \/ (prob[c] = prob[o] /\ c <= o)

\* Mutant: the tokens do not move with their probabilities.
SwapProb(a, b) ==
    /\ prob' = [prob EXCEPT ![a] = prob[b], ![b] = prob[a]]
    /\ UNCHANGED idx

Swap(a, b) ==
    /\ prob' = [prob EXCEPT ![a] = prob[b], ![b] = prob[a]]
    /\ idx'  = [idx EXCEPT ![a] = idx[b], ![b] = idx[a]]

\* One turn of the loop of tq_sift.
Sift ==
    /\ pc = "sift"
    /\ IF Biggest = root
       THEN pc' = ret /\ UNCHANGED <<prob, idx, root>>
       ELSE Swap(root, Biggest) /\ root' = Biggest /\ UNCHANGED pc
    /\ UNCHANGED <<s, logits, k, i, n, ret, last, token>>

\* The second loop: the largest goes to the back.
Pop ==
    /\ pc = "pop" /\ i > 0
    /\ Swap(0, i)
    /\ Sifting(0, i, "pop") /\ i' = i - 1
    /\ UNCHANGED <<s, logits, k, last, token>>

\* The third loop turns the array round.
Reverse ==
    /\ pc = "pop" /\ i <= 0
    /\ prob' = [j \in Tokens |-> IF j < k THEN prob[k - 1 - j] ELSE prob[j]]
    /\ idx'  = [j \in Tokens |-> IF j < k THEN idx[k - 1 - j] ELSE idx[j]]
    /\ pc' = "cut"
    /\ UNCHANGED <<s, logits, k, sortVars, last, token>>

\* The nucleus ends where the cumulated probability first exceeds topp.
Cut ==
    /\ pc = "cut"
    /\ LET over == {j \in 0 .. k - 1 : Mass(prob, j + 1) * ToppUnit > s.topp * Whole}
       IN  last' = IF over = {} THEN k - 1
                   ELSE CHOOSE j \in over : \A o \in over : j <= o
    /\ pc' = "draw"
    /\ UNCHANGED <<s, logits, prob, idx, k, sortVars, token>>

Draw ==
    /\ pc = "draw"
    /\ \E cell \in 0 .. Mass(prob, last + 1) - 1 : Return(idx[Walk(prob, cell)])
    /\ UNCHANGED <<s, logits, prob, idx, k, sortVars, last>>

Next ==
    \/ Greedy \/ Softmax \/ Multinomial
    \/ Filter \/ Build \/ Sift \/ Pop \/ Reverse \/ Cut \/ Draw
    \/ pc = "done" /\ UNCHANGED vars

Spec == Init /\ [][Next]_vars

-----------------------------------------------------------------------------

TypeOK ==
    /\ s \in Settings /\ logits \in [Tokens -> Int]
    /\ prob \in [Tokens -> -1 .. Unit] /\ idx \in [Tokens -> Tokens \cup {-1}]
    /\ k \in 0 .. vocab_size
    /\ pc \in {"softmax", "choose", "build", "sift", "pop", "cut", "draw", "done"}
    /\ i \in -1 .. vocab_size - 1
    /\ root \in Tokens /\ n \in 0 .. k /\ ret \in {"build", "pop"}
    /\ last \in Tokens /\ token \in Tokens \cup {-1}

\* However the arrays are sorted, entry for entry they hold a token and its own
\* probability, no token twice, and the tokens they hold are the ones that reach
\* the cutoff.
ScratchInStep ==
    pc \in {"build", "sift", "pop", "cut", "draw"} =>
        /\ \A j \in 0 .. k - 1 : idx[j] \in Tokens /\ prob[j] = logits[idx[j]]
        /\ \A j, m \in 0 .. k - 1 : idx[j] = idx[m] => j = m
        /\ \A t \in Tokens : ReachesCutoff(t) <=> \E j \in 0 .. k - 1 : idx[j] = t

\* The weight of the tokens of S.
MassOf(S) == Mass([t \in Tokens |-> IF t \in S THEN logits[t] ELSE 0], vocab_size)

\* The nucleus is what the definition of top-p says of the whole vocabulary,
\* although tokens were dropped before the rest was sorted: the likeliest tokens
\* that together exceed topp, and no more of them than that takes; and each is
\* drawn with its exact share of their mass.
DrawsTheNucleus ==
    pc = "draw" =>
        LET cells(t) == Cardinality({c \in 0 .. Mass(prob, last + 1) - 1 :
                                       idx[Walk(prob, c)] = t})
            in       == {t \in Tokens : cells(t) > 0}
            over(S)  == MassOf(S) * ToppUnit > s.topp * Whole
        IN  /\ over(in)
            /\ \A t \in in : cells(t) = logits[t]
            /\ \A t \in in, o \in Tokens \ in : logits[t] >= logits[o]
            /\ \A t \in in : ~ over(in \ {t})
=============================================================================
