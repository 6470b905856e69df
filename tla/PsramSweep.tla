----------------------------- MODULE PsramSweep -----------------------------
(***************************************************************************)
(* psram_clock_sweep of psram_flexspi2.c: the clocks are sorted by their   *)
(* real frequency, brought up one after the other from the slowest, tested *)
(* and the last good one is brought up again.                              *)
(*                                                                         *)
(* Every psram_init probes the chips anew, and a part at its limit answers *)
(* one probe and not the next: what a probe finds is a new choice each     *)
(* time.  The board may have a bad line, or be flaky, from some frequency  *)
(* on; the memory test of MemTest then decides.                            *)
(***************************************************************************)
EXTENDS MemTest, Sequences

CONSTANTS
    Count,      \* PSRAM_CLK_COUNT
    HzTables,   \* what psram_clock_hz may return, as the PLLs are programmed
    Marginals,  \* frequencies from which a fault may show, 0 for always
    Answers,    \* parts that may answer a probe, a subset of Parts
    MaxIndexes  \* values of max_index callers pass

Clocks == 0 .. Count - 1

\* What the ID of a part says about its size in megabytes; an unknown ID and
\* no answer are the same.
fs2_probe == [none |-> 0, apmemory |-> 8, issi8 |-> 8, issi16 |-> 16]
Parts == DOMAIN fs2_probe

ASSUME SweepAssumption ==
    /\ Count \in Nat \ {0}
    /\ HzTables \subseteq [Clocks -> Nat]
    /\ Marginals \subseteq Nat
    /\ Answers \subseteq Parts
    /\ MaxIndexes \subseteq Int

VARIABLES
    fault,      \* what is wrong with the board
    marginal,   \* the frequency from which it shows
    hz,         \* psram_clock_hz
    order,      \* the clocks, order[0] of the code first
    pc,         \* "sort", "sweep", "settle", then "done" or "failed"
    i, j,       \* loop variables, numbered from 1
    best,       \* last clock that passed, -1 for none
    best_mb,    \* the capacity it was tested with
    info,       \* g_info: [clock, mbytes]
    passed,     \* history: the passes of this sweep, [clock, mb]
    rejected    \* history: clocks that enumerated and failed the test

board == <<fault, marginal, hz>>
sweepVars == <<board, order, pc, i, j, best, best_mb, info, passed, rejected>>

Flaky == [kind |-> "flaky"]

\* What the memory test meets at a clock.
AtClock(c) == IF hz[c] >= marginal THEN fault ELSE Sound

LastIndex(max) == IF max < 0 \/ max >= Count THEN Count - 1 ELSE max

SweepInit ==
    /\ fault \in Defects \cup {Sound, Flaky} /\ marginal \in Marginals
    /\ hz \in HzTables
    /\ \E max \in MaxIndexes : order = [k \in 1 .. LastIndex(max) + 1 |-> k - 1]
    /\ pc = "sort" /\ i = 2 /\ j = 2
    /\ best = -1 /\ best_mb = 0
    /\ info \in [clock : Clocks, mbytes : {fs2_probe[a] : a \in Answers}]
    /\ passed = {} /\ rejected = {}

\* Mutant: an element moves one place only.
SortOnePlace ==
    /\ pc = "sort" /\ i <= Len(order)
    /\ IF hz[order[j]] < hz[order[j - 1]]
       THEN order' = [order EXCEPT ![j] = order[j - 1], ![j - 1] = order[j]]
       ELSE UNCHANGED order
    /\ i' = i + 1 /\ j' = i + 1
    /\ UNCHANGED <<board, pc, best, best_mb, info, passed, rejected>>

\* The insertion sort, one comparison at a time.
SortStep ==
    /\ pc = "sort" /\ i <= Len(order)
    /\ IF j > 1 /\ hz[order[j]] < hz[order[j - 1]]
       THEN /\ order' = [order EXCEPT ![j] = order[j - 1], ![j - 1] = order[j]]
            /\ j' = j - 1 /\ UNCHANGED i
       ELSE i' = i + 1 /\ j' = i + 1 /\ UNCHANGED order
    /\ UNCHANGED <<board, pc, best, best_mb, info, passed, rejected>>

SortDone ==
    /\ pc = "sort" /\ i > Len(order)
    /\ pc' = "sweep" /\ i' = 1
    /\ UNCHANGED <<board, order, j, best, best_mb, info, passed, rejected>>

\* psram_init: without an answer from the first chip the second is not probed.
psram_init(c) ==
    \E chip1, chip2 \in Answers :
        info' = [clock |-> c,
                 mbytes |-> IF fs2_probe[chip1] = 0 THEN 0
                            ELSE fs2_probe[chip1] + fs2_probe[chip2]]

\* A failure ends the sweep once a slower clock has passed.
Fail ==
    /\ IF best >= 0 THEN pc' = "settle" /\ UNCHANGED i
                    ELSE pc' = pc /\ i' = i + 1
    /\ UNCHANGED <<best, best_mb, passed>>

Pass ==
    /\ best' = order[i] /\ best_mb' = info'.mbytes
    /\ passed' = passed \cup {[clock |-> order[i], mb |-> info'.mbytes]}
    /\ i' = i + 1 /\ pc' = pc

\* Whether the memory test may pass: a flaky board leaves it to chance.
TestsGood(c) ==
    IF AtClock(c) = Flaky THEN BOOLEAN ELSE {psram_memtest(AtClock(c)) = 0}

Try(c) ==
    \E good \in TestsGood(c) :
        \/ good /\ Pass /\ UNCHANGED rejected
        \/ ~ good /\ Fail /\ rejected' = rejected \cup {c}

\* One clock: no chip, or fewer megabytes than a slower clock found, is a
\* failure; otherwise the memory test decides.
Clock ==
    /\ pc = "sweep" /\ i <= Len(order)
    /\ psram_init(order[i])
    /\ \/ (info'.mbytes = 0 \/ info'.mbytes < best_mb) /\ Fail /\ UNCHANGED rejected
       \/ info'.mbytes # 0 /\ info'.mbytes >= best_mb /\ Try(order[i])
    /\ UNCHANGED <<board, order, j>>

SweepDone ==
    /\ pc = "sweep" /\ i > Len(order)
    /\ pc' = "settle"
    /\ UNCHANGED <<board, order, i, j, best, best_mb, info, passed, rejected>>

Settle ==
    /\ pc = "settle"
    /\ IF best < 0 THEN pc' = "failed" /\ UNCHANGED info
                   ELSE pc' = "done" /\ psram_init(best)
    /\ UNCHANGED <<board, order, i, j, best, best_mb, passed, rejected>>

Returned == pc \in {"done", "failed"} /\ UNCHANGED sweepVars

SweepNext == SortStep \/ SortDone \/ Clock \/ SweepDone \/ Settle \/ Returned

SweepSpec == SweepInit /\ [][SweepNext]_sweepVars

-----------------------------------------------------------------------------

\* "leave the part configured at the fastest clock that passes": the clock it
\* settles on passed, no clock that passed is faster, none was tested with more
\* memory.  What the last psram_init finds is another matter: the code does not
\* compare it with best_mb.
SettlesOnFastest ==
    pc = "done" =>
        /\ info.clock = best
        /\ [clock |-> best, mb |-> best_mb] \in passed
        /\ \A p \in passed : hz[p.clock] <= hz[best] /\ p.mb <= best_mb

\* No clock at which a line is stuck, shorted or not decoded passes, although
\* such a line alters what is written as well as what is read, and none at
\* which the board is sound fails its test.
FaultsFound ==
    /\ \A p \in passed : AtClock(p.clock) \in {Sound, Flaky}
    /\ \A c \in rejected : AtClock(c) # Sound
=============================================================================
