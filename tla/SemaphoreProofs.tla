-------------------------- MODULE SemaphoreProofs ---------------------------
(***************************************************************************)
(* Proofs about a message between two machines: the text arrives, both     *)
(* ends predict alike, a damaged wire does no harm, and the tokens travel  *)
(* as a courier's items do.                                                *)
(*                                                                         *)
(* The inductive invariant is SemInv.  It puts together what the tokenizer *)
(* has spelled so far, the range coder's own invariant FullInv (only its   *)
(* part Inv once the wire was damaged, for then the decoder follows no     *)
(* encoder), and the accounts of both ends: what the sender has coded is   *)
(* the row of symbols its tokens stand for, and on a whole wire what the   *)
(* receiver has decoded is the beginning of that row.                      *)
(*                                                                         *)
(* Before that come facts about the operators the model is built from: the *)
(* kernels, the lookup of pieces, merging and printing, and the tables.    *)
(***************************************************************************)
EXTENDS Semaphore, RangeCoderProofs, FiniteSetTheorems

-----------------------------------------------------------------------------
(* Functions defined by recursion. *)

\* Induction, with a set in place of a predicate.
LEMMA SetInduction ==
    ASSUME NEW S, 0 \in S, \A q \in Nat : q \in S => q + 1 \in S
    PROVE  \A q \in Nat : q \in S
<1> DEFINE bad == {q \in Nat : q \notin S}
<1>1. SUFFICES ASSUME bad # {} PROVE FALSE
    OBVIOUS
<1>2. PICK m \in bad : \A q \in bad : m <= q
    <2>1. bad \subseteq Nat
        OBVIOUS
    <2> QED
        BY <1>1, <2>1, LeastElement
<1>3. m \in Nat /\ m \notin S /\ m # 0
    OBVIOUS
<1>4. m - 1 \in Nat /\ m - 1 \notin bad
    BY <1>2, <1>3
<1>5. m - 1 \in S
    BY <1>4
<1>6. (m - 1) + 1 \in S
    BY <1>4, <1>5
<1> QED
    BY <1>3, <1>6

Recurrence(f, b, G, m) ==
    /\ f[0] = b
    /\ \A j \in 1 .. m : f[j] = G[j][f[j - 1]]

\* A recursive function over 0 .. m exists.
LEMMA Recursion ==
    ASSUME NEW V, NEW b \in V, NEW m \in Nat, NEW G \in [1 .. m -> [V -> V]]
    PROVE  \E f \in [0 .. m -> V] : Recurrence(f, b, G, m)
<1> DEFINE S == {q \in Nat : q <= m => \E f \in [0 .. q -> V] : Recurrence(f, b, G, q)}
<1>1. 0 \in S
    <2>1. [j \in 0 .. 0 |-> b] \in [0 .. 0 -> V]
        OBVIOUS
    <2>2. Recurrence([j \in 0 .. 0 |-> b], b, G, 0)
        BY DEF Recurrence
    <2> QED
        BY <2>1, <2>2
<1>2. ASSUME NEW q \in Nat, q \in S PROVE q + 1 \in S
    <2>1. SUFFICES ASSUME q + 1 <= m
                   PROVE  \E f \in [0 .. q + 1 -> V] : Recurrence(f, b, G, q + 1)
        OBVIOUS
    <2>2. PICK f \in [0 .. q -> V] : Recurrence(f, b, G, q)
        BY <1>2, <2>1
    <2> DEFINE x == G[q + 1][f[q]]
               g == [j \in 0 .. q + 1 |-> IF j = q + 1 THEN x ELSE f[j]]
    <2>3. x \in V
        <3>1. q + 1 \in 1 .. m /\ f[q] \in V
            BY <2>1
        <3> QED
            BY <3>1
    <2>4. g \in [0 .. q + 1 -> V]
        BY <2>3
    <2>5. g[0] = b
        BY <2>2 DEF Recurrence
    <2>6. ASSUME NEW j \in 1 .. q + 1 PROVE g[j] = G[j][g[j - 1]]
        <3>1. CASE j = q + 1
            <4>1. g[j] = x /\ g[j - 1] = f[q]
                BY <3>1
            <4> QED
                BY <3>1, <4>1
        <3>2. CASE j # q + 1
            <4>1. j \in 1 .. q /\ g[j] = f[j] /\ g[j - 1] = f[j - 1]
                BY <3>2
            <4> QED
                BY <4>1, <2>2 DEF Recurrence
        <3> QED
            BY <3>1, <3>2
    <2> QED
        BY <2>4, <2>5, <2>6 DEF Recurrence
<1> HIDE DEF S
<1>3. m \in S
    BY <1>1, <1>2, SetInduction
<1> QED
    BY <1>3 DEF S

\* c adds up the first m values of inc.
AddsUp(c, m, inc) == c[0] = 0 /\ \A n \in 1 .. m : c[n] = c[n - 1] + inc[n]

\* A sum over 0 .. m exists.
LEMMA SumExists ==
    ASSUME NEW m \in Nat, NEW inc, \A n \in 1 .. m : inc[n] \in Int
    PROVE  \E c \in [0 .. m -> Int] : AddsUp(c, m, inc)
<1> DEFINE G == [n \in 1 .. m |-> [v \in Int |-> v + inc[n]]]
<1>1. G \in [1 .. m -> [Int -> Int]]
    <2>1. ASSUME NEW n \in 1 .. m PROVE [v \in Int |-> v + inc[n]] \in [Int -> Int]
        BY SMT
    <2> QED
        BY <2>1
<1>2. PICK c \in [0 .. m -> Int] : Recurrence(c, 0, G, m)
    <2> HIDE DEF G
    <2>1. 0 \in Int
        OBVIOUS
    <2> QED
        BY <1>1, <2>1, Recursion, Zenon
<1>3. ASSUME NEW n \in 1 .. m PROVE c[n] = c[n - 1] + inc[n]
    <2>1. n - 1 \in 0 .. m
        OBVIOUS
    <2>2. c[n - 1] \in Int
        BY <1>2, <2>1
    <2>3. c[n] = G[n][c[n - 1]]
        BY <1>2 DEF Recurrence
    <2> QED
        BY <2>2, <2>3
<1> QED
    BY <1>2, <1>3 DEF Recurrence, AddsUp

\* Its values are integers, and naturals if what is added is.
LEMMA SumType ==
    ASSUME NEW m \in Nat, NEW inc, NEW c, AddsUp(c, m, inc), NEW V, V \in {Int, Nat},
           \A n \in 1 .. m : inc[n] \in V
    PROVE  \A n \in 0 .. m : c[n] \in V
<1> DEFINE S == {n \in Nat : n <= m => c[n] \in V}
<1>1. 0 \in S
    BY DEF AddsUp
<1>2. ASSUME NEW n \in Nat, n \in S PROVE n + 1 \in S
    <2>1. SUFFICES ASSUME n + 1 <= m PROVE c[n + 1] \in V
        OBVIOUS
    <2>2. n + 1 \in 1 .. m /\ (n + 1) - 1 = n /\ c[n] \in V
        BY <1>2, <2>1
    <2>3. c[n + 1] = c[n] + inc[n + 1] /\ inc[n + 1] \in V
        BY <2>2 DEF AddsUp
    <2> QED
        BY <2>2, <2>3
<1>3. \A n \in Nat : n \in S
    <2> HIDE DEF S
    <2> QED
        BY <1>1, <1>2, SetInduction
<1> QED
    BY <1>3

-----------------------------------------------------------------------------
(* The kernels: both forms of both dot products are the inner product.      *)

Elements == 0 .. 31
Sums(C, p) ==
    /\ C \in [0 .. 32 -> Int] /\ C[0] = 0
    /\ \A j \in Elements : C[j + 1] = C[j] + p[j]

\* A byte of an int8_t gives it back.
LEMMA SignedByte ==
    ASSUME NEW n \in -128 .. 127
    PROVE  n % 256 \in 0 .. 255 /\ Signed(n % 256) = n
<1>1. CASE n >= 0
    <2>1. n % 256 = n
        BY <1>1
    <2> QED
        BY <1>1, <2>1 DEF Signed
<1>2. CASE n < 0
    <2>1. n % 256 = n + 256
        BY <1>2
    <2> QED
        BY <1>2, <2>1 DEF Signed
<1> QED
    BY <1>1, <1>2

\* Four elements more.
LEMMA FourMore ==
    ASSUME NEW p \in [Elements -> Int], NEW C, Sums(C, p), NEW j \in 0 .. 28
    PROVE  /\ C[j + 4] = C[j] + p[j] + p[j + 1] + p[j + 2] + p[j + 3]
           /\ C[j] \in Int /\ C[j + 4] \in Int
           /\ p[j] \in Int /\ p[j + 1] \in Int /\ p[j + 2] \in Int /\ p[j + 3] \in Int
<1>1. /\ j \in Elements /\ j + 1 \in Elements /\ j + 2 \in Elements /\ j + 3 \in Elements
      /\ (j + 1) + 1 = j + 2 /\ (j + 2) + 1 = j + 3 /\ (j + 3) + 1 = j + 4
      /\ j \in 0 .. 32 /\ j + 4 \in 0 .. 32
    BY DEF Elements
<1>2. /\ C[j + 1] = C[j] + p[j] /\ C[j + 2] = C[j + 1] + p[j + 1]
      /\ C[j + 3] = C[j + 2] + p[j + 2] /\ C[j + 4] = C[j + 3] + p[j + 3]
    <2>1. \A o \in Elements : C[o + 1] = C[o] + p[o]
        BY DEF Sums
    <2>2. C[j + 1] = C[j] + p[j] /\ C[(j + 1) + 1] = C[j + 1] + p[j + 1]
        BY <1>1, <2>1
    <2>3. C[(j + 2) + 1] = C[j + 2] + p[j + 2] /\ C[(j + 3) + 1] = C[j + 3] + p[j + 3]
        BY <1>1, <2>1
    <2> QED
        BY <1>1, <2>2, <2>3
<1>3. /\ p[j] \in Int /\ p[j + 1] \in Int /\ p[j + 2] \in Int /\ p[j + 3] \in Int
      /\ C[j] \in Int /\ C[j + 4] \in Int
    BY <1>1 DEF Sums
<1> QED
    BY <1>2, <1>3

\* A sum written as a recursive function adds up.
LEMMA SumIs ==
    ASSUME NEW m \in Nat, NEW inc \in [1 .. m -> Int], NEW d,
           d = CHOOSE c : c = [n \in 0 .. m |-> IF n = 0 THEN 0 ELSE c[n - 1] + inc[n]]
    PROVE  d \in [0 .. m -> Int] /\ AddsUp(d, m, inc)
<1> DEFINE Is(c) == c = [n \in 0 .. m |-> IF n = 0 THEN 0 ELSE c[n - 1] + inc[n]]
<1>1. PICK c \in [0 .. m -> Int] : AddsUp(c, m, inc)
    BY SumExists
<1>2. Is(c)
    <2>1. ASSUME NEW n \in 0 .. m PROVE c[n] = IF n = 0 THEN 0 ELSE c[n - 1] + inc[n]
        BY <1>1 DEF AddsUp
    <2> QED
        BY <2>1
<1>3. Is(d)
    BY <1>2
<1>4. AddsUp(d, m, inc)
    <2>1. d[0] = 0
        <3>1. 0 \in 0 .. m
            OBVIOUS
        <3> QED
            BY <1>3, <3>1
    <2>2. ASSUME NEW n \in 1 .. m PROVE d[n] = d[n - 1] + inc[n]
        <3>1. n \in 0 .. m /\ n # 0
            OBVIOUS
        <3> QED
            BY <1>3, <3>1
    <2> QED
        BY <2>1, <2>2 DEF AddsUp
<1>5. \A n \in 0 .. m : d[n] \in Int
    BY <1>4, SumType
<1>6. d = [n \in 0 .. m |-> d[n]]
    BY <1>3
<1> QED
    BY <1>4, <1>5, <1>6

\* The reference, and the generic loop over bytes.
LEMMA InnerProductIs ==
    ASSUME NEW q \in [Elements -> Int], NEW a \in [Elements -> Int]
    PROVE  \E p \in [Elements -> Int] : \E C :
              /\ Sums(C, p) /\ InnerProduct(q, a) = C[32]
              /\ \A j \in Elements : p[j] = q[j] * a[j]
<1> DEFINE p == [j \in Elements |-> q[j] * a[j]]
           inc == [n \in 1 .. 32 |-> q[n - 1] * a[n - 1]]
           d == CHOOSE c : c = [n \in 0 .. 32 |-> IF n = 0 THEN 0 ELSE c[n - 1] + inc[n]]
           e == CHOOSE c : c = [n \in 0 .. 32 |-> IF n = 0 THEN 0
                                                  ELSE c[n - 1] + q[n - 1] * a[n - 1]]
<1>1. ASSUME NEW j \in Elements PROVE q[j] * a[j] \in Int
    <2>1. q[j] \in Int /\ a[j] \in Int
        OBVIOUS
    <2> QED
        BY <2>1
<1>2. p \in [Elements -> Int] /\ \A j \in Elements : p[j] = q[j] * a[j]
    BY <1>1
<1>3. inc \in [1 .. 32 -> Int]
    <2>1. ASSUME NEW n \in 1 .. 32 PROVE q[n - 1] * a[n - 1] \in Int
        <3>1. n - 1 \in Elements
            BY DEF Elements
        <3> QED
            BY <1>1, <3>1
    <2> QED
        BY <2>1
<1>4. e = d
    <2>1. ASSUME NEW c
          PROVE  [n \in 0 .. 32 |-> IF n = 0 THEN 0 ELSE c[n - 1] + inc[n]]
                   = [n \in 0 .. 32 |-> IF n = 0 THEN 0 ELSE c[n - 1] + q[n - 1] * a[n - 1]]
        <3>1. ASSUME NEW n \in 0 .. 32, n # 0 PROVE inc[n] = q[n - 1] * a[n - 1]
            <4>1. n \in 1 .. 32
                BY <3>1
            <4> QED
                BY <4>1
        <3> HIDE DEF inc
        <3> QED
            BY <3>1, Zenon
    <2> HIDE DEF inc
    <2> QED
        BY <2>1, Zenon
<1>5. InnerProduct(q, a) = e[32]
    BY DEF InnerProduct, GROUP
<1>6. d \in [0 .. 32 -> Int] /\ AddsUp(d, 32, inc)
    <2> HIDE DEF inc
    <2> QED
        BY <1>3, SumIs
<1>7. Sums(d, p)
    <2>1. ASSUME NEW j \in Elements PROVE d[j + 1] = d[j] + p[j]
        <3>1. j + 1 \in 1 .. 32 /\ (j + 1) - 1 = j
            BY DEF Elements
        <3>2. d[j + 1] = d[j] + inc[j + 1]
            BY <1>6, <3>1 DEF AddsUp
        <3>3. inc[j + 1] = q[j] * a[j]
            BY <3>1
        <3> QED
            BY <3>2, <3>3
    <2> HIDE DEF d, p
    <2> QED
        BY <2>1, <1>6 DEF Sums, AddsUp
<1> HIDE DEF d, p, e, inc
<1> QED
    BY <1>2, <1>4, <1>5, <1>7

\* It is an integer.
LEMMA InnerProductInt ==
    ASSUME NEW q \in [Elements -> Int], NEW a \in [Elements -> Int]
    PROVE  InnerProduct(q, a) \in Int
<1>p. PICK p \in [Elements -> Int] : \E C :
         /\ Sums(C, p) /\ InnerProduct(q, a) = C[32]
         /\ \A j \in Elements : p[j] = q[j] * a[j]
    BY InnerProductIs
<1>1. PICK C :
         /\ Sums(C, p) /\ InnerProduct(q, a) = C[32]
         /\ \A j \in Elements : p[j] = q[j] * a[j]
    BY <1>p
<1> QED
    BY <1>1 DEF Sums

\* The lanes of two words, multiplied and added.
LEMMA DotWordsIs ==
    ASSUME NEW v \in [Lanes -> 0 .. 255], NEW x \in [Lanes -> 0 .. 255], NEW acc \in Int
    PROVE  DotWords(v, x, acc)
             = acc + Signed(v[0]) * Signed(x[0]) + Signed(v[2]) * Signed(x[2])
                   + Signed(v[1]) * Signed(x[1]) + Signed(v[3]) * Signed(x[3])
<1>1. ASSUME NEW y \in [Lanes -> 0 .. 255]
      PROVE  /\ tq_sxtb16(y)[1] = Signed(y[0]) /\ tq_sxtb16(y)[2] = Signed(y[2])
             /\ tq_sxtb16(ShiftByte(y))[1] = Signed(y[1])
             /\ tq_sxtb16(ShiftByte(y))[2] = Signed(y[3])
    <2>1. ShiftByte(y)[0] = y[1] /\ ShiftByte(y)[2] = y[3]
        BY DEF ShiftByte, Lanes
    <2> QED
        BY <2>1 DEF tq_sxtb16
<1> QED
    BY <1>1 DEF DotWords, tq_smlad

\* The recursive function of DspQ80, of any form, if each turn adds what four
\* elements add.
LEMMA TurnsAdd ==
    ASSUME NEW m \in Nat, NEW p \in [Elements -> Int], NEW C, Sums(C, p), 4 * m <= 32,
           NEW d, d[0] = 0,
           \A n \in 1 .. m : d[n - 1] \in Int =>
              d[n] = d[n - 1] + p[4 * (n - 1)] + p[4 * (n - 1) + 2]
                              + p[4 * (n - 1) + 1] + p[4 * (n - 1) + 3]
    PROVE  d[m] = C[4 * m]
<1> DEFINE S == {n \in Nat : n <= m => d[n] = C[4 * n]}
<1>1. 0 \in S
    BY DEF Sums
<1>2. ASSUME NEW n \in Nat, n \in S PROVE n + 1 \in S
    <2>1. SUFFICES ASSUME n + 1 <= m PROVE d[n + 1] = C[4 * (n + 1)]
        OBVIOUS
    <2>2. PICK j \in 0 .. 28 : j = 4 * n
        BY <2>1
    <2>3. d[n] = C[j] /\ n + 1 \in 1 .. m /\ (n + 1) - 1 = n /\ 4 * (n + 1) = j + 4
        BY <1>2, <2>1, <2>2
    <2>4. /\ C[j + 4] = C[j] + p[j] + p[j + 1] + p[j + 2] + p[j + 3]
          /\ C[j] \in Int /\ C[j + 4] \in Int
          /\ p[j] \in Int /\ p[j + 1] \in Int /\ p[j + 2] \in Int /\ p[j + 3] \in Int
        BY FourMore
    <2>5. d[n + 1] = d[n] + p[j] + p[j + 2] + p[j + 1] + p[j + 3]
        BY <2>2, <2>3, <2>4
    <2>6. d[n + 1] = C[j + 4]
        BY <2>3, <2>4, <2>5
    <2> QED
        BY <2>3, <2>6
<1>3. m \in S
    <2> HIDE DEF S
    <2> QED
        BY <1>1, <1>2, SetInduction
<1> QED
    BY <1>3

\* tq_dot_q80_q80 in plain C.
LEMMA GenericQ80Is ==
    ASSUME NEW q \in [Elements -> -128 .. 127], NEW a \in [Elements -> -128 .. 127]
    PROVE  GenericQ80(PackedQ80(q), PackedQ80(a)) = InnerProduct(q, a)
<1>1. ASSUME NEW n \in 0 .. 32, n # 0
      PROVE  Signed(PackedQ80(q)[n - 1]) * Signed(PackedQ80(a)[n - 1]) = q[n - 1] * a[n - 1]
    <2>1. n - 1 \in 0 .. 31 /\ q[n - 1] \in -128 .. 127 /\ a[n - 1] \in -128 .. 127
        BY <1>1, SMTT(90) DEF Elements
    <2>2. PackedQ80(q)[n - 1] = q[n - 1] % 256 /\ PackedQ80(a)[n - 1] = a[n - 1] % 256
        BY <2>1 DEF PackedQ80, GROUP
    <2> QED
        BY <2>1, <2>2, SignedByte
<1> DEFINE w == PackedQ80(q)
           x == PackedQ80(a)
<1> HIDE DEF w, x
<1>2. ASSUME NEW c
      PROVE  [n \in 0 .. 32 |-> IF n = 0 THEN 0 ELSE c[n - 1] + Signed(w[n - 1]) * Signed(x[n - 1])]
               = [n \in 0 .. 32 |-> IF n = 0 THEN 0 ELSE c[n - 1] + q[n - 1] * a[n - 1]]
    <2>1. \A n \in 0 .. 32 :
            (IF n = 0 THEN 0 ELSE c[n - 1] + Signed(w[n - 1]) * Signed(x[n - 1]))
              = IF n = 0 THEN 0 ELSE c[n - 1] + q[n - 1] * a[n - 1]
        BY <1>1, Zenon DEF w, x
    <2> QED
        BY <2>1, Zenon
<1>3. GenericQ80(w, x) = InnerProduct(q, a)
    BY <1>2, Zenon DEF GenericQ80, InnerProduct, GROUP
<1> QED
    BY <1>3 DEF w, x

\* Four packed weights and four activations.
LEMMA WordsQ80 ==
    ASSUME NEW q \in [Elements -> -128 .. 127], NEW a \in [Elements -> -128 .. 127],
           NEW j \in 0 .. 28, NEW acc \in Int
    PROVE  DotWords(tq_ld32(PackedQ80(q), j), tq_ld32(PackedQ80(a), j), acc)
             = acc + q[j] * a[j] + q[j + 2] * a[j + 2]
                   + q[j + 1] * a[j + 1] + q[j + 3] * a[j + 3]
<1>1. ASSUME NEW b \in [Elements -> -128 .. 127]
      PROVE  /\ tq_ld32(PackedQ80(b), j) \in [Lanes -> 0 .. 255]
             /\ \A k \in Lanes : Signed(tq_ld32(PackedQ80(b), j)[k]) = b[j + k]
    <2>1. ASSUME NEW k \in Lanes
          PROVE  /\ PackedQ80(b)[j + k] \in 0 .. 255
                 /\ Signed(PackedQ80(b)[j + k]) = b[j + k]
        <3>1. j + k \in 0 .. 31 /\ j + k \in Elements
            BY SMTT(90) DEF Lanes, Elements
        <3>2. b[j + k] \in -128 .. 127
            BY <3>1
        <3>3. PackedQ80(b)[j + k] = b[j + k] % 256
            BY <3>1 DEF PackedQ80, GROUP
        <3> QED
            BY <3>2, <3>3, SignedByte
    <2> QED
        BY <2>1 DEF tq_ld32
<1>2. PICK v \in [Lanes -> 0 .. 255] :
         v = tq_ld32(PackedQ80(q), j) /\ \A k \in Lanes : Signed(v[k]) = q[j + k]
    BY <1>1
<1>3. PICK x \in [Lanes -> 0 .. 255] :
         x = tq_ld32(PackedQ80(a), j) /\ \A k \in Lanes : Signed(x[k]) = a[j + k]
    BY <1>1
<1>4. /\ Signed(v[0]) = q[j] /\ Signed(v[1]) = q[j + 1]
      /\ Signed(v[2]) = q[j + 2] /\ Signed(v[3]) = q[j + 3]
    BY <1>2 DEF Lanes
<1>5. /\ Signed(x[0]) = a[j] /\ Signed(x[1]) = a[j + 1]
      /\ Signed(x[2]) = a[j + 2] /\ Signed(x[3]) = a[j + 3]
    BY <1>3 DEF Lanes
<1>6. DotWords(v, x, acc)
        = acc + Signed(v[0]) * Signed(x[0]) + Signed(v[2]) * Signed(x[2])
              + Signed(v[1]) * Signed(x[1]) + Signed(v[3]) * Signed(x[3])
    BY DotWordsIs
<1> QED
    BY <1>2, <1>3, <1>4, <1>5, <1>6

\* tq_dot_q80_q80 with packed instructions.
LEMMA DspQ80Is ==
    ASSUME NEW q \in [Elements -> -128 .. 127], NEW a \in [Elements -> -128 .. 127]
    PROVE  DspQ80(PackedQ80(q), PackedQ80(a)) = InnerProduct(q, a)
<1>p. PICK p \in [Elements -> Int] : \E C :
         /\ Sums(C, p) /\ InnerProduct(q, a) = C[32]
         /\ \A j \in Elements : p[j] = q[j] * a[j]
    <2>1. q \in [Elements -> Int] /\ a \in [Elements -> Int]
        OBVIOUS
    <2> QED
        BY <2>1, InnerProductIs
<1>1. PICK C :
         /\ Sums(C, p) /\ InnerProduct(q, a) = C[32]
         /\ \A j \in Elements : p[j] = q[j] * a[j]
    BY <1>p
<1> DEFINE Turn(n, acc) == DotWords(tq_ld32(PackedQ80(q), 4 * (n - 1)),
                                    tq_ld32(PackedQ80(a), 4 * (n - 1)), acc)
           Is(c) == c = [n \in 0 .. GROUP \div 4 |-> IF n = 0 THEN 0 ELSE Turn(n, c[n - 1])]
           e == [n \in 0 .. GROUP \div 4 |-> C[4 * n]]
           d == CHOOSE c : Is(c)
<1>0. GROUP \div 4 = 8
    BY DEF GROUP
<1>2. ASSUME NEW n \in 1 .. 8, NEW acc \in Int
      PROVE  Turn(n, acc) = acc + p[4 * (n - 1)] + p[4 * (n - 1) + 2]
                                + p[4 * (n - 1) + 1] + p[4 * (n - 1) + 3]
    <2>1. PICK j \in 0 .. 28 : j = 4 * (n - 1)
        OBVIOUS
    <2>2. /\ j \in Elements /\ j + 1 \in Elements /\ j + 2 \in Elements /\ j + 3 \in Elements
        BY SMTT(90) DEF Elements
    <2>3. Turn(n, acc) = acc + q[j] * a[j] + q[j + 2] * a[j + 2]
                             + q[j + 1] * a[j + 1] + q[j + 3] * a[j + 3]
        BY <2>1, WordsQ80, ZenonT(40)
    <2> HIDE DEF Turn
    <2> QED
        BY <1>1, <2>1, <2>2, <2>3
<1> HIDE DEF Turn
<1>3. Is(e)
    <2>1. ASSUME NEW n \in 0 .. GROUP \div 4 PROVE e[n] = IF n = 0 THEN 0 ELSE Turn(n, e[n - 1])
        <3>1. CASE n = 0
            BY <1>0, <1>1, <3>1 DEF Sums
        <3>2. CASE n # 0
            <4>1. PICK j \in 0 .. 28 : j = 4 * (n - 1) /\ 4 * n = j + 4
                BY <1>0, <3>2
            <4>2. e[n] = C[j + 4] /\ e[n - 1] = C[j] /\ n \in 1 .. 8
                BY <1>0, <3>2, <4>1
            <4>3. /\ C[j + 4] = C[j] + p[j] + p[j + 1] + p[j + 2] + p[j + 3]
                  /\ C[j] \in Int /\ C[j + 4] \in Int
                  /\ p[j] \in Int /\ p[j + 1] \in Int /\ p[j + 2] \in Int /\ p[j + 3] \in Int
                BY <1>1, FourMore
            <4>4. Turn(n, C[j]) = C[j] + p[j] + p[j + 2] + p[j + 1] + p[j + 3]
                BY <1>2, <4>1, <4>2, <4>3
            <4>5. Turn(n, C[j]) = C[j + 4]
                BY <4>3, <4>4
            <4> HIDE DEF e
            <4> QED
                BY <3>2, <4>2, <4>5
        <3> QED
            BY <3>1, <3>2
    <2> QED
        BY <2>1
<1>4. Is(d)
    BY <1>3
<1>5. DspQ80(PackedQ80(q), PackedQ80(a)) = d[GROUP \div 4]
    BY DEF DspQ80, Turn
<1> HIDE DEF d
<1>6. d[0] = 0 /\ \A n \in 1 .. 8 : d[n] = Turn(n, d[n - 1])
    BY <1>0, <1>4
<1>7. d[8] = C[4 * 8]
    <2>0. PICK f : f = d
        OBVIOUS
    <2>1. PICK m \in Nat : m = 8
        OBVIOUS
    <2>2. ASSUME NEW n \in 1 .. m, f[n - 1] \in Int
          PROVE  f[n] = f[n - 1] + p[4 * (n - 1)] + p[4 * (n - 1) + 2]
                             + p[4 * (n - 1) + 1] + p[4 * (n - 1) + 3]
        <3>1. f[n] = Turn(n, f[n - 1])
            BY <1>6, <2>0, <2>1
        <3> QED
            BY <1>2, <2>0, <2>1, <2>2, <3>1, Zenon
    <2>3. f[0] = 0 /\ 4 * m <= 32
        BY <1>6, <2>0, <2>1
    <2>4. f[m] = C[4 * m]
        <3> HIDE DEF Is, e
        <3> QED
            BY ONLY <1>1, <2>2, <2>3, TurnsAdd
    <2> QED
        BY <2>0, <2>1, <2>4
<1> QED
    BY <1>0, <1>1, <1>5, <1>7

\* A byte of two 4-bit weights.
LEMMA Halves ==
    ASSUME NEW lo \in -8 .. 7, NEW hi \in -8 .. 7, NEW byte, byte = (lo + 8) + 16 * (hi + 8)
    PROVE  /\ byte \in 0 .. 255 /\ byte % 16 = lo + 8 /\ byte \div 16 = hi + 8
           /\ \A o \in 0 .. 15 : (byte \div 16 + 16 * o) % 16 = hi + 8
           /\ ((lo + 8) - 8) % 256 \in 0 .. 255 /\ Signed(((lo + 8) - 8) % 256) = lo
           /\ ((hi + 8) - 8) % 256 \in 0 .. 255 /\ Signed(((hi + 8) - 8) % 256) = hi
<1>1. byte \in 0 .. 255 /\ byte % 16 = lo + 8 /\ byte \div 16 = hi + 8
    OBVIOUS
<1>2. \A o \in 0 .. 15 : (hi + 8 + 16 * o) % 16 = hi + 8
    OBVIOUS
<1>3. (lo + 8) - 8 = lo /\ (hi + 8) - 8 = hi /\ lo \in -128 .. 127 /\ hi \in -128 .. 127
    OBVIOUS
<1> QED
    BY <1>1, <1>2, <1>3, SignedByte

\* The bytes a quantized block of 4-bit weights is packed into.
LEMMA PackedQ40Is ==
    ASSUME NEW q \in [Elements -> -8 .. 7], NEW j \in 0 .. 15
    PROVE  /\ PackedQ40(q)[j] = (q[j] + 8) + 16 * (q[j + 16] + 8)
           /\ q[j] \in -8 .. 7 /\ q[j + 16] \in -8 .. 7
<1>1. j \in Elements /\ j + 16 \in Elements
    BY DEF Elements
<1>2. j \in 0 .. GROUP \div 2 - 1
    BY DEF GROUP
<1> QED
    BY <1>1, <1>2 DEF PackedQ40

\* The low and the high halves of a word of them, as signed bytes.
LEMMA NibblesQ40 ==
    ASSUME NEW q \in [Elements -> -8 .. 7], NEW j \in 0 .. 12,
           NEW v, v = tq_ld32(PackedQ40(q), j),
           NEW lo, lo = tq_ssub8(LowHalves(v), 8),
           NEW hi, hi = tq_ssub8(LowHalves(ShiftHalf(v)), 8)
    PROVE  /\ lo \in [Lanes -> 0 .. 255] /\ hi \in [Lanes -> 0 .. 255]
           /\ \A k \in Lanes : Signed(lo[k]) = q[j + k] /\ Signed(hi[k]) = q[(j + 16) + k]
<1>1. ASSUME NEW k \in Lanes
      PROVE  /\ v[k] = (q[j + k] + 8) + 16 * (q[(j + k) + 16] + 8)
             /\ q[j + k] \in -8 .. 7 /\ q[(j + k) + 16] \in -8 .. 7
    <2>1. j + k \in 0 .. 15
        BY DEF Lanes
    <2>2. v[k] = PackedQ40(q)[j + k]
        BY DEF tq_ld32
    <2> QED
        BY <2>1, <2>2, PackedQ40Is
<1>2. ASSUME NEW k \in Lanes
      PROVE  /\ lo[k] \in 0 .. 255 /\ Signed(lo[k]) = q[j + k]
             /\ hi[k] \in 0 .. 255 /\ Signed(hi[k]) = q[(j + 16) + k]
    <2>1. PICK x \in -8 .. 7 : x = q[j + k]
        BY <1>1
    <2>2. PICK y \in -8 .. 7 : y = q[(j + k) + 16]
        BY <1>1
    <2>3. v[k] = (x + 8) + 16 * (y + 8)
        BY <1>1, <2>1, <2>2
    <2>4. /\ v[k] % 16 = x + 8 /\ v[k] \div 16 = y + 8
          /\ \A o \in 0 .. 15 : (v[k] \div 16 + 16 * o) % 16 = y + 8
          /\ ((x + 8) - 8) % 256 \in 0 .. 255 /\ Signed(((x + 8) - 8) % 256) = x
          /\ ((y + 8) - 8) % 256 \in 0 .. 255 /\ Signed(((y + 8) - 8) % 256) = y
        BY <2>3, Halves, SMTT(90)
    <2>5. lo[k] = ((x + 8) - 8) % 256
        BY <2>4 DEF tq_ssub8, LowHalves
    <2>6. ShiftHalf(v)[k] % 16 = y + 8
        <3>1. CASE k = 3
            <4>1. ShiftHalf(v)[k] = v[k] \div 16 + 0
                BY <3>1 DEF ShiftHalf
            <4>2. v[k] \div 16 + 0 = v[k] \div 16 + 16 * 0
                BY <2>4
            <4> QED
                BY <2>4, <4>1, <4>2
        <3>2. CASE k # 3
            <4>1. k + 1 \in Lanes
                BY <3>2 DEF Lanes
            <4>2. PICK o \in 0 .. 15 : o = v[k + 1] % 16
                <5>1. PICK x1 \in -8 .. 7, y1 \in -8 .. 7 : v[k + 1] = (x1 + 8) + 16 * (y1 + 8)
                    BY <1>1, <4>1
                <5>2. v[k + 1] % 16 = x1 + 8
                    BY <5>1, Halves, SMTT(90)
                <5> QED
                    BY <5>2
            <4>3. ShiftHalf(v)[k] = v[k] \div 16 + 16 * o
                BY <3>2, <4>2 DEF ShiftHalf
            <4> QED
                BY <2>4, <4>2, <4>3
        <3> QED
            BY <3>1, <3>2
    <2>7. hi[k] = ((y + 8) - 8) % 256
        BY <2>6 DEF tq_ssub8, LowHalves
    <2>8. (j + 16) + k = (j + k) + 16
        BY DEF Lanes
    <2> QED
        BY <2>1, <2>2, <2>4, <2>5, <2>7, <2>8, SMTT(90)
<1>3. lo = [k \in Lanes |-> lo[k]] /\ hi = [k \in Lanes |-> hi[k]]
    BY DEF tq_ssub8
<1> QED
    BY <1>2, <1>3

\* Four bytes of 4-bit weights: the low halves with one word of activations,
\* the high halves with the one 16 elements on.
LEMMA WordsQ40 ==
    ASSUME NEW q \in [Elements -> -8 .. 7], NEW a \in [Elements -> -128 .. 127],
           NEW j \in 0 .. 12, NEW o \in {0, 16}, NEW acc \in Int, NEW w \in [Lanes -> 0 .. 255],
           \A k \in Lanes : Signed(w[k]) = q[(j + o) + k]
    PROVE  DotWords(w, tq_ld32(PackedQ80(a), j + o), acc)
             = acc + q[j + o] * a[j + o] + q[(j + o) + 2] * a[(j + o) + 2]
                   + q[(j + o) + 1] * a[(j + o) + 1] + q[(j + o) + 3] * a[(j + o) + 3]
<1>1. PICK i \in 0 .. 28 : i = j + o
    OBVIOUS
<1> DEFINE x == tq_ld32(PackedQ80(a), i)
<1>2. ASSUME NEW k \in Lanes PROVE x[k] \in 0 .. 255 /\ Signed(x[k]) = a[i + k]
    <2>1. i + k \in 0 .. 31 /\ i + k \in Elements
        BY SMTT(90) DEF Lanes, Elements
    <2>2. a[i + k] \in -128 .. 127
        BY <2>1
    <2>3. PackedQ80(a)[i + k] = a[i + k] % 256
        BY <2>1 DEF PackedQ80, GROUP
    <2>4. x[k] = PackedQ80(a)[i + k]
        BY DEF tq_ld32
    <2> QED
        BY <2>2, <2>3, <2>4, SignedByte
<1>3. x \in [Lanes -> 0 .. 255]
    <2>1. x = [k \in Lanes |-> x[k]]
        BY DEF tq_ld32
    <2> HIDE DEF x
    <2> QED
        BY <1>2, <2>1
<1>4. x = tq_ld32(PackedQ80(a), j + o)
    BY <1>1
<1> HIDE DEF x
<1>5. /\ Signed(w[0]) = q[i] /\ Signed(w[1]) = q[i + 1]
      /\ Signed(w[2]) = q[i + 2] /\ Signed(w[3]) = q[i + 3]
    BY <1>1 DEF Lanes
<1>6. /\ Signed(x[0]) = a[i] /\ Signed(x[1]) = a[i + 1]
      /\ Signed(x[2]) = a[i + 2] /\ Signed(x[3]) = a[i + 3]
    BY <1>2 DEF Lanes
<1>7. DotWords(w, x, acc)
        = acc + Signed(w[0]) * Signed(x[0]) + Signed(w[2]) * Signed(x[2])
              + Signed(w[1]) * Signed(x[1]) + Signed(w[3]) * Signed(x[3])
    BY <1>3, DotWordsIs
<1> QED
    BY <1>1, <1>4, <1>5, <1>6, <1>7

\* The recursive functions of both forms of tq_dot_q40_q80 end at the sum when
\* the low and the high half of the block are added side by side.
LEMMA HalvesMeet ==
    ASSUME NEW p \in [Elements -> Int], NEW C, Sums(C, p)
    PROVE  /\ \A n \in 0 .. 16 : C[n] + (C[n + 16] - C[16]) \in Int
           /\ C[0] + (C[0 + 16] - C[16]) = 0
           /\ C[16] + (C[16 + 16] - C[16]) = C[32]
           /\ \A n \in 0 .. 15 :
                C[n + 1] + (C[(n + 1) + 16] - C[16])
                  = (C[n] + (C[n + 16] - C[16])) + p[n] + p[n + 16]
<1>1. \A n \in 0 .. 32 : C[n] \in Int
    BY DEF Sums
<1>2. \A n \in 0 .. 16 : C[n] \in Int /\ C[n + 16] \in Int
    <2>1. \A n \in 0 .. 16 : n \in 0 .. 32 /\ n + 16 \in 0 .. 32
        OBVIOUS
    <2> QED
        BY <1>1, <2>1
<1>3. ASSUME NEW n \in 0 .. 15
      PROVE  C[n + 1] + (C[(n + 1) + 16] - C[16])
               = (C[n] + (C[n + 16] - C[16])) + p[n] + p[n + 16]
    <2>1. n \in Elements /\ n + 16 \in Elements /\ (n + 16) + 1 = (n + 1) + 16
        BY DEF Elements
    <2>2. /\ C[n + 1] = C[n] + p[n] /\ C[(n + 16) + 1] = C[n + 16] + p[n + 16]
          /\ p[n] \in Int /\ p[n + 16] \in Int
        BY <2>1 DEF Sums
    <2>3. C[n] \in Int /\ C[n + 16] \in Int /\ C[16] \in Int
        BY <1>1, <1>2
    <2>4. C[(n + 1) + 16] = C[n + 16] + p[n + 16]
        BY <2>1, <2>2
    <2> QED
        BY <2>2, <2>3, <2>4
<1>4. C[0] = 0 /\ C[16] \in Int /\ C[32] \in Int
    BY <1>1 DEF Sums
<1>5. 0 + 16 = 16 /\ 16 + 16 = 32
    OBVIOUS
<1>6. \A n \in 0 .. 16 : C[n] + (C[n + 16] - C[16]) \in Int
    BY <1>2, <1>4
<1> QED
    BY <1>3, <1>4, <1>5, <1>6

\* The block folded in half is a block of 16 sums of two products.
LEMMA Folded ==
    ASSUME NEW p \in [Elements -> Int], NEW C, Sums(C, p)
    PROVE  \E s \in [Elements -> Int] : \E D :
              /\ Sums(D, s) /\ D[16] = C[32]
              /\ \A j \in 0 .. 15 : s[j] = p[j] + p[j + 16]
<1> DEFINE s == [j \in Elements |-> IF j <= 15 THEN p[j] + p[j + 16] ELSE 0]
           D == [n \in 0 .. 32 |-> IF n <= 16 THEN C[n] + (C[n + 16] - C[16]) ELSE C[32]]
<1>1. /\ \A n \in 0 .. 16 : C[n] + (C[n + 16] - C[16]) \in Int
      /\ C[0] + (C[0 + 16] - C[16]) = 0
      /\ C[16] + (C[16 + 16] - C[16]) = C[32]
      /\ \A n \in 0 .. 15 :
           C[n + 1] + (C[(n + 1) + 16] - C[16])
             = (C[n] + (C[n + 16] - C[16])) + p[n] + p[n + 16]
    BY HalvesMeet
<1>2. ASSUME NEW j \in 0 .. 15 PROVE j \in Elements /\ p[j] \in Int /\ p[j + 16] \in Int
    BY DEF Elements
<1>3. s \in [Elements -> Int] /\ \A j \in 0 .. 15 : s[j] = p[j] + p[j + 16]
    <2>1. ASSUME NEW j \in Elements PROVE (IF j <= 15 THEN p[j] + p[j + 16] ELSE 0) \in Int
        <3>1. CASE j <= 15
            <4>1. j \in 0 .. 15
                BY <3>1 DEF Elements
            <4> QED
                BY <1>2, <3>1, <4>1
        <3>2. CASE ~ (j <= 15)
            BY <3>2
        <3> QED
            BY <3>1, <3>2
    <2> QED
        BY <1>2, <2>1
<1>4. C[32] \in Int
    BY DEF Sums
<1>5. D \in [0 .. 32 -> Int]
    <2>1. ASSUME NEW n \in 0 .. 32
          PROVE  (IF n <= 16 THEN C[n] + (C[n + 16] - C[16]) ELSE C[32]) \in Int
        <3>1. CASE n <= 16
            <4>1. n \in 0 .. 16
                BY <3>1
            <4> QED
                BY <1>1, <3>1, <4>1
        <3>2. CASE ~ (n <= 16)
            BY <1>4, <3>2
        <3> QED
            BY <3>1, <3>2
    <2> QED
        BY <2>1
<1>6. /\ \A n \in 0 .. 16 : D[n] = C[n] + (C[n + 16] - C[16])
      /\ \A n \in 16 .. 32 : D[n] = C[32]
    <2>1. \A n \in 0 .. 16 : n \in 0 .. 32 /\ n <= 16
        OBVIOUS
    <2>2. ASSUME NEW n \in 16 .. 32 PROVE D[n] = C[32]
        <3>1. CASE n = 16
            <4>1. D[16] = C[16] + (C[16 + 16] - C[16])
                OBVIOUS
            <4> QED
                BY <1>1, <3>1, <4>1
        <3>2. CASE n # 16
            <4>1. n \in 0 .. 32 /\ ~ (n <= 16)
                BY <3>2
            <4> QED
                BY <4>1
        <3> QED
            BY <3>1, <3>2
    <2> QED
        BY <2>1, <2>2
<1> HIDE DEF D
<1>7. ASSUME NEW j \in Elements PROVE D[j + 1] = D[j] + s[j]
    <2>1. CASE j <= 15
        <3>1. j \in 0 .. 15 /\ j \in 0 .. 16 /\ j + 1 \in 0 .. 16
            BY <2>1 DEF Elements
        <3>2. s[j] = p[j] + p[j + 16] /\ p[j] \in Int /\ p[j + 16] \in Int
            BY <1>2, <1>3, <3>1
        <3>3. D[j + 1] = C[j + 1] + (C[(j + 1) + 16] - C[16]) /\ D[j] = C[j] + (C[j + 16] - C[16])
            BY <1>6, <3>1
        <3>4. D[j + 1] = D[j] + p[j] + p[j + 16] /\ D[j] \in Int
            BY <1>1, <3>1, <3>3
        <3> HIDE DEF s
        <3> QED
            BY <3>2, <3>4
    <2>2. CASE ~ (j <= 15)
        <3>1. j \in 16 .. 32 /\ j + 1 \in 16 .. 32
            BY <2>2 DEF Elements
        <3>2. s[j] = 0
            BY <2>2
        <3> HIDE DEF s
        <3> QED
            BY <1>4, <1>6, <3>1, <3>2
    <2> QED
        BY <2>1, <2>2
<1>8. D[0] = 0 /\ D[16] = C[32]
    <2>1. 0 \in 0 .. 16 /\ 16 \in 16 .. 32
        OBVIOUS
    <2> QED
        BY <1>1, <1>6, <2>1
<1> HIDE DEF s
<1>9. Sums(D, s)
    BY <1>5, <1>7, <1>8 DEF Sums
<1> QED
    BY <1>3, <1>8, <1>9

\* tq_dot_q40_q80 in plain C.
LEMMA GenericQ40Is ==
    ASSUME NEW q \in [Elements -> -8 .. 7], NEW a \in [Elements -> -128 .. 127]
    PROVE  GenericQ40(PackedQ40(q), PackedQ80(a)) = InnerProduct(q, a)
<1>p. PICK p \in [Elements -> Int] : \E C :
         /\ Sums(C, p) /\ InnerProduct(q, a) = C[32]
         /\ \A j \in Elements : p[j] = q[j] * a[j]
    <2>1. q \in [Elements -> Int] /\ a \in [Elements -> Int]
        OBVIOUS
    <2> QED
        BY <2>1, InnerProductIs
<1>1. PICK C :
         /\ Sums(C, p) /\ InnerProduct(q, a) = C[32]
         /\ \A j \in Elements : p[j] = q[j] * a[j]
    BY <1>p
<1>s. PICK s \in [Elements -> Int] : \E D :
         /\ Sums(D, s) /\ D[16] = C[32]
         /\ \A j \in 0 .. 15 : s[j] = p[j] + p[j + 16]
    BY <1>1, Folded
<1>2. PICK D :
         /\ Sums(D, s) /\ D[16] = C[32]
         /\ \A j \in 0 .. 15 : s[j] = p[j] + p[j + 16]
    BY <1>s
<1> DEFINE w == PackedQ40(q)
           x == PackedQ80(a)
           Turn(n, acc) == acc + ((w[n - 1] % 16) - 8) * Signed(x[n - 1])
                               + ((w[n - 1] \div 16) - 8) * Signed(x[(n - 1) + 16])
           Is(c) == c = [n \in 0 .. GROUP \div 2 |-> IF n = 0 THEN 0 ELSE Turn(n, c[n - 1])]
           e == [n \in 0 .. GROUP \div 2 |-> D[n]]
           d == CHOOSE c : Is(c)
<1>3. GROUP \div 2 = 16
    BY DEF GROUP
<1>4. ASSUME NEW n \in 1 .. 16, NEW acc \in Int
      PROVE  Turn(n, acc) = acc + s[n - 1]
    <2>1. PICK j \in 0 .. 15 : j = n - 1
        OBVIOUS
    <2>2. j \in Elements /\ j + 16 \in Elements /\ j \in 0 .. 31 /\ j + 16 \in 0 .. 31
        BY DEF Elements
    <2>3. PICK y \in -8 .. 7, z \in -8 .. 7 : y = q[j] /\ z = q[j + 16]
        BY <2>2
    <2>4. w[j] = (y + 8) + 16 * (z + 8)
        BY <2>3, PackedQ40Is
    <2>5. w[j] % 16 = y + 8 /\ w[j] \div 16 = z + 8
        BY <2>4, Halves, SMTT(90)
    <2>6. PICK y1 \in -128 .. 127, z1 \in -128 .. 127 : y1 = a[j] /\ z1 = a[j + 16]
        BY <2>2
    <2>7. x[j] = y1 % 256 /\ x[j + 16] = z1 % 256
        BY <2>2, <2>6 DEF PackedQ80, GROUP
    <2>8. Signed(x[j]) = y1 /\ Signed(x[j + 16]) = z1
        BY <2>7, SignedByte
    <2>9. Turn(n, acc) = acc + ((y + 8) - 8) * y1 + ((z + 8) - 8) * z1
        <3> HIDE DEF w, x
        <3> QED
            BY <2>1, <2>5, <2>8
    <2>10. (y + 8) - 8 = y /\ (z + 8) - 8 = z
        OBVIOUS
    <2>11. PICK m1 \in Int, m2 \in Int : m1 = y * y1 /\ m2 = z * z1
        OBVIOUS
    <2>12. s[j] = m1 + m2
        BY <1>1, <1>2, <2>2, <2>3, <2>6, <2>11
    <2> HIDE DEF Turn
    <2>13. Turn(n, acc) = acc + m1 + m2
        BY <2>9, <2>10, <2>11
    <2> QED
        BY <2>1, <2>12, <2>13
<1> HIDE DEF Turn
<1>5. \A n \in 0 .. 16 : D[n] \in Int
    <2>1. \A n \in 0 .. 16 : n \in 0 .. 32
        OBVIOUS
    <2> QED
        BY <1>2, <2>1 DEF Sums
<1>6. ASSUME NEW n \in 1 .. 16 PROVE D[n] = Turn(n, D[n - 1])
    <2>1. PICK j \in 0 .. 15 : j = n - 1 /\ j + 1 = n /\ j \in Elements
        BY DEF Elements
    <2>2. D[j + 1] = D[j] + s[j]
        BY <1>2, <2>1 DEF Sums
    <2>3. D[j] \in Int
        BY <1>5
    <2>4. Turn(n, D[j]) = D[j] + s[j]
        BY <1>4, <2>1, <2>3
    <2> QED
        BY <2>1, <2>2, <2>4
<1>7. Is(e)
    <2>1. ASSUME NEW n \in 0 .. GROUP \div 2 PROVE e[n] = IF n = 0 THEN 0 ELSE Turn(n, e[n - 1])
        <3>1. CASE n = 0
            BY <1>2, <1>3, <3>1 DEF Sums
        <3>2. CASE n # 0
            <4>1. n \in 1 .. 16 /\ n - 1 \in 0 .. GROUP \div 2
                BY <1>3, <3>2
            <4>2. e[n] = D[n] /\ e[n - 1] = D[n - 1]
                BY <4>1
            <4> QED
                BY <1>6, <3>2, <4>1, <4>2
        <3> QED
            BY <3>1, <3>2
    <2> QED
        BY <2>1
<1>8. Is(d)
    BY <1>7
<1>9. GenericQ40(w, x) = d[GROUP \div 2]
    <2> HIDE DEF w, x
    <2> QED
        BY DEF GenericQ40, Turn
<1> HIDE DEF d
<1>10. d[0] = 0 /\ \A n \in 1 .. 16 : d[n] = Turn(n, d[n - 1])
    BY <1>3, <1>8
<1> DEFINE S == {n \in Nat : n <= 16 => d[n] = D[n]}
<1>11. 0 \in S
    BY <1>2, <1>10 DEF Sums
<1>12. ASSUME NEW n \in Nat, n \in S PROVE n + 1 \in S
    <2>1. SUFFICES ASSUME n + 1 <= 16 PROVE d[n + 1] = D[n + 1]
        OBVIOUS
    <2>2. n + 1 \in 1 .. 16 /\ (n + 1) - 1 = n /\ d[n] = D[n]
        BY <1>12, <2>1
    <2> QED
        BY <1>6, <1>10, <2>2
<1>13. \A n \in Nat : n \in S
    <2> HIDE DEF S
    <2> QED
        BY <1>11, <1>12, SetInduction
<1>14. d[16] = D[16]
    BY <1>13
<1> QED
    BY <1>1, <1>2, <1>3, <1>9, <1>14

\* tq_dot_q40_q80 with packed instructions.
LEMMA DspQ40Is ==
    ASSUME NEW q \in [Elements -> -8 .. 7], NEW a \in [Elements -> -128 .. 127]
    PROVE  DspQ40(PackedQ40(q), PackedQ80(a)) = InnerProduct(q, a)
<1>p. PICK p \in [Elements -> Int] : \E C :
         /\ Sums(C, p) /\ InnerProduct(q, a) = C[32]
         /\ \A j \in Elements : p[j] = q[j] * a[j]
    <2>1. q \in [Elements -> Int] /\ a \in [Elements -> Int]
        OBVIOUS
    <2> QED
        BY <2>1, InnerProductIs
<1>1. PICK C :
         /\ Sums(C, p) /\ InnerProduct(q, a) = C[32]
         /\ \A j \in Elements : p[j] = q[j] * a[j]
    BY <1>p
<1>s. PICK s \in [Elements -> Int] : \E D :
         /\ Sums(D, s) /\ D[16] = C[32]
         /\ \A j \in 0 .. 15 : s[j] = p[j] + p[j + 16]
    BY <1>1, Folded
<1>2. PICK D :
         /\ Sums(D, s) /\ D[16] = C[32]
         /\ \A j \in 0 .. 15 : s[j] = p[j] + p[j + 16]
    BY <1>s
<1> DEFINE w == PackedQ40(q)
           x == PackedQ80(a)
           Low(n)  == tq_ssub8(LowHalves(tq_ld32(w, 4 * (n - 1))), 8)
           High(n) == tq_ssub8(LowHalves(ShiftHalf(tq_ld32(w, 4 * (n - 1)))), 8)
           Turn(n, acc) == DotWords(High(n), tq_ld32(x, 4 * (n - 1) + 16),
                                    DotWords(Low(n), tq_ld32(x, 4 * (n - 1)), acc))
           Is(c) == c = [n \in 0 .. GROUP \div 8 |-> IF n = 0 THEN 0 ELSE Turn(n, c[n - 1])]
           e == [n \in 0 .. GROUP \div 8 |-> D[4 * n]]
           d == CHOOSE c : Is(c)
<1>3. GROUP \div 8 = 4
    BY DEF GROUP
<1>4. ASSUME NEW n \in 1 .. 4, NEW acc \in Int
      PROVE  Turn(n, acc) = acc + s[4 * (n - 1)] + s[4 * (n - 1) + 2]
                                + s[4 * (n - 1) + 1] + s[4 * (n - 1) + 3]
    <2>1. PICK j \in 0 .. 12 : j = 4 * (n - 1)
        OBVIOUS
    <2>2. PICK lo, hi : lo = Low(n) /\ hi = High(n)
        OBVIOUS
    <2>3. /\ lo \in [Lanes -> 0 .. 255] /\ hi \in [Lanes -> 0 .. 255]
          /\ \A k \in Lanes : Signed(lo[k]) = q[j + k] /\ Signed(hi[k]) = q[(j + 16) + k]
        <3>1. PICK v : v = tq_ld32(w, j)
            OBVIOUS
        <3>2. lo = tq_ssub8(LowHalves(v), 8) /\ hi = tq_ssub8(LowHalves(ShiftHalf(v)), 8)
            BY <2>1, <2>2, <3>1
        <3>3. v = tq_ld32(PackedQ40(q), j)
            BY <3>1
        <3>4. lo \in [Lanes -> 0 .. 255] /\ hi \in [Lanes -> 0 .. 255]
            <4> DEFINE F == [Lanes -> 0 .. 255]
            <4>1. \A b \in [Elements -> -8 .. 7], i \in 0 .. 12 : \A u, l, h :
                     /\ u = tq_ld32(PackedQ40(b), i) /\ l = tq_ssub8(LowHalves(u), 8)
                     /\ h = tq_ssub8(LowHalves(ShiftHalf(u)), 8)
                     => l \in F /\ h \in F
                BY NibblesQ40, ZenonT(90)
            <4> HIDE DEF F
            <4>2. lo \in F /\ hi \in F
                BY ONLY q \in [Elements -> -8 .. 7], j \in 0 .. 12, <3>2, <3>3, <4>1
            <4> QED
                BY <4>2 DEF F
        <3>5. \A k \in Lanes : Signed(lo[k]) = q[j + k] /\ Signed(hi[k]) = q[(j + 16) + k]
            BY ONLY q \in [Elements -> -8 .. 7], j \in 0 .. 12, <3>2, <3>3, NibblesQ40, SMTT(90)
        <3> QED
            BY <3>4, <3>5
    <2>4. ASSUME NEW i \in 0 .. 28
          PROVE  /\ i \in Elements /\ i + 1 \in Elements /\ i + 2 \in Elements
                 /\ i + 3 \in Elements
                 /\ q[i] * a[i] = p[i] /\ q[i + 1] * a[i + 1] = p[i + 1]
                 /\ q[i + 2] * a[i + 2] = p[i + 2] /\ q[i + 3] * a[i + 3] = p[i + 3]
                 /\ p[i] \in Int /\ p[i + 1] \in Int /\ p[i + 2] \in Int /\ p[i + 3] \in Int
        <3>1. i \in Elements /\ i + 1 \in Elements /\ i + 2 \in Elements /\ i + 3 \in Elements
            BY DEF Elements
        <3> QED
            BY <1>1, <3>1
    <2>5. PICK z \in Int : z = DotWords(lo, tq_ld32(x, j), acc)
                           /\ z = acc + p[j] + p[j + 2] + p[j + 1] + p[j + 3]
        <3>2. j + 0 = j
            OBVIOUS
        <3>3. \A k \in Lanes : Signed(lo[k]) = q[(j + 0) + k]
            BY <2>3, <3>2
        <3>4. DotWords(lo, tq_ld32(PackedQ80(a), j + 0), acc)
               = acc + q[j + 0] * a[j + 0] + q[(j + 0) + 2] * a[(j + 0) + 2]
                     + q[(j + 0) + 1] * a[(j + 0) + 1] + q[(j + 0) + 3] * a[(j + 0) + 3]
            BY <2>3, <3>3, WordsQ40, SMTT(90)
        <3>5. j \in 0 .. 28
            OBVIOUS
        <3>6. DotWords(lo, tq_ld32(PackedQ80(a), j), acc)
                = acc + p[j] + p[j + 2] + p[j + 1] + p[j + 3]
            <4>1. /\ q[j] * a[j] = p[j] /\ q[j + 1] * a[j + 1] = p[j + 1]
                  /\ q[j + 2] * a[j + 2] = p[j + 2] /\ q[j + 3] * a[j + 3] = p[j + 3]
                BY <2>4, <3>5, Zenon
            <4> QED
                BY ONLY <3>2, <3>4, <4>1, Zenon
        <3> QED
            BY <2>4, <3>5, <3>6
    <2>6. DotWords(hi, tq_ld32(x, j + 16), z)
            = z + p[j + 16] + p[(j + 16) + 2] + p[(j + 16) + 1] + p[(j + 16) + 3]
        <3>1. DotWords(hi, tq_ld32(PackedQ80(a), j + 16), z)
               = z + q[j + 16] * a[j + 16] + q[(j + 16) + 2] * a[(j + 16) + 2]
                   + q[(j + 16) + 1] * a[(j + 16) + 1] + q[(j + 16) + 3] * a[(j + 16) + 3]
            BY <2>3, WordsQ40, SMTT(90)
        <3>2. PICK i \in 0 .. 28 : i = j + 16
            OBVIOUS
        <3>3. /\ q[i] * a[i] = p[i] /\ q[i + 1] * a[i + 1] = p[i + 1]
              /\ q[i + 2] * a[i + 2] = p[i + 2] /\ q[i + 3] * a[i + 3] = p[i + 3]
            BY <2>4, <3>2, Zenon
        <3> QED
            BY ONLY <3>1, <3>2, <3>3, Zenon
    <2>7. Turn(n, acc) = DotWords(hi, tq_ld32(x, j + 16), z)
        <3> HIDE DEF w, x, Low, High
        <3> QED
            BY <2>1, <2>2, <2>5
    <2>8. /\ s[j] = p[j] + p[j + 16] /\ s[j + 1] = p[j + 1] + p[(j + 16) + 1]
          /\ s[j + 2] = p[j + 2] + p[(j + 16) + 2] /\ s[j + 3] = p[j + 3] + p[(j + 16) + 3]
        <3>1. /\ (j + 16) + 1 = (j + 1) + 16 /\ (j + 16) + 2 = (j + 2) + 16
              /\ (j + 16) + 3 = (j + 3) + 16
              /\ j \in 0 .. 15 /\ j + 1 \in 0 .. 15 /\ j + 2 \in 0 .. 15 /\ j + 3 \in 0 .. 15
            OBVIOUS
        <3> QED
            BY <1>2, <3>1
    <2>9. /\ p[j] \in Int /\ p[j + 1] \in Int /\ p[j + 2] \in Int /\ p[j + 3] \in Int
          /\ p[j + 16] \in Int /\ p[(j + 16) + 1] \in Int
          /\ p[(j + 16) + 2] \in Int /\ p[(j + 16) + 3] \in Int
        <3>1. j \in 0 .. 28 /\ j + 16 \in 0 .. 28
            OBVIOUS
        <3> QED
            BY <2>4, <3>1
    <2> HIDE DEF Turn
    <2>10. Turn(n, acc) = acc + s[j] + s[j + 2] + s[j + 1] + s[j + 3]
        BY <2>5, <2>6, <2>7, <2>8, <2>9
    <2> QED
        BY <2>1, <2>10
<1> HIDE DEF Turn, Low, High
<1>5. Is(e)
    <2>1. ASSUME NEW n \in 0 .. GROUP \div 8 PROVE e[n] = IF n = 0 THEN 0 ELSE Turn(n, e[n - 1])
        <3>1. CASE n = 0
            BY <1>2, <1>3, <3>1 DEF Sums
        <3>2. CASE n # 0
            <4>1. PICK j \in 0 .. 28 : j = 4 * (n - 1) /\ 4 * n = j + 4
                BY <1>3, <3>2
            <4>2. e[n] = D[j + 4] /\ e[n - 1] = D[j] /\ n \in 1 .. 4
                BY <1>3, <3>2, <4>1
            <4>3. /\ D[j + 4] = D[j] + s[j] + s[j + 1] + s[j + 2] + s[j + 3]
                  /\ D[j] \in Int /\ D[j + 4] \in Int
                  /\ s[j] \in Int /\ s[j + 1] \in Int /\ s[j + 2] \in Int /\ s[j + 3] \in Int
                BY <1>2, FourMore
            <4>4. Turn(n, D[j]) = D[j] + s[j] + s[j + 2] + s[j + 1] + s[j + 3]
                BY <1>4, <4>1, <4>2, <4>3
            <4>5. Turn(n, D[j]) = D[j + 4]
                BY <4>3, <4>4
            <4> HIDE DEF e
            <4> QED
                BY <3>2, <4>2, <4>5
        <3> QED
            BY <3>1, <3>2
    <2> QED
        BY <2>1
<1>6. Is(d)
    BY <1>5
<1>7. DspQ40(w, x) = d[GROUP \div 8]
    <2> HIDE DEF w, x
    <2> QED
        BY DEF DspQ40, Turn, Low, High
<1> HIDE DEF d
<1>8. d[0] = 0 /\ \A n \in 1 .. 4 : d[n] = Turn(n, d[n - 1])
    BY <1>3, <1>6
<1>9. d[4] = D[4 * 4]
    <2>0. PICK f : f = d
        OBVIOUS
    <2>1. PICK m \in Nat : m = 4
        OBVIOUS
    <2>2. ASSUME NEW n \in 1 .. m, f[n - 1] \in Int
          PROVE  f[n] = f[n - 1] + s[4 * (n - 1)] + s[4 * (n - 1) + 2]
                             + s[4 * (n - 1) + 1] + s[4 * (n - 1) + 3]
        <3>1. f[n] = Turn(n, f[n - 1])
            BY <1>8, <2>0, <2>1
        <3> QED
            BY <1>4, <2>0, <2>1, <2>2, <3>1, Zenon
    <2>3. f[0] = 0 /\ 4 * m <= 32
        BY <1>8, <2>0, <2>1
    <2>4. f[m] = D[4 * m]
        <3> HIDE DEF Is, e
        <3> QED
            BY ONLY <1>2, <2>2, <2>3, TurnsAdd
    <2> QED
        BY <2>0, <2>1, <2>4
<1> QED
    BY <1>1, <1>2, <1>3, <1>7, <1>9

\* Whatever the type of the weights, and whether the loops of plain C or the
\* packed instructions of the Cortex-M7 compute it, tq_dot is the inner product
\* of the weights and activations that were packed: no nibble, lane or sign is
\* mixed up for any of the values a block can hold.
THEOREM KernelsExact ==
    ASSUME NEW role \in Roles, NEW dtype \in {"Q4_0", "Q8_0"},
           NEW q \in [Elements -> IF dtype = "Q4_0" THEN -8 .. 7 ELSE -128 .. 127],
           NEW a \in [Elements -> -128 .. 127]
    PROVE  /\ tq_dot(role, dtype, q, a) = InnerProduct(q, a)
           /\ InnerProduct(q, a) \in Int
<1>0. InnerProduct(q, a) \in Int
    <2>1. q \in [Elements -> Int] /\ a \in [Elements -> Int]
        BY SMT
    <2> QED
        BY <2>1, InnerProductInt
<1>1. CASE dtype = "Q4_0" /\ role = "host"
    <2>1. q \in [Elements -> -8 .. 7]
        BY <1>1
    <2>2. tq_dot(role, dtype, q, a) = GenericQ40(PackedQ40(q), PackedQ80(a))
        BY <1>1 DEF tq_dot
    <2> QED
        BY <2>1, <2>2, <1>0, GenericQ40Is
<1>2. CASE dtype = "Q4_0" /\ role = "board"
    <2>1. q \in [Elements -> -8 .. 7]
        BY <1>2
    <2>2. tq_dot(role, dtype, q, a) = DspQ40(PackedQ40(q), PackedQ80(a))
        BY <1>2 DEF tq_dot
    <2> QED
        BY <2>1, <2>2, <1>0, DspQ40Is
<1>3. CASE dtype = "Q8_0" /\ role = "host"
    <2>1. q \in [Elements -> -128 .. 127]
        BY <1>3
    <2>2. tq_dot(role, dtype, q, a) = GenericQ80(PackedQ80(q), PackedQ80(a))
        BY <1>3 DEF tq_dot
    <2> QED
        BY <2>1, <2>2, <1>0, GenericQ80Is
<1>4. CASE dtype = "Q8_0" /\ role = "board"
    <2>1. q \in [Elements -> -128 .. 127]
        BY <1>4
    <2>2. tq_dot(role, dtype, q, a) = DspQ80(PackedQ80(q), PackedQ80(a))
        BY <1>4 DEF tq_dot
    <2> QED
        BY <2>1, <2>2, <1>0, DspQ80Is
<1> QED
    BY <1>1, <1>2, <1>3, <1>4 DEF Roles

-----------------------------------------------------------------------------
(* Lookup: the order of the pieces, the permutation, and the binary search. *)

\* Prefixes are compared element by element.
LEMMA SamePrefix ==
    ASSUME NEW a \in Seq(Nat), NEW b \in Seq(Nat), NEW n \in Nat, n <= Len(a), n <= Len(b)
    PROVE  SubSeq(a, 1, n) = SubSeq(b, 1, n) <=> \A i \in 1 .. n : a[i] = b[i]
<1>1. /\ SubSeq(a, 1, n) = [i \in 1 .. n |-> a[i]]
      /\ SubSeq(b, 1, n) = [i \in 1 .. n |-> b[i]]
    BY SMT
<1> QED
    BY <1>1

\* tq_cmp: the first byte in which two strings differ decides.
LEMMA LessIs ==
    ASSUME NEW a \in Seq(Nat), NEW b \in Seq(Nat)
    PROVE  Less(a, b) <=> \E n \in Nat : /\ n <= Len(a) /\ n < Len(b)
                                         /\ \A i \in 1 .. n : a[i] = b[i]
                                         /\ n = Len(a) \/ a[n + 1] < b[n + 1]
<1>1. Len(a) \in Nat /\ Len(b) \in Nat
    OBVIOUS
<1>2. \A n \in Nat : n <= Len(a) /\ n < Len(b) =>
        (SubSeq(a, 1, n) = SubSeq(b, 1, n) <=> \A i \in 1 .. n : a[i] = b[i])
    BY <1>1, SamePrefix
<1> QED
    BY <1>1, <1>2 DEF Less

\* No string is less than itself.
LEMMA LessIrreflexive ==
    ASSUME NEW a \in Seq(Nat)
    PROVE  ~ Less(a, a)
<1>1. ASSUME NEW n \in Nat, n < Len(a) PROVE ~ (a[n + 1] < a[n + 1])
    <2>1. a[n + 1] \in Nat
        BY <1>1
    <2> QED
        BY <2>1
<1> QED
    BY <1>1, LessIs

\* The order is transitive.
LEMMA LessTransitive ==
    ASSUME NEW a \in Seq(Nat), NEW b \in Seq(Nat), NEW c \in Seq(Nat), Less(a, b), Less(b, c)
    PROVE  Less(a, c)
<1>1. PICK m \in Nat : /\ m <= Len(a) /\ m < Len(b) /\ \A i \in 1 .. m : a[i] = b[i]
                       /\ m = Len(a) \/ a[m + 1] < b[m + 1]
    BY LessIs
<1>2. PICK n \in Nat : /\ n <= Len(b) /\ n < Len(c) /\ \A i \in 1 .. n : b[i] = c[i]
                       /\ n = Len(b) \/ b[n + 1] < c[n + 1]
    BY LessIs
<1>3. CASE m < n
    <2>1. b[m + 1] = c[m + 1] /\ m < Len(c) /\ \A i \in 1 .. m : a[i] = c[i]
        BY <1>1, <1>2, <1>3
    <2> QED
        BY <1>1, <2>1, LessIs
<1>4. CASE n < m
    <2>1. a[n + 1] = b[n + 1] /\ n <= Len(a) /\ \A i \in 1 .. n : a[i] = c[i]
        BY <1>1, <1>2, <1>4, SMTT(30)
    <2>2. a[n + 1] < c[n + 1]
        BY <1>1, <1>2, <1>4, <2>1
    <2> QED
        BY <1>2, <2>1, <2>2, LessIs
<1>5. CASE m = n
    <2>1. \A i \in 1 .. m : a[i] = c[i]
        BY <1>1, <1>2, <1>5
    <2>2. m = Len(a) \/ a[m + 1] < c[m + 1]
        <3>1. CASE m # Len(a)
            <4>1. m + 1 \in 1 .. Len(a) /\ m + 1 \in 1 .. Len(b) /\ m + 1 \in 1 .. Len(c)
                BY <1>1, <1>2, <1>5, <3>1, SMTT(30)
            <4>2. a[m + 1] \in Nat /\ b[m + 1] \in Nat /\ c[m + 1] \in Nat
                BY <4>1
            <4>3. a[m + 1] < b[m + 1] /\ b[m + 1] < c[m + 1]
                BY <1>1, <1>2, <1>5, <3>1
            <4> QED
                BY <4>2, <4>3
        <3> QED
            BY <3>1
    <2> QED
        BY <1>1, <1>2, <1>5, <2>1, <2>2, LessIs
<1> QED
    BY <1>3, <1>4, <1>5

\* Of two strings that differ one is less.
LEMMA LessTotal ==
    ASSUME NEW a \in Seq(Nat), NEW b \in Seq(Nat), a # b
    PROVE  Less(a, b) \/ Less(b, a)
<1> DEFINE D == {n \in Nat : \/ n = Len(a) \/ n = Len(b)
                             \/ n < Len(a) /\ n < Len(b) /\ a[n + 1] # b[n + 1]}
<1>0. Len(a) \in Nat /\ Len(b) \in Nat
    OBVIOUS
<1>1. PICK n \in D : \A m \in D : n <= m
    <2>1. D \subseteq Nat /\ D # {}
        BY <1>0
    <2> HIDE DEF D
    <2> QED
        BY <2>1, LeastElement
<1>2. n \in Nat /\ n <= Len(a) /\ n <= Len(b)
    <2>1. Len(a) \in D /\ Len(b) \in D
        BY <1>0
    <2> QED
        BY <1>1, <2>1
<1>3. \A i \in 1 .. n : a[i] = b[i]
    <2>1. ASSUME NEW i \in 1 .. n PROVE a[i] = b[i]
        <3>1. i - 1 \in Nat /\ i - 1 \notin D /\ (i - 1) + 1 = i
            BY <1>1, <1>2
        <3> QED
            BY <1>2, <3>1
    <2> QED
        BY <2>1
<1>4. ~ (n = Len(a) /\ n = Len(b))
    <2>1. ASSUME n = Len(a), n = Len(b) PROVE a = b
        <3>1. Len(a) = Len(b) /\ \A i \in 1 .. Len(a) : a[i] = b[i]
            BY <1>3, <2>1
        <3> QED
            BY <3>1, SeqEqual, Zenon
    <2> QED
        BY <2>1
<1>5. CASE n = Len(a)
    <2>1. n < Len(b)
        BY <1>0, <1>2, <1>4, <1>5
    <2> QED
        BY <1>2, <1>3, <1>5, <2>1, LessIs
<1>6. CASE n = Len(b)
    <2>1. n < Len(a)
        BY <1>0, <1>2, <1>4, <1>6
    <2>2. \A i \in 1 .. n : b[i] = a[i]
        BY <1>3
    <2> QED
        BY <1>2, <1>6, <2>1, <2>2, LessIs
<1>7. CASE n < Len(a) /\ n < Len(b)
    <2>1. a[n + 1] # b[n + 1]
        BY <1>1, <1>7
    <2>2. a[n + 1] \in Nat /\ b[n + 1] \in Nat
        BY <1>2, <1>7
    <2>3. a[n + 1] < b[n + 1] \/ b[n + 1] < a[n + 1]
        BY <2>1, <2>2
    <2> QED
        BY <1>2, <1>3, <1>7, <2>3, LessIs
<1> QED
    BY <1>0, <1>2, <1>5, <1>6, <1>7

StrictOrder(S, R) ==
    /\ \A x \in S : <<x, x>> \notin R
    /\ \A x, y, z \in S : <<x, y>> \in R /\ <<y, z>> \in R => <<x, z>> \in R
    /\ \A x, y \in S : x # y => <<x, y>> \in R \/ <<y, x>> \in R
Ranks(rank, S, R) == rank = [x \in S |-> Cardinality({y \in S : <<y, x>> \in R})]

\* The ranks of a finite set under a strict total order are the numbers below
\* its size, one each and in order.
LEMMA OrderRanks ==
    ASSUME NEW S, IsFiniteSet(S), NEW R, StrictOrder(S, R), NEW rank, Ranks(rank, S, R)
    PROVE  /\ \A x \in S : rank[x] \in 0 .. Cardinality(S) - 1
           /\ \A x, y \in S : rank[x] < rank[y] <=> <<x, y>> \in R
           /\ \A x, y \in S : rank[x] = rank[y] => x = y
           /\ \A r \in 0 .. Cardinality(S) - 1 : \E x \in S : rank[x] = r
<1> USE DEF StrictOrder, Ranks
<1> DEFINE B(x) == {y \in S : <<y, x>> \in R}
<1>1. Cardinality(S) \in Nat
    BY FS_CardinalityType
<1>2. ASSUME NEW x \in S
      PROVE  IsFiniteSet(B(x)) /\ Cardinality(B(x)) \in Nat /\ rank[x] = Cardinality(B(x))
    <2>1. B(x) \in SUBSET S
        OBVIOUS
    <2> QED
        BY <2>1, FS_Subset, FS_CardinalityType
<1>3. ASSUME NEW x \in S, NEW y \in S, <<x, y>> \in R PROVE rank[x] < rank[y]
    <2>1. B(x) \in SUBSET B(y)
        BY <1>3
    <2>2. x \in B(y) /\ x \notin B(x)
        BY <1>3
    <2>3. B(x) # B(y)
        BY <2>2
    <2> HIDE DEF B
    <2>4. Cardinality(B(x)) <= Cardinality(B(y)) /\ Cardinality(B(x)) # Cardinality(B(y))
        BY <1>2, <2>1, <2>3, FS_Subset
    <2> QED
        BY <1>2, <2>4
<1>4. ASSUME NEW x \in S PROVE rank[x] \in 0 .. Cardinality(S) - 1
    <2>1. B(x) \in SUBSET S /\ B(x) # S
        OBVIOUS
    <2> HIDE DEF B
    <2>2. Cardinality(B(x)) <= Cardinality(S) /\ Cardinality(B(x)) # Cardinality(S)
        BY <2>1, FS_Subset
    <2> QED
        BY <1>1, <1>2, <2>2
<1>5. \A x, y \in S : rank[x] < rank[y] <=> <<x, y>> \in R
    <2>1. ASSUME NEW x \in S, NEW y \in S, rank[x] < rank[y] PROVE <<x, y>> \in R
        <3>1. rank[x] \in Nat /\ rank[y] \in Nat
            BY <1>2
        <3>2. x # y
            BY <2>1, <3>1
        <3>3. ~ (rank[y] < rank[x])
            BY <2>1, <3>1
        <3> QED
            BY <1>3, <3>2, <3>3
    <2> QED
        BY <1>3, <2>1
<1>6. ASSUME NEW x \in S, NEW y \in S, rank[x] = rank[y] PROVE x = y
    <2>1. rank[x] \in Nat /\ rank[y] \in Nat
        BY <1>2
    <2>2. ~ (rank[x] < rank[y]) /\ ~ (rank[y] < rank[x])
        BY <1>6, <2>1
    <2> QED
        BY <1>3, <2>2
<1>7. \A r \in 0 .. Cardinality(S) - 1 : \E x \in S : rank[x] = r
    <2> DEFINE T == 0 .. Cardinality(S) - 1
    <2>1. IsFiniteSet(T) /\ Cardinality(T) = Cardinality(S)
        <3>1. PICK m \in Int : m = Cardinality(S) - 1 /\ m >= -1
            BY <1>1
        <3>2. IsFiniteSet(0 .. m) /\ Cardinality(0 .. m) = IF 0 > m THEN 0 ELSE m - 0 + 1
            BY FS_Interval
        <3> QED
            BY <1>1, <3>1, <3>2
    <2>2. rank \in [S -> T]
        BY <1>4
    <2> HIDE DEF T
    <2>3. rank \in Injection(S, T)
        BY <2>2, <1>6 DEF Injection, IsInjective
    <2>4. rank \in Surjection(S, T)
        BY <2>1, <2>3, FS_Injection
    <2> QED
        BY <2>4 DEF Surjection, T
<1> QED
    BY <1>4, <1>5, <1>6, <1>7

\* The middle of a range lies in it.
LEMMA Middle ==
    ASSUME NEW lo \in Int, NEW hi \in Int, lo <= hi
    PROVE  /\ lo + (hi - lo) \div 2 \in Int
           /\ lo <= lo + (hi - lo) \div 2 /\ lo + (hi - lo) \div 2 <= hi
OBVIOUS

\* A search over ranges of 0 .. n - 1: hit at some places, to the left of others.
Ranges(n) == (0 .. n) \X (-1 .. n - 1)
Probe(r) == r[1] + (r[2] - r[1]) \div 2
SearchStep(f, r, outcome, hit, left) ==
    IF r[1] > r[2] THEN -1
    ELSE IF Probe(r) \in hit THEN outcome[Probe(r)]
    ELSE IF Probe(r) \in left THEN f[<<r[1], Probe(r) - 1>>]
    ELSE f[<<Probe(r) + 1, r[2]>>]
Searches(f, n, outcome, hit, left) ==
    f = [r \in Ranges(n) |-> SearchStep(f, r, outcome, hit, left)]

\* Where a search goes on.
LEMMA NarrowerRange ==
    ASSUME NEW n \in Nat, NEW r \in Ranges(n), r[1] <= r[2]
    PROVE  /\ r[1] \in Int /\ r[2] \in Int /\ Probe(r) \in 0 .. n - 1
           /\ r[1] <= Probe(r) /\ Probe(r) <= r[2]
           /\ <<r[1], Probe(r) - 1>> \in Ranges(n) /\ <<Probe(r) + 1, r[2]>> \in Ranges(n)
<1>1. r[1] \in 0 .. n /\ r[2] \in -1 .. n - 1
    BY DEF Ranges
<1>2. PICK lo \in 0 .. n, hi \in -1 .. n - 1 : lo = r[1] /\ hi = r[2]
    BY <1>1
<1>3. /\ lo + (hi - lo) \div 2 \in Int
      /\ lo <= lo + (hi - lo) \div 2 /\ lo + (hi - lo) \div 2 <= hi
    <2>1. lo \in Int /\ hi \in Int /\ lo <= hi
        BY <1>2
    <2> QED
        BY <2>1, Middle
<1>4. PICK m \in Int : m = Probe(r) /\ lo <= m /\ m <= hi
    BY <1>2, <1>3 DEF Probe
<1>5. <<lo, m - 1>> \in Ranges(n) /\ <<m + 1, hi>> \in Ranges(n)
    BY <1>4 DEF Ranges
<1> QED
    BY <1>2, <1>4, <1>5

\* The recursion of tq_lookup has a solution: the range gets smaller every time.
LEMMA SearchExists ==
    ASSUME NEW n \in Nat, NEW outcome, NEW hit, NEW left
    PROVE  \E f : Searches(f, n, outcome, hit, left)
<1> DEFINE Solves(f, m) ==
             \A r \in Ranges(n) :
                r[2] - r[1] < m => f[r] = SearchStep(f, r, outcome, hit, left)
           S == {m \in Nat : \E f : DOMAIN f = Ranges(n) /\ Solves(f, m)}
<1>0. ASSUME NEW r \in Ranges(n) PROVE r[1] \in 0 .. n /\ r[2] \in -1 .. n - 1
    BY DEF Ranges
<1>1. 0 \in S
    <2> DEFINE f == [r \in Ranges(n) |-> -1]
    <2>1. ASSUME NEW r \in Ranges(n), r[2] - r[1] < 0
          PROVE  f[r] = SearchStep(f, r, outcome, hit, left)
        <3>1. r[1] > r[2]
            BY <1>0, <2>1
        <3> QED
            BY <3>1 DEF SearchStep
    <2>2. DOMAIN f = Ranges(n)
        OBVIOUS
    <2> HIDE DEF f
    <2>3. Solves(f, 0)
        BY <2>1
    <2> QED
        BY <2>2, <2>3
<1>2. ASSUME NEW m \in Nat, m \in S PROVE m + 1 \in S
    <2>1. PICK f : DOMAIN f = Ranges(n) /\ Solves(f, m)
        BY <1>2
    <2> DEFINE g == [r \in Ranges(n) |-> SearchStep(f, r, outcome, hit, left)]
    <2>2. ASSUME NEW r \in Ranges(n), r[2] - r[1] < m PROVE g[r] = f[r]
        <3>1. g[r] = SearchStep(f, r, outcome, hit, left)
            OBVIOUS
        <3>2. f[r] = SearchStep(f, r, outcome, hit, left)
            BY <2>1, <2>2
        <3> QED
            BY <3>1, <3>2
    <2>3. ASSUME NEW r \in Ranges(n), r[2] - r[1] < m + 1
          PROVE  g[r] = SearchStep(g, r, outcome, hit, left)
        <3>1. g[r] = SearchStep(f, r, outcome, hit, left)
            OBVIOUS
        <3> HIDE DEF g
        <3>2. CASE r[1] > r[2]
            BY <3>1, <3>2 DEF SearchStep
        <3>3. CASE ~ (r[1] > r[2])
            <4>1. r[1] <= r[2]
                BY <1>0, <3>3
            <4>2. /\ r[1] \in Int /\ r[2] \in Int /\ Probe(r) \in 0 .. n - 1
                  /\ r[1] <= Probe(r) /\ Probe(r) <= r[2]
                BY <4>1, NarrowerRange
            <4>3. PICK a, b : a = <<r[1], Probe(r) - 1>> /\ b = <<Probe(r) + 1, r[2]>>
                OBVIOUS
            <4>4. a \in Ranges(n) /\ b \in Ranges(n)
                BY <4>1, <4>3, NarrowerRange
            <4>5. a[2] - a[1] < m /\ b[2] - b[1] < m
                BY <2>3, <4>2, <4>3
            <4>6. g[a] = f[a] /\ g[b] = f[b]
                BY <2>2, <4>4, <4>5
            <4> QED
                BY <3>1, <4>3, <4>6 DEF SearchStep
        <3> QED
            BY <3>2, <3>3
    <2>4. DOMAIN g = Ranges(n)
        OBVIOUS
    <2> HIDE DEF g
    <2>5. Solves(g, m + 1)
        BY <2>3
    <2> QED
        BY <2>4, <2>5
<1>3. n \in S
    <2> HIDE DEF S
    <2> QED
        BY <1>1, <1>2, SetInduction
<1>4. PICK f : DOMAIN f = Ranges(n) /\ Solves(f, n)
    BY <1>3
<1>5. ASSUME NEW r \in Ranges(n)
      PROVE  SearchStep(f, r, outcome, hit, left)
               = SearchStep([x \in Ranges(n) |-> SearchStep(f, x, outcome, hit, left)],
                            r, outcome, hit, left)
    <2> DEFINE g == [x \in Ranges(n) |-> SearchStep(f, x, outcome, hit, left)]
    <2>1. ASSUME NEW x \in Ranges(n) PROVE g[x] = f[x]
        <3>1. x[2] - x[1] < n
            BY <1>0
        <3>2. f[x] = SearchStep(f, x, outcome, hit, left)
            BY <1>4, <3>1
        <3> QED
            BY <3>2
    <2> HIDE DEF g
    <2>2. SearchStep(f, r, outcome, hit, left) = SearchStep(g, r, outcome, hit, left)
        <3>1. CASE r[1] > r[2]
            BY <3>1 DEF SearchStep
        <3>2. CASE ~ (r[1] > r[2])
            <4>1. r[1] <= r[2]
                BY <1>0, <3>2
            <4>2. PICK a, b : a = <<r[1], Probe(r) - 1>> /\ b = <<Probe(r) + 1, r[2]>>
                OBVIOUS
            <4>3. a \in Ranges(n) /\ b \in Ranges(n)
                BY <4>1, <4>2, NarrowerRange
            <4>4. g[a] = f[a] /\ g[b] = f[b]
                BY <2>1, <4>3
            <4> QED
                BY <4>2, <4>4 DEF SearchStep
        <3> QED
            BY <3>1, <3>2
    <2> QED
        BY <2>2 DEF g
<1> DEFINE g == [x \in Ranges(n) |-> SearchStep(f, x, outcome, hit, left)]
<1>6. g = [r \in Ranges(n) |-> SearchStep(g, r, outcome, hit, left)]
    BY <1>5, Zenon
<1> HIDE DEF g
<1> QED
    BY <1>6 DEF Searches

\* It finds a hit if there is one in the range.
LEMMA SearchFinds ==
    ASSUME NEW n \in Nat, NEW outcome, NEW hit, NEW left, NEW f,
           Searches(f, n, outcome, hit, left),
           \A k, j \in 0 .. n - 1 : k \notin hit /\ k \in left /\ k <= j => j \notin hit,
           \A k, j \in 0 .. n - 1 : k \notin hit /\ k \notin left /\ j <= k => j \notin hit
    PROVE  \A r \in Ranges(n) :
              \/ f[r] = -1 /\ \A k \in r[1] .. r[2] : k \notin hit
              \/ \E k \in r[1] .. r[2] : k \in hit /\ f[r] = outcome[k]
<1> DEFINE Right(r) == \/ f[r] = -1 /\ \A k \in r[1] .. r[2] : k \notin hit
                       \/ \E k \in r[1] .. r[2] : k \in hit /\ f[r] = outcome[k]
           S == {m \in Nat : \A r \in Ranges(n) : r[2] - r[1] < m => Right(r)}
<1>0. ASSUME NEW r \in Ranges(n) PROVE r[1] \in 0 .. n /\ r[2] \in -1 .. n - 1
    BY DEF Ranges
<1>1. ASSUME NEW r \in Ranges(n), r[1] > r[2] PROVE Right(r)
    <2>1. f[r] = SearchStep(f, r, outcome, hit, left)
        BY Zenon DEF Searches
    <2>2. f[r] = -1
        BY <1>1, <2>1 DEF SearchStep
    <2>3. \A k \in r[1] .. r[2] : k \notin hit
        BY <1>0, <1>1
    <2> QED
        BY <2>2, <2>3
<1>2. 0 \in S
    <2>1. ASSUME NEW r \in Ranges(n), r[2] - r[1] < 0 PROVE r[1] > r[2]
        BY <1>0, <2>1
    <2> HIDE DEF Right
    <2> QED
        BY <1>1, <2>1
<1>3. ASSUME NEW m \in Nat, m \in S PROVE m + 1 \in S
    <2>1. ASSUME NEW r \in Ranges(n), r[2] - r[1] < m + 1, ~ (r[1] > r[2]) PROVE Right(r)
        <3>1. r[1] <= r[2]
            BY <1>0, <2>1
        <3>2. /\ r[1] \in Int /\ r[2] \in Int /\ Probe(r) \in 0 .. n - 1
              /\ r[1] <= Probe(r) /\ Probe(r) <= r[2]
            BY <3>1, NarrowerRange
        <3>3. PICK a, b : a = <<r[1], Probe(r) - 1>> /\ b = <<Probe(r) + 1, r[2]>>
            OBVIOUS
        <3>4. a \in Ranges(n) /\ b \in Ranges(n)
            BY <3>1, <3>3, NarrowerRange
        <3>5. a[2] - a[1] < m /\ b[2] - b[1] < m
            BY <2>1, <3>2, <3>3
        <3>6. Right(a) /\ Right(b)
            <4> HIDE DEF Right
            <4> QED
                BY <1>3, <3>4, <3>5
        <3>7. f[r] = IF Probe(r) \in hit THEN outcome[Probe(r)]
                     ELSE IF Probe(r) \in left THEN f[a] ELSE f[b]
            <4>1. f[r] = SearchStep(f, r, outcome, hit, left)
                BY Zenon DEF Searches
            <4> QED
                BY <2>1, <3>3, <4>1 DEF SearchStep
        <3>8. PICK p \in 0 .. n - 1 : p = Probe(r)
            BY <3>2
        <3>9. /\ a[1] = r[1] /\ a[2] = p - 1 /\ b[1] = p + 1 /\ b[2] = r[2]
              /\ r[1] \in 0 .. n /\ r[2] \in -1 .. n - 1
              /\ r[1] <= p /\ p <= r[2]
            BY <1>0, <3>2, <3>3, <3>8
        <3>10. CASE p \in hit
            <4>1. p \in r[1] .. r[2] /\ f[r] = outcome[p]
                BY <3>7, <3>8, <3>9, <3>10
            <4> QED
                BY <3>10, <4>1
        <3>11. CASE p \notin hit /\ p \in left
            <4>1. f[r] = f[a]
                BY <3>7, <3>8, <3>11
            <4>2. \A k \in r[1] .. r[2] : k \in r[1] .. p - 1 \/ k \notin hit
                <5>1. ASSUME NEW k \in r[1] .. r[2], k \notin r[1] .. p - 1 PROVE k \notin hit
                    <6>1. k \in 0 .. n - 1 /\ p <= k
                        BY <3>9, <5>1
                    <6> QED
                        BY <3>11, <6>1
                <5> QED
                    BY <5>1
            <4>3. \A k \in r[1] .. p - 1 : k \in r[1] .. r[2]
                BY <3>9
            <4> QED
                BY <3>6, <3>9, <4>1, <4>2, <4>3
        <3>12. CASE p \notin hit /\ p \notin left
            <4>1. f[r] = f[b]
                BY <3>7, <3>8, <3>12
            <4>2. \A k \in r[1] .. r[2] : k \in p + 1 .. r[2] \/ k \notin hit
                <5>1. ASSUME NEW k \in r[1] .. r[2], k \notin p + 1 .. r[2] PROVE k \notin hit
                    <6>1. k \in 0 .. n - 1 /\ k <= p
                        BY <3>9, <5>1
                    <6> QED
                        BY <3>12, <6>1
                <5> QED
                    BY <5>1
            <4>3. \A k \in p + 1 .. r[2] : k \in r[1] .. r[2]
                BY <3>9
            <4> QED
                BY <3>6, <3>9, <4>1, <4>2, <4>3
        <3> QED
            BY <3>10, <3>11, <3>12
    <2> HIDE DEF Right
    <2> QED
        BY <1>1, <2>1
<1>4. n \in S
    <2> HIDE DEF S
    <2> QED
        BY <1>2, <1>3, SetInduction
<1>5. ASSUME NEW r \in Ranges(n) PROVE Right(r)
    <2>1. r[2] - r[1] < n
        BY <1>0
    <2> HIDE DEF Right
    <2> QED
        BY <1>4, <2>1
<1> QED
    BY <1>5

\* What is assumed of a vocabulary.
LEMMA VocabIs ==
    ASSUME NEW v \in DOMAIN Vocabs
    PROVE  /\ IsFiniteSet(Ids(v)) /\ Cardinality(Ids(v)) \in Nat \ {0}
           /\ Ids(v) = 0 .. Cardinality(Ids(v)) - 1
           /\ Vocabs[v].piece \in [Ids(v) -> Seq(Nat)]
           /\ BOS \in Ids(v)
<1>1. /\ IsFiniteSet(Ids(v)) /\ BOS \in Ids(v)
      /\ Vocabs[v].piece \in [0 .. Cardinality(Ids(v)) - 1 -> Seq(Nat)]
    BY TokenizerAssumption
<1>2. Cardinality(Ids(v)) \in Nat
    BY <1>1, FS_CardinalityType
<1>3. Ids(v) = 0 .. Cardinality(Ids(v)) - 1
    BY <1>1 DEF Ids
<1>4. Cardinality(Ids(v)) # 0
    BY <1>1, FS_EmptySet
<1> QED
    BY <1>1, <1>2, <1>3, <1>4

\* The permutation lists every token once, in the order of the pieces.
LEMMA PermutationIs ==
    ASSUME NEW v \in DOMAIN Vocabs
    PROVE  /\ \A r \in Ids(v) : Permutation[v][r] \in Ids(v)
           /\ \A id \in Ids(v) : \E r \in Ids(v) : Permutation[v][r] = id
           /\ \A r, q \in Ids(v) : r < q =>
                 LET a == Vocabs[v].piece[Permutation[v][r]]
                     b == Vocabs[v].piece[Permutation[v][q]]
                 IN  Less(a, b) \/ a = b
<1> DEFINE S == Ids(v)
           P == Vocabs[v].piece
           Before(x, y) == Less(P[x], P[y]) \/ (P[x] = P[y] /\ x < y)
           R == {z \in S \X S : Before(z[1], z[2])}
           rank == [x \in S |-> Cardinality({y \in S : <<y, x>> \in R})]
           place(id) == Cardinality({o \in S : Before(o, id)})
<1>0. IsFiniteSet(S) /\ S = 0 .. Cardinality(S) - 1 /\ P \in [S -> Seq(Nat)] /\ S \subseteq Nat
    <2>1. Cardinality(Ids(v)) \in Nat
        BY VocabIs
    <2>2. 0 .. Cardinality(Ids(v)) - 1 \subseteq Nat
        BY <2>1
    <2> QED
        BY <2>2, VocabIs
<1> HIDE DEF S, P
<1>1. \A x, y \in S : <<x, y>> \in R <=> Before(x, y)
    OBVIOUS
<1>2. ASSUME NEW x \in S PROVE <<x, x>> \notin R
    <2>1. x \in Nat /\ P[x] \in Seq(Nat)
        BY <1>0
    <2>2. ~ Less(P[x], P[x])
        BY <2>1, LessIrreflexive
    <2>3. ~ (x < x)
        BY <2>1
    <2> QED
        BY <1>1, <2>2, <2>3
<1>3. ASSUME NEW x \in S, NEW y \in S, NEW z \in S, <<x, y>> \in R, <<y, z>> \in R
      PROVE  <<x, z>> \in R
    <2>1. Before(x, y) /\ Before(y, z)
        BY <1>1, <1>3
    <2>2. x \in Nat /\ y \in Nat /\ z \in Nat
        BY <1>0
    <2>3. P[x] \in Seq(Nat) /\ P[y] \in Seq(Nat) /\ P[z] \in Seq(Nat)
        BY <1>0
    <2>4. Before(x, z)
        <3>1. Less(P[x], P[y]) /\ Less(P[y], P[z]) => Less(P[x], P[z])
            BY <2>3, LessTransitive
        <3>2. x < y /\ y < z => x < z
            BY <2>2
        <3> QED
            BY <2>1, <3>1, <3>2, Zenon
    <2> QED
        BY <1>1, <2>4
<1>4. ASSUME NEW x \in S, NEW y \in S, x # y PROVE <<x, y>> \in R \/ <<y, x>> \in R
    <2>1. x \in Nat /\ y \in Nat /\ P[x] \in Seq(Nat) /\ P[y] \in Seq(Nat)
        BY <1>0
    <2>2. x < y \/ y < x
        BY <1>4, <2>1
    <2>3. P[x] # P[y] => Less(P[x], P[y]) \/ Less(P[y], P[x])
        BY <2>1, LessTotal
    <2>4. Before(x, y) \/ Before(y, x)
        BY <2>2, <2>3, Zenon
    <2> QED
        BY <1>1, <2>4
<1>5. /\ \A x \in S : rank[x] \in 0 .. Cardinality(S) - 1
      /\ \A x, y \in S : rank[x] < rank[y] <=> <<x, y>> \in R
      /\ \A x, y \in S : rank[x] = rank[y] => x = y
      /\ \A r \in 0 .. Cardinality(S) - 1 : \E x \in S : rank[x] = r
    <2>1. Ranks(rank, S, R)
        BY DEF Ranks
    <2> HIDE DEF R, rank
    <2>2. StrictOrder(S, R)
        BY <1>2, <1>3, <1>4 DEF StrictOrder
    <2> QED
        BY <1>0, <2>1, <2>2, OrderRanks, SMTT(30)
<1>6. ASSUME NEW id \in S PROVE rank[id] = place(id)
    <2>1. {o \in S : <<o, id>> \in R} = {o \in S : Before(o, id)}
        <3> HIDE DEF R, Before
        <3> QED
            BY <1>1
    <2> QED
        BY <2>1
<1>7. ASSUME NEW r \in S PROVE Permutation[v][r] = CHOOSE id \in S : r = place(id)
    BY DEF Permutation, S, P
<1> HIDE DEF rank, R, Before, place
<1>8. ASSUME NEW r \in S PROVE Permutation[v][r] \in S /\ rank[Permutation[v][r]] = r
    <2>1. PICK x \in S : rank[x] = r
        BY <1>0, <1>5
    <2>2. r = place(x)
        BY <1>6, <2>1
    <2>3. Permutation[v][r] \in S /\ r = place(Permutation[v][r])
        BY <1>7, <2>2
    <2> QED
        BY <1>6, <2>3
<1>9. ASSUME NEW id \in S PROVE \E r \in S : Permutation[v][r] = id
    <2>1. rank[id] \in S
        BY <1>0, <1>5
    <2>2. Permutation[v][rank[id]] = id
        BY <1>5, <1>8, <2>1
    <2> QED
        BY <2>1, <2>2
<1>10. ASSUME NEW r \in S, NEW q \in S, r < q
       PROVE  Less(P[Permutation[v][r]], P[Permutation[v][q]])
                \/ P[Permutation[v][r]] = P[Permutation[v][q]]
    <2>1. PICK x \in S, y \in S : x = Permutation[v][r] /\ y = Permutation[v][q]
        BY <1>8
    <2>2. rank[x] = r /\ rank[y] = q
        BY <1>8, <2>1
    <2>3. <<x, y>> \in R
        BY <1>5, <1>10, <2>2
    <2>4. Before(x, y)
        BY <1>1, <2>3
    <2> QED
        BY <2>1, <2>4 DEF Before
<1> QED
    BY <1>8, <1>9, <1>10 DEF S, P

\* The bisection of tq_lookup over the sorted pieces ends, for a vocabulary of
\* any size, at the id of a piece that is the string, or at -1 when no piece is.
THEOREM LookupFinds ==
    ASSUME vocab \in DOMAIN Vocabs, NEW s \in Seq(Nat)
    PROVE  \/ tq_lookup(s) = -1 /\ \A id \in Ids(vocab) : Piece(id) # s
           \/ tq_lookup(s) \in Ids(vocab) /\ Piece(tq_lookup(s)) = s
<1> DEFINE hit == {k \in Int : s = Piece(sorted[k])}
           left == {k \in Int : Less(s, Piece(sorted[k]))}
<1>1. PICK n \in Nat : n = Cardinality(Ids(vocab)) /\ Ids(vocab) = 0 .. n - 1 /\ n # 0
    BY VocabIs
<1>2. /\ \A r \in 0 .. n - 1 : sorted[r] \in Ids(vocab)
      /\ \A id \in Ids(vocab) : \E r \in 0 .. n - 1 : sorted[r] = id
      /\ \A r, q \in 0 .. n - 1 : r < q => \/ Less(Piece(sorted[r]), Piece(sorted[q]))
                                           \/ Piece(sorted[r]) = Piece(sorted[q])
    <2>1. /\ \A r \in Ids(vocab) : sorted[r] \in Ids(vocab)
          /\ \A id \in Ids(vocab) : \E r \in Ids(vocab) : sorted[r] = id
          /\ \A r, q \in Ids(vocab) : r < q => \/ Less(Piece(sorted[r]), Piece(sorted[q]))
                                               \/ Piece(sorted[r]) = Piece(sorted[q])
        BY PermutationIs, Zenon DEF Piece, sorted
    <2> QED
        BY <1>1, <2>1
<1>3. \A id \in Ids(vocab) : Piece(id) \in Seq(Nat)
    BY VocabIs DEF Piece
<1>4. ASSUME NEW k \in 0 .. n - 1, NEW j \in 0 .. n - 1, k \notin hit, k \in left, k <= j
      PROVE  j \notin hit
    <2>1. Less(s, Piece(sorted[k]))
        BY <1>4
    <2>2. Piece(sorted[k]) \in Seq(Nat) /\ Piece(sorted[j]) \in Seq(Nat)
        BY <1>2, <1>3
    <2>3. k = j \/ Piece(sorted[k]) = Piece(sorted[j]) \/ Less(Piece(sorted[k]), Piece(sorted[j]))
        <3>1. k = j \/ k < j
            BY <1>4
        <3> QED
            BY <1>2, <3>1
    <2>4. Less(s, Piece(sorted[j]))
        BY <2>1, <2>2, <2>3, LessTransitive
    <2>5. s # Piece(sorted[j])
        BY <2>4, LessIrreflexive
    <2> QED
        BY <2>5
<1>5. ASSUME NEW k \in 0 .. n - 1, NEW j \in 0 .. n - 1, k \notin hit, k \notin left, j <= k
      PROVE  j \notin hit
    <2>1. s # Piece(sorted[k]) /\ ~ Less(s, Piece(sorted[k]))
        BY <1>5
    <2>2. Piece(sorted[k]) \in Seq(Nat) /\ Piece(sorted[j]) \in Seq(Nat)
        BY <1>2, <1>3
    <2>3. Less(Piece(sorted[k]), s)
        BY <2>1, <2>2, LessTotal
    <2>4. k = j \/ Piece(sorted[k]) = Piece(sorted[j]) \/ Less(Piece(sorted[j]), Piece(sorted[k]))
        <3>1. k = j \/ j < k
            BY <1>5
        <3> QED
            BY <1>2, <3>1
    <2>5. Less(Piece(sorted[j]), s)
        BY <2>2, <2>3, <2>4, LessTransitive
    <2>6. s # Piece(sorted[j])
        BY <2>5, LessIrreflexive
    <2> QED
        BY <2>6
<1> DEFINE Is(f) == Searches(f, n, sorted, hit, left)
           Body(f, r) == LET mid == r[1] + (r[2] - r[1]) \div 2
                         IN  IF r[1] > r[2] THEN -1
                             ELSE IF s = Piece(sorted[mid]) THEN sorted[mid]
                             ELSE IF Less(s, Piece(sorted[mid])) THEN f[<<r[1], mid - 1>>]
                             ELSE f[<<mid + 1, r[2]>>]
           find == CHOOSE f : Is(f)
<1>6. ASSUME NEW f, NEW r \in Ranges(n) PROVE Body(f, r) = SearchStep(f, r, sorted, hit, left)
    <2>1. PICK m : m = Probe(r)
        OBVIOUS
    <2>2. m \in Int
        BY <2>1 DEF Probe, Ranges
    <2>3. m \in hit <=> s = Piece(sorted[m])
        BY <2>2
    <2>4. m \in left <=> Less(s, Piece(sorted[m]))
        BY <2>2
    <2>5. m = r[1] + (r[2] - r[1]) \div 2
        BY <2>1 DEF Probe
    <2> HIDE DEF hit, left
    <2> QED
        BY <2>1, <2>3, <2>4, <2>5, Zenon DEF SearchStep
<1> HIDE DEF hit, left
<1>7. Is(find)
    <2>1. \E f : Is(f)
        BY SearchExists
    <2> HIDE DEF Is
    <2> QED
        BY <2>1
<1>8. tq_lookup(s) = find[<<0, n - 1>>]
    <2>1. tq_lookup(s) = (CHOOSE f : f = [r \in (0 .. n) \X (-1 .. n - 1) |-> Body(f, r)])
                            [<<0, n - 1>>]
        BY <1>1, Zenon DEF tq_lookup
    <2> HIDE DEF Body
    <2>2. \A f : (f = [r \in (0 .. n) \X (-1 .. n - 1) |-> Body(f, r)]) <=> Is(f)
        BY <1>6, Zenon DEF Ranges, Searches
    <2> QED
        BY <2>1, <2>2, Zenon
<1>9. \A r \in Ranges(n) :
         \/ find[r] = -1 /\ \A k \in r[1] .. r[2] : k \notin hit
         \/ \E k \in r[1] .. r[2] : k \in hit /\ find[r] = sorted[k]
    <2> HIDE DEF find
    <2> QED
        BY <1>4, <1>5, <1>7, SearchFinds
<1>10. <<0, n - 1>> \in Ranges(n)
    BY <1>1 DEF Ranges
<1> HIDE DEF find
<1>11. \/ find[<<0, n - 1>>] = -1 /\ \A k \in 0 .. n - 1 : k \notin hit
       \/ \E k \in 0 .. n - 1 : k \in hit /\ find[<<0, n - 1>>] = sorted[k]
    BY <1>9, <1>10
<1>12. \A k \in 0 .. n - 1 : k \in hit <=> s = Piece(sorted[k])
    BY DEF hit
<1> QED
    BY <1>2, <1>8, <1>11, <1>12

-----------------------------------------------------------------------------
(* The tokenizer. *)

Appends(c, m, ids) ==
    c = [n \in 0 .. m |-> IF n = 0 THEN <<>> ELSE Append(c[n - 1], ids[n])]

\* Appending the elements of a sequence one by one gives the sequence.
LEMMA AppendsUp ==
    ASSUME NEW V, NEW ids \in Seq(V), NEW d, d = CHOOSE c : Appends(c, Len(ids), ids)
    PROVE  d[Len(ids)] = ids
<1>1. PICK m \in Nat : m = Len(ids)
    OBVIOUS
<1> DEFINE f == [n \in 0 .. m |-> SubSeq(ids, 1, n)]
<1>2. ASSUME NEW n \in 1 .. m PROVE SubSeq(ids, 1, n) = Append(SubSeq(ids, 1, n - 1), ids[n])
    BY <1>1, SMTT(30)
<1>3. SubSeq(ids, 1, 0) = <<>>
    OBVIOUS
<1>4. Appends(f, m, ids)
    <2>1. ASSUME NEW n \in 0 .. m
          PROVE  f[n] = IF n = 0 THEN <<>> ELSE Append(f[n - 1], ids[n])
        <3>1. CASE n = 0
            BY <1>3, <3>1
        <3>2. CASE n # 0
            <4>1. n \in 1 .. m /\ n - 1 \in 0 .. m
                BY <3>2
            <4>2. f[n] = SubSeq(ids, 1, n) /\ f[n - 1] = SubSeq(ids, 1, n - 1)
                BY <4>1
            <4> QED
                BY <1>2, <3>2, <4>1, <4>2
        <3> QED
            BY <3>1, <3>2
    <2>2. f = [n \in 0 .. m |-> f[n]]
        OBVIOUS
    <2> HIDE DEF f
    <2>3. [n \in 0 .. m |-> f[n]] = [n \in 0 .. m |-> IF n = 0 THEN <<>> ELSE Append(f[n - 1], ids[n])]
        BY <2>1, Zenon
    <2> QED
        BY <2>2, <2>3, Zenon DEF Appends
<1>5. Appends(d, m, ids)
    <2> HIDE DEF f
    <2> QED
        BY <1>1, <1>4, Zenon
<1>6. d[0] = <<>> /\ \A n \in 1 .. m : d[n] = Append(d[n - 1], ids[n])
    <2>1. ASSUME NEW n \in 0 .. m PROVE d[n] = IF n = 0 THEN <<>> ELSE Append(d[n - 1], ids[n])
        BY <1>5, Zenon DEF Appends
    <2>2. 0 \in 0 .. m
        OBVIOUS
    <2>3. ASSUME NEW n \in 1 .. m PROVE n \in 0 .. m /\ n # 0
        OBVIOUS
    <2> QED
        BY <2>1, <2>2, <2>3, Zenon
<1> DEFINE S == {n \in Nat : n <= m => d[n] = SubSeq(ids, 1, n)}
<1>7. 0 \in S
    BY <1>3, <1>6
<1>8. ASSUME NEW n \in Nat, n \in S PROVE n + 1 \in S
    <2>1. SUFFICES ASSUME n + 1 <= m PROVE d[n + 1] = SubSeq(ids, 1, n + 1)
        OBVIOUS
    <2>2. n + 1 \in 1 .. m /\ (n + 1) - 1 = n /\ d[n] = SubSeq(ids, 1, n)
        BY <1>8, <2>1
    <2>3. d[n + 1] = Append(SubSeq(ids, 1, n), ids[n + 1])
        BY <1>6, <2>2
    <2>4. SubSeq(ids, 1, n + 1) = Append(SubSeq(ids, 1, (n + 1) - 1), ids[n + 1])
        BY <1>2, <2>2
    <2> QED
        BY <2>2, <2>3, <2>4
<1>9. m \in S
    <2> HIDE DEF S
    <2> QED
        BY <1>7, <1>8, SetInduction
<1>10. d[m] = SubSeq(ids, 1, m)
    BY <1>9
<1>11. SubSeq(ids, 1, m) = ids
    BY <1>1, SubSeqFull
<1> QED
    BY <1>1, <1>10, <1>11

\* Every byte of a text has its token, so none is left out.
LEMMA ByteTokensIs ==
    ASSUME vocab \in DOMAIN Vocabs, NEW point \in Seq(Bytes)
    PROVE  /\ ByteTokens(point) \in Seq(Ids(vocab))
           /\ Len(ByteTokens(point)) = Len(point)
           /\ \A n \in 1 .. Len(point) : Piece(ByteTokens(point)[n]) = ByteName(point[n])
<1> DEFINE look == [n \in 1 .. Len(point) |-> tq_lookup(ByteName(point[n]))]
<1>1. ASSUME NEW n \in 1 .. Len(point)
      PROVE  /\ tq_lookup(ByteName(point[n])) \in Ids(vocab)
             /\ tq_lookup(ByteName(point[n])) >= 0
             /\ Piece(tq_lookup(ByteName(point[n]))) = ByteName(point[n])
    <2>1. PICK byte \in Bytes : byte = point[n]
        OBVIOUS
    <2>2. ByteName(byte) \in Seq(Nat)
        BY TokenizerAssumption DEF ByteName
    <2>3. \E id \in Ids(vocab) : Piece(id) = ByteName(byte)
        BY TokenizerAssumption DEF Piece
    <2>4. PICK s \in Seq(Nat) : s = ByteName(byte)
        BY <2>2
    <2>5. tq_lookup(s) \in Ids(vocab) /\ Piece(tq_lookup(s)) = s
        BY <2>3, <2>4, LookupFinds
    <2>6. tq_lookup(s) >= 0
        BY <2>5, VocabIs
    <2> QED
        BY <2>1, <2>4, <2>5, <2>6
<1>2. Len(point) \in Nat
    OBVIOUS
<1>3. look \in Seq(Ids(vocab)) /\ Len(look) = Len(point)
    BY <1>1, <1>2
<1> DEFINE Body(c) == [n \in 0 .. Len(point) |->
                          IF n = 0 THEN <<>>
                          ELSE LET id == tq_lookup(ByteName(point[n]))
                               IN  IF id >= 0 THEN Append(c[n - 1], id) ELSE c[n - 1]]
           d == CHOOSE c : Appends(c, Len(look), look)
<1>4. ASSUME NEW c PROVE c = Body(c) <=> Appends(c, Len(look), look)
    <2>1. ASSUME NEW n \in 0 .. Len(point), n # 0
          PROVE  look[n] = tq_lookup(ByteName(point[n])) /\ tq_lookup(ByteName(point[n])) >= 0
        <3>1. n \in 1 .. Len(point)
            BY <2>1
        <3> QED
            BY <1>1, <3>1
    <2> HIDE DEF look
    <2>2. ASSUME NEW n \in 0 .. Len(point)
          PROVE  (IF n = 0 THEN <<>> ELSE Append(c[n - 1], look[n]))
                   = IF n = 0 THEN <<>>
                     ELSE LET id == tq_lookup(ByteName(point[n]))
                          IN  IF id >= 0 THEN Append(c[n - 1], id) ELSE c[n - 1]
        BY <2>1, Zenon
    <2>3. Body(c) = [n \in 0 .. Len(point) |-> IF n = 0 THEN <<>> ELSE Append(c[n - 1], look[n])]
        BY <2>2, Zenon
    <2> HIDE DEF Body
    <2> QED
        BY <1>3, <2>3, Zenon DEF Appends
<1>5. ByteTokens(point) = (CHOOSE c : c = Body(c))[Len(point)]
    BY Zenon DEF ByteTokens
<1>6. ByteTokens(point) = d[Len(look)]
    <2> HIDE DEF Body, look
    <2> QED
        BY <1>3, <1>4, <1>5, Zenon
<1>7. d[Len(look)] = look
    <2> HIDE DEF look
    <2> QED
        BY <1>3, AppendsUp
<1>8. ASSUME NEW n \in 1 .. Len(point) PROVE Piece(look[n]) = ByteName(point[n])
    BY <1>1
<1> HIDE DEF d, look
<1> QED
    BY <1>3, <1>6, <1>7, <1>8

\* What tokens behind the opening one stand for: the text, a space in front of
\* it, cut into the bytes that each of them says.
PieceOf(v, id) == Vocabs[v].piece[id]
Said(v, id) ==
    IF Len(PieceOf(v, id)) = 2 /\ PieceOf(v, id)[1] = MARK THEN <<PieceOf(v, id)[2]>>
    ELSE PieceOf(v, id)
Lead(v, t) ==
    IF t # <<>> /\ \E id \in Ids(v) : PieceOf(v, id) = <<SPACE>> THEN <<SPACE>> ELSE <<>>
Full(v, t) == Lead(v, t) \o t
Plain(v, t, id) ==
    /\ id \in Ids(v)
    /\ PieceOf(v, id) # <<>>
    /\ PieceOf(v, id) \in Seq(Bytes \cup {MARK})
    /\ Lead(v, t) = <<>> => PieceOf(v, id)[1] # SPACE
Cuts(v, t, toks, c, end) ==
    /\ c \in [0 .. Len(toks) - 1 -> Nat]
    /\ c[0] = 0 /\ c[Len(toks) - 1] = end
    /\ \A n \in 1 .. Len(toks) - 1 :
          /\ c[n - 1] < c[n] /\ c[n] <= end
          /\ Said(v, toks[n + 1]) = SubSeq(Full(v, t), c[n - 1] + 1, c[n])
Spelt(v, t, end, toks) ==
    /\ toks \in Seq(Ids(v)) /\ Len(toks) >= 1 /\ toks[1] = BOS
    /\ \A k \in 2 .. Len(toks) : Plain(v, t, toks[k])
    /\ \E c : Cuts(v, t, toks, c, end)

\* The space in front.
LEMMA LeadIs ==
    ASSUME NEW v \in DOMAIN Vocabs, NEW t \in Seq(Bytes)
    PROVE  /\ Lead(v, t) \in Seq(Bytes) /\ Len(Lead(v, t)) \in {0, 1}
           /\ Len(Lead(v, t)) = 0 <=> Lead(v, t) = <<>>
           /\ Len(Lead(v, t)) = 1 => Lead(v, t)[1] = SPACE /\ t # <<>>
           /\ Full(v, t) \in Seq(Bytes) /\ Len(Full(v, t)) = Len(Lead(v, t)) + Len(t)
<1>1. SPACE \in Bytes
    BY TokenizerAssumption
<1>2. CASE Lead(v, t) = <<>>
    BY <1>2 DEF Full
<1>3. CASE Lead(v, t) # <<>>
    <2>1. Lead(v, t) = <<SPACE>> /\ t # <<>>
        BY <1>3 DEF Lead
    <2> QED
        BY <1>1, <2>1 DEF Full
<1> QED
    BY <1>2, <1>3

\* The text lies behind it.
LEMMA FullPart ==
    ASSUME NEW v \in DOMAIN Vocabs, NEW t \in Seq(Bytes),
           NEW i \in 1 .. Len(t), NEW j \in 1 .. Len(t)
    PROVE  SubSeq(Full(v, t), Len(Lead(v, t)) + i, Len(Lead(v, t)) + j) = SubSeq(t, i, j)
<1>1. PICK l \in Seq(Bytes), d \in Nat : l = Lead(v, t) /\ d = Len(l)
    BY LeadIs
<1>2. d + i \in d + 1 .. d + Len(t) /\ d + j \in d + 1 .. d + Len(t)
    OBVIOUS
<1>3. SubSeq(l \o t, d + i, d + j) = SubSeq(t, (d + i) - d, (d + j) - d)
    BY <1>1, <1>2, SubSeqOfConcat2
<1>4. (d + i) - d = i /\ (d + j) - d = j
    OBVIOUS
<1> QED
    BY <1>1, <1>3, <1>4 DEF Full

\* One token more.
LEMMA SpeltMore ==
    ASSUME NEW v \in DOMAIN Vocabs, NEW t \in Seq(Bytes), NEW end \in Nat, NEW more \in Nat,
           more > end, NEW toks, Spelt(v, t, end, toks), NEW id, Plain(v, t, id),
           Said(v, id) = SubSeq(Full(v, t), end + 1, more)
    PROVE  Spelt(v, t, more, Append(toks, id))
<1>1. PICK c : Cuts(v, t, toks, c, end)
    BY DEF Spelt
<1>2. PICK n \in Nat : Len(toks) = n + 1
    BY DEF Spelt
<1>3. toks \in Seq(Ids(v)) /\ id \in Ids(v) /\ toks[1] = BOS
    BY DEF Spelt, Plain
<1> DEFINE a == Append(toks, id)
<1>4. /\ a \in Seq(Ids(v)) /\ Len(a) = n + 2 /\ a[n + 2] = id
      /\ \A i \in 1 .. n + 1 : a[i] = toks[i]
    BY <1>2, <1>3
<1> DEFINE e == [i \in 0 .. n + 1 |-> IF i = n + 1 THEN more ELSE c[i]]
<1>5. /\ c \in [0 .. n -> Nat] /\ c[0] = 0 /\ c[n] = end
      /\ \A i \in 1 .. n : /\ c[i - 1] < c[i] /\ c[i] <= end
                           /\ Said(v, toks[i + 1]) = SubSeq(Full(v, t), c[i - 1] + 1, c[i])
    <2>1. Len(toks) - 1 = n
        BY <1>2
    <2> QED
        BY <1>1, <2>1, Zenon DEF Cuts
<1>6. e \in [0 .. n + 1 -> Nat] /\ e[0] = 0 /\ e[n + 1] = more /\ e[n] = end
    BY <1>5
<1>7. ASSUME NEW i \in 1 .. n + 1
      PROVE  /\ e[i - 1] < e[i] /\ e[i] <= more
             /\ Said(v, a[i + 1]) = SubSeq(Full(v, t), e[i - 1] + 1, e[i])
    <2>1. CASE i = n + 1
        <3>1. a[i + 1] = id /\ e[i - 1] = end /\ e[i] = more
            BY <1>4, <1>6, <2>1
        <3> HIDE DEF a, e
        <3> QED
            BY <3>1
    <2>2. CASE i # n + 1
        <3>1. i \in 1 .. n /\ i + 1 \in 1 .. n + 1
            BY <2>2
        <3>2. e[i - 1] = c[i - 1] /\ e[i] = c[i]
            BY <3>1
        <3>3. a[i + 1] = toks[i + 1]
            BY <1>4, <3>1
        <3>4. c[i] \in Nat /\ c[i] <= end
            BY <1>5, <3>1
        <3> HIDE DEF a, e
        <3>5. e[i - 1] < e[i] /\ e[i] <= more
            BY <1>5, <3>1, <3>2, <3>4
        <3>6. Said(v, toks[i + 1]) = SubSeq(Full(v, t), c[i - 1] + 1, c[i])
            BY <1>5, <3>1
        <3> QED
            BY <3>2, <3>3, <3>5, <3>6
    <2> QED
        BY <2>1, <2>2
<1> HIDE DEF a, e
<1>8. Cuts(v, t, a, e, more)
    <2>1. Len(a) - 1 = n + 1
        BY <1>4
    <2> QED
        BY <1>6, <1>7, <2>1 DEF Cuts
<1>9. ASSUME NEW k \in 2 .. Len(a) PROVE Plain(v, t, a[k])
    <2>1. CASE k = n + 2
        BY <1>4, <2>1
    <2>2. CASE k # n + 2
        <3>1. k \in 1 .. n + 1 /\ k \in 2 .. Len(toks)
            BY <1>2, <1>4, <2>2
        <3>2. a[k] = toks[k] /\ Plain(v, t, toks[k])
            BY <1>4, <3>1 DEF Spelt
        <3> QED
            BY <3>2
    <2> QED
        BY <2>1, <2>2
<1>10. Len(a) >= 1 /\ a[1] = BOS
    BY <1>3, <1>4
<1>11. Spelt(v, t, more, a)
    BY <1>4, <1>8, <1>9, <1>10 DEF Spelt
<1> QED
    BY <1>11 DEF a

\* Byte tokens say their byte.
LEMMA ByteSaid ==
    ASSUME NEW v \in DOMAIN Vocabs, NEW t, NEW id \in Ids(v), NEW byte \in Bytes,
           PieceOf(v, id) = ByteName(byte)
    PROVE  Plain(v, t, id) /\ Said(v, id) = <<byte>>
<1>1. MARK # SPACE /\ MARK \in Nat
    BY TokenizerAssumption
<1>2. PieceOf(v, id) = <<MARK, byte>>
    BY DEF ByteName
<1>3. PieceOf(v, id) \in Seq(Bytes \cup {MARK}) /\ PieceOf(v, id) # <<>>
    BY <1>2
<1>4. Len(PieceOf(v, id)) = 2 /\ PieceOf(v, id)[1] = MARK /\ PieceOf(v, id)[2] = byte
    BY <1>2
<1> QED
    BY <1>1, <1>3, <1>4 DEF Plain, Said

\* A piece of text says itself.
LEMMA TextSaid ==
    ASSUME NEW v \in DOMAIN Vocabs, NEW id \in Ids(v), PieceOf(v, id) \in Seq(Bytes)
    PROVE  Said(v, id) = PieceOf(v, id)
<1>1. MARK \notin Bytes
    BY TokenizerAssumption
<1>2. ~ (Len(PieceOf(v, id)) = 2 /\ PieceOf(v, id)[1] = MARK)
    BY <1>1
<1> QED
    BY <1>2 DEF Said

\* One byte of a string.
LEMMA SingleByte ==
    ASSUME NEW V, NEW s \in Seq(V), NEW i \in 1 .. Len(s)
    PROVE  SubSeq(s, i, i) = <<s[i]>>
<1>1. PICK x \in V : x = s[i]
    OBVIOUS
<1>2. \A j \in i .. i : s[j] \in V
    OBVIOUS
<1>3. /\ SubSeq(s, i, i) \in Seq(V) /\ Len(SubSeq(s, i, i)) = 1
      /\ SubSeq(s, i, i)[1] = s[i]
    <2>1. /\ SubSeq(s, i, i) \in Seq(V)
          /\ Len(SubSeq(s, i, i)) = IF i <= i THEN i - i + 1 ELSE 0
          /\ \A j \in 1 .. i - i + 1 : SubSeq(s, i, i)[j] = s[i + j - 1]
        BY <1>2, SubSeqProperties
    <2>2. i - i + 1 = 1 /\ i + 1 - 1 = i /\ 1 \in 1 .. 1 /\ i <= i
        OBVIOUS
    <2>3. SubSeq(s, i, i)[1] = s[i]
        <3>1. 1 \in 1 .. i - i + 1
            BY <2>2
        <3>2. SubSeq(s, i, i)[1] = s[i + 1 - 1]
            BY <2>1, <3>1
        <3> QED
            BY <2>2, <3>2
    <2>4. Len(SubSeq(s, i, i)) = 1
        BY <2>1, <2>2
    <2> QED
        BY <2>1, <2>3, <2>4
<1>4. <<x>> \in Seq(V) /\ Len(<<x>>) = 1 /\ <<x>>[1] = x
    OBVIOUS
<1>5. PICK y \in Seq(V), z \in Seq(V) : y = SubSeq(s, i, i) /\ z = <<x>>
    BY <1>3, <1>4
<1>6. Len(y) = Len(z) /\ \A j \in 1 .. Len(y) : y[j] = z[j]
    BY <1>1, <1>3, <1>4, <1>5
<1>7. y = z
    BY <1>6, SeqEqual
<1> QED
    BY <1>1, <1>5, <1>7

\* A code point spelled out in byte tokens.
LEMMA SpeltBytes ==
    ASSUME NEW v \in DOMAIN Vocabs, NEW t \in Seq(Bytes), NEW end \in Nat,
           NEW toks, Spelt(v, t, end, toks), NEW ids \in Seq(Ids(v)),
           end + Len(ids) <= Len(Full(v, t)),
           \A n \in 1 .. Len(ids) : PieceOf(v, ids[n]) = ByteName(Full(v, t)[end + n])
    PROVE  Spelt(v, t, end + Len(ids), toks \o ids)
<1> DEFINE S == {n \in Nat : n <= Len(ids) => Spelt(v, t, end + n, toks \o SubSeq(ids, 1, n))}
<1>0. toks \in Seq(Ids(v)) /\ Len(ids) \in Nat /\ Full(v, t) \in Seq(Bytes)
    BY LeadIs DEF Spelt
<1>1. 0 \in S
    <2>1. toks \o SubSeq(ids, 1, 0) = toks /\ end + 0 = end
        BY <1>0
    <2>2. Spelt(v, t, end + 0, toks \o SubSeq(ids, 1, 0))
        BY <2>1
    <2> QED
        BY <2>2
<1>2. ASSUME NEW n \in Nat, n \in S PROVE n + 1 \in S
    <2>1. SUFFICES ASSUME n + 1 <= Len(ids)
                   PROVE  Spelt(v, t, end + (n + 1), toks \o SubSeq(ids, 1, n + 1))
        OBVIOUS
    <2>2. PICK a : a = toks \o SubSeq(ids, 1, n) /\ Spelt(v, t, end + n, a)
        <3>1. n <= Len(ids)
            BY <1>0, <2>1
        <3> QED
            BY <1>2, <3>1, Zenon
    <2>3. PICK id \in Ids(v) : id = ids[n + 1]
        BY <2>1
    <2>4. toks \o SubSeq(ids, 1, n + 1) = Append(a, id)
        <3>1. SubSeq(ids, 1, n + 1) = Append(SubSeq(ids, 1, n), ids[n + 1])
            BY <2>1, SMTT(30)
        <3>2. PICK s \in Seq(Ids(v)) : s = SubSeq(ids, 1, n)
            <4>1. \A i \in 1 .. n : ids[i] \in Ids(v)
                BY <2>1
            <4>2. SubSeq(ids, 1, n) \in Seq(Ids(v))
                BY <4>1, SubSeqProperties
            <4> QED
                BY <4>2
        <3>3. toks \o Append(s, id) = Append(toks \o s, id)
            BY <1>0, SMTT(30)
        <3> QED
            BY <2>2, <2>3, <3>1, <3>2, <3>3
    <2>5. PICK m \in Nat : m = end + n /\ m + 1 <= Len(Full(v, t))
        BY <1>0, <2>1, LeadIs
    <2>6. PICK byte \in Bytes : byte = Full(v, t)[m + 1]
        BY <1>0, <2>5
    <2>7. PieceOf(v, id) = ByteName(byte)
        <3>1. n + 1 \in 1 .. Len(ids) /\ end + (n + 1) = m + 1
            BY <2>1, <2>5
        <3> QED
            BY <2>3, <2>6, <3>1
    <2>8. Plain(v, t, id) /\ Said(v, id) = <<byte>>
        BY <2>7, ByteSaid
    <2>9. SubSeq(Full(v, t), m + 1, m + 1) = <<byte>>
        <3>1. m + 1 \in 1 .. Len(Full(v, t))
            BY <1>0, <2>5
        <3> QED
            BY <1>0, <2>6, <3>1, SingleByte
    <2>10. Spelt(v, t, m + 1, Append(a, id))
        <3>1. m + 1 \in Nat /\ m + 1 > m
            BY <2>5
        <3>2. Spelt(v, t, m, a) /\ Said(v, id) = SubSeq(Full(v, t), m + 1, m + 1)
            BY <2>2, <2>5, <2>8, <2>9
        <3>3. PICK mm \in Nat : mm = m + 1
            BY <3>1
        <3> QED
            BY <2>8, <3>1, <3>2, <3>3, SpeltMore
    <2>11. end + (n + 1) = m + 1
        BY <2>5
    <2> QED
        BY <2>4, <2>10, <2>11
<1>3. Len(ids) \in S
    <2> HIDE DEF S
    <2> QED
        BY <1>0, <1>1, <1>2, SetInduction
<1>4. SubSeq(ids, 1, Len(ids)) = ids
    BY SubSeqFull
<1>5. Len(ids) <= Len(ids)
    BY <1>0
<1> QED
    BY <1>3, <1>4, <1>5, Zenon

\* A sequence of one element.
LEMMA OneElement ==
    ASSUME NEW V, NEW x \in V
    PROVE  <<x>> \in Seq(V) /\ Len(<<x>>) = 1 /\ <<x>>[1] = x
OBVIOUS

\* A sequence of two elements.
LEMMA TwoElements ==
    ASSUME NEW V, NEW x \in V, NEW y \in V
    PROVE  Append(<<x>>, y) = <<x, y>>
<1>1. PICK s \in Seq(V) : s = <<x>>
    BY OneElement
<1>2. Len(s) = 1 /\ s[1] = x
    BY <1>1, OneElement
<1>3. PICK a : a = Append(s, y)
    OBVIOUS
<1>4. a \in Seq(V) /\ Len(a) = 2 /\ a[1] = x /\ a[2] = y
    <2>1. /\ a \in Seq(V) /\ Len(a) = Len(s) + 1
          /\ \A i \in 1 .. Len(s) : a[i] = s[i]
          /\ a[Len(s) + 1] = y
        BY <1>3, AppendProperties
    <2> QED
        BY <1>2, <2>1
<1>5. <<x, y>> \in Seq(V) /\ Len(<<x, y>>) = 2 /\ <<x, y>>[1] = x /\ <<x, y>>[2] = y
    OBVIOUS
<1>6. PICK b \in Seq(V) : b = <<x, y>> /\ Len(b) = 2 /\ b[1] = x /\ b[2] = y
    BY <1>5
<1>7. Len(a) = Len(b) /\ \A i \in 1 .. Len(a) : a[i] = b[i]
    BY <1>4, <1>6
<1>8. a = b
    BY <1>4, <1>7, SeqEqual
<1> QED
    BY <1>1, <1>3, <1>6, <1>8

\* The opening token says nothing, and a space behind it is the one in front.
LEMMA SpeltStart ==
    ASSUME NEW v \in DOMAIN Vocabs, NEW t \in Seq(Bytes)
    PROVE  /\ Lead(v, t) = <<>> => Spelt(v, t, 0, <<BOS>>)
           /\ \A id \in Ids(v) : t # <<>> /\ PieceOf(v, id) = <<SPACE>> =>
                 Spelt(v, t, 1, <<BOS, id>>) /\ Len(Lead(v, t)) = 1
<1> DEFINE c == [n \in 0 .. 0 |-> 0]
<1>0. BOS \in Ids(v)
    BY VocabIs
<1>1. PICK o \in Seq(Ids(v)) : o = <<BOS>>
    BY <1>0, OneElement
<1>2. Len(o) = 1 /\ o[1] = BOS
    BY <1>1
<1>3. Cuts(v, t, o, c, 0)
    <2>1. c \in [0 .. 0 -> Nat] /\ c[0] = 0
        OBVIOUS
    <2>2. Len(o) - 1 = 0 /\ \A n : n \notin 1 .. 0
        BY <1>2
    <2> HIDE DEF c
    <2> QED
        BY <2>1, <2>2, Zenon DEF Cuts
<1>4. Spelt(v, t, 0, o)
    <2>1. \A k : k \notin 2 .. Len(o)
        BY <1>2
    <2>2. Len(o) >= 1
        BY <1>2
    <2> HIDE DEF c
    <2> QED
        BY <1>2, <1>3, <2>1, <2>2, Zenon DEF Spelt
<1>5. ASSUME NEW id \in Ids(v), t # <<>>, PieceOf(v, id) = <<SPACE>>
      PROVE  Spelt(v, t, 1, <<BOS, id>>) /\ Len(Lead(v, t)) = 1
    <2>1. SPACE \in Bytes
        BY TokenizerAssumption
    <2>2. Lead(v, t) = <<SPACE>>
        BY <1>5 DEF Lead
    <2>3. Len(Lead(v, t)) = 1 /\ Lead(v, t) # <<>> /\ Lead(v, t)[1] = SPACE
        BY <2>2
    <2>4. Plain(v, t, id)
        <3>1. <<SPACE>> # <<>> /\ <<SPACE>> \in Seq(Bytes \cup {MARK})
            BY <2>1
        <3> QED
            BY <1>5, <2>3, <3>1 DEF Plain
    <2>5. Said(v, id) = <<SPACE>>
        <3>1. PieceOf(v, id) \in Seq(Bytes)
            BY <1>5, <2>1
        <3> QED
            BY <1>5, <3>1, TextSaid
    <2>6. SubSeq(Full(v, t), 1, 1) = <<SPACE>>
        <3>1. Full(v, t) \in Seq(Bytes) /\ Len(Full(v, t)) = 1 + Len(t) /\ Len(t) \in Nat
            <4>1. Full(v, t) \in Seq(Bytes) /\ Len(Full(v, t)) = Len(Lead(v, t)) + Len(t)
                BY LeadIs
            <4>2. Len(t) \in Nat
                OBVIOUS
            <4> QED
                BY <2>3, <4>1, <4>2, Zenon
        <3>2. Full(v, t)[1] = SPACE
            BY <2>1, <2>2 DEF Full
        <3>3. 1 \in 1 .. Len(Full(v, t))
            BY <3>1
        <3> QED
            BY <3>1, <3>2, <3>3, SingleByte
    <2>7. Spelt(v, t, 1, Append(o, id))
        <3>1. PICK a \in Nat, b \in Nat : a = 0 /\ b = 1
            OBVIOUS
        <3>0. a + 1 = 1 /\ b > a
            BY <3>1
        <3>2. Said(v, id) = SubSeq(Full(v, t), a + 1, b) /\ b > a /\ Spelt(v, t, a, o)
            BY <1>4, <2>5, <2>6, <3>1, <3>0, Zenon
        <3>3. Spelt(v, t, b, Append(o, id))
            BY <2>4, <3>2, SpeltMore
        <3> QED
            BY <3>1, <3>3
    <2>8. Append(o, id) = <<BOS, id>>
        BY <1>0, <1>1, TwoElements
    <2> QED
        BY <2>3, <2>7, <2>8
<1> QED
    BY <1>1, <1>4, <1>5

Glued(p, q) == p \o q
WithMerged(V, s, k, x, m) ==
    /\ m \in Seq(V) /\ Len(m) = Len(s) - 1
    /\ \A i \in 1 .. Len(s) - 1 : m[i] = IF i < k THEN s[i] ELSE IF i = k THEN x ELSE s[i + 1]
Merged(s, k, x) == SubSeq(s, 1, k - 1) \o <<x>> \o SubSeq(s, k + 2, Len(s))

\* Two pieces that make up another one are not byte tokens, nor is it.
LEMMA JoinedSaid ==
    ASSUME NEW v \in DOMAIN Vocabs, NEW t, NEW a, NEW b, Plain(v, t, a), Plain(v, t, b),
           NEW id \in Ids(v), PieceOf(v, id) = Glued(PieceOf(v, a), PieceOf(v, b))
    PROVE  Plain(v, t, id) /\ Said(v, id) = Glued(Said(v, a), Said(v, b))
<1> DEFINE V == Bytes \cup {MARK}
<1>1. PICK p \in Seq(V), q \in Seq(V) : p = PieceOf(v, a) /\ q = PieceOf(v, b)
    BY DEF Plain
<1>2. Len(p) \in Nat \ {0} /\ Len(q) \in Nat \ {0}
    BY <1>1, EmptySeq DEF Plain
<1>3. PICK r \in Seq(V) : r = p \o q /\ PieceOf(v, id) = r
    BY <1>1, ConcatProperties DEF Glued
<1>4. /\ Len(r) = Len(p) + Len(q)
      /\ \A i \in 1 .. Len(p) + Len(q) : r[i] = IF i <= Len(p) THEN p[i] ELSE q[i - Len(p)]
    BY <1>3, ConcatProperties
<1>5. \A o \in Ids(v) : \A n \in 1 .. Len(PieceOf(v, o)) :
         PieceOf(v, o)[n] = MARK => n = 1 /\ Len(PieceOf(v, o)) = 2
    BY SpellingAssumption DEF PieceOf
<1>6. a \in Ids(v) /\ b \in Ids(v)
    BY DEF Plain
<1>7. ~ (p[1] = MARK)
    <2>1. SUFFICES ASSUME p[1] = MARK PROVE FALSE
        OBVIOUS
    <2>2. Len(p) = 2
        BY <1>1, <1>2, <1>5, <1>6, <2>1
    <2>3. r[1] = MARK /\ 1 \in 1 .. Len(r)
        BY <1>2, <1>4, <2>1
    <2>4. Len(r) = 2
        BY <1>3, <1>5, <2>3
    <2>5. Len(r) = Len(p) + Len(q)
        BY <1>4
    <2>6. PICK x \in Nat : x = Len(q) /\ x # 0
        BY <1>2
    <2>7. 2 = 2 + x
        BY <2>2, <2>4, <2>5, <2>6, Zenon
    <2> QED
        BY <2>6, <2>7
<1>8. ~ (q[1] = MARK)
    <2>1. SUFFICES ASSUME q[1] = MARK PROVE FALSE
        OBVIOUS
    <2>2. PICK i \in 1 .. Len(r) : i = Len(p) + 1
        BY <1>2, <1>4
    <2>3. r[i] = MARK
        <3>1. i - Len(p) = 1 /\ ~ (i <= Len(p)) /\ i \in 1 .. Len(p) + Len(q)
            BY <1>2, <2>2
        <3> QED
            BY <1>4, <2>1, <3>1
    <2>4. i = 1
        BY <1>3, <1>5, <2>3
    <2> QED
        BY <1>2, <2>2, <2>4
<1>9. r[1] = p[1]
    BY <1>2, <1>4
<1>10. Said(v, a) = p /\ Said(v, b) = q /\ Said(v, id) = r
    BY <1>1, <1>3, <1>7, <1>8, <1>9 DEF Said
<1>11. r # <<>>
    BY <1>2, <1>4
<1>12. Plain(v, t, id)
    BY <1>1, <1>3, <1>9, <1>11 DEF Plain
<1> QED
    BY <1>3, <1>10, <1>12 DEF Glued

\* The elements of a sequence in which two neighbours were replaced by one.
LEMMA MergedElements ==
    ASSUME NEW V, NEW s \in Seq(V), NEW k \in 1 .. Len(s) - 1, NEW x \in V,
           NEW m, m = Merged(s, k, x)
    PROVE  WithMerged(V, s, k, x, m)
<1>1. PICK l \in Nat : l = Len(s)
    OBVIOUS
<1>2. PICK a : a = SubSeq(s, 1, k - 1)
    OBVIOUS
<1>3. PICK b : b = SubSeq(s, k + 2, l)
    OBVIOUS
<1>4. /\ a \in Seq(V) /\ Len(a) = k - 1 /\ \A i \in 1 .. k - 1 : a[i] = s[i]
    <2>1. \A i \in 1 .. k - 1 : s[i] \in V
        BY <1>1
    <2>2. /\ a \in Seq(V) /\ Len(a) = IF 1 <= k - 1 THEN (k - 1) - 1 + 1 ELSE 0
          /\ \A i \in 1 .. (k - 1) - 1 + 1 : a[i] = s[1 + i - 1]
        BY <1>2, <2>1, SubSeqProperties
    <2>3. Len(a) = k - 1
        BY <1>1, <2>2
    <2>4. ASSUME NEW i \in 1 .. k - 1 PROVE a[i] = s[i]
        <3>1. i \in 1 .. (k - 1) - 1 + 1 /\ 1 + i - 1 = i
            BY <1>1
        <3> QED
            BY <2>2, <3>1
    <2> QED
        BY <2>2, <2>3, <2>4
<1>5. /\ b \in Seq(V) /\ Len(b) = l - k - 1
      /\ \A i \in 1 .. l - k - 1 : b[i] = s[(k + 1) + i]
    <2>1. \A i \in k + 2 .. l : s[i] \in V
        BY <1>1
    <2>2. /\ b \in Seq(V) /\ Len(b) = IF k + 2 <= l THEN l - (k + 2) + 1 ELSE 0
          /\ \A i \in 1 .. l - (k + 2) + 1 : b[i] = s[(k + 2) + i - 1]
        BY <1>1, <1>3, <2>1, SubSeqProperties
    <2>3. Len(b) = l - k - 1
        BY <1>1, <2>2
    <2>4. ASSUME NEW i \in 1 .. l - k - 1 PROVE b[i] = s[(k + 1) + i]
        <3>1. i \in 1 .. l - (k + 2) + 1 /\ (k + 2) + i - 1 = (k + 1) + i
            BY <1>1
        <3> QED
            BY <2>2, <3>1
    <2> QED
        BY <2>2, <2>3, <2>4
<1>6. PICK o \in Seq(V) : o = <<x>>
    BY OneElement
<1>7. Len(o) = 1 /\ o[1] = x
    BY <1>6, OneElement
<1>8. PICK c : c = a \o o
    OBVIOUS
<1>9. /\ c \in Seq(V) /\ Len(c) = k
      /\ \A i \in 1 .. k : c[i] = IF i < k THEN s[i] ELSE x
    <2>1. /\ c \in Seq(V) /\ Len(c) = Len(a) + Len(o)
          /\ \A i \in 1 .. Len(a) + Len(o) : c[i] = IF i <= Len(a) THEN a[i] ELSE o[i - Len(a)]
        BY <1>4, <1>6, <1>8, ConcatProperties
    <2>2. Len(a) + Len(o) = k
        BY <1>1, <1>4, <1>7
    <2>3. ASSUME NEW i \in 1 .. k PROVE c[i] = IF i < k THEN s[i] ELSE x
        <3>1. CASE i < k
            <4>1. i <= Len(a) /\ i \in 1 .. Len(a) + Len(o) /\ i \in 1 .. k - 1
                BY <1>1, <1>4, <2>2, <3>1
            <4> QED
                BY <1>4, <2>1, <3>1, <4>1, Zenon
        <3>2. CASE i = k
            <4>1. i - Len(a) = 1 /\ ~ (i <= Len(a))
                BY <1>1, <1>4, <3>2
            <4> QED
                BY <1>7, <2>1, <2>2, <3>2, <4>1
        <3> QED
            BY <3>1, <3>2
    <2> QED
        BY <2>1, <2>2, <2>3
<1>10. m = c \o b
    BY <1>1, <1>2, <1>3, <1>6, <1>8 DEF Merged
<1>11. /\ m \in Seq(V) /\ Len(m) = Len(c) + Len(b)
       /\ \A i \in 1 .. Len(c) + Len(b) : m[i] = IF i <= Len(c) THEN c[i] ELSE b[i - Len(c)]
    <2>1. c \in Seq(V) /\ b \in Seq(V)
        BY <1>5, <1>9
    <2> QED
        BY <1>10, <2>1, ConcatProperties
<1>12. Len(c) + Len(b) = l - 1
    <2>1. Len(c) = k /\ Len(b) = l - k - 1 /\ k \in Int
        BY <1>1, <1>5, <1>9
    <2> QED
        BY <2>1
<1>13. ASSUME NEW i \in 1 .. l - 1
       PROVE  m[i] = IF i < k THEN s[i] ELSE IF i = k THEN x ELSE s[i + 1]
    <2>1. CASE i <= k
        <3>1. m[i] = c[i]
            BY <1>9, <1>11, <1>12, <2>1
        <3> QED
            BY <1>1, <1>9, <2>1, <3>1
    <2>2. CASE i > k
        <3>1. i - k \in 1 .. l - k - 1 /\ (k + 1) + (i - k) = i + 1 /\ ~ (i <= k)
            BY <1>1, <2>2
        <3>2. m[i] = b[i - k]
            BY <1>9, <1>11, <1>12, <3>1
        <3>3. b[i - k] = s[i + 1]
            BY <1>5, <3>1
        <3>4. ~ (i < k) /\ i # k
            BY <1>1, <2>2
        <3> QED
            BY <3>2, <3>3, <3>4, Zenon
    <2>3. i <= k \/ i > k
        BY <1>1
    <2> QED
        BY <2>1, <2>2, <2>3, Zenon
<1> QED
    BY <1>1, <1>11, <1>12, <1>13 DEF WithMerged

\* Two neighbours merged.
LEMMA SpeltMerged ==
    ASSUME NEW v \in DOMAIN Vocabs, NEW t \in Seq(Bytes), NEW end \in Nat,
           end <= Len(Full(v, t)), NEW toks, Spelt(v, t, end, toks),
           NEW k \in 1 .. Len(toks) - 1, NEW id \in Ids(v),
           PieceOf(v, id) = Glued(PieceOf(v, toks[k]), PieceOf(v, toks[k + 1])),
           NEW m, m = Merged(toks, k, id)
    PROVE  Spelt(v, t, end, m) /\ k >= 2
<1>0. v \in DOMAIN Vocabs /\ id \in Ids(v)
    OBVIOUS
<1>1. toks \in Seq(Ids(v)) /\ Len(toks) >= 1 /\ toks[1] = BOS
    BY DEF Spelt
<1>2. PICK n \in Nat : Len(toks) = n + 1
    <2>1. Len(toks) \in Nat
        BY <1>1
    <2>2. Len(toks) - 1 \in Nat /\ Len(toks) = (Len(toks) - 1) + 1
        BY <1>1, <2>1
    <2> QED
        BY <2>2, Zenon
<1>3. k \in 1 .. n /\ k + 1 \in 1 .. n + 1 /\ k \in 1 .. n + 1
    BY <1>2
<1>4. k >= 2
    <2>1. SUFFICES ASSUME k = 1 PROVE FALSE
        BY <1>3
    <2>2. toks[k + 1] \in Ids(v)
        BY <1>1, <1>2, <1>3
    <2>3. PieceOf(v, id) = PieceOf(v, BOS) \o PieceOf(v, toks[k + 1])
        BY <1>1, <2>1 DEF Glued
    <2> QED
        BY <2>2, <2>3, SpellingAssumption DEF PieceOf
<1>5. Plain(v, t, toks[k]) /\ Plain(v, t, toks[k + 1])
    <2>1. k \in 2 .. Len(toks) /\ k + 1 \in 2 .. Len(toks)
        BY <1>2, <1>3, <1>4
    <2> QED
        BY <2>1 DEF Spelt
<1>6. Plain(v, t, id) /\ Said(v, id) = Glued(Said(v, toks[k]), Said(v, toks[k + 1]))
    <2>1. PICK a, b : a = toks[k] /\ b = toks[k + 1]
        OBVIOUS
    <2>2. Plain(v, t, a) /\ Plain(v, t, b) /\ PieceOf(v, id) = Glued(PieceOf(v, a), PieceOf(v, b))
        BY <1>5, <2>1, Zenon
    <2>3. Plain(v, t, id) /\ Said(v, id) = Glued(Said(v, a), Said(v, b))
        BY ONLY <1>0, <2>2, JoinedSaid
    <2> QED
        BY <2>1, <2>3, Zenon
<1>7. /\ m \in Seq(Ids(v)) /\ Len(m) = n
      /\ \A i \in 1 .. n : m[i] = IF i < k THEN toks[i] ELSE IF i = k THEN id ELSE toks[i + 1]
    <2>1. /\ m \in Seq(Ids(v)) /\ Len(m) = Len(toks) - 1
          /\ \A i \in 1 .. Len(toks) - 1 :
                m[i] = IF i < k THEN toks[i] ELSE IF i = k THEN id ELSE toks[i + 1]
        <3>1. PICK I : I = Ids(v)
            OBVIOUS
        <3>2. /\ toks \in Seq(I) /\ k \in 1 .. Len(toks) - 1 /\ id \in I
              /\ m = Merged(toks, k, id)
            BY <1>1, <3>1
        <3>3. WithMerged(I, toks, k, id, m)
            BY <3>2, MergedElements
        <3> QED
            BY <3>1, <3>3, Zenon DEF WithMerged
    <2>2. Len(toks) - 1 = n
        BY <1>2
    <2> QED
        BY <2>1, <2>2, Zenon
<1>8. PICK c : Cuts(v, t, toks, c, end)
    BY DEF Spelt
<1>9. /\ c \in [0 .. n -> Nat] /\ c[0] = 0 /\ c[n] = end
      /\ \A i \in 1 .. n : /\ c[i - 1] < c[i] /\ c[i] <= end
                           /\ Said(v, toks[i + 1]) = SubSeq(Full(v, t), c[i - 1] + 1, c[i])
    <2>1. Len(toks) - 1 = n
        BY <1>2
    <2> QED
        BY <1>8, <2>1, Zenon DEF Cuts
<1> DEFINE e == [i \in 0 .. n - 1 |-> IF i < k - 1 THEN c[i] ELSE c[i + 1]]
<1>10. ASSUME NEW i \in 1 .. n
       PROVE  /\ c[i - 1] \in Nat /\ c[i] \in Nat /\ c[i - 1] < c[i] /\ c[i] <= end
              /\ Said(v, toks[i + 1]) = SubSeq(Full(v, t), c[i - 1] + 1, c[i])
    <2>1. i - 1 \in 0 .. n /\ i \in 0 .. n
        OBVIOUS
    <2> QED
        BY <1>9, <2>1, Zenon
<1>11. e \in [0 .. n - 1 -> Nat] /\ e[0] = 0 /\ e[n - 1] = end
    <2>1. ASSUME NEW i \in 0 .. n - 1 PROVE i \in 0 .. n /\ i + 1 \in 0 .. n
        OBVIOUS
    <2>2. 0 \in 0 .. n - 1 /\ 0 < k - 1 /\ n - 1 \in 0 .. n - 1 /\ ~ (n - 1 < k - 1) /\ (n - 1) + 1 = n
        BY <1>3, <1>4
    <2>3. e[0] = c[0] /\ e[n - 1] = c[(n - 1) + 1]
        BY <2>2
    <2>4. e \in [0 .. n - 1 -> Nat]
        BY <1>9, <2>1
    <2> HIDE DEF e
    <2> QED
        BY <1>9, <2>2, <2>3, <2>4
<1>12. ASSUME NEW i \in 1 .. n - 1
       PROVE  /\ e[i - 1] < e[i] /\ e[i] <= end
              /\ Said(v, m[i + 1]) = SubSeq(Full(v, t), e[i - 1] + 1, e[i])
    <2>1. i \in 1 .. n /\ i + 1 \in 1 .. n /\ (i + 1) - 1 = i /\ (i - 1) + 1 = i
        OBVIOUS
    <2>2. /\ e[i - 1] = (IF i - 1 < k - 1 THEN c[i - 1] ELSE c[i])
          /\ e[i] = (IF i < k - 1 THEN c[i] ELSE c[i + 1])
        BY <2>1
    <2> HIDE DEF e
    <2>3. CASE i < k - 1
        <3>1. i - 1 < k - 1 /\ i + 1 < k
            BY <1>3, <2>3
        <3>2. e[i - 1] = c[i - 1] /\ e[i] = c[i] /\ m[i + 1] = toks[i + 1]
            BY <1>7, <2>1, <2>2, <2>3, <3>1, Zenon
        <3> QED
            BY <1>10, <2>1, <3>2, Zenon
    <2>4. CASE i = k - 1
        <3>1. i - 1 < k - 1 /\ ~ (i < k - 1) /\ i + 1 = k /\ ~ (i + 1 < k)
            BY <1>3, <2>4
        <3>2. e[i - 1] = c[i - 1] /\ e[i] = c[i + 1] /\ m[i + 1] = id
            BY <1>7, <2>1, <2>2, <3>1, Zenon
        <3>3. PICK a \in Nat, b \in Nat, d \in Nat : a = c[i - 1] /\ b = c[i] /\ d = c[i + 1]
            BY <1>10, <2>1
        <3>4. a < b /\ b <= end /\ Said(v, toks[k]) = SubSeq(Full(v, t), a + 1, b)
            BY <1>10, <2>1, <3>1, <3>3, Zenon
        <3>5. b < d /\ d <= end /\ Said(v, toks[k + 1]) = SubSeq(Full(v, t), b + 1, d)
            BY <1>10, <2>1, <3>1, <3>3, Zenon
        <3>6. PICK F \in Seq(Bytes) : F = Full(v, t) /\ end <= Len(F)
            BY LeadIs
        <3>7. SubSeq(F, a + 1, b) \o SubSeq(F, b + 1, d) = SubSeq(F, a + 1, d)
            <4>1. /\ a + 1 \in 1 .. Len(F) + 1 /\ b \in (a + 1) - 1 .. Len(F)
                  /\ d \in b .. Len(F)
                BY <3>4, <3>5, <3>6
            <4> QED
                BY <4>1, ConcatAdjacentSubSeq
        <3>8. Said(v, id) = SubSeq(F, a + 1, d)
            BY <1>6, <3>4, <3>5, <3>6, <3>7 DEF Glued
        <3>9. a < d
            BY <3>4, <3>5
        <3> QED
            BY <3>2, <3>3, <3>5, <3>6, <3>8, <3>9
    <2>5. CASE i > k - 1
        <3>1. ~ (i - 1 < k - 1) /\ ~ (i < k - 1) /\ ~ (i + 1 < k) /\ i + 1 # k
            BY <1>3, <2>5
        <3>2. e[i - 1] = c[i] /\ e[i] = c[i + 1] /\ m[i + 1] = toks[(i + 1) + 1]
            BY <1>7, <2>1, <2>2, <3>1, Zenon
        <3>3. /\ c[(i + 1) - 1] < c[i + 1] /\ c[i + 1] <= end
              /\ Said(v, toks[(i + 1) + 1]) = SubSeq(Full(v, t), c[(i + 1) - 1] + 1, c[i + 1])
            BY <1>10, <2>1, Zenon
        <3> QED
            BY <2>1, <3>2, <3>3, Zenon
    <2>6. i < k - 1 \/ i = k - 1 \/ i > k - 1
        BY <1>3
    <2> QED
        BY <2>3, <2>4, <2>5, <2>6, Zenon
<1>13. Cuts(v, t, m, e, end)
    <2> HIDE DEF e
    <2> QED
        BY <1>7, <1>11, <1>12, Zenon DEF Cuts
<1>14. ASSUME NEW i \in 2 .. Len(m) PROVE Plain(v, t, m[i])
    <2>1. i \in 1 .. n /\ i \in 2 .. Len(toks) /\ i + 1 \in 2 .. Len(toks)
        <3>1. Len(m) = n /\ Len(toks) = n + 1
            BY <1>2, <1>7
        <3> HIDE DEF e
        <3> QED
            BY <3>1
    <2>2. Plain(v, t, toks[i]) /\ Plain(v, t, toks[i + 1])
        BY <2>1 DEF Spelt
    <2>3. m[i] \in {toks[i], id, toks[i + 1]}
        BY <1>7, <2>1
    <2> QED
        BY <1>6, <2>2, <2>3
<1>15. Len(m) >= 1 /\ m[1] = BOS
    <2>1. 1 \in 1 .. n /\ 1 < k
        BY <1>3, <1>4
    <2>2. m[1] = toks[1]
        BY <1>7, <2>1
    <2>3. Len(m) = n /\ n >= 1
        <3>1. n >= 1
            BY <2>1
        <3> QED
            BY <1>7, <3>1, Zenon
    <2> QED
        BY <1>1, <2>2, <2>3
<1>16. Spelt(v, t, end, m)
    <2> HIDE DEF e
    <2> QED
        BY <1>7, <1>13, <1>14, <1>15, Zenon DEF Spelt
<1> QED
    BY <1>4, <1>16

Concats(c, m, inc) == c = [n \in 0 .. m |-> IF n = 0 THEN <<>> ELSE c[n - 1] \o inc[n]]

\* Strings put one behind the other: there is only one result.
LEMMA ConcatsUp ==
    ASSUME NEW m \in Nat, NEW inc, NEW f, f[0] = <<>>,
           \A n \in 1 .. m : f[n] = f[n - 1] \o inc[n],
           NEW d, d = CHOOSE c : Concats(c, m, inc)
    PROVE  d[m] = f[m]
<1> DEFINE g == [n \in 0 .. m |-> f[n]]
<1>1. Concats(g, m, inc)
    <2>1. ASSUME NEW n \in 0 .. m PROVE f[n] = IF n = 0 THEN <<>> ELSE g[n - 1] \o inc[n]
        <3>1. CASE n # 0
            <4>1. n \in 1 .. m /\ n - 1 \in 0 .. m
                BY <3>1
            <4>2. g[n - 1] = f[n - 1]
                BY <4>1
            <4> QED
                BY <3>1, <4>1, <4>2
        <3> QED
            BY <3>1
    <2>2. g = [n \in 0 .. m |-> f[n]]
        OBVIOUS
    <2> HIDE DEF g
    <2>3. [n \in 0 .. m |-> f[n]] = [n \in 0 .. m |-> IF n = 0 THEN <<>> ELSE g[n - 1] \o inc[n]]
        BY <2>1, Zenon
    <2> QED
        BY <2>2, <2>3, Zenon DEF Concats
<1> HIDE DEF g
<1>2. Concats(d, m, inc)
    BY <1>1, Zenon
<1>3. d[0] = <<>> /\ \A n \in 1 .. m : d[n] = d[n - 1] \o inc[n]
    <2>1. ASSUME NEW n \in 0 .. m PROVE d[n] = IF n = 0 THEN <<>> ELSE d[n - 1] \o inc[n]
        BY <1>2, Zenon DEF Concats
    <2>2. 0 \in 0 .. m
        OBVIOUS
    <2>3. ASSUME NEW n \in 1 .. m PROVE n \in 0 .. m /\ n # 0
        OBVIOUS
    <2> QED
        BY <2>1, <2>2, <2>3, Zenon
<1> DEFINE S == {n \in Nat : n <= m => d[n] = f[n]}
<1>4. 0 \in S
    BY <1>3
<1>5. ASSUME NEW n \in Nat, n \in S PROVE n + 1 \in S
    <2>1. SUFFICES ASSUME n + 1 <= m PROVE d[n + 1] = f[n + 1]
        OBVIOUS
    <2>2. n + 1 \in 1 .. m /\ (n + 1) - 1 = n /\ d[n] = f[n]
        BY <1>5, <2>1
    <2> QED
        BY <1>3, <2>2
<1>6. m \in S
    <2> HIDE DEF S
    <2> QED
        BY <1>4, <1>5, SetInduction
<1> QED
    BY <1>6

\* The space in front is the first byte of the token behind the opening one.
Opens(v, t, toks) ==
    Lead(v, t) # <<>> => Len(toks) >= 2 /\ PieceOf(v, toks[2])[1] = SPACE

\* What tq_decode writes for a token.
LEMMA DecodedIs ==
    ASSUME vocab \in DOMAIN Vocabs, NEW t, NEW id, Plain(vocab, t, id), NEW prev
    PROVE  /\ prev # BOS \/ PieceOf(vocab, id)[1] # SPACE => Decoded(prev, id) = Said(vocab, id)
           /\ prev = BOS /\ PieceOf(vocab, id)[1] = SPACE =>
                 Decoded(prev, id) = Tail(Said(vocab, id))
           /\ id # BOS
<1> DEFINE V == Bytes \cup {MARK}
<1>1. PICK p \in Seq(V) : p = PieceOf(vocab, id) /\ p # <<>>
    BY DEF Plain
<1>2. id \in Ids(vocab) /\ Len(p) \in Nat \ {0}
    BY <1>1, EmptySeq DEF Plain
<1>3. \A n \in 1 .. Len(p) : p[n] = MARK => n = 1 /\ Len(p) = 2
    BY <1>1, <1>2, SpellingAssumption, ZenonT(40) DEF PieceOf
<1>4. OutBytes \in Nat /\ Len(p) < OutBytes
    BY <1>1, <1>2, TokenizerAssumption DEF PieceOf
<1>5. Piece(id) = p
    BY <1>1 DEF Piece, PieceOf
<1>6. ~ (Len(p) + 1 > OutBytes)
    BY <1>2, <1>4
<1>7. Said(vocab, id) = IF Len(p) = 2 /\ p[1] = MARK THEN <<p[2]>> ELSE p
    BY <1>1 DEF Said
<1>8. ASSUME prev # BOS \/ p[1] # SPACE PROVE Decoded(prev, id) = Said(vocab, id)
    BY <1>5, <1>6, <1>7, <1>8 DEF Decoded
<1>9. ASSUME prev = BOS, p[1] = SPACE PROVE Decoded(prev, id) = Tail(Said(vocab, id))
    <2>1. MARK # SPACE
        BY TokenizerAssumption
    <2>2. Said(vocab, id) = p
        BY <1>7, <1>9, <2>1
    <2>3. PICK q \in Seq(V) : q = Tail(p)
        BY <1>1, HeadTailProperties
    <2>4. Len(q) = Len(p) - 1 /\ \A n \in 1 .. Len(p) - 1 : q[n] = p[n + 1]
        BY <1>1, <1>2, <2>3, HeadTailProperties
    <2>5. ~ (Len(q) = 2 /\ q[1] = MARK)
        <3>1. SUFFICES ASSUME Len(q) = 2, q[1] = MARK PROVE FALSE
            OBVIOUS
        <3>2. 1 \in 1 .. Len(p) - 1 /\ 1 + 1 \in 1 .. Len(p) /\ 1 + 1 # 1
            BY <1>2, <2>4, <3>1
        <3> QED
            BY <1>3, <2>4, <3>1, <3>2
    <2>6. ~ (Len(q) + 1 > OutBytes)
        BY <1>2, <1>4, <2>4
    <2>7. Decoded(prev, id) = q
        <3>1. (IF prev = BOS /\ p # <<>> /\ p[1] = SPACE THEN Tail(p) ELSE p) = q
            BY <1>1, <1>9, <2>3
        <3> QED
            BY <1>5, <2>5, <2>6, <3>1 DEF Decoded
    <2> QED
        BY <2>2, <2>3, <2>7
<1>10. id # BOS
    <2>1. SUFFICES ASSUME id = BOS PROVE FALSE
        OBVIOUS
    <2>2. PICK n \in 1 .. Len(p) : p[n] \notin V
        BY <1>1, <1>2, <2>1, SpellingAssumption DEF PieceOf
    <2> QED
        BY <1>1, <2>2
<1> QED
    BY <1>1, <1>8, <1>9, <1>10

\* The empty part of a string.
LEMMA EmptyPart ==
    ASSUME NEW V, NEW s \in Seq(V), NEW i \in Int, NEW j \in Int, i > j
    PROVE  SubSeq(s, i, j) = <<>>
BY SubSeqEmpty

\* What stands behind the first byte of a part.
LEMMA TailOfPart ==
    ASSUME NEW V, NEW s \in Seq(V), NEW j \in 1 .. Len(s)
    PROVE  Tail(SubSeq(s, 1, j)) = SubSeq(s, 2, j)
<1>1. PICK p \in Seq(V) : p = SubSeq(s, 1, j) /\ Len(p) = j /\ \A i \in 1 .. j : p[i] = s[i]
    <2>1. \A i \in 1 .. j : s[i] \in V
        OBVIOUS
    <2>2. /\ SubSeq(s, 1, j) \in Seq(V)
          /\ Len(SubSeq(s, 1, j)) = IF 1 <= j THEN j - 1 + 1 ELSE 0
          /\ \A i \in 1 .. j - 1 + 1 : SubSeq(s, 1, j)[i] = s[1 + i - 1]
        BY <2>1, SubSeqProperties
    <2>3. Len(SubSeq(s, 1, j)) = j
        BY <2>2
    <2>4. ASSUME NEW i \in 1 .. j PROVE SubSeq(s, 1, j)[i] = s[i]
        <3>1. i \in 1 .. j - 1 + 1 /\ 1 + i - 1 = i
            OBVIOUS
        <3> QED
            BY <2>2, <3>1
    <2> QED
        BY <2>2, <2>3, <2>4
<1>2. PICK q \in Seq(V) : q = Tail(p) /\ Len(q) = j - 1 /\ \A i \in 1 .. j - 1 : q[i] = p[i + 1]
    <2>1. p # <<>>
        BY <1>1
    <2>2. Tail(p) \in Seq(V) /\ Len(Tail(p)) = Len(p) - 1 /\ \A i \in 1 .. Len(p) - 1 : Tail(p)[i] = p[i + 1]
        BY <2>1, HeadTailProperties
    <2> QED
        BY <1>1, <2>2
<1>3. PICK r \in Seq(V) : r = SubSeq(s, 2, j) /\ Len(r) = j - 1 /\ \A i \in 1 .. j - 1 : r[i] = s[i + 1]
    <2>1. \A i \in 2 .. j : s[i] \in V
        OBVIOUS
    <2>2. /\ SubSeq(s, 2, j) \in Seq(V)
          /\ Len(SubSeq(s, 2, j)) = IF 2 <= j THEN j - 2 + 1 ELSE 0
          /\ \A i \in 1 .. j - 2 + 1 : SubSeq(s, 2, j)[i] = s[2 + i - 1]
        BY <2>1, SubSeqProperties
    <2>3. Len(SubSeq(s, 2, j)) = j - 1
        BY <2>2
    <2>4. ASSUME NEW i \in 1 .. j - 1 PROVE SubSeq(s, 2, j)[i] = s[i + 1]
        <3>1. i \in 1 .. j - 2 + 1 /\ 2 + i - 1 = i + 1
            OBVIOUS
        <3> QED
            BY <2>2, <3>1
    <2> QED
        BY <2>2, <2>3, <2>4
<1>4. \A i \in 1 .. j - 1 : q[i] = r[i]
    BY <1>1, <1>2, <1>3
<1>5. q = r
    BY <1>2, <1>3, <1>4, SeqEqual
<1> QED
    BY <1>1, <1>2, <1>3, <1>5

\* Decoded token by token, a text that was spelled to its end is printed.
LEMMA PrintedIs ==
    ASSUME vocab \in DOMAIN Vocabs, text \in Seq(Bytes),
           Spelt(vocab, text, Len(Full(vocab, text)), tokens), Opens(vocab, text, tokens),
           got = msg
    PROVE  Printed = text
<1> DEFINE F == Full(vocab, text)
           d == Len(Lead(vocab, text))
           id(n) == IF n = 0 THEN BOS ELSE got[n] - 1
<1>1. /\ F \in Seq(Bytes) /\ Len(F) \in Nat /\ Len(text) \in Nat
      /\ d \in {0, 1} /\ Len(F) = d + Len(text)
      /\ d = 0 <=> Lead(vocab, text) = <<>>
      /\ d = 1 => text # <<>>
    BY LeadIs
<1>2. tokens \in Seq(Ids(vocab)) /\ Len(tokens) >= 1 /\ tokens[1] = BOS
    BY DEF Spelt
<1>3. PICK N \in Nat : N = Len(tokens) - 1 /\ Len(tokens) = N + 1
    <2>1. Len(tokens) \in Nat
        BY <1>2
    <2>2. Len(tokens) - 1 \in Nat /\ Len(tokens) = (Len(tokens) - 1) + 1
        BY <1>2, <2>1
    <2> QED
        BY <2>2, Zenon
<1>4. PICK c : Cuts(vocab, text, tokens, c, Len(F))
    BY DEF Spelt
<1>5. /\ c \in [0 .. N -> Nat] /\ c[0] = 0 /\ c[N] = Len(F)
      /\ \A i \in 1 .. N : /\ c[i - 1] < c[i] /\ c[i] <= Len(F)
                           /\ Said(vocab, tokens[i + 1]) = SubSeq(F, c[i - 1] + 1, c[i])
    BY <1>3, <1>4, Zenon DEF Cuts
<1>6. ASSUME NEW i \in 1 .. N
      PROVE  /\ c[i - 1] \in Nat /\ c[i] \in Nat /\ c[i - 1] < c[i] /\ c[i] <= Len(F)
             /\ Said(vocab, tokens[i + 1]) = SubSeq(F, c[i - 1] + 1, c[i])
    <2>1. i - 1 \in 0 .. N /\ i \in 0 .. N
        OBVIOUS
    <2> HIDE DEF F, d, id
    <2> QED
        BY <1>5, <2>1, Zenon
<1>7. got \in Seq(Int) /\ Len(got) = N
    <2>1. \A n \in 1 .. N : tokens[n + 1] \in Ids(vocab)
        BY <1>2, <1>3
    <2>2. \A n \in 1 .. N : tokens[n + 1] + 1 \in Int
        BY <2>1, VocabIs
    <2>3. got = [n \in 1 .. N |-> tokens[n + 1] + 1]
        BY <1>3, Zenon DEF msg
    <2>4. got \in [1 .. N -> Int]
        BY <2>2, <2>3
    <2> QED
        BY <2>4
<1>8. ASSUME NEW n \in 0 .. N PROVE id(n) = tokens[n + 1]
    <2>1. CASE n = 0
        BY <1>2, <2>1
    <2>2. CASE n # 0
        <3>1. n \in 1 .. Len(tokens) - 1 /\ n + 1 \in 1 .. Len(tokens)
            BY <1>3, <2>2
        <3>2. got[n] = tokens[n + 1] + 1
            BY <3>1 DEF msg
        <3>3. tokens[n + 1] \in Int
            BY <1>2, <3>1, VocabIs, SMTT(30)
        <3> QED
            BY <2>2, <3>2, <3>3
    <2> QED
        BY <2>1, <2>2
<1> DEFINE inc == [n \in 1 .. N |-> Decoded(id(n - 1), id(n))]
           f == [n \in 0 .. N |-> SubSeq(F, d + 1, c[n])]
<1> HIDE DEF F, d, id
<1>9. ASSUME NEW i \in 1 .. N PROVE c[i] >= 1
    BY <1>6
<1>10. f[0] = <<>>
    <2>1. f[0] = SubSeq(F, d + 1, 0)
        <3>1. 0 \in 0 .. N
            OBVIOUS
        <3>2. f[0] = SubSeq(F, d + 1, c[0])
            BY <3>1, Zenon
        <3> QED
            BY <1>5, <3>2, Zenon
    <2>2. d + 1 > 0 /\ d + 1 \in Int
        BY <1>1
    <2> HIDE DEF f
    <2> QED
        BY <1>1, <2>1, <2>2, EmptyPart
<1>11. ASSUME NEW n \in 1 .. N PROVE f[n] = f[n - 1] \o inc[n]
    <2>0. n - 1 \in 0 .. N /\ n \in 0 .. N /\ n + 1 \in 2 .. N + 1 /\ (n - 1) + 1 = n
        OBVIOUS
    <2>1. id(n - 1) = tokens[n] /\ id(n) = tokens[n + 1]
        BY <1>8, <2>0
    <2>2. Plain(vocab, text, tokens[n + 1])
        BY <1>3, <2>0 DEF Spelt
    <2>3. inc[n] = Decoded(tokens[n], tokens[n + 1])
        BY <2>1
    <2>4. f[n] = SubSeq(F, d + 1, c[n]) /\ f[n - 1] = SubSeq(F, d + 1, c[n - 1])
        BY <2>0
    <2> HIDE DEF f, inc
    <2>5. PICK a \in Nat, b \in Nat : a = c[n - 1] /\ b = c[n]
        BY <1>6
    <2>6. a < b /\ b <= Len(F) /\ Said(vocab, tokens[n + 1]) = SubSeq(F, a + 1, b)
        BY <1>6, <2>5
    <2>7. CASE n = 1
        <3>1. a = 0 /\ tokens[n] = BOS
            BY <1>2, <1>5, <2>5, <2>7
        <3>2. f[n - 1] = <<>>
            BY <1>10, <2>7
        <3>3. inc[n] = SubSeq(F, d + 1, b)
            <4>1. CASE d = 0
                <5>1. PieceOf(vocab, tokens[n + 1])[1] # SPACE
                    BY <1>1, <2>2, <4>1 DEF Plain
                <5>2. inc[n] = Said(vocab, tokens[n + 1])
                    BY <2>2, <2>3, <5>1, DecodedIs
                <5> QED
                    BY <2>6, <3>1, <4>1, <5>2
            <4>2. CASE d = 1
                <5>1. PieceOf(vocab, tokens[n + 1])[1] = SPACE
                    <6>1. Lead(vocab, text) # <<>> /\ n + 1 = 2
                        BY <1>1, <2>7, <4>2
                    <6> QED
                        BY <6>1 DEF Opens
                <5>2. inc[n] = Tail(Said(vocab, tokens[n + 1]))
                    BY <2>2, <2>3, <3>1, <5>1, DecodedIs
                <5>3. b \in 1 .. Len(F)
                    BY <2>6, <3>1
                <5>4. Tail(SubSeq(F, 1, b)) = SubSeq(F, 2, b)
                    BY <1>1, <5>3, TailOfPart
                <5>5. a + 1 = 1 /\ d + 1 = 2
                    BY <3>1, <4>2
                <5> QED
                    BY <2>6, <5>2, <5>4, <5>5
            <4> QED
                BY <1>1, <4>1, <4>2
        <3>4. PICK s \in Seq(Bytes) : s = SubSeq(F, d + 1, b)
            <4>1. \A i \in d + 1 .. b : F[i] \in Bytes
                BY <1>1, <2>6
            <4>2. SubSeq(F, d + 1, b) \in Seq(Bytes)
                <5>1. d + 1 \in Int
                    BY <1>1
                <5> QED
                    BY <4>1, <5>1, SubSeqProperties
            <4> QED
                BY <4>2
        <3>5. <<>> \o s = s
            OBVIOUS
        <3> QED
            BY <2>4, <2>5, <3>2, <3>3, <3>4, <3>5
    <2>8. CASE n # 1
        <3>1. n - 1 \in 1 .. N /\ n \in 2 .. N + 1
            BY <2>8
        <3>2. Plain(vocab, text, tokens[n])
            BY <1>3, <3>1 DEF Spelt
        <3>3. tokens[n] # BOS
            BY <3>2, DecodedIs
        <3>4. inc[n] = SubSeq(F, a + 1, b)
            BY <2>2, <2>3, <2>6, <3>3, DecodedIs
        <3>5. a >= 1
            BY <1>9, <2>5, <3>1
        <3>6. d + 1 \in 1 .. Len(F) + 1 /\ a \in (d + 1) - 1 .. Len(F) /\ b \in a .. Len(F)
            BY <1>1, <2>6, <3>5
        <3>7. SubSeq(F, d + 1, a) \o SubSeq(F, a + 1, b) = SubSeq(F, d + 1, b)
            BY <1>1, <3>6, ConcatAdjacentSubSeq
        <3> QED
            BY <2>4, <2>5, <3>4, <3>7
    <2> QED
        BY <2>7, <2>8
<1>12. f[N] = text
    <2>1. f[N] = SubSeq(F, d + 1, Len(F))
        <3>1. N \in 0 .. N
            OBVIOUS
        <3>2. f[N] = SubSeq(F, d + 1, c[N])
            BY <3>1, Zenon
        <3> QED
            BY <1>5, <3>2, Zenon
    <2> HIDE DEF f
    <2>2. CASE text = <<>>
        <3>1. Len(text) = 0 /\ d = 0
            BY <1>1, <2>2
        <3>2. d + 1 > Len(F) /\ d + 1 \in Int /\ Len(F) \in Int
            BY <1>1, <3>1
        <3> QED
            BY <1>1, <2>1, <2>2, <3>2, EmptyPart
    <2>3. CASE text # <<>>
        <3>1. PICK l \in Nat : l = Len(text) /\ l >= 1
            BY <1>1, <2>3, EmptySeq
        <3>2. 1 \in 1 .. Len(text) /\ l \in 1 .. Len(text)
            BY <3>1
        <3>3. SubSeq(F, d + 1, d + l) = SubSeq(text, 1, l)
            BY <3>2, FullPart DEF F, d
        <3>4. SubSeq(text, 1, l) = text
            BY <3>1, SubSeqFull
        <3> QED
            BY <1>1, <2>1, <3>1, <3>3, <3>4
    <2> QED
        BY <2>2, <2>3
<1>13. ASSUME NEW up PROVE Concats(up, N, inc) <=>
             up = [n \in 0 .. N |-> IF n = 0 THEN <<>> ELSE up[n - 1] \o Decoded(id(n - 1), id(n))]
    <2>1. ASSUME NEW n \in 0 .. N
          PROVE (IF n = 0 THEN <<>> ELSE up[n - 1] \o inc[n])
                  = IF n = 0 THEN <<>> ELSE up[n - 1] \o Decoded(id(n - 1), id(n))
        <3>1. CASE n = 0
            BY <3>1
        <3>2. CASE n # 0
            <4>1. n \in 1 .. N
                BY <3>2
            <4>2. inc[n] = Decoded(id(n - 1), id(n))
                BY <4>1
            <4> HIDE DEF inc
            <4> QED
                BY <3>2, <4>2, Zenon
        <3> QED
            BY <3>1, <3>2
    <2> HIDE DEF inc
    <2>2. [n \in 0 .. N |-> IF n = 0 THEN <<>> ELSE up[n - 1] \o inc[n]]
            = [n \in 0 .. N |-> IF n = 0 THEN <<>> ELSE up[n - 1] \o Decoded(id(n - 1), id(n))]
        BY <2>1, Zenon
    <2> QED
        BY <2>2, Zenon DEF Concats
<1> HIDE DEF f, inc
<1>14. PICK up : up = (CHOOSE u : Concats(u, N, inc)) /\ Printed = up[N]
    <2>1. (CHOOSE u : Concats(u, N, inc)) =
             CHOOSE u : u = [n \in 0 .. N |-> IF n = 0 THEN <<>>
                                              ELSE u[n - 1] \o Decoded(id(n - 1), id(n))]
        BY <1>13, Zenon
    <2> QED
        BY <1>7, <2>1 DEF Printed, id
<1>15. up[N] = f[N]
    BY <1>10, <1>11, <1>14, ConcatsUp
<1> QED
    BY <1>12, <1>14, <1>15

\* tq_encode between its steps: what has been split is spelled by the tokens.
TokTypes(v, t, most, pc, at, toks) ==
    /\ v \in DOMAIN Vocabs /\ t \in Seq(Bytes) /\ most \in Nat
    /\ pc \in {"start", "split", "merge", "encoded", "failed"}
    /\ at \in 0 .. Len(t)
    /\ toks \in Seq(Ids(v)) /\ Len(toks) <= most
Spelling(v, t, pc, at, toks) ==
    /\ pc = "start" => toks = <<>> /\ at = 0
    /\ pc \in {"split", "merge", "encoded"} =>
          Spelt(v, t, Len(Lead(v, t)) + at, toks) /\ Opens(v, t, toks)
    /\ pc \in {"merge", "encoded"} => at = Len(t)
TokOK(v, t, most, pc, at, toks) ==
    TokTypes(v, t, most, pc, at, toks) /\ Spelling(v, t, pc, at, toks)
TokInv == TokOK(vocab, text, max_tokens, tpc, split, tokens)

\* The empty array in front.
LEMMA NothingInFront ==
    ASSUME NEW V, NEW s \in Seq(V)
    PROVE  <<>> \o s = s
OBVIOUS

\* A piece that was looked up: found or not there.
LEMMA Found ==
    ASSUME vocab \in DOMAIN Vocabs, NEW s \in Seq(Nat)
    PROVE  /\ tq_lookup(s) >= 0 => tq_lookup(s) \in Ids(vocab) /\ PieceOf(vocab, tq_lookup(s)) = s
           /\ ~ (tq_lookup(s) >= 0) => \A id \in Ids(vocab) : PieceOf(vocab, id) # s
<1>1. PICK id : id = tq_lookup(s)
    OBVIOUS
<1>2. \/ id = -1 /\ \A o \in Ids(vocab) : Piece(o) # s
      \/ id \in Ids(vocab) /\ Piece(id) = s
    BY <1>1, LookupFinds
<1>3. id \in Ids(vocab) => id >= 0
    BY VocabIs
<1>4. \A o : Piece(o) = PieceOf(vocab, o)
    BY DEF Piece, PieceOf
<1> QED
    BY <1>1, <1>2, <1>3, <1>4

\* The tokens tq_encode starts with.
StartIds ==
    IF text # <<>> /\ tq_lookup(<<SPACE>>) >= 0
    THEN <<BOS, tq_lookup(<<SPACE>>)>> ELSE <<BOS>>

\* What tokenizing starts with spells the space put in front.
LEMMA StartSays ==
    ASSUME vocab \in DOMAIN Vocabs, text \in Seq(Bytes)
    PROVE  /\ StartIds \in Seq(Ids(vocab))
           /\ Spelt(vocab, text, Len(Lead(vocab, text)), StartIds)
           /\ Opens(vocab, text, StartIds)
<1>1. SPACE \in Bytes /\ Bytes \subseteq Nat
    BY TokenizerAssumption
<1>2. PICK s \in Seq(Nat) : s = <<SPACE>>
    <2>1. SPACE \in Nat
        BY <1>1
    <2> QED
        BY <2>1, OneElement
<1>3. PICK id : id = tq_lookup(s)
    OBVIOUS
<1>4. /\ id >= 0 => id \in Ids(vocab) /\ PieceOf(vocab, id) = s
      /\ ~ (id >= 0) => \A o \in Ids(vocab) : PieceOf(vocab, o) # s
    BY <1>3, Found
<1>5. CASE text # <<>> /\ id >= 0
    <2>1. StartIds = <<BOS, id>>
        BY <1>2, <1>3, <1>5 DEF StartIds
    <2>2. Spelt(vocab, text, 1, <<BOS, id>>) /\ Len(Lead(vocab, text)) = 1
        BY <1>2, <1>4, <1>5, SpeltStart
    <2>3. Opens(vocab, text, <<BOS, id>>)
        <3>1. Len(<<BOS, id>>) = 2 /\ <<BOS, id>>[2] = id /\ <<SPACE>>[1] = SPACE
            OBVIOUS
        <3> QED
            BY <1>2, <1>4, <1>5, <3>1 DEF Opens
    <2> QED
        BY <2>1, <2>2, <2>3 DEF Spelt
<1>6. CASE ~ (text # <<>> /\ id >= 0)
    <2>1. StartIds = <<BOS>>
        BY <1>2, <1>3, <1>6 DEF StartIds
    <2>2. Lead(vocab, text) = <<>>
        BY <1>2, <1>4, <1>6 DEF Lead
    <2>3. Spelt(vocab, text, 0, <<BOS>>) /\ Len(Lead(vocab, text)) = 0
        BY <2>2, SpeltStart
    <2> QED
        BY <2>1, <2>2, <2>3 DEF Spelt, Opens
<1> QED
    BY <1>5, <1>6

\* The opening tokens.
LEMMA StartKeeps ==
    ASSUME TokInv, Start PROVE TokInv'
<1>1. TokTypes(vocab, text, max_tokens, tpc, split, tokens) /\ tokens = <<>> /\ split = 0
    BY DEF TokInv, TokOK, Spelling, Start
<1>2. UNCHANGED <<text, vocab, max_tokens, split>> /\ Push(StartIds)
    BY DEF Start, StartIds
<1>3. PICK ids \in Seq(Ids(vocab)) :
          /\ ids = StartIds /\ Spelt(vocab, text, Len(Lead(vocab, text)), ids)
          /\ Opens(vocab, text, ids)
    BY <1>1, StartSays DEF TokTypes
<1>4. CASE Len(tokens) + Len(ids) > max_tokens
    <2>1. tpc' = "failed" /\ tokens' = tokens
        BY <1>2, <1>3, <1>4 DEF Push
    <2>2. TokOK(vocab, text, max_tokens, "failed", split, tokens)
        BY <1>1 DEF TokOK, TokTypes, Spelling
    <2> QED
        BY <1>2, <2>1, <2>2, Zenon DEF TokInv
<1>5. CASE ~ (Len(tokens) + Len(ids) > max_tokens)
    <2>1. tpc' = "split" /\ tokens' = tokens \o ids
        BY <1>2, <1>3, <1>5 DEF Push
    <2>2. tokens \o ids = ids
        BY <1>1, NothingInFront
    <2>3. Len(ids) <= max_tokens
        <3>1. Len(tokens) = 0 /\ Len(ids) \in Nat /\ max_tokens \in Nat
            BY <1>1 DEF TokTypes
        <3> QED
            BY <1>5, <3>1
    <2>4. Len(Lead(vocab, text)) + split = Len(Lead(vocab, text))
        BY <1>1, LeadIs DEF TokTypes
    <2>5. TokOK(vocab, text, max_tokens, "split", split, ids)
        BY <1>1, <1>3, <2>3, <2>4 DEF TokOK, TokTypes, Spelling
    <2> QED
        BY <1>2, <2>1, <2>2, <2>5, Zenon DEF TokInv
<1> QED
    BY <1>4, <1>5

\* The code point that comes next.
LEMMA PointIs ==
    ASSUME text \in Seq(Bytes), split \in Nat, split < Len(text)
    PROVE  /\ PointLength \in 1 .. 4 /\ split + PointLength <= Len(text)
           /\ text[split + 1] \in Bytes
           /\ text[split + 1] = SPACE => PointLength = 1
<1>1. PICK l \in Nat : l = Len(text)
    OBVIOUS
<1>2. text[split + 1] \in Bytes
    BY <1>1
<1>3. CodeLength(text[split + 1]) \in 1 .. 4
    BY <1>2, TokenizerAssumption
<1>4. text[split + 1] = SPACE => CodeLength(text[split + 1]) = 1
    BY SpellingAssumption
<1>5. PICK n \in 1 .. 4 : n = CodeLength(text[split + 1])
    BY <1>3
<1>6. PointLength = IF split + n > l THEN 1 ELSE n
    BY <1>1, <1>5 DEF PointLength
<1> QED
    BY <1>1, <1>2, <1>4, <1>5, <1>6

\* One token more at the end.
LEMMA AppendOne ==
    ASSUME NEW V, NEW s \in Seq(V), NEW x \in V
    PROVE  s \o <<x>> = Append(s, x)
BY AppendIsConcat

\* The opening tokens stay in front.
LEMMA OpensMore ==
    ASSUME NEW v, NEW t, NEW V, NEW toks \in Seq(V), NEW ids \in Seq(V), Opens(v, t, toks)
    PROVE  Opens(v, t, toks \o ids)
<1>1. /\ toks \o ids \in Seq(V) /\ Len(toks \o ids) = Len(toks) + Len(ids)
      /\ \A i \in 1 .. Len(toks) + Len(ids) :
            (toks \o ids)[i] = IF i <= Len(toks) THEN toks[i] ELSE ids[i - Len(toks)]
    BY ConcatProperties
<1>2. PICK n \in Nat, m \in Nat : n = Len(toks) /\ m = Len(ids)
    OBVIOUS
<1>3. ASSUME Lead(v, t) # <<>> PROVE Len(toks \o ids) >= 2 /\ (toks \o ids)[2] = toks[2]
    <2>1. n >= 2
        BY <1>2, <1>3 DEF Opens
    <2>2. 2 \in 1 .. n + m /\ 2 <= n /\ n + m >= 2
        BY <2>1
    <2> QED
        BY <1>1, <1>2, <2>2
<1> QED
    BY <1>3 DEF Opens

Part(s, a, n) == SubSeq(s, a + 1, a + n)
PartOf(V, s, a, n, p) ==
    p \in Seq(V) /\ Len(p) = n /\ \A i \in 1 .. n : p[i] = s[a + i]

\* Part of a string.
LEMMA PartIs ==
    ASSUME NEW V, NEW s \in Seq(V), NEW a \in Nat, NEW n \in Nat, a + n <= Len(s)
    PROVE  PartOf(V, s, a, n, Part(s, a, n))
<1>0. a + 1 \in Int /\ a + n \in Int
    OBVIOUS
<1>1. PICK i \in Int, j \in Int : i = a + 1 /\ j = a + n
    BY <1>0, Zenon
<1>p. PICK p : p = SubSeq(s, i, j) /\ p = Part(s, a, n)
    BY <1>1 DEF Part
<1>2. \A k \in i .. j : s[k] \in V
    BY <1>1
<1>3. /\ SubSeq(s, i, j) \in Seq(V) /\ Len(SubSeq(s, i, j)) = IF i <= j THEN j - i + 1 ELSE 0
      /\ \A k \in 1 .. j - i + 1 : SubSeq(s, i, j)[k] = s[i + k - 1]
    BY <1>2, SubSeqProperties
<1>4. Len(p) = n
    <2>1. Len(p) = IF i <= j THEN j - i + 1 ELSE 0
        BY <1>p, <1>3, Zenon
    <2>2. (IF i <= j THEN j - i + 1 ELSE 0) = n
        BY <1>1
    <2> QED
        BY <2>1, <2>2, Zenon
<1>5. ASSUME NEW k \in 1 .. n PROVE p[k] = s[a + k]
    <2>1. k \in 1 .. j - i + 1 /\ i + k - 1 = a + k
        BY <1>1
    <2> QED
        BY <1>p, <1>3, <2>1
<1> QED
    BY <1>p, <1>3, <1>4, <1>5 DEF PartOf

\* A string over some bytes is one over more of them.
LEMMA SeqWider ==
    ASSUME NEW V, NEW W, V \subseteq W, NEW s \in Seq(V)
    PROVE  s \in Seq(W)
<1>1. PICK n \in Nat : n = Len(s)
    OBVIOUS
<1>2. s \in [1 .. n -> V]
    BY <1>1
<1>3. s \in [1 .. n -> W]
    BY <1>2
<1> QED
    BY <1>3

\* A code point, as a token or in byte tokens.
PointIds(point) == IF tq_lookup(point) >= 0 THEN <<tq_lookup(point)>> ELSE ByteTokens(point)

\* The tokens of a code point spell it.
LEMMA SplitSays ==
    ASSUME vocab \in DOMAIN Vocabs, text \in Seq(Bytes), split \in Nat, split < Len(text),
           Spelt(vocab, text, Len(Lead(vocab, text)) + split, tokens),
           NEW point, point = SubSeq(text, split + 1, split + PointLength)
    PROVE  /\ PointIds(point) \in Seq(Ids(vocab))
           /\ Spelt(vocab, text, Len(Lead(vocab, text)) + (split + PointLength),
                    tokens \o PointIds(point))
<1>1. PICK l \in Nat : l = Len(text)
    OBVIOUS
<1>2. PICK pl \in 1 .. 4 : pl = PointLength /\ split + pl <= l
    BY <1>1, PointIs
<1>3. PICK d \in Nat : d = Len(Lead(vocab, text))
    BY LeadIs
<1>4. /\ point \in Seq(Bytes) /\ Len(point) = pl
      /\ \A i \in 1 .. pl : point[i] = text[split + i]
    <2>1. point = SubSeq(text, split + 1, split + pl) /\ split + pl <= Len(text) /\ pl \in Nat
        BY <1>1, <1>2
    <2>2. point = Part(text, split, pl)
        BY <2>1 DEF Part
    <2>3. PartOf(Bytes, text, split, pl, point)
        BY <2>1, <2>2, PartIs
    <2> QED
        BY <2>3 DEF PartOf
<1>5. PICK e \in Nat, more \in Nat : e = d + split /\ more = d + (split + pl) /\ more = e + pl
    OBVIOUS
<1>6. point = SubSeq(Full(vocab, text), e + 1, more)
    <2>1. PICK i \in 1 .. Len(text), j \in 1 .. Len(text) : i = split + 1 /\ j = split + pl
        BY <1>1, <1>2
    <2>2. SubSeq(Full(vocab, text), d + i, d + j) = SubSeq(text, i, j)
        BY <1>3, FullPart
    <2>3. d + i = e + 1 /\ d + j = more
        BY <1>5, <2>1
    <2> QED
        BY <1>2, <2>1, <2>2, <2>3
<1>7. tokens \in Seq(Ids(vocab)) /\ Spelt(vocab, text, e, tokens)
    BY <1>3, <1>5 DEF Spelt
<1>8. point \in Seq(Nat)
    <2>1. Bytes \subseteq Nat
        BY TokenizerAssumption
    <2> QED
        BY <1>4, <2>1, SeqWider, ZenonT(40)
<1>9. PICK id : id = tq_lookup(point)
    OBVIOUS
<1>10. /\ id >= 0 => id \in Ids(vocab) /\ PieceOf(vocab, id) = point
       /\ ~ (id >= 0) => \A o \in Ids(vocab) : PieceOf(vocab, o) # point
    BY <1>8, <1>9, Found
<1>11. CASE id >= 0
    <2>1. PointIds(point) = <<id>> /\ id \in Ids(vocab) /\ PieceOf(vocab, id) = point
        BY <1>9, <1>10, <1>11 DEF PointIds
    <2>2. Said(vocab, id) = point
        BY <1>4, <2>1, TextSaid
    <2>3. Lead(vocab, text) = <<>> => point[1] # SPACE
        <3>1. SUFFICES ASSUME point[1] = SPACE PROVE Lead(vocab, text) # <<>>
            OBVIOUS
        <3>2. text[split + 1] = SPACE
            BY <1>4, <3>1
        <3>3. pl = 1
            BY <1>2, <3>2, PointIs
        <3>4. PICK o \in Seq(Bytes) : o = <<SPACE>> /\ Len(o) = 1 /\ o[1] = SPACE
            <4>1. SPACE \in Bytes
                BY TokenizerAssumption
            <4> QED
                BY <4>1, OneElement
        <3>5. point = o
            <4>1. Len(point) = Len(o) /\ \A i \in 1 .. Len(point) : point[i] = o[i]
                BY <1>4, <3>1, <3>3, <3>4
            <4> QED
                BY <1>4, <4>1, SeqEqual
        <3>6. text # <<>>
            BY <1>1, <1>2
        <3>7. Lead(vocab, text) = o
            BY <2>1, <3>4, <3>5, <3>6 DEF Lead
        <3> QED
            BY <3>4, <3>7
    <2>4. Plain(vocab, text, id)
        <3>1. point # <<>>
            BY <1>4
        <3>2. point \in Seq(Bytes \cup {MARK})
            <4>1. PICK W : W = Bytes \cup {MARK}
                OBVIOUS
            <4>2. Bytes \subseteq W
                BY <4>1
            <4> QED
                BY <1>4, <4>1, <4>2, SeqWider, SMTT(90)
        <3> QED
            BY <2>1, <2>3, <3>1, <3>2 DEF Plain
    <2>5. Said(vocab, id) = SubSeq(Full(vocab, text), e + 1, more) /\ more > e
        BY <1>5, <1>6, <2>2
    <2>6. Spelt(vocab, text, more, Append(tokens, id))
        BY <1>7, <2>4, <2>5, SpeltMore
    <2>7. tokens \o <<id>> = Append(tokens, id) /\ <<id>> \in Seq(Ids(vocab))
        BY <1>7, <2>1, AppendOne, OneElement
    <2> QED
        BY <1>2, <1>3, <1>5, <2>1, <2>6, <2>7
<1>12. CASE ~ (id >= 0)
    <2>1. PICK ids : ids = ByteTokens(point) /\ ids = PointIds(point)
        BY <1>9, <1>12 DEF PointIds
    <2>2. /\ ids \in Seq(Ids(vocab)) /\ Len(ids) = pl
          /\ \A n \in 1 .. pl : PieceOf(vocab, ids[n]) = ByteName(point[n])
        <3>1. /\ ids \in Seq(Ids(vocab)) /\ Len(ids) = Len(point)
              /\ \A n \in 1 .. Len(point) : Piece(ids[n]) = ByteName(point[n])
            BY <1>4, <2>1, ByteTokensIs
        <3> QED
            BY <1>4, <3>1 DEF Piece, PieceOf
    <2>3. more <= Len(Full(vocab, text))
        BY <1>1, <1>2, <1>3, <1>5, LeadIs
    <2>4. ASSUME NEW n \in 1 .. pl PROVE point[n] = Full(vocab, text)[e + n]
        <3>1. PICK F \in Seq(Bytes) : F = Full(vocab, text) /\ more <= Len(F)
            BY <2>3, LeadIs
        <3>2. more = e + pl /\ pl \in Nat
            BY <1>5
        <3>3. \A i \in 1 .. pl : SubSeq(F, e + 1, e + pl)[i] = F[e + i]
            <4>1. e + pl <= Len(F)
                BY <3>1, <3>2
            <4>2. PartOf(Bytes, F, e, pl, Part(F, e, pl))
                BY <3>2, <4>1, PartIs
            <4> QED
                BY <4>2 DEF PartOf, Part
        <3> QED
            BY <1>6, <3>1, <3>2, <3>3
    <2>5. Spelt(vocab, text, e + Len(ids), tokens \o ids)
        <3>1. e + Len(ids) <= Len(Full(vocab, text))
            BY <1>5, <2>2, <2>3
        <3>2. \A n \in 1 .. Len(ids) : PieceOf(vocab, ids[n]) = ByteName(Full(vocab, text)[e + n])
            BY <2>2, <2>4
        <3> QED
            BY <1>7, <2>2, <3>1, <3>2, SpeltBytes
    <2> QED
        BY <1>2, <1>3, <1>5, <2>1, <2>2, <2>5
<1> QED
    BY <1>11, <1>12

\* One code point split.
LEMMA SplitKeeps ==
    ASSUME TokInv, Split PROVE TokInv'
<1>1. /\ TokTypes(vocab, text, max_tokens, tpc, split, tokens) /\ tpc = "split"
      /\ Spelt(vocab, text, Len(Lead(vocab, text)) + split, tokens) /\ Opens(vocab, text, tokens)
    BY DEF TokInv, TokOK, Spelling, Split
<1>2. /\ vocab \in DOMAIN Vocabs /\ text \in Seq(Bytes) /\ split \in Nat /\ split < Len(text)
      /\ max_tokens \in Nat /\ tokens \in Seq(Ids(vocab)) /\ Len(tokens) <= max_tokens
    BY <1>1 DEF TokTypes, Split
<1>3. PICK point : point = SubSeq(text, split + 1, split + PointLength)
    OBVIOUS
<1>4. PICK ids \in Seq(Ids(vocab)) :
          /\ ids = PointIds(point)
          /\ Spelt(vocab, text, Len(Lead(vocab, text)) + (split + PointLength), tokens \o ids)
    BY <1>1, <1>2, <1>3, SplitSays
<1>5. UNCHANGED <<text, vocab, max_tokens>> /\ split' = split + PointLength /\ Push(ids)
    BY <1>3, <1>4 DEF Split, PointIds
<1>6. PICK at \in 0 .. Len(text) : at = split + PointLength
    BY <1>2, PointIs
<1>7. CASE Len(tokens) + Len(ids) > max_tokens
    <2>1. tpc' = "failed" /\ tokens' = tokens
        BY <1>5, <1>7 DEF Push
    <2>2. TokOK(vocab, text, max_tokens, "failed", at, tokens)
        BY <1>2 DEF TokOK, TokTypes, Spelling
    <2> QED
        BY <1>5, <1>6, <2>1, <2>2, Zenon DEF TokInv
<1>8. CASE ~ (Len(tokens) + Len(ids) > max_tokens)
    <2>1. tpc' = "split" /\ tokens' = tokens \o ids
        BY <1>5, <1>8 DEF Push
    <2>2. PICK all \in Seq(Ids(vocab)) : all = tokens \o ids /\ Len(all) = Len(tokens) + Len(ids)
        BY <1>2, ConcatProperties
    <2>3. Len(all) <= max_tokens
        BY <1>2, <1>8, <2>2
    <2>4. Opens(vocab, text, all)
        BY <1>1, <1>2, <2>2, OpensMore
    <2>5. Spelt(vocab, text, Len(Lead(vocab, text)) + at, all)
        BY <1>4, <1>6, <2>2
    <2>6. TokOK(vocab, text, max_tokens, "split", at, all)
        BY <1>2, <2>3, <2>4, <2>5 DEF TokOK, TokTypes, Spelling
    <2> QED
        BY <1>5, <1>6, <2>1, <2>2, <2>6, Zenon DEF TokInv
<1> QED
    BY <1>7, <1>8

\* The end of the text.
LEMMA SplitDoneKeeps ==
    ASSUME TokInv, SplitDone PROVE TokInv'
<1>1. /\ TokTypes(vocab, text, max_tokens, tpc, split, tokens)
      /\ Spelt(vocab, text, Len(Lead(vocab, text)) + split, tokens) /\ Opens(vocab, text, tokens)
    BY DEF TokInv, TokOK, Spelling, SplitDone
<1>2. split = Len(text)
    <2>1. PICK l \in Nat : l = Len(text)
        BY <1>1 DEF TokTypes
    <2> QED
        BY <1>1, <2>1 DEF TokTypes, SplitDone
<1>3. TokOK(vocab, text, max_tokens, "merge", split, tokens)
    BY <1>1, <1>2 DEF TokOK, TokTypes, Spelling
<1> QED
    BY <1>3, Zenon DEF TokInv, SplitDone

\* No pair left.
LEMMA MergeDoneKeeps ==
    ASSUME TokInv, MergeDone PROVE TokInv' /\ MergedOut'
<1>1. /\ TokTypes(vocab, text, max_tokens, tpc, split, tokens) /\ split = Len(text)
      /\ Spelt(vocab, text, Len(Lead(vocab, text)) + split, tokens) /\ Opens(vocab, text, tokens)
    BY DEF TokInv, TokOK, Spelling, MergeDone
<1>2. TokOK(vocab, text, max_tokens, "encoded", split, tokens)
    BY <1>1 DEF TokOK, TokTypes, Spelling
<1>3. TokInv'
    BY <1>2, Zenon DEF TokInv, MergeDone
<1>4. ASSUME NEW k \in 1 .. Len(tokens) - 1, Len(Joined(k)) <= BufBytes
      PROVE  Joined(k) \notin {Piece(id) : id \in Ids(vocab)}
    <2>1. vocab \in DOMAIN Vocabs /\ tokens \in Seq(Ids(vocab))
        BY <1>1 DEF TokTypes
    <2>2. tokens[k] \in Ids(vocab) /\ tokens[k + 1] \in Ids(vocab)
        BY <2>1
    <2>3. Joined(k) \in Seq(Nat)
        <3>1. Piece(tokens[k]) \in Seq(Nat) /\ Piece(tokens[k + 1]) \in Seq(Nat)
            BY <2>1, <2>2, VocabIs DEF Piece
        <3> QED
            BY <3>1, ConcatProperties DEF Joined
    <2>4. ~ (tq_lookup(Joined(k)) >= 0)
        BY <1>4 DEF MergeDone, Mergeable
    <2> QED
        BY <2>1, <2>3, <2>4, Found DEF Piece, PieceOf
<1>5. MergedOut'
    <2>1. vocab' = vocab /\ tokens' = tokens
        BY DEF MergeDone
    <2>2. \A k : Joined(k)' = Joined(k)
        BY <2>1 DEF Joined, Piece
    <2>3. {Piece(id) : id \in Ids(vocab)}' = {Piece(id) : id \in Ids(vocab)}
        BY <2>1 DEF Piece
    <2> QED
        BY <1>4, <2>1, <2>2, <2>3 DEF MergedOut
<1> QED
    BY <1>3, <1>5

\* The merged tokens still open with the space.
LEMMA OpensMerged ==
    ASSUME NEW v \in DOMAIN Vocabs, NEW t \in Seq(Bytes), NEW V, NEW toks \in Seq(V),
           NEW k \in 2 .. Len(toks) - 1, NEW id \in V, Opens(v, t, toks),
           PieceOf(v, id) = Glued(PieceOf(v, toks[k]), PieceOf(v, toks[k + 1])),
           PieceOf(v, toks[k]) \in Seq(Nat) \ {<<>>}, PieceOf(v, toks[k + 1]) \in Seq(Nat),
           NEW m, m = Merged(toks, k, id)
    PROVE  Opens(v, t, m)
<1>1. k \in 1 .. Len(toks) - 1
    OBVIOUS
<1>2. WithMerged(V, toks, k, id, m)
    BY <1>1, MergedElements
<1>3. /\ Len(m) = Len(toks) - 1
      /\ \A i \in 1 .. Len(toks) - 1 : m[i] = IF i < k THEN toks[i] ELSE IF i = k THEN id ELSE toks[i + 1]
    BY <1>2, Zenon DEF WithMerged
<1>4. PICK l \in Nat : l = Len(toks)
    OBVIOUS
<1>5. 2 \in 1 .. l - 1 /\ l - 1 >= 2
    BY <1>4
<1>6. m[2] = IF 2 < k THEN toks[2] ELSE id
    BY <1>3, <1>4, <1>5
<1>7. ASSUME Lead(v, t) # <<>> PROVE PieceOf(v, m[2])[1] = SPACE
    <2>1. PieceOf(v, toks[2])[1] = SPACE
        BY <1>7 DEF Opens
    <2>2. CASE k = 2
        <3>1. PICK p \in Seq(Nat), q \in Seq(Nat) :
                  p = PieceOf(v, toks[k]) /\ q = PieceOf(v, toks[k + 1]) /\ p # <<>>
            OBVIOUS
        <3>2. (p \o q)[1] = p[1]
            BY <3>1
        <3> QED
            BY <1>6, <2>1, <2>2, <3>1, <3>2 DEF Glued
    <2>3. CASE k # 2
        BY <1>6, <2>1, <2>3
    <2> QED
        BY <2>2, <2>3
<1> QED
    BY <1>3, <1>4, <1>5, <1>7 DEF Opens

\* One pair merged.
LEMMA MergeKeeps ==
    ASSUME TokInv, Merge PROVE TokInv'
<1>1. /\ TokTypes(vocab, text, max_tokens, tpc, split, tokens) /\ split = Len(text)
      /\ Spelt(vocab, text, Len(Lead(vocab, text)) + split, tokens) /\ Opens(vocab, text, tokens)
    BY DEF TokInv, TokOK, Spelling, Merge
<1>2. /\ vocab \in DOMAIN Vocabs /\ text \in Seq(Bytes) /\ max_tokens \in Nat
      /\ tokens \in Seq(Ids(vocab)) /\ Len(tokens) <= max_tokens /\ tpc = "merge"
    BY <1>1 DEF TokTypes, Merge
<1>3. PICK k \in Mergeable : tokens' = MergeAt(k)
    BY DEF Merge
<1>4. k \in 1 .. Len(tokens) - 1 /\ tq_lookup(Joined(k)) >= 0
    BY DEF Mergeable
<1>5. tokens[k] \in Ids(vocab) /\ tokens[k + 1] \in Ids(vocab)
    BY <1>2, <1>4
<1>6. PieceOf(vocab, tokens[k]) \in Seq(Nat) /\ PieceOf(vocab, tokens[k + 1]) \in Seq(Nat)
    BY <1>2, <1>5, VocabIs DEF PieceOf
<1>7. Joined(k) = Glued(PieceOf(vocab, tokens[k]), PieceOf(vocab, tokens[k + 1]))
    BY DEF Joined, Glued, Piece, PieceOf
<1>8. Joined(k) \in Seq(Nat)
    BY <1>6, <1>7, ConcatProperties DEF Glued
<1>9. PICK id \in Ids(vocab) : id = tq_lookup(Joined(k)) /\ PieceOf(vocab, id) = Joined(k)
    BY <1>2, <1>4, <1>8, Found
<1>10. PICK m : m = Merged(tokens, k, id) /\ tokens' = m
    BY <1>3, <1>9 DEF MergeAt, Merged
<1>11. PICK e \in Nat : e = Len(Lead(vocab, text)) + split /\ e <= Len(Full(vocab, text))
    BY <1>1, <1>2, LeadIs DEF TokTypes
<1>12. PieceOf(vocab, id) = Glued(PieceOf(vocab, tokens[k]), PieceOf(vocab, tokens[k + 1]))
    BY <1>7, <1>9
<1>13. Spelt(vocab, text, e, m) /\ k >= 2
    BY <1>1, <1>2, <1>4, <1>10, <1>11, <1>12, SpeltMerged
<1>14. k \in 2 .. Len(tokens) - 1
    BY <1>4, <1>13
<1>15. PieceOf(vocab, tokens[k]) # <<>>
    <2>1. k \in 2 .. Len(tokens)
        BY <1>2, <1>14
    <2>2. Plain(vocab, text, tokens[k])
        BY <1>1, <2>1 DEF Spelt
    <2> QED
        BY <2>2 DEF Plain
<1>16. Opens(vocab, text, m)
    BY <1>1, <1>2, <1>6, <1>10, <1>12, <1>14, <1>15, OpensMerged
<1>17. Len(m) <= max_tokens /\ m \in Seq(Ids(vocab))
    <2>1. WithMerged(Ids(vocab), tokens, k, id, m)
        <3>1. PICK I : I = Ids(vocab)
            OBVIOUS
        <3>2. tokens \in Seq(I) /\ id \in I
            BY <1>2, <3>1
        <3>3. WithMerged(I, tokens, k, id, m)
            BY <1>4, <1>10, <3>2, MergedElements
        <3> QED
            BY <3>1, <3>3
    <2>2. m \in Seq(Ids(vocab)) /\ Len(m) = Len(tokens) - 1
        BY <2>1, Zenon DEF WithMerged
    <2>3. Len(tokens) \in Nat
        BY <1>2
    <2> QED
        BY <1>2, <2>2, <2>3
<1>18. TokOK(vocab, text, max_tokens, tpc, split, m)
    BY <1>1, <1>2, <1>11, <1>13, <1>16, <1>17 DEF TokOK, TokTypes, Spelling
<1> QED
    BY <1>10, <1>18, Zenon DEF TokInv, Merge

\* One word more in cmd_sem_encode's buffer, and in the line it stands for.
Buffered(u, w) ==
    IF Len(u) + Len(w) + 2 >= TEXT_BYTES THEN u
    ELSE u \o (IF u = <<>> THEN <<>> ELSE <<SPACE>>) \o w
Buffers(c, m, words) ==
    c = [n \in 0 .. m |-> IF n = 0 THEN <<>> ELSE Buffered(c[n - 1], words[n])]
Buffer(m, words) == CHOOSE c : Buffers(c, m, words)
Typed(n, u, w) == u \o (IF n = 1 THEN <<>> ELSE <<SPACE>>) \o w
Types(c, m, words) ==
    c = [n \in 0 .. m |-> IF n = 0 THEN <<>> ELSE Typed(n, c[n - 1], words[n])]

\* Both take strings to strings.
LEMMA WordAdded ==
    ASSUME NEW u \in Seq(Bytes), NEW w \in Seq(Bytes), NEW n
    PROVE  /\ Buffered(u, w) \in Seq(Bytes)
           /\ Typed(n, u, w) \in Seq(Bytes)
           /\ Len(Typed(n, u, w)) >= Len(u) + Len(w)
<1>1. SPACE \in Bytes
    BY TokenizerAssumption
<1>2. PICK s \in Seq(Bytes) : s = <<SPACE>>
    BY <1>1, OneElement
<1>3. PICK e \in Seq(Bytes) : e = <<>>
    BY EmptySeq
<1>4. ASSUME NEW x \in Seq(Bytes)
      PROVE  u \o x \o w \in Seq(Bytes) /\ Len(u \o x \o w) >= Len(u) + Len(w)
    <2>1. PICK y \in Seq(Bytes) : y = u \o x /\ Len(y) = Len(u) + Len(x)
        BY ConcatProperties
    <2>2. y \o w \in Seq(Bytes) /\ Len(y \o w) = Len(y) + Len(w)
        BY ConcatProperties
    <2>3. Len(u) \in Nat /\ Len(x) \in Nat /\ Len(w) \in Nat
        OBVIOUS
    <2> QED
        BY <2>1, <2>2, <2>3
<1>5. Typed(n, u, w) \in Seq(Bytes) /\ Len(Typed(n, u, w)) >= Len(u) + Len(w)
    <2>1. CASE n = 1
        BY <1>3, <1>4, <2>1 DEF Typed
    <2>2. CASE n # 1
        BY <1>2, <1>4, <2>2 DEF Typed
    <2> QED
        BY <2>1, <2>2
<1>6. Buffered(u, w) \in Seq(Bytes)
    <2>1. CASE Len(u) + Len(w) + 2 >= TEXT_BYTES
        BY <2>1 DEF Buffered
    <2>2. CASE ~ (Len(u) + Len(w) + 2 >= TEXT_BYTES) /\ u = <<>>
        BY <1>3, <1>4, <2>2 DEF Buffered
    <2>3. CASE ~ (Len(u) + Len(w) + 2 >= TEXT_BYTES) /\ u # <<>>
        BY <1>2, <1>4, <2>3 DEF Buffered
    <2> QED
        BY <2>1, <2>2, <2>3
<1> QED
    BY <1>5, <1>6

\* The buffer after each word.
LEMMA BufferIs ==
    ASSUME NEW m \in Nat, NEW words, \A n \in 1 .. m : words[n] \in Seq(Bytes),
           NEW d, d = Buffer(m, words)
    PROVE  /\ \A n \in 0 .. m : d[n] \in Seq(Bytes)
           /\ d[0] = <<>> /\ \A n \in 1 .. m : d[n] = Buffered(d[n - 1], words[n])
<1> DEFINE V == Seq(Bytes)
           G == [n \in 1 .. m |-> [u \in V |-> Buffered(u, words[n])]]
<1>1. G \in [1 .. m -> [V -> V]]
    <2>1. ASSUME NEW n \in 1 .. m PROVE [u \in V |-> Buffered(u, words[n])] \in [V -> V]
        <3>1. ASSUME NEW u \in V PROVE Buffered(u, words[n]) \in V
            BY WordAdded
        <3> HIDE DEF V
        <3> QED
            BY <3>1
    <2> HIDE DEF V
    <2> QED
        BY <2>1
<1>2. PICK f \in [0 .. m -> V] : Recurrence(f, <<>>, G, m)
    <2>1. <<>> \in V
        OBVIOUS
    <2> HIDE DEF G, V
    <2> QED
        BY <1>1, <2>1, Recursion, Zenon
<1>3. ASSUME NEW n \in 0 .. m
      PROVE  f[n] = IF n = 0 THEN <<>> ELSE Buffered(f[n - 1], words[n])
    <2>1. CASE n = 0
        BY <1>2, <2>1 DEF Recurrence
    <2>2. CASE n # 0
        <3>1. n \in 1 .. m /\ n - 1 \in 0 .. m
            BY <2>2
        <3>2. f[n] = G[n][f[n - 1]] /\ f[n - 1] \in V
            BY <1>2, <3>1 DEF Recurrence
        <3> HIDE DEF V
        <3>3. f[n] = Buffered(f[n - 1], words[n])
            BY <3>1, <3>2
        <3> HIDE DEF G
        <3> QED
            BY <2>2, <3>3, Zenon
    <2> QED
        BY <2>1, <2>2
<1> HIDE DEF V, G
<1>4. Buffers(f, m, words)
    <2>1. f = [n \in 0 .. m |-> f[n]]
        BY <1>2
    <2>2. [n \in 0 .. m |-> f[n]] =
             [n \in 0 .. m |-> IF n = 0 THEN <<>> ELSE Buffered(f[n - 1], words[n])]
        BY <1>3, Zenon
    <2> QED
        BY <2>1, <2>2, Zenon DEF Buffers
<1>5. Buffers(d, m, words)
    BY <1>4, Zenon DEF Buffer
<1>6. d[0] = <<>> /\ \A n \in 1 .. m : d[n] = Buffered(d[n - 1], words[n])
    <2>1. ASSUME NEW n \in 0 .. m PROVE d[n] = IF n = 0 THEN <<>> ELSE Buffered(d[n - 1], words[n])
        BY <1>5, Zenon DEF Buffers
    <2>2. 0 \in 0 .. m
        OBVIOUS
    <2>3. ASSUME NEW n \in 1 .. m PROVE n \in 0 .. m /\ n # 0
        OBVIOUS
    <2> QED
        BY <2>1, <2>2, <2>3, Zenon
<1> DEFINE S == {n \in Nat : n <= m => d[n] \in Seq(Bytes)}
<1>7. 0 \in S
    <2>1. d[0] \in Seq(Bytes)
        BY <1>6, EmptySeq
    <2> QED
        BY <2>1
<1>8. ASSUME NEW n \in Nat, n \in S PROVE n + 1 \in S
    <2>1. SUFFICES ASSUME n + 1 <= m PROVE d[n + 1] \in Seq(Bytes)
        OBVIOUS
    <2>2. n + 1 \in 1 .. m /\ (n + 1) - 1 = n /\ d[n] \in Seq(Bytes)
        BY <1>8, <2>1
    <2>3. PICK u \in Seq(Bytes), w \in Seq(Bytes) : u = d[n] /\ w = words[n + 1]
        BY <2>2
    <2>4. Buffered(u, w) \in Seq(Bytes)
        BY WordAdded
    <2>5. d[n + 1] = Buffered(u, w)
        BY <1>6, <2>2, <2>3
    <2> QED
        BY <2>4, <2>5
<1>9. \A n \in Nat : n \in S
    <2> HIDE DEF S
    <2> QED
        BY <1>7, <1>8, SetInduction
<1> QED
    BY <1>6, <1>9

\* The line after each word.
LEMMA TypedIs ==
    ASSUME NEW m \in Nat, NEW words, \A n \in 1 .. m : words[n] \in Seq(Bytes),
           NEW d, d = CHOOSE c : Types(c, m, words)
    PROVE  /\ \A n \in 0 .. m : d[n] \in Seq(Bytes)
           /\ d[0] = <<>> /\ \A n \in 1 .. m : d[n] = Typed(n, d[n - 1], words[n])
<1> DEFINE V == Seq(Bytes)
           G == [n \in 1 .. m |-> [u \in V |-> Typed(n, u, words[n])]]
<1>1. G \in [1 .. m -> [V -> V]]
    <2>1. ASSUME NEW n \in 1 .. m PROVE [u \in V |-> Typed(n, u, words[n])] \in [V -> V]
        <3>1. ASSUME NEW u \in V PROVE Typed(n, u, words[n]) \in V
            BY WordAdded
        <3> HIDE DEF V
        <3> QED
            BY <3>1
    <2> HIDE DEF V
    <2> QED
        BY <2>1
<1>2. PICK f \in [0 .. m -> V] : Recurrence(f, <<>>, G, m)
    <2>1. <<>> \in V
        OBVIOUS
    <2> HIDE DEF G, V
    <2> QED
        BY <1>1, <2>1, Recursion, Zenon
<1>3. ASSUME NEW n \in 0 .. m
      PROVE  f[n] = IF n = 0 THEN <<>> ELSE Typed(n, f[n - 1], words[n])
    <2>1. CASE n = 0
        BY <1>2, <2>1 DEF Recurrence
    <2>2. CASE n # 0
        <3>1. n \in 1 .. m /\ n - 1 \in 0 .. m
            BY <2>2
        <3>2. f[n] = G[n][f[n - 1]] /\ f[n - 1] \in V
            BY <1>2, <3>1 DEF Recurrence
        <3> HIDE DEF V
        <3>3. f[n] = Typed(n, f[n - 1], words[n])
            BY <3>1, <3>2
        <3> HIDE DEF G
        <3> QED
            BY <2>2, <3>3, Zenon
    <2> QED
        BY <2>1, <2>2
<1> HIDE DEF V, G
<1>4. Types(f, m, words)
    <2>1. f = [n \in 0 .. m |-> f[n]]
        BY <1>2
    <2>2. [n \in 0 .. m |-> f[n]] =
             [n \in 0 .. m |-> IF n = 0 THEN <<>> ELSE Typed(n, f[n - 1], words[n])]
        BY <1>3, Zenon
    <2> QED
        BY <2>1, <2>2, Zenon DEF Types
<1>5. Types(d, m, words)
    BY <1>4, Zenon
<1>6. d[0] = <<>> /\ \A n \in 1 .. m : d[n] = Typed(n, d[n - 1], words[n])
    <2>1. ASSUME NEW n \in 0 .. m PROVE d[n] = IF n = 0 THEN <<>> ELSE Typed(n, d[n - 1], words[n])
        BY <1>5, Zenon DEF Types
    <2>2. 0 \in 0 .. m
        OBVIOUS
    <2>3. ASSUME NEW n \in 1 .. m PROVE n \in 0 .. m /\ n # 0
        OBVIOUS
    <2> QED
        BY <2>1, <2>2, <2>3, Zenon
<1> DEFINE S == {n \in Nat : n <= m => d[n] \in Seq(Bytes)}
<1>7. 0 \in S
    <2>1. d[0] \in Seq(Bytes)
        BY <1>6, EmptySeq
    <2> QED
        BY <2>1
<1>8. ASSUME NEW n \in Nat, n \in S PROVE n + 1 \in S
    <2>1. SUFFICES ASSUME n + 1 <= m PROVE d[n + 1] \in Seq(Bytes)
        OBVIOUS
    <2>2. n + 1 \in 1 .. m /\ (n + 1) - 1 = n /\ d[n] \in Seq(Bytes)
        BY <1>8, <2>1
    <2>3. PICK u \in Seq(Bytes), w \in Seq(Bytes) : u = d[n] /\ w = words[n + 1]
        BY <2>2
    <2>4. Typed(n + 1, u, w) \in Seq(Bytes)
        BY WordAdded
    <2>5. d[n + 1] = Typed(n + 1, u, w)
        BY <1>6, <2>2, <2>3
    <2> QED
        BY <2>4, <2>5
<1>9. \A n \in Nat : n \in S
    <2> HIDE DEF S
    <2> QED
        BY <1>7, <1>8, SetInduction
<1> QED
    BY <1>6, <1>9

\* The words of a command line.
LEMMA LineIs ==
    ASSUME NEW words \in BoardLines
    PROVE  /\ Len(words) \in Nat
           /\ \A n \in 1 .. Len(words) : words[n] \in Seq(Bytes) /\ words[n] # <<>>
<1>1. words \in Seq(Seq(Bytes \ {SPACE}) \ {<<>>})
    BY SemaphoreAssumption
<1>2. PICK V, W : V = Bytes \ {SPACE} /\ W = Seq(V) \ {<<>>}
    OBVIOUS
<1>3. words \in Seq(W)
    BY <1>1, <1>2
<1>4. ASSUME NEW n \in 1 .. Len(words) PROVE words[n] \in Seq(Bytes) /\ words[n] # <<>>
    <2>1. words[n] \in W
        BY <1>3
    <2>2. words[n] \in Seq(V) /\ words[n] # <<>> /\ V \subseteq Bytes
        BY <1>2, <2>1
    <2> QED
        BY <2>2, SeqWider
<1> QED
    BY <1>3, <1>4

\* cmd_sem_encode's text is a text, and the line itself if that fits.
LEMMA BoardTextIs ==
    ASSUME NEW words \in BoardLines
    PROVE  /\ BoardText(words) \in Seq(Bytes)
           /\ Len(Spaced(words)) + 2 < TEXT_BYTES => BoardText(words) = Spaced(words)
<1>1. PICK m \in Nat : m = Len(words)
    BY LineIs
<1>2. \A n \in 1 .. m : words[n] \in Seq(Bytes) /\ words[n] # <<>>
    BY <1>1, LineIs
<1>3. PICK d : d = Buffer(m, words) /\ BoardText(words) = d[m]
    BY <1>1 DEF BoardText, Buffer, Buffers, Buffered
<1>4. PICK f : f = (CHOOSE c : Types(c, m, words)) /\ Spaced(words) = f[m]
    BY <1>1 DEF Spaced, Types, Typed
<1>5. /\ \A n \in 0 .. m : d[n] \in Seq(Bytes)
      /\ d[0] = <<>> /\ \A n \in 1 .. m : d[n] = Buffered(d[n - 1], words[n])
    <2>1. \A n \in 1 .. m : words[n] \in Seq(Bytes)
        BY <1>2
    <2> QED
        BY <1>3, <2>1, BufferIs
<1>6. /\ \A n \in 0 .. m : f[n] \in Seq(Bytes)
      /\ f[0] = <<>> /\ \A n \in 1 .. m : f[n] = Typed(n, f[n - 1], words[n])
    <2>1. \A n \in 1 .. m : words[n] \in Seq(Bytes)
        BY <1>2
    <2> QED
        BY <1>4, <2>1, TypedIs
<1>7. BoardText(words) \in Seq(Bytes)
    BY <1>3, <1>5
<1>8. ASSUME NEW n \in 1 .. m
      PROVE  /\ f[n - 1] \in Seq(Bytes) /\ f[n] \in Seq(Bytes)
             /\ Len(f[n]) >= Len(f[n - 1]) + Len(words[n]) /\ Len(words[n]) \in Nat \ {0}
    <2>1. n - 1 \in 0 .. m /\ n \in 0 .. m
        OBVIOUS
    <2>2. PICK u \in Seq(Bytes), w \in Seq(Bytes) : u = f[n - 1] /\ w = words[n] /\ w # <<>>
        BY <1>2, <1>6, <2>1
    <2>3. Len(Typed(n, u, w)) >= Len(u) + Len(w)
        BY WordAdded
    <2>4. Len(w) \in Nat \ {0}
        BY <2>2, EmptySeq
    <2>5. f[n] = Typed(n, u, w) /\ f[n] \in Seq(Bytes)
        BY <1>6, <2>1, <2>2, Zenon
    <2> QED
        BY <2>2, <2>3, <2>4, <2>5
<1> DEFINE R == {k \in Nat : k <= m => Len(f[m - k]) <= Len(f[m])}
<1>9. ASSUME NEW n \in 0 .. m PROVE Len(f[n]) <= Len(f[m])
    <2>1. 0 \in R
        <3>1. m - 0 = m /\ Len(f[m]) \in Nat
            BY <1>6
        <3> QED
            BY <3>1
    <2>2. ASSUME NEW k \in Nat, k \in R PROVE k + 1 \in R
        <3>1. SUFFICES ASSUME k + 1 <= m PROVE Len(f[m - (k + 1)]) <= Len(f[m])
            OBVIOUS
        <3>2. PICK i \in 1 .. m : i = m - k /\ i - 1 = m - (k + 1)
            BY <3>1
        <3>3. Len(f[i]) <= Len(f[m])
            BY <2>2, <3>1, <3>2
        <3>4. Len(f[i]) >= Len(f[i - 1]) + Len(words[i]) /\ Len(words[i]) \in Nat
            BY <1>8
        <3>5. Len(f[i]) \in Nat /\ Len(f[i - 1]) \in Nat /\ Len(f[m]) \in Nat
            <4>1. f[m] \in Seq(Bytes)
                BY <1>6
            <4> QED
                BY <1>8, <4>1
        <3>6. PICK x \in Nat, y \in Nat, z \in Nat, w \in Nat :
                  x = Len(f[i - 1]) /\ y = Len(f[i]) /\ z = Len(f[m]) /\ w = Len(words[i])
            BY <3>4, <3>5
        <3>7. x <= z
            <4>1. y <= z /\ y >= x + w
                BY <3>3, <3>4, <3>6, Zenon
            <4> QED
                BY <4>1
        <3> QED
            BY <3>2, <3>6, <3>7, Zenon
    <2>3. m - n \in R
        <3> HIDE DEF R
        <3>1. m - n \in Nat
            OBVIOUS
        <3> QED
            BY <2>1, <2>2, <3>1, SetInduction
    <2>4. m - (m - n) = n /\ m - n <= m
        OBVIOUS
    <2> QED
        BY <2>3, <2>4
<1>10. ASSUME Len(f[m]) + 2 < TEXT_BYTES PROVE d[m] = f[m]
    <2> DEFINE S == {n \in Nat : n <= m => d[n] = f[n]}
    <2>1. 0 \in S
        BY <1>5, <1>6
    <2>2. ASSUME NEW n \in Nat, n \in S PROVE n + 1 \in S
        <3>1. SUFFICES ASSUME n + 1 <= m PROVE d[n + 1] = f[n + 1]
            OBVIOUS
        <3>2. PICK i \in 1 .. m : i = n + 1 /\ i - 1 = n /\ i \in 0 .. m
            BY <3>1
        <3>3. d[i - 1] = f[i - 1]
            BY <2>2, <3>1, <3>2
        <3>4. /\ f[i - 1] \in Seq(Bytes) /\ Len(f[i]) >= Len(f[i - 1]) + Len(words[i])
              /\ Len(words[i]) \in Nat \ {0} /\ Len(f[i]) \in Nat /\ Len(f[i - 1]) \in Nat
            <4>1. /\ f[i - 1] \in Seq(Bytes) /\ f[i] \in Seq(Bytes)
                  /\ Len(f[i]) >= Len(f[i - 1]) + Len(words[i]) /\ Len(words[i]) \in Nat \ {0}
                BY <1>8
            <4>2. Len(f[i]) \in Nat /\ Len(f[i - 1]) \in Nat
                BY <4>1
            <4> QED
                BY <4>1, <4>2, Zenon
        <3>5. Len(f[i]) <= Len(f[m]) /\ Len(f[m]) \in Nat
            <4>1. f[m] \in Seq(Bytes)
                BY <1>6
            <4> QED
                BY <1>9, <3>2, <4>1
        <3>6. ~ (Len(f[i - 1]) + Len(words[i]) + 2 >= TEXT_BYTES)
            <4>1. TEXT_BYTES \in Nat
                BY SemaphoreAssumption
            <4>2. PICK x \in Nat, y \in Nat, z \in Nat, w \in Nat :
                      x = Len(f[i - 1]) /\ y = Len(f[i]) /\ z = Len(f[m]) /\ w = Len(words[i])
                BY <3>4, <3>5
            <4>3. z + 2 < TEXT_BYTES /\ y <= z /\ y >= x + w
                BY <1>10, <3>4, <3>5, <4>2, Zenon
            <4>4. ~ (x + w + 2 >= TEXT_BYTES)
                BY <4>1, <4>3
            <4> QED
                BY <4>2, <4>4, Zenon
        <3>7. f[i - 1] = <<>> <=> i = 1
            <4>1. CASE i = 1
                BY <1>6, <4>1
            <4>2. CASE i # 1
                <5>1. PICK j \in 1 .. m : j = i - 1
                    BY <4>2
                <5>2. /\ f[j - 1] \in Seq(Bytes) /\ f[j] \in Seq(Bytes)
                      /\ Len(f[j]) >= Len(f[j - 1]) + Len(words[j]) /\ Len(words[j]) \in Nat \ {0}
                    BY <1>8
                <5>3. Len(f[j]) > 0
                    <6>1. PICK x \in Nat, y \in Nat, w \in Nat \ {0} :
                              x = Len(f[j - 1]) /\ y = Len(f[j]) /\ w = Len(words[j])
                        BY <5>2
                    <6>2. y >= x + w
                        BY <5>2, <6>1, Zenon
                    <6>3. y > 0
                        BY <6>2
                    <6> QED
                        BY <6>1, <6>3, Zenon
                <5> QED
                    BY <4>2, <5>1, <5>2, <5>3
            <4> QED
                BY <4>1, <4>2
        <3>8. Buffered(f[i - 1], words[i]) = Typed(i, f[i - 1], words[i])
            BY <3>6, <3>7, Zenon DEF Buffered, Typed
        <3>9. d[i] = Buffered(d[i - 1], words[i]) /\ f[i] = Typed(i, f[i - 1], words[i])
            BY <1>5, <1>6
        <3> QED
            BY <3>2, <3>3, <3>8, <3>9
    <2>3. m \in S
        <3> HIDE DEF S
        <3> QED
            BY <2>1, <2>2, SetInduction
    <2> QED
        BY <2>3
<1> QED
    BY <1>3, <1>4, <1>7, <1>10

-----------------------------------------------------------------------------
(* Predictions and count tables. *)

\* Both backends score every token as the weights say.
LEMMA ScoresAgree ==
    ASSUME NEW role \in Roles, NEW v \in DOMAIN Vocabs, NEW h \in DOMAIN Acts
    PROVE  Scores[role][v][h] = ExactScores[v][h]
<1>1. PICK n \in Nat : n = Cardinality(Ids(v)) /\ Ids(v) = 0 .. n - 1
    BY VocabIs
<1>2. ASSUME NEW t \in 1 .. n
      PROVE  tq_dot(role, Heads[v].dtype, Heads[v].rows[t - 1], Acts[h])
                = InnerProduct(Heads[v].rows[t - 1], Acts[h])
    <2>1. PICK dtype \in {"Q4_0", "Q8_0"} : dtype = Heads[v].dtype
        BY SemaphoreAssumption
    <2>2. PICK W : /\ W = (IF dtype = "Q4_0" THEN -8 .. 7 ELSE -128 .. 127)
                   /\ (IF Heads[v].dtype = "Q4_0" THEN -8 .. 7 ELSE -128 .. 127) = W
        BY <2>1
    <2>3. Heads[v].rows \in [Ids(v) -> [0 .. GROUP - 1 -> W]]
        <3>1. Heads[v].rows \in [Ids(v) -> [0 .. GROUP - 1 -> IF Heads[v].dtype = "Q4_0" THEN -8 .. 7
                                                              ELSE -128 .. 127]]
            BY SemaphoreAssumption, ZenonT(40)
        <3>2. CASE Heads[v].dtype = "Q4_0"
            <4>1. W = -8 .. 7
                BY <2>2, <3>2
            <4>2. Heads[v].rows \in [Ids(v) -> [0 .. GROUP - 1 -> -8 .. 7]]
                BY <3>1, <3>2
            <4> QED
                BY <4>1, <4>2
        <3>3. CASE Heads[v].dtype # "Q4_0"
            <4>1. W = -128 .. 127
                BY <2>2, <3>3
            <4>2. Heads[v].rows \in [Ids(v) -> [0 .. GROUP - 1 -> -128 .. 127]]
                BY <3>1, <3>3
            <4> QED
                BY <4>1, <4>2
        <3> QED
            BY <3>2, <3>3
    <2>4. t - 1 \in Ids(v) /\ 0 .. GROUP - 1 = Elements
        <3>0. t - 1 \in 0 .. n - 1
            BY <1>2
        <3>1. t - 1 \in Ids(v)
            BY <1>1, <3>0, Zenon
        <3> QED
            BY <3>1 DEF GROUP, Elements
    <2>5. PICK q \in [Elements -> W] : q = Heads[v].rows[t - 1]
        BY <2>3, <2>4, Zenon
    <2>6. PICK a \in [Elements -> -128 .. 127] : a = Acts[h]
        BY <2>4, SemaphoreAssumption, ZenonT(40)
    <2>7. tq_dot(role, dtype, q, a) = InnerProduct(q, a)
        BY <2>2, KernelsExact
    <2> QED
        BY <2>1, <2>5, <2>6, <2>7
<1>3. Scores[role][v][h] = [t \in 1 .. n |->
          tq_dot(role, Heads[v].dtype, Heads[v].rows[t - 1], Acts[h]) \div LogitUnit]
    BY <1>1 DEF Scores
<1>4. ExactScores[v][h] = [t \in 1 .. n |-> InnerProduct(Heads[v].rows[t - 1], Acts[h]) \div LogitUnit]
    BY <1>1 DEF ExactScores
<1>5. ASSUME NEW t \in 1 .. n
      PROVE  tq_dot(role, Heads[v].dtype, Heads[v].rows[t - 1], Acts[h]) \div LogitUnit
                = InnerProduct(Heads[v].rows[t - 1], Acts[h]) \div LogitUnit
    BY <1>2, Zenon
<1> QED
    BY <1>3, <1>4, <1>5, Zenon

\* So their tables are the same.
LEMMA TablesAgree ==
    ASSUME NEW r1 \in Roles, NEW r2 \in Roles, NEW v \in DOMAIN Vocabs, NEW h \in DOMAIN Acts
    PROVE  /\ BucketTable[r1][v][h] = BucketTable[r2][v][h]
           /\ SymbolTable[r1][v][h] = SymbolTable[r2][v][h]
<1>1. Scores[r1][v][h] = Scores[r2][v][h]
    BY ScoresAgree, Zenon
<1>2. /\ BucketTable[r1][v][h] = tq_ac_bucket_counts(Scores[r1][v][h])
      /\ BucketTable[r2][v][h] = tq_ac_bucket_counts(Scores[r2][v][h])
    BY DEF BucketTable
<1>3. /\ SymbolTable[r1][v][h] = [b \in 1 .. nbuckets(Cardinality(Ids(v))) |->
                                      tq_ac_symbol_counts(Scores[r1][v][h], b)]
      /\ SymbolTable[r2][v][h] = [b \in 1 .. nbuckets(Cardinality(Ids(v))) |->
                                      tq_ac_symbol_counts(Scores[r2][v][h], b)]
    BY DEF SymbolTable
<1> QED
    BY <1>1, <1>2, <1>3, Zenon

\* A normalised table is as long as the weights.
LEMMA NormalizedLength ==
    ASSUME NEW n \in Nat, NEW w, Len(w) = n
    PROVE  Len(tq_ac_normalize(w)) = n
<1>1. ASSUME NEW share, NEW top, NEW x PROVE Len([[i \in 1 .. n |-> share[i]] EXCEPT ![top] = x]) = n
    OBVIOUS
<1> QED
    BY <1>1 DEF tq_ac_normalize

\* The length field.
LEMMA LenTableIs ==
    LenTable \in Tables /\ Len(LenTable) = LEN_SYMBOLS /\ LEN_SYMBOLS \in Nat \ {0}
<1>1. LEN_SYMBOLS \in Nat \ {0}
    BY SemaphoreAssumption, Sizes
<1>2. Len(LenTable) = LEN_SYMBOLS
    BY <1>1 DEF LenTable
<1> QED
    BY <1>1, <1>2, CodedTablesAssumption

\* How many tokens a bucket holds.
BucketSize(n, b) == IF n - (b - 1) * BUCKET < BUCKET THEN n - (b - 1) * BUCKET ELSE BUCKET

\* The bounds of a bucket.
LEMMA BucketIs ==
    ASSUME NEW n \in Nat \ {0}, NEW b \in 1 .. nbuckets(n)
    PROVE  /\ nbuckets(n) \in Nat \ {0}
           /\ (b - 1) * BUCKET \in Nat /\ (b - 1) * BUCKET < n
           /\ b * BUCKET = (b - 1) * BUCKET + BUCKET
           /\ BucketSize(n, b) \in Nat \ {0}
           /\ (b - 1) * BUCKET + BucketSize(n, b) <= n
           /\ Cardinality(BucketTokens(n, b)) = BucketSize(n, b)
<1>1. PICK B \in Nat \ {0} : B = BUCKET
    BY SemaphoreAssumption, Sizes, SMTT(30)
<1>2. n + B - 1 \in Nat /\ B \in Nat /\ B > 0
    OBVIOUS
<1>3. PICK q \in Nat, m \in 0 .. B - 1 :
          q = (n + B - 1) \div B /\ n + B - 1 = B * q + m
    <2>1. PICK a \in Nat : a = n + B - 1
        BY <1>2
    <2>2. a \div B \in Nat /\ a % B \in 0 .. B - 1 /\ a = B * (a \div B) + (a % B)
        BY <1>2, DivMod
    <2> QED
        BY <2>1, <2>2
<1>4. nbuckets(n) = q
    BY <1>1, <1>3 DEF nbuckets
<1>5. b \in Nat /\ 1 <= b /\ b <= q /\ q # 0
    BY <1>4
<1>6. PICK c \in Nat : c = b - 1 /\ c + 1 <= q
    BY <1>5
<1>7. PICK lo \in Nat : lo = c * B /\ lo + B = (c + 1) * B
    <2>1. c * B \in Nat /\ (c + 1) * B = c * B + B
        OBVIOUS
    <2> QED
        BY <2>1
<1>8. (c + 1) * B <= q * B /\ q * B = B * q
    BY <1>6, MulMono
<1>9. lo < n
    <2>1. PICK x \in Nat : x = B * q /\ n + B - 1 = x + m
        BY <1>3, <1>8
    <2>2. lo + B <= x
        BY <1>7, <1>8, <2>1
    <2> QED
        BY <2>1, <2>2
<1>10. PICK k \in Nat \ {0} : k = BucketSize(n, b) /\ k = IF n - lo < B THEN n - lo ELSE B
    <2>1. BucketSize(n, b) = IF n - lo < B THEN n - lo ELSE B
        BY <1>1, <1>6, <1>7 DEF BucketSize
    <2> QED
        BY <1>9, <2>1
<1>11. lo + k <= n
    BY <1>9, <1>10
<1>12. BucketTokens(n, b) = lo + 1 .. lo + k
    <2>1. (b - 1) * BUCKET = lo /\ b * BUCKET = lo + B
        BY <1>1, <1>6, <1>7
    <2>2. BucketTokens(n, b) = {i \in 1 .. n : lo < i /\ i <= lo + B}
        BY <2>1, Zenon DEF BucketTokens
    <2>3. ASSUME NEW i PROVE i \in {j \in 1 .. n : lo < j /\ j <= lo + B} <=> i \in lo + 1 .. lo + k
        BY <1>9, <1>10
    <2> QED
        BY <2>2, <2>3
<1>13. Cardinality(lo + 1 .. lo + k) = k
    <2>1. PICK i \in Int, j \in Int : i = lo + 1 /\ j = lo + k
        OBVIOUS
    <2>2. Cardinality(i .. j) = IF i > j THEN 0 ELSE j - i + 1
        BY FS_Interval
    <2>3. ~ (i > j) /\ j - i + 1 = k
        BY <2>1
    <2> QED
        BY <2>1, <2>2, <2>3
<1> QED
    BY <1>1, <1>4, <1>5, <1>6, <1>7, <1>9, <1>10, <1>11, <1>12, <1>13

\* Where a token is.
LEMMA TokenPlace ==
    ASSUME NEW n \in Nat \ {0}, NEW tok \in 1 .. n
    PROVE  /\ BucketOf(tok) \in 1 .. nbuckets(n)
           /\ SymbolOf(tok) \in 1 .. BucketSize(n, BucketOf(tok))
           /\ (BucketOf(tok) - 1) * BUCKET + SymbolOf(tok) = tok
<1>1. PICK B \in Nat \ {0} : B = BUCKET
    BY SemaphoreAssumption, Sizes
<1>2. PICK x \in Nat : x = tok - 1
    OBVIOUS
<1>3. PICK c \in Nat, s \in 0 .. B - 1 : c = x \div B /\ s = x % B /\ x = B * c + s
    BY DivMod
<1>4. BucketOf(tok) = c + 1 /\ SymbolOf(tok) = s + 1
    BY <1>1, <1>2, <1>3 DEF BucketOf, SymbolOf
<1>5. PICK lo \in Nat : lo = c * B /\ lo = B * c /\ tok = lo + s + 1
    <2>1. c * B \in Nat /\ c * B = B * c
        OBVIOUS
    <2>2. tok = B * c + s + 1
        BY <1>2, <1>3
    <2> QED
        BY <2>1, <2>2
<1>6. n + B - 1 \in Nat /\ B \in Nat /\ B > 0
    OBVIOUS
<1>7. c + 1 <= nbuckets(n)
    <2>1. PICK a \in Nat : a = n + B - 1
        BY <1>6
    <2>2. (c + 1) * B = lo + B
        BY <1>5
    <2>3. (c + 1) * B <= a
        BY <1>5, <2>1, <2>2
    <2>4. c + 1 <= a \div B
        BY <1>6, <2>3, DivBound
    <2> QED
        BY <1>1, <2>1, <2>4 DEF nbuckets
<1>8. nbuckets(n) \in Nat
    <2>1. PICK a \in Nat : a = n + B - 1
        BY <1>6
    <2> QED
        BY <1>1, <1>6, <2>1, DivMod DEF nbuckets
<1>9. BucketOf(tok) \in 1 .. nbuckets(n)
    BY <1>4, <1>7, <1>8
<1>10. (BucketOf(tok) - 1) * BUCKET = lo
    <2>1. BucketOf(tok) - 1 = c
        BY <1>4
    <2> QED
        BY <1>1, <1>5, <2>1
<1>11. BucketSize(n, BucketOf(tok)) = IF n - lo < B THEN n - lo ELSE B
    BY <1>1, <1>10, Zenon DEF BucketSize
<1> QED
    BY <1>4, <1>5, <1>9, <1>10, <1>11

\* The count tables of a prediction, and their lengths.
LEMMA TablesAre ==
    ASSUME NEW role \in Roles, NEW v \in Codable, NEW h \in DOMAIN Acts,
           NEW n, n = Cardinality(Ids(v))
    PROVE  /\ BucketTable[role][v][h] \in Tables
           /\ Len(BucketTable[role][v][h]) = nbuckets(n)
           /\ \A b \in 1 .. nbuckets(n) :
                 /\ SymbolTable[role][v][h][b] \in Tables
                 /\ Len(SymbolTable[role][v][h][b]) = BucketSize(n, b)
<1>0. v \in DOMAIN Vocabs
    BY DEF Codable
<1>1. n \in Nat \ {0}
    BY <1>0, VocabIs
<1>2. nbuckets(n) \in Nat
    <2>1. PICK B \in Nat \ {0} : B = BUCKET
        BY SemaphoreAssumption, Sizes
    <2>2. PICK a \in Nat : a = n + B - 1
        BY <1>1
    <2>3. B \in Nat /\ B > 0
        OBVIOUS
    <2> QED
        BY <2>1, <2>2, <2>3, DivMod DEF nbuckets
<1>3. PICK lg : lg = Scores[role][v][h]
    OBVIOUS
<1>4. Len(lg) = n
    BY <1>0, <1>1, <1>3 DEF Scores
<1>5. Len(tq_ac_bucket_counts(lg)) = nbuckets(n)
    <2>1. ASSUME NEW f PROVE Len(tq_ac_normalize([b \in 1 .. nbuckets(n) |-> f[b]])) = nbuckets(n)
        <3>1. PICK w : w = [b \in 1 .. nbuckets(n) |-> f[b]]
            OBVIOUS
        <3>2. Len(w) = nbuckets(n)
            BY <1>2, <3>1
        <3> QED
            BY <1>2, <3>1, <3>2, NormalizedLength
    <2> DEFINE w == [i \in 1 .. n |-> Weight(lg[i], Peak(lg, 1 .. n))]
               f == [b \in 1 .. nbuckets(n) |-> SumOver(w, BucketTokens(n, b))]
    <2>2. tq_ac_bucket_counts(lg) = tq_ac_normalize(f)
        BY <1>4 DEF tq_ac_bucket_counts
    <2>3. f = [b \in 1 .. nbuckets(n) |-> f[b]]
        OBVIOUS
    <2> HIDE DEF f
    <2> QED
        BY <2>1, <2>2, <2>3, Zenon
<1>6. ASSUME NEW b \in 1 .. nbuckets(n) PROVE Len(tq_ac_symbol_counts(lg, b)) = BucketSize(n, b)
    <2>1. PICK k \in Nat : k = BucketSize(n, b) /\ k = Cardinality(BucketTokens(n, b))
        BY <1>1, BucketIs
    <2> DEFINE f == [i \in 1 .. k |->
                        Weight(lg[(b - 1) * BUCKET + i], Peak(lg, BucketTokens(n, b)))]
    <2>2. tq_ac_symbol_counts(lg, b) = tq_ac_normalize(f)
        BY <1>4, <2>1 DEF tq_ac_symbol_counts
    <2>3. Len(f) = k
        OBVIOUS
    <2> HIDE DEF f
    <2> QED
        BY <2>1, <2>2, <2>3, NormalizedLength
<1>7. BucketTable[role][v][h] = tq_ac_bucket_counts(lg)
    BY <1>0, <1>3 DEF BucketTable
<1>8. ASSUME NEW b \in 1 .. nbuckets(n)
      PROVE  SymbolTable[role][v][h][b] = tq_ac_symbol_counts(lg, b)
    BY <1>0, <1>3 DEF SymbolTable
<1>9. /\ BucketTable[role][v][h] \in Tables
      /\ \A b \in 1 .. nbuckets(n) : SymbolTable[role][v][h][b] \in Tables
    BY CodedTablesAssumption
<1> QED
    BY <1>5, <1>6, <1>7, <1>8, <1>9

-----------------------------------------------------------------------------
(* The two commands.  What the sender has coded is what the message says,    *)
(* one prediction after the other; what the receiver has decoded stays       *)
(* inside the tables, and on an intact wire follows the message.             *)

\* The two symbols of token j + 1 of a message.
NextBucket(v, role, m, j) ==
    [cnt |-> BucketTable[role][v][Hidden(SubSeq(m, 1, j))], sym |-> BucketOf(m[j + 1])]
NextSymbol(v, role, m, j) ==
    [cnt |-> SymbolTable[role][v][Hidden(SubSeq(m, 1, j))][BucketOf(m[j + 1])],
     sym |-> SymbolOf(m[j + 1])]

SentFor(v, role, m, s, c) ==
    /\ s[1] = [cnt |-> LenTable, sym |-> Len(m) + 1]
    /\ \A j \in 0 .. c - 1 : s[2 * j + 2] = NextBucket(v, role, m, j)
                             /\ s[2 * j + 3] = NextSymbol(v, role, m, j)

SenderOK(v, role, m, pc, ph, c, s, ep, ov) ==
    /\ role \in Roles
    /\ ph \in {"idle", "refused", "token", "symbol", "failed", "flushing", "sent"}
    /\ ph \notin {"idle", "refused"} => pc = "encoded"
    /\ pc = "encoded" => v \in Codable
    /\ ph = "idle" => c = 0 /\ s = <<>>
    /\ ph \in {"token", "symbol", "flushing", "sent"} =>
          /\ c \in 0 .. Len(m) /\ Len(m) < LEN_SYMBOLS
          /\ SentFor(v, role, m, s, c)
          /\ Len(s) = IF ph = "symbol" THEN 2 * c + 2 ELSE 2 * c + 1
    /\ ph = "symbol" => c < Len(m) /\ s[2 * c + 2] = NextBucket(v, role, m, c)
    /\ ph \in {"flushing", "sent"} => c = Len(m)
    /\ ph = "sent" => ep = "finished" /\ ~ ov

Follows1(m, g) == \A i \in 1 .. Len(g) : g[i] = m[i]

ReceiverOK(v, m, role, sph, ph, lk, w, g, f, dp) ==
    /\ lk \in {"none", "whole", "cut", "stray"}
    /\ ph \in {"idle", "refused", "length", "token", "symbol", "failed", "done"}
    /\ lk = "none" <=> ph = "idle"
    /\ lk # "none" => sph = "sent" /\ role \in Roles
    /\ w \in 0 .. LEN_SYMBOLS - 1
    /\ g \in Seq(1 .. Cardinality(Ids(v))) /\ Len(g) <= w
    /\ ph = "idle" => dp = "idle"
    /\ ph = "length" => f = <<>>
    /\ ph \in {"idle", "length", "refused"} => g = <<>>
    /\ ph \in {"token", "failed"} => Len(f) = 2 * Len(g) + 1
    /\ ph = "symbol" => /\ Len(f) = 2 * Len(g) + 2 /\ Len(g) < w /\ Len(g) < MaxSeq
                        /\ f[Len(f)] \in 1 .. nbuckets(Cardinality(Ids(v)))
    /\ lk = "whole" /\ ph \in {"token", "symbol", "failed", "done"} => w = Len(m) /\ Follows1(m, g)
    /\ ph = "done" => Len(g) = w

Sends == SenderOK(vocab, sender, msg, tpc, sphase, coded, sent, epc, overflow)
Receives == ReceiverOK(vocab, msg, receiver, sphase, rphase, link, want, got, found, dpc)
Coder == Inv /\ (link \in {"none", "whole"} => FullInv)
Given == sender = "board" => line \in BoardLines /\ text = BoardText(line)

SemInv == /\ TokInv /\ MergedOut /\ Given
          /\ Coder /\ Sends /\ Receives
          /\ IntactWireAccepted /\ TextArrives

\* The tokens behind the opening one.
LEMMA MsgIs ==
    ASSUME TokInv, tpc = "encoded"
    PROVE  /\ vocab \in DOMAIN Vocabs /\ text \in Seq(Bytes)
           /\ msg \in Seq(1 .. Cardinality(Ids(vocab)))
           /\ Len(msg) = Len(tokens) - 1 /\ Len(msg) \in Nat
           /\ Cardinality(Ids(vocab)) \in Nat \ {0}
<1>1. /\ vocab \in DOMAIN Vocabs /\ text \in Seq(Bytes) /\ tokens \in Seq(Ids(vocab))
      /\ Len(tokens) >= 1
    BY DEF TokInv, TokOK, TokTypes, Spelling, Spelt
<1>2. PICK n \in Nat \ {0} : n = Cardinality(Ids(vocab)) /\ Ids(vocab) = 0 .. n - 1
    BY <1>1, VocabIs
<1>3. PICK l \in Nat : l + 1 = Len(tokens)
    <2>1. PICK k \in Nat : k = Len(tokens)
        BY <1>1
    <2>2. k - 1 \in Nat /\ (k - 1) + 1 = k
        BY <1>1, <2>1
    <2> QED
        BY <2>1, <2>2
<1>4. ASSUME NEW k \in 1 .. l PROVE tokens[k + 1] + 1 \in 1 .. n
    <2>1. k + 1 \in 1 .. Len(tokens)
        BY <1>3
    <2>2. tokens[k + 1] \in 0 .. n - 1
        BY <1>1, <1>2, <2>1
    <2> QED
        BY <2>2
<1>5. msg = [k \in 1 .. l |-> tokens[k + 1] + 1]
    <2>1. Len(tokens) - 1 = l
        BY <1>3
    <2> QED
        BY <2>1 DEF msg
<1>6. msg \in Seq(1 .. n) /\ Len(msg) = l
    BY <1>4, <1>5
<1> QED
    BY <1>1, <1>2, <1>3, <1>6

\* A message that fits the length field, at every prefix, has a prediction.
LEMMA PrefixKnown ==
    ASSUME NEW v \in DOMAIN Vocabs, NEW g \in Seq(1 .. Cardinality(Ids(v))),
           Len(g) < LEN_SYMBOLS
    PROVE  Hidden(g) \in DOMAIN Acts
<1>1. LEN_SYMBOLS \in Nat
    BY LenTableIs
<1>2. PICK n \in Nat : n = Len(g)
    OBVIOUS
<1>3. n \in 0 .. LEN_SYMBOLS - 1
    BY <1>1, <1>2
<1>4. g \in [1 .. n -> 1 .. Cardinality(Ids(v))]
    <2>1. PICK V : V = 1 .. Cardinality(Ids(v))
        OBVIOUS
    <2>2. g \in Seq(V)
        BY <2>1
    <2>3. g \in [1 .. n -> V]
        BY <1>2, <2>2
    <2> QED
        BY <2>1, <2>3
<1> QED
    BY <1>3, <1>4, SemaphoreAssumption

\* The first j tokens.
Front(m, j) == SubSeq(m, 1, j)

\* They are the first j tokens.
LEMMA FrontIs ==
    ASSUME NEW V, NEW m \in Seq(V), NEW j \in 0 .. Len(m)
    PROVE  /\ Front(m, j) \in Seq(V) /\ Len(Front(m, j)) = j
           /\ \A i \in 1 .. j : Front(m, j)[i] = m[i]
<1>1. Len(m) \in Nat /\ j \in Nat /\ j <= Len(m)
    OBVIOUS
<1>2. CASE j = 0
    <2>1. SubSeq(m, 1, 0) = <<>>
        OBVIOUS
    <2> QED
        BY <1>2, <2>1 DEF Front
<1>3. CASE j # 0
    <2>1. 1 \in 1 .. Len(m) /\ j \in 1 .. Len(m)
        BY <1>1, <1>3
    <2> QED
        BY <1>1, <1>3, <2>1 DEF Front
<1> QED
    BY <1>2, <1>3

\* A decoded sequence that follows the message is a prefix of it.
LEMMA FrontFollows ==
    ASSUME NEW V, NEW m \in Seq(V), NEW g \in Seq(V), Len(g) <= Len(m), Follows1(m, g)
    PROVE  Front(m, Len(g)) = g
<1>1. PICK j \in 0 .. Len(m) : j = Len(g)
    OBVIOUS
<1>2. PICK f \in Seq(V) : f = Front(m, j) /\ Len(f) = j /\ \A i \in 1 .. j : f[i] = m[i]
    BY FrontIs
<1>3. \A i \in 1 .. j : f[i] = g[i]
    BY <1>1, <1>2 DEF Follows1
<1> QED
    BY <1>1, <1>2, <1>3, SeqEqual

\* Token j + 1 of a message: its two tables, and a symbol of each.
LEMMA NextTables ==
    ASSUME NEW v \in Codable, NEW role \in Roles,
           NEW m \in Seq(1 .. Cardinality(Ids(v))), Len(m) < LEN_SYMBOLS,
           NEW j \in 0 .. Len(m) - 1
    PROVE  /\ NextBucket(v, role, m, j).cnt \in Tables
           /\ NextBucket(v, role, m, j).sym \in 1 .. Len(NextBucket(v, role, m, j).cnt)
           /\ NextSymbol(v, role, m, j).cnt \in Tables
           /\ NextSymbol(v, role, m, j).sym \in 1 .. Len(NextSymbol(v, role, m, j).cnt)
           /\ m[j + 1] \in 1 .. Cardinality(Ids(v))
           /\ Hidden(Front(m, j)) \in DOMAIN Acts
<1>0. v \in DOMAIN Vocabs
    BY DEF Codable
<1>1. PICK n \in Nat \ {0} : n = Cardinality(Ids(v))
    BY <1>0, VocabIs
<1>2. PICK l \in Nat : l = Len(m) /\ l < LEN_SYMBOLS
    OBVIOUS
<1>3. LEN_SYMBOLS \in Nat
    BY LenTableIs
<1>4. j \in 0 .. Len(m) /\ j < LEN_SYMBOLS /\ j + 1 \in 1 .. Len(m)
    BY <1>2, <1>3
<1>5. PICK g \in Seq(1 .. n) : g = Front(m, j) /\ Len(g) = j
    BY <1>1, <1>4, FrontIs
<1>6. PICK h \in DOMAIN Acts : h = Hidden(Front(m, j))
    <2>1. g \in Seq(1 .. Cardinality(Ids(v))) /\ Len(g) < LEN_SYMBOLS
        BY <1>1, <1>4, <1>5
    <2>2. Hidden(g) \in DOMAIN Acts
        BY <1>0, <2>1, PrefixKnown
    <2> QED
        BY <1>5, <2>2
<1>7. PICK tok \in 1 .. n : tok = m[j + 1]
    <2>1. m \in Seq(1 .. n)
        BY <1>1
    <2> QED
        BY <1>4, <2>1
<1>8. PICK b \in 1 .. nbuckets(n) :
          /\ b = BucketOf(tok) /\ SymbolOf(tok) \in 1 .. BucketSize(n, b)
    BY TokenPlace
<1>9. /\ BucketTable[role][v][h] \in Tables /\ Len(BucketTable[role][v][h]) = nbuckets(n)
      /\ SymbolTable[role][v][h][b] \in Tables
      /\ Len(SymbolTable[role][v][h][b]) = BucketSize(n, b)
    BY <1>1, TablesAre
<1>10. NextBucket(v, role, m, j) = [cnt |-> BucketTable[role][v][h], sym |-> b]
    BY <1>6, <1>7, <1>8 DEF NextBucket, Front
<1>11. NextSymbol(v, role, m, j) = [cnt |-> SymbolTable[role][v][h][b], sym |-> SymbolOf(tok)]
    BY <1>6, <1>7, <1>8 DEF NextSymbol, Front
<1> QED
    BY <1>1, <1>6, <1>7, <1>8, <1>9, <1>10, <1>11, SMTT(30)

\* Two ends that read the same prefix predict the same.
LEMMA SameTables ==
    ASSUME NEW v \in Codable, NEW r1 \in Roles, NEW r2 \in Roles,
           NEW m \in Seq(1 .. Cardinality(Ids(v))), Len(m) < LEN_SYMBOLS,
           NEW j \in 0 .. Len(m) - 1
    PROVE  /\ NextBucket(v, r1, m, j) = NextBucket(v, r2, m, j)
           /\ NextSymbol(v, r1, m, j) = NextSymbol(v, r2, m, j)
<1>0. v \in DOMAIN Vocabs
    BY DEF Codable
<1>1. PICK h \in DOMAIN Acts : h = Hidden(SubSeq(m, 1, j))
    BY NextTables DEF Front
<1>2. /\ BucketTable[r1][v][h] = BucketTable[r2][v][h]
      /\ SymbolTable[r1][v][h] = SymbolTable[r2][v][h]
    BY <1>0, TablesAgree
<1> QED
    BY <1>1, <1>2, Zenon DEF NextBucket, NextSymbol
\* A step of the coder keeps what its proof rests on.
LEMMA FullKeeps ==
    ASSUME FullInv, [Next]_vars
    PROVE  FullInv'
BY NextInv, NextTail, NextSaid, NextDec DEF FullInv

\* A symbol of a table is coded.
LEMMA SendKeeps ==
    ASSUME FullInv, NEW cnt \in Tables, NEW i \in 1 .. Len(cnt), Len(sent) < MaxSyms,
           Send(cnt, i)
    PROVE  /\ FullInv' /\ UNCHANGED decVars
           /\ sent' = Append(sent, [cnt |-> cnt, sym |-> i])
<1>1. Next
    BY DEF Next
<1>2. FullInv'
    BY <1>1, FullKeeps
<1> QED
    BY <1>2 DEF Send

\* The tokenizer's state is left alone.
LEMMA TokStays ==
    ASSUME UNCHANGED tokVars, TokInv, MergedOut
    PROVE  /\ TokInv' /\ MergedOut' /\ msg' = msg
           /\ UNCHANGED <<text, vocab, max_tokens, tpc, split, tokens>>
<1>1. /\ text' = text /\ vocab' = vocab /\ max_tokens' = max_tokens
      /\ tpc' = tpc /\ split' = split /\ tokens' = tokens
    BY DEF tokVars
<1>2. TokInv'
    BY <1>1, Zenon DEF TokInv
<1>3. MergedOut'
    BY <1>1, ZenonT(40) DEF MergedOut, Joined, Piece
<1>4. msg' = msg
    BY <1>1, Zenon DEF msg
<1> QED
    BY <1>1, <1>2, <1>3, <1>4

\* Where the receiver has not begun.
LEMMA NotBegun ==
    ASSUME Receives, sphase # "sent"
    PROVE  /\ link = "none" /\ rphase = "idle" /\ got = <<>> /\ dpc = "idle"
           /\ want \in 0 .. LEN_SYMBOLS - 1
<1>1. link = "none"
    BY DEF Receives, ReceiverOK
<1> QED
    BY <1>1 DEF Receives, ReceiverOK

\* A receiver that has not begun, whatever the sender does.
LEMMA IdleReceiver ==
    ASSUME NEW v, NEW m, NEW role, NEW ph, NEW w \in 0 .. LEN_SYMBOLS - 1, NEW f
    PROVE  ReceiverOK(v, m, role, ph, "idle", "none", w, <<>>, f, "idle")
<1>1. LEN_SYMBOLS \in Nat
    BY LenTableIs
<1>2. <<>> \in Seq(1 .. Cardinality(Ids(v))) /\ Len(<<>>) = 0
    OBVIOUS
<1>3. 0 <= w
    BY <1>1
<1> QED
    BY <1>2, <1>3 DEF ReceiverOK

\* What is left to show of a step of the sender.
LEMMA SenderStep ==
    ASSUME SemInv, sphase # "sent", UNCHANGED <<tokVars, decVars>>,
           UNCHANGED <<sender, receiver, line, out, rphase, want, got, link>>,
           FullInv', Sends'
    PROVE  SemInv'
<1>1. TokInv /\ MergedOut /\ Given /\ Receives
    BY DEF SemInv
<1>2. /\ link = "none" /\ rphase = "idle" /\ got = <<>> /\ dpc = "idle"
      /\ want \in 0 .. LEN_SYMBOLS - 1
    BY <1>1, NotBegun
<1>3. /\ TokInv' /\ MergedOut' /\ text' = text
    BY <1>1, TokStays
<1>4. /\ sender' = sender /\ line' = line /\ link' = "none" /\ rphase' = "idle"
      /\ want' = want /\ got' = <<>> /\ dpc' = "idle"
    BY <1>2 DEF decVars
<1>5. Given'
    BY <1>1, <1>3, <1>4, Zenon DEF Given
<1>6. Coder'
    BY DEF Coder, FullInv
<1>7. Receives'
    <2>1. ReceiverOK(vocab', msg', receiver', sphase', "idle", "none", want, <<>>, found', "idle")
        BY <1>2, IdleReceiver
    <2> QED
        BY <1>4, <2>1, Zenon DEF Receives
<1>8. IntactWireAccepted' /\ TextArrives'
    BY <1>4 DEF IntactWireAccepted, TextArrives
<1> QED
    BY <1>3, <1>5, <1>6, <1>7, <1>8 DEF SemInv

\* What is left to show of a step of the receiver.
LEMMA ReceiverStep ==
    ASSUME SemInv, UNCHANGED <<tokVars, coderVars, sender, line, sphase, coded>>,
           Coder', Receives', IntactWireAccepted', TextArrives'
    PROVE  SemInv'
<1>1. TokInv /\ MergedOut /\ Given /\ Sends
    BY DEF SemInv
<1>2. TokInv' /\ MergedOut' /\ text' = text /\ vocab' = vocab /\ tpc' = tpc /\ msg' = msg
    BY <1>1, TokStays
<1>3. /\ sender' = sender /\ line' = line /\ sphase' = sphase /\ coded' = coded
      /\ sent' = sent /\ epc' = epc /\ overflow' = overflow
    BY DEF coderVars, encVars
<1>4. Given'
    BY <1>1, <1>2, <1>3, Zenon DEF Given
<1>5. Sends'
    BY <1>1, <1>2, <1>3, Zenon DEF Sends
<1> QED
    BY <1>2, <1>4, <1>5 DEF SemInv

\* The commands are given.
LEMMA SemInitInv == SemInit => SemInv
<1> SUFFICES ASSUME SemInit PROVE SemInv
    OBVIOUS
<1>1. /\ Init /\ vocab \in DOMAIN Vocabs /\ tpc = "start" /\ split = 0 /\ tokens = <<>>
      /\ sphase = "idle" /\ coded = 0 /\ rphase = "idle" /\ want = 0 /\ got = <<>>
      /\ link = "none"
    BY DEF SemInit, TokInit
<1>2. LEN_SYMBOLS \in Nat \ {0}
    BY LenTableIs
<1>3. /\ text \in Seq(Bytes) /\ max_tokens \in Nat /\ sender \in Roles /\ Given
    <2>1. CASE sender = "host" /\ max_tokens = 2 * LEN_SYMBOLS /\ text \in HostTexts
        BY <1>2, <2>1, SemaphoreAssumption DEF Roles, Given
    <2>2. CASE /\ sender = "board" /\ max_tokens = LEN_SYMBOLS
               /\ line \in BoardLines /\ text = BoardText(line)
        BY <1>2, <2>2, BoardTextIs DEF Roles, Given
    <2> QED
        BY <2>1, <2>2 DEF SemInit
<1>4. TokInv
    <2>1. /\ <<>> \in Seq(Ids(vocab)) /\ Len(<<>>) <= max_tokens /\ 0 \in 0 .. Len(text)
        BY <1>3
    <2>2. TokTypes(vocab, text, max_tokens, "start", 0, <<>>)
        BY <1>1, <1>3, <2>1 DEF TokTypes
    <2>3. Spelling(vocab, text, "start", 0, <<>>)
        BY DEF Spelling
    <2> QED
        BY <1>1, <2>2, <2>3, Zenon DEF TokInv, TokOK
<1>5. MergedOut /\ IntactWireAccepted /\ TextArrives
    BY <1>1 DEF MergedOut, IntactWireAccepted, TextArrives
<1>6. FullInv /\ Coder
    BY <1>1, InitFull DEF FullInv, Coder
<1>7. sent = <<>> /\ dpc = "idle"
    BY <1>1 DEF Init, DecIdle
<1>8. Sends
    BY <1>1, <1>3, <1>7 DEF Sends, SenderOK
<1>9. Receives
    <2>1. 0 \in 0 .. LEN_SYMBOLS - 1
        BY <1>2
    <2>2. ReceiverOK(vocab, msg, receiver, sphase, "idle", "none", 0, <<>>, found, "idle")
        BY <2>1, IdleReceiver
    <2> QED
        BY <1>1, <1>7, <2>2, Zenon DEF Receives
<1> QED
    BY <1>3, <1>4, <1>5, <1>6, <1>8, <1>9 DEF SemInv

\* The coder does not take the vocabulary.
LEMMA NotReadyKeeps ==
    ASSUME SemInv, NotReady PROVE SemInv'
<1>1. /\ TokInv /\ MergedOut /\ Coder /\ Sends /\ Receives /\ sphase = "idle"
      /\ sphase' = "refused" /\ coded' = coded /\ UNCHANGED vars /\ UNCHANGED tokVars
      /\ UNCHANGED <<sender, receiver, line, out, rphase, want, got, link>>
    BY DEF SemInv, NotReady
<1>2. FullInv
    BY <1>1, NotBegun DEF Coder
<1>3. FullInv' /\ UNCHANGED decVars
    BY <1>1, <1>2, FullKeeps DEF vars
<1>4. vocab' = vocab /\ tpc' = tpc /\ sender' = sender
    BY <1>1, TokStays
<1>5. Sends'
    BY <1>1, <1>4 DEF Sends, SenderOK
<1> QED
    BY <1>1, <1>3, <1>5, SenderStep

\* tq_encode takes a step.
LEMMA TokenizeKeeps ==
    ASSUME SemInv, Tokenize PROVE SemInv'
<1>1. /\ TokInv /\ Given /\ Coder /\ Sends /\ Receives /\ TokStep
      /\ UNCHANGED vars /\ UNCHANGED semVars /\ sphase = "idle" /\ vocab \in Codable
    BY DEF SemInv, Tokenize
<1>3. sphase = "idle" /\ coded = 0 /\ sent = <<>> /\ sender \in Roles
    BY <1>1 DEF Sends, SenderOK
<1>4. /\ link = "none" /\ rphase = "idle" /\ got = <<>> /\ dpc = "idle"
      /\ want \in 0 .. LEN_SYMBOLS - 1
    BY <1>1, <1>3, NotBegun
<1>5. /\ sphase' = "idle" /\ coded' = 0 /\ sent' = <<>> /\ sender' = sender /\ line' = line
      /\ link' = "none" /\ rphase' = "idle" /\ got' = <<>> /\ dpc' = "idle" /\ want' = want
    BY <1>1, <1>3, <1>4 DEF vars, semVars, decVars
<1>6. TokInv' /\ MergedOut' /\ text' = text /\ vocab' = vocab
    <2>1. CASE Start
        <3>1. tpc' # "encoded" /\ text' = text /\ vocab' = vocab
            BY <2>1 DEF Start, Push
        <3> QED
            BY <1>1, <2>1, <3>1, StartKeeps DEF MergedOut
    <2>2. CASE Split
        <3>1. tpc' # "encoded" /\ text' = text /\ vocab' = vocab
            BY <2>2 DEF Split, Push
        <3> QED
            BY <1>1, <2>2, <3>1, SplitKeeps DEF MergedOut
    <2>3. CASE SplitDone
        <3>1. tpc' # "encoded" /\ text' = text /\ vocab' = vocab
            BY <2>3 DEF SplitDone
        <3> QED
            BY <1>1, <2>3, <3>1, SplitDoneKeeps DEF MergedOut
    <2>4. CASE Merge
        <3>1. tpc' # "encoded" /\ text' = text /\ vocab' = vocab
            BY <2>4 DEF Merge
        <3> QED
            BY <1>1, <2>4, <3>1, MergeKeeps DEF MergedOut
    <2>5. CASE MergeDone
        <3>1. text' = text /\ vocab' = vocab
            BY <2>5 DEF MergeDone
        <3> QED
            BY <1>1, <2>5, <3>1, MergeDoneKeeps
    <2> QED
        BY <1>1, <2>1, <2>2, <2>3, <2>4, <2>5 DEF TokStep
<1>7. Given'
    BY <1>1, <1>5, <1>6, Zenon DEF Given
<1>8. Coder'
    <2>1. FullInv
        BY <1>1, <1>4 DEF Coder
    <2>2. FullInv'
        BY <1>1, <2>1, FullKeeps
    <2> QED
        BY <2>2 DEF Coder, FullInv
<1>9. Sends'
    BY <1>1, <1>3, <1>5, <1>6 DEF Sends, SenderOK
<1>10. Receives'
    <2>1. ReceiverOK(vocab', msg', receiver', sphase', "idle", "none", want, <<>>, found', "idle")
        BY <1>4, IdleReceiver
    <2> QED
        BY <1>5, <2>1, Zenon DEF Receives
<1>11. IntactWireAccepted' /\ TextArrives'
    BY <1>5 DEF IntactWireAccepted, TextArrives
<1> QED
    BY <1>6, <1>7, <1>8, <1>9, <1>10, <1>11 DEF SemInv

\* One symbol more behind a row.
LEMMA RowMore ==
    ASSUME NEW V, NEW s \in Seq(V), NEW e \in V
    PROVE  /\ Append(s, e) \in Seq(V) /\ Len(Append(s, e)) = Len(s) + 1
           /\ Append(s, e)[Len(s) + 1] = e
           /\ \A i \in 1 .. Len(s) : Append(s, e)[i] = s[i]
OBVIOUS

\* What was sent stays sent.
LEMMA SentForMore ==
    ASSUME NEW v, NEW role, NEW m, NEW c \in Nat, NEW V, NEW s \in Seq(V), NEW z,
           Len(s) >= 2 * c + 1, \A i \in 1 .. Len(s) : z[i] = s[i],
           SentFor(v, role, m, s, c)
    PROVE  SentFor(v, role, m, z, c)
<1>1. PICK n \in Nat : n = Len(s) /\ n >= 2 * c + 1
    OBVIOUS
<1>2. z[1] = s[1]
    BY <1>1
<1>3. ASSUME NEW j \in 0 .. c - 1 PROVE z[2 * j + 2] = s[2 * j + 2] /\ z[2 * j + 3] = s[2 * j + 3]
    <2>1. 2 * j + 2 \in 1 .. n /\ 2 * j + 3 \in 1 .. n
        BY <1>1
    <2> QED
        BY <1>1, <2>1
<1> QED
    BY <1>2, <1>3 DEF SentFor

\* One token more was sent.
LEMMA SentForNext ==
    ASSUME NEW v, NEW role, NEW m, NEW c \in Nat, NEW s, SentFor(v, role, m, s, c),
           s[2 * c + 2] = NextBucket(v, role, m, c), s[2 * c + 3] = NextSymbol(v, role, m, c)
    PROVE  SentFor(v, role, m, s, c + 1)
<1>1. ASSUME NEW j \in 0 .. (c + 1) - 1
      PROVE  s[2 * j + 2] = NextBucket(v, role, m, j) /\ s[2 * j + 3] = NextSymbol(v, role, m, j)
    <2>1. CASE j = c
        BY <2>1
    <2>2. CASE j # c
        <3>1. j \in 0 .. c - 1
            BY <2>2
        <3> QED
            BY <3>1 DEF SentFor
    <2> QED
        BY <2>1, <2>2
<1> QED
    BY <1>1 DEF SentFor

\* What a sender that still codes knows.
LEMMA SenderKnows ==
    ASSUME SemInv, sphase \in {"token", "symbol"}
    PROVE  /\ FullInv /\ tpc = "encoded" /\ sender \in Roles /\ vocab \in DOMAIN Vocabs
           /\ vocab \in Codable
           /\ msg \in Seq(1 .. Cardinality(Ids(vocab))) /\ Len(msg) \in Nat
           /\ coded \in 0 .. Len(msg) /\ coded \in Nat /\ Len(msg) < LEN_SYMBOLS
           /\ SentFor(vocab, sender, msg, sent, coded)
           /\ Len(sent) = IF sphase = "symbol" THEN 2 * coded + 2 ELSE 2 * coded + 1
           /\ sphase = "symbol" => coded < Len(msg)
                                   /\ sent[2 * coded + 2] = NextBucket(vocab, sender, msg, coded)
           /\ sent \in Seq([cnt : Tables, sym : Nat]) /\ Len(sent) < MaxSyms
<1>1. TokInv /\ Coder /\ Sends /\ Receives
    BY DEF SemInv
<1>2. link = "none"
    BY <1>1, NotBegun
<1>3. FullInv /\ sent \in Seq([cnt : Tables, sym : Nat])
    BY <1>1, <1>2 DEF Coder, FullInv, Inv
<1>4. /\ tpc = "encoded" /\ sender \in Roles /\ vocab \in Codable
      /\ coded \in 0 .. Len(msg) /\ Len(msg) < LEN_SYMBOLS
      /\ SentFor(vocab, sender, msg, sent, coded)
      /\ Len(sent) = IF sphase = "symbol" THEN 2 * coded + 2 ELSE 2 * coded + 1
      /\ sphase = "symbol" => coded < Len(msg)
                              /\ sent[2 * coded + 2] = NextBucket(vocab, sender, msg, coded)
    BY <1>1 DEF Sends, SenderOK
<1>5. /\ vocab \in DOMAIN Vocabs /\ msg \in Seq(1 .. Cardinality(Ids(vocab))) /\ Len(msg) \in Nat
    BY <1>1, <1>4, MsgIs
<1>6. PICK l \in Nat, c \in Nat : l = Len(msg) /\ c = coded /\ c <= l /\ l < LEN_SYMBOLS
    BY <1>4, <1>5
<1>7. LEN_SYMBOLS \in Nat /\ MaxSyms \in Nat /\ 2 * LEN_SYMBOLS <= MaxSyms
    BY LenTableIs, SemaphoreAssumption
<1>8. Len(sent) < MaxSyms
    <2>1. CASE sphase = "symbol"
        <3>1. c < l /\ Len(sent) = 2 * c + 2
            BY <1>4, <1>6, <2>1
        <3>2. 2 * c + 2 < 2 * LEN_SYMBOLS
            BY <1>6, <1>7, <3>1
        <3> QED
            BY <1>6, <1>7, <3>1, <3>2
    <2>2. CASE sphase # "symbol"
        <3>1. Len(sent) = 2 * c + 1
            BY <1>4, <1>6, <2>2
        <3>2. 2 * c + 1 < 2 * LEN_SYMBOLS
            BY <1>6, <1>7
        <3> QED
            BY <1>6, <1>7, <3>1, <3>2
    <2> QED
        BY <2>1, <2>2
<1> QED
    BY <1>3, <1>4, <1>5, <1>6, <1>8

\* The length field, or the refusal.
LEMMA EncodeLengthKeeps ==
    ASSUME SemInv, EncodeLength PROVE SemInv'
<1>1. /\ TokInv /\ MergedOut /\ Coder /\ Sends /\ Receives
      /\ sphase = "idle" /\ tpc = "encoded" /\ UNCHANGED tokVars /\ coded' = coded
      /\ UNCHANGED <<sender, receiver, line, out, rphase, want, got, link>>
    BY DEF SemInv, EncodeLength
<1>2. sender \in Roles /\ vocab \in Codable /\ coded = 0 /\ sent = <<>> /\ link = "none"
    BY <1>1, NotBegun DEF Sends, SenderOK
<1>3. FullInv
    BY <1>1, <1>2 DEF Coder
<1>4. vocab' = vocab /\ tpc' = tpc /\ msg' = msg /\ sender' = sender
    BY <1>1, TokStays
<1>5. PICK l \in Nat : l = Len(msg)
    BY <1>1, MsgIs
<1>6. CASE TooLong(sender, l + 1)
    <2>1. sphase' = "refused" /\ UNCHANGED vars
        BY <1>5, <1>6 DEF EncodeLength
    <2>2. FullInv' /\ UNCHANGED decVars
        BY <1>3, <2>1, FullKeeps DEF vars
    <2>3. Sends'
        BY <1>1, <1>2, <1>4, <2>1 DEF Sends, SenderOK
    <2> QED
        BY <1>1, <2>2, <2>3, SenderStep
<1>7. CASE ~ TooLong(sender, l + 1)
    <2>1. sphase' = "token" /\ Send(LenTable, l + 1)
        BY <1>5, <1>7 DEF EncodeLength
    <2>2. LenTable \in Tables /\ Len(LenTable) = LEN_SYMBOLS /\ LEN_SYMBOLS \in Nat \ {0}
        BY LenTableIs
    <2>3. l < LEN_SYMBOLS /\ l + 1 \in 1 .. LEN_SYMBOLS
        BY <1>7, <2>2 DEF TooLong
    <2>4. Len(sent) < MaxSyms
        <3>1. Len(sent) = 0
            BY <1>2
        <3> QED
            BY <2>2, <3>1, SemaphoreAssumption
    <2>5. /\ FullInv' /\ UNCHANGED decVars
          /\ sent' = Append(sent, [cnt |-> LenTable, sym |-> l + 1])
        BY <1>3, <2>1, <2>2, <2>3, <2>4, SendKeeps
    <2>6. PICK e : e = [cnt |-> LenTable, sym |-> l + 1]
        OBVIOUS
    <2>7. sent' = <<e>> /\ Len(sent') = 1 /\ sent'[1] = e
        BY <1>2, <2>5, <2>6
    <2>8. SentFor(vocab, sender, msg, sent', 0)
        BY <1>5, <2>6, <2>7 DEF SentFor
    <2>9. SenderOK(vocab, sender, msg, "encoded", "token", 0, sent', epc', overflow')
        BY <1>2, <1>5, <2>3, <2>7, <2>8 DEF SenderOK
    <2>10. Sends'
        BY <1>1, <1>2, <1>4, <2>1, <2>9, Zenon DEF Sends
    <2> QED
        BY <1>1, <2>5, <2>10, SenderStep
<1> QED
    BY <1>6, <1>7

\* The bucket of a token is coded.
LEMMA EncodeBucketKeeps ==
    ASSUME SemInv, EncodeBucket PROVE SemInv'
<1>1. /\ TokInv /\ MergedOut
      /\ sphase = "token" /\ coded < Len(msg) /\ sphase' = "symbol" /\ coded' = coded
      /\ UNCHANGED tokVars /\ UNCHANGED <<sender, receiver, line, out, rphase, want, got, link>>
    BY DEF SemInv, EncodeBucket
<1>2. /\ FullInv /\ tpc = "encoded" /\ sender \in Roles /\ vocab \in DOMAIN Vocabs
      /\ vocab \in Codable
      /\ msg \in Seq(1 .. Cardinality(Ids(vocab))) /\ Len(msg) \in Nat
      /\ coded \in Nat /\ coded \in 0 .. Len(msg) /\ Len(msg) < LEN_SYMBOLS
      /\ SentFor(vocab, sender, msg, sent, coded) /\ Len(sent) = 2 * coded + 1
      /\ sent \in Seq([cnt : Tables, sym : Nat]) /\ Len(sent) < MaxSyms
    BY <1>1, SenderKnows
<1>3. vocab' = vocab /\ tpc' = tpc /\ msg' = msg /\ sender' = sender
    BY <1>1, TokStays
<1>4. PICK c \in Nat : c = coded /\ c \in 0 .. Len(msg) - 1
    BY <1>1, <1>2
<1>5. PICK e : e = NextBucket(vocab, sender, msg, c)
    OBVIOUS
<1>6. e.cnt \in Tables /\ e.sym \in 1 .. Len(e.cnt)
    BY <1>2, <1>4, <1>5, NextTables
<1>7. Send(e.cnt, e.sym) /\ e = [cnt |-> e.cnt, sym |-> e.sym]
    BY <1>4, <1>5 DEF EncodeBucket, NextBucket, BucketCounts
<1>8. FullInv' /\ UNCHANGED decVars /\ sent' = Append(sent, e)
    BY <1>2, <1>6, <1>7, SendKeeps
<1>9. e \in [cnt : Tables, sym : Nat]
    <2>1. e.sym \in Nat
        BY <1>6, TablesAssumption
    <2> QED
        BY <1>6, <1>7, <2>1
<1>10. /\ Len(sent') = 2 * c + 2 /\ sent'[2 * c + 2] = e
       /\ \A i \in 1 .. Len(sent) : sent'[i] = sent[i]
    <2>1. PICK n \in Nat : n = Len(sent) /\ n + 1 = 2 * c + 2
        BY <1>2, <1>4
    <2>2. /\ Len(sent') = n + 1 /\ sent'[n + 1] = e
          /\ \A i \in 1 .. Len(sent) : sent'[i] = sent[i]
        BY <1>2, <1>8, <1>9, <2>1, RowMore
    <2> QED
        BY <2>1, <2>2
<1>11. SentFor(vocab, sender, msg, sent', c)
    <2>1. Len(sent) >= 2 * c + 1
        BY <1>2, <1>4
    <2> QED
        BY <1>2, <1>4, <1>10, <2>1, SentForMore
<1>12. SenderOK(vocab, sender, msg, "encoded", "symbol", c, sent', epc', overflow')
    BY <1>1, <1>2, <1>4, <1>5, <1>10, <1>11 DEF SenderOK
<1>13. Sends'
    BY <1>1, <1>2, <1>3, <1>4, <1>12, Zenon DEF Sends
<1> QED
    BY <1>1, <1>8, <1>13, SenderStep

\* The token inside its bucket is coded.
LEMMA EncodeSymbolKeeps ==
    ASSUME SemInv, EncodeSymbol PROVE SemInv'
<1>1. /\ TokInv /\ MergedOut
      /\ sphase = "symbol" /\ sphase' = "token" /\ coded' = coded + 1
      /\ UNCHANGED tokVars /\ UNCHANGED <<sender, receiver, line, out, rphase, want, got, link>>
    BY DEF SemInv, EncodeSymbol
<1>2. /\ FullInv /\ tpc = "encoded" /\ sender \in Roles /\ vocab \in DOMAIN Vocabs
      /\ vocab \in Codable
      /\ msg \in Seq(1 .. Cardinality(Ids(vocab))) /\ Len(msg) \in Nat
      /\ coded \in Nat /\ coded < Len(msg) /\ Len(msg) < LEN_SYMBOLS
      /\ SentFor(vocab, sender, msg, sent, coded) /\ Len(sent) = 2 * coded + 2
      /\ sent[2 * coded + 2] = NextBucket(vocab, sender, msg, coded)
      /\ sent \in Seq([cnt : Tables, sym : Nat]) /\ Len(sent) < MaxSyms
    BY <1>1, SenderKnows
<1>3. vocab' = vocab /\ tpc' = tpc /\ msg' = msg /\ sender' = sender
    BY <1>1, TokStays
<1>4. PICK c \in Nat : c = coded /\ c \in 0 .. Len(msg) - 1 /\ c + 1 \in 0 .. Len(msg)
    BY <1>1, <1>2
<1>5. PICK e : e = NextSymbol(vocab, sender, msg, c)
    OBVIOUS
<1>6. e.cnt \in Tables /\ e.sym \in 1 .. Len(e.cnt)
    BY <1>2, <1>4, <1>5, NextTables
<1>7. Send(e.cnt, e.sym) /\ e = [cnt |-> e.cnt, sym |-> e.sym]
    BY <1>4, <1>5 DEF EncodeSymbol, NextSymbol, SymbolCounts
<1>8. FullInv' /\ UNCHANGED decVars /\ sent' = Append(sent, e)
    BY <1>2, <1>6, <1>7, SendKeeps
<1>9. e \in [cnt : Tables, sym : Nat]
    <2>1. e.sym \in Nat
        BY <1>6, TablesAssumption
    <2> QED
        BY <1>6, <1>7, <2>1
<1>10. /\ Len(sent') = 2 * c + 3 /\ sent'[2 * c + 3] = e
       /\ \A i \in 1 .. Len(sent) : sent'[i] = sent[i]
       /\ sent'[2 * c + 2] = NextBucket(vocab, sender, msg, c)
    <2>1. PICK n \in Nat : n = Len(sent) /\ n + 1 = 2 * c + 3 /\ 2 * c + 2 \in 1 .. n
        BY <1>2, <1>4
    <2>2. /\ Len(sent') = n + 1 /\ sent'[n + 1] = e
          /\ \A i \in 1 .. Len(sent) : sent'[i] = sent[i]
        BY <1>2, <1>8, <1>9, <2>1, RowMore, SMTT(30)
    <2>3. sent'[2 * c + 2] = sent[2 * c + 2]
        BY <2>1, <2>2
    <2> QED
        BY <1>2, <1>4, <2>1, <2>2, <2>3
<1>11. SentFor(vocab, sender, msg, sent', c)
    <2>1. Len(sent) >= 2 * c + 1
        BY <1>2, <1>4
    <2> QED
        BY <1>2, <1>4, <1>10, <2>1, SentForMore
<1>12. SentFor(vocab, sender, msg, sent', c + 1)
    BY <1>5, <1>10, <1>11, SentForNext
<1>13. SenderOK(vocab, sender, msg, "encoded", "token", c + 1, sent', epc', overflow')
    <2>1. Len(sent') = 2 * (c + 1) + 1
        BY <1>10
    <2> QED
        BY <1>2, <1>4, <1>12, <2>1 DEF SenderOK
<1>14. Sends'
    BY <1>1, <1>2, <1>3, <1>4, <1>13, Zenon DEF Sends
<1> QED
    BY <1>1, <1>8, <1>14, SenderStep

\* tq_forward fails at the sender.
LEMMA EncodeFailsKeeps ==
    ASSUME SemInv, EncodeFails PROVE SemInv'
<1>1. /\ TokInv /\ MergedOut /\ sphase = "token" /\ sphase' = "failed"
      /\ UNCHANGED vars /\ UNCHANGED tokVars
      /\ UNCHANGED <<sender, receiver, line, out, rphase, want, got, link>>
    BY DEF SemInv, EncodeFails
<1>2. FullInv /\ tpc = "encoded" /\ sender \in Roles /\ vocab \in Codable
    BY <1>1, SenderKnows
<1>3. vocab' = vocab /\ tpc' = tpc /\ sender' = sender
    BY <1>1, TokStays
<1>4. FullInv' /\ UNCHANGED decVars
    BY <1>1, <1>2, FullKeeps DEF vars
<1>5. Sends'
    BY <1>1, <1>2, <1>3 DEF Sends, SenderOK
<1> QED
    BY <1>1, <1>4, <1>5, SenderStep

\* The coder is told to finish.
LEMMA EncodeFinishKeeps ==
    ASSUME SemInv, EncodeFinish PROVE SemInv'
<1>1. /\ TokInv /\ MergedOut /\ sphase = "token" /\ coded = Len(msg) /\ Finish
      /\ sphase' = "flushing" /\ coded' = coded /\ UNCHANGED tokVars
      /\ UNCHANGED <<sender, receiver, line, out, rphase, want, got, link>>
    BY DEF SemInv, EncodeFinish
<1>2. /\ FullInv /\ tpc = "encoded" /\ sender \in Roles /\ vocab \in Codable
      /\ coded \in 0 .. Len(msg) /\ Len(msg) < LEN_SYMBOLS
      /\ SentFor(vocab, sender, msg, sent, coded) /\ Len(sent) = 2 * coded + 1
    BY <1>1, SenderKnows
<1>3. vocab' = vocab /\ tpc' = tpc /\ msg' = msg /\ sender' = sender
    BY <1>1, TokStays
<1>4. FullInv' /\ UNCHANGED decVars /\ sent' = sent
    BY <1>1, <1>2, FullKeeps DEF Next, Finish
<1>5. SenderOK(vocab, sender, msg, "encoded", "flushing", coded, sent, epc', overflow')
    BY <1>1, <1>2 DEF SenderOK
<1>6. Sends'
    BY <1>1, <1>2, <1>3, <1>4, <1>5, Zenon DEF Sends
<1> QED
    BY <1>1, <1>4, <1>6, SenderStep

\* What a sender that has coded everything knows.
LEMMA FlushKnows ==
    ASSUME SemInv, sphase \in {"flushing", "sent"}
    PROVE  /\ tpc = "encoded" /\ sender \in Roles /\ vocab \in DOMAIN Vocabs
           /\ vocab \in Codable
           /\ msg \in Seq(1 .. Cardinality(Ids(vocab))) /\ Len(msg) \in Nat
           /\ coded = Len(msg) /\ Len(msg) < LEN_SYMBOLS
           /\ SentFor(vocab, sender, msg, sent, coded) /\ Len(sent) = 2 * Len(msg) + 1
           /\ sent \in Seq([cnt : Tables, sym : Nat])
           /\ sphase = "sent" => epc = "finished" /\ ~ overflow
<1>1. TokInv /\ Coder /\ Sends
    BY DEF SemInv
<1>2. /\ tpc = "encoded" /\ sender \in Roles /\ vocab \in Codable
      /\ coded = Len(msg) /\ Len(msg) < LEN_SYMBOLS
      /\ SentFor(vocab, sender, msg, sent, coded) /\ Len(sent) = 2 * Len(msg) + 1
      /\ sphase = "sent" => epc = "finished" /\ ~ overflow
    BY <1>1 DEF Sends, SenderOK
<1>3. sent \in Seq([cnt : Tables, sym : Nat])
    BY <1>1 DEF Coder, Inv
<1> QED
    BY <1>1, <1>2, <1>3, MsgIs

\* The command returns.
LEMMA EncodeReturnsKeeps ==
    ASSUME SemInv, EncodeReturns PROVE SemInv'
<1>1. /\ TokInv /\ MergedOut /\ Coder /\ Receives /\ sphase = "flushing" /\ epc = "finished"
      /\ sphase' = (IF overflow THEN "failed" ELSE "sent")
      /\ coded' = coded /\ UNCHANGED vars /\ UNCHANGED tokVars
      /\ UNCHANGED <<sender, receiver, line, out, rphase, want, got, link>>
    BY DEF SemInv, EncodeReturns
<1>2. FullInv
    BY <1>1, NotBegun DEF Coder
<1>3. /\ tpc = "encoded" /\ sender \in Roles /\ vocab \in Codable /\ Len(msg) \in Nat
      /\ coded = Len(msg) /\ Len(msg) < LEN_SYMBOLS
      /\ SentFor(vocab, sender, msg, sent, coded) /\ Len(sent) = 2 * Len(msg) + 1
    BY <1>1, FlushKnows
<1>4. vocab' = vocab /\ tpc' = tpc /\ msg' = msg /\ sender' = sender
    BY <1>1, TokStays
<1>5. /\ FullInv' /\ UNCHANGED decVars /\ sent' = sent /\ epc' = epc /\ overflow' = overflow
    BY <1>1, <1>2, FullKeeps DEF vars, encVars
<1>6. ASSUME overflow PROVE Sends'
    <2>1. SenderOK(vocab, sender, msg, "encoded", "failed", coded, sent, epc, overflow)
        BY <1>3 DEF SenderOK
    <2>2. sphase' = "failed"
        BY <1>1, <1>6
    <2> QED
        BY <1>1, <1>3, <1>4, <1>5, <2>1, <2>2, Zenon DEF Sends
<1>7. ASSUME ~ overflow PROVE Sends'
    <2>1. SenderOK(vocab, sender, msg, "encoded", "sent", coded, sent, epc, overflow)
        BY <1>1, <1>3, <1>7 DEF SenderOK
    <2>2. sphase' = "sent"
        BY <1>1, <1>7
    <2> QED
        BY <1>1, <1>3, <1>4, <1>5, <2>1, <2>2, Zenon DEF Sends
<1> QED
    BY <1>1, <1>5, <1>6, <1>7, SenderStep

\* The coder's loops at the sender.
LEMMA SenderLoopsKeeps ==
    ASSUME SemInv, SenderLoops PROVE SemInv'
<1>1. /\ TokInv /\ MergedOut /\ Coder /\ Sends /\ Receives /\ EncodeLoops
      /\ UNCHANGED tokVars /\ UNCHANGED semVars
    BY DEF SemInv, SenderLoops
<1>2. UNCHANGED <<sender, receiver, line, out, sphase, coded, rphase, want, got, link>>
    BY <1>1 DEF semVars
<1>3. epc # "finished" /\ UNCHANGED decVars /\ sent' = sent
    BY <1>1 DEF EncodeLoops, EncStep, EncRenorm, EncFlush, EncStrip
<1>4. sphase # "sent"
    BY <1>1, <1>3 DEF Sends, SenderOK
<1>5. FullInv
    BY <1>1, <1>4, NotBegun DEF Coder
<1>6. FullInv'
    BY <1>1, <1>5, FullKeeps DEF Next
<1>7. vocab' = vocab /\ tpc' = tpc /\ msg' = msg
    BY <1>1, TokStays
<1>8. SenderOK(vocab, sender, msg, tpc, sphase, coded, sent, epc', overflow')
    BY <1>1, <1>4 DEF Sends, SenderOK
<1>9. Sends'
    BY <1>2, <1>3, <1>7, <1>8, Zenon DEF Sends
<1> QED
    BY <1>1, <1>2, <1>3, <1>4, <1>6, <1>9, SenderStep

\* Without any byte the number is zero.
LEMMA NothingSaid ==
    ASSUME NEW s \in Seq(Byte), s = <<>>
    PROVE  Value(DigitsOf(s))[4] = 0
<1>1. PICK D \in [Nat -> Nat] : D = DigitsOf(s) /\ \A k \in Nat : D[k] = WireDigit(s, k + 1)
    BY DigitsType
<1>2. Len(s) = 0
    OBVIOUS
<1>3. ASSUME NEW k \in Nat PROVE D[k] = 0
    <2>1. k >= Len(s)
        BY <1>2
    <2>2. WireDigit(s, k + 1) = 0
        BY <2>1, ZeroPastEnd
    <2> QED
        BY <1>1, <2>2
<1>4. IsFold(Value(D), Base, D)
    BY ValueFold
<1>5. PICK V : V = Value(D)
    OBVIOUS
<1>6. V[0] = 0 /\ \A k \in Nat : V[k + 1] = V[k] * Base + D[k]
    BY <1>4, <1>5 DEF IsFold
<1>7. 0 * Base + 0 = 0
    BY Sizes
<1>8. ASSUME NEW k \in Nat, V[k] = 0 PROVE V[k + 1] = 0
    BY <1>3, <1>6, <1>7, <1>8
<1>9. V[1] = 0
    <2>1. 0 + 1 = 1
        OBVIOUS
    <2> QED
        BY <1>6, <1>8, <2>1
<1>10. V[2] = 0
    <2>1. 1 + 1 = 2 /\ 1 \in Nat
        OBVIOUS
    <2> QED
        BY <1>8, <1>9, <2>1
<1>11. V[3] = 0
    <2>1. 2 + 1 = 3 /\ 2 \in Nat
        OBVIOUS
    <2> QED
        BY <1>8, <1>10, <2>1
<1>12. V[4] = 0
    <2>1. 3 + 1 = 4 /\ 3 \in Nat
        OBVIOUS
    <2> QED
        BY <1>8, <1>11, <2>1
<1> QED
    BY <1>1, <1>5, <1>12

\* A wire that the strip left without bytes begins with the first symbol of its
\* table.
LEMMA EmptyWire ==
    ASSUME FullInv, epc = "finished", ~ overflow, buf = <<>>, Len(sent) >= 1
    PROVE  sent[1].sym = 1
<1>1. SentCoded /\ EncSaid /\ buf \in Seq(Byte)
    BY DEF FullInv, Inv, EncInv, EncTypeOK
<1>2. PICK T : IsHistory(T, sent) /\ EncoderAt(T[Len(T)])
    BY <1>1 DEF EncSaid
<1>3. /\ T \in Seq(Interval) /\ Len(T) >= 1 /\ T[1] = Whole
      /\ \A p \in 1 .. Len(T) - 1 : CoderStep(T[p], T[p + 1], sent)
    BY <1>2 DEF IsHistory
<1>4. T[Len(T)].n = Len(sent) /\ PointsInto(DigitsOf(buf), T[Len(T)])
    BY <1>2 DEF EncoderAt
<1>5. PICK k \in Nat : k = Len(T)
    BY <1>3
<1>6. Whole \in Interval /\ Whole.n = 0 /\ Whole.lo = 0 /\ Whole.rg = WORD - 1 /\ Whole.sh = 0
    BY Sizes DEF Whole, Interval
<1>7. k >= 2
    <2>1. SUFFICES ASSUME k = 1 PROVE FALSE
        BY <1>3, <1>5
    <2>2. T[Len(T)] = Whole
        BY <1>3, <1>5, <2>1
    <2>3. Len(sent) = 0
        BY <1>4, <1>6, <2>2
    <2> QED
        BY <2>3
<1>8. 1 \in 1 .. Len(T) - 1 /\ 2 \in 1 .. Len(T) /\ 1 + 1 = 2
    BY <1>5, <1>7
<1>9. CoderStep(Whole, T[2], sent)
    BY <1>3, <1>8
<1>10. WORD - 1 >= TOP /\ ~ (WORD - 1 < TOP)
    BY Sizes
<1>11. PICK e \in Coded : e = sent[1]
    <2>1. 1 \in 1 .. Len(sent)
        BY <1>1 DEF SentCoded
    <2> QED
        BY <1>1, <2>1 DEF SentCoded
<1>12. T[2] = Narrow(Whole, e)
    <2>1. 0 + 1 = 1
        OBVIOUS
    <2> QED
        BY <1>6, <1>9, <1>10, <1>11, <2>1 DEF CoderStep
<1>13. PICK t : t = Triple(e.cnt, e.sym)
    OBVIOUS
<1>14. PICK r \in Nat : r = Whole.rg \div t.tot /\ r >= Base /\ r * t.cum \in Nat
                        /\ T[2].lo = 0 + r * t.cum /\ T[2].sh = 0 /\ t \in Triples
    BY <1>6, <1>10, <1>12, <1>13, NarrowInside
<1>15. PointsInto(DigitsOf(buf), T[2])
    <2>1. DigitsOf(buf) \in [Nat -> Byte]
        BY <1>1, DigitsType
    <2> QED
        BY <1>1, <1>2, <1>4, <1>8, <2>1, PointsIntoAll DEF SentCoded
<1>16. T[2].lo <= 0
    <2>1. Value(DigitsOf(buf))[4] = 0
        BY <1>1, NothingSaid
    <2>2. 0 + 4 = 4
        OBVIOUS
    <2> QED
        BY <1>14, <1>15, <2>1, <2>2 DEF PointsInto
<1>17. t.cum = 0
    <2>1. PICK c \in Nat : c = t.cum
        BY <1>14, TriplesAssumption
    <2>2. r > 0 /\ r * c = 0
        BY <1>14, <1>16, <2>1, Sizes
    <2> QED
        BY <2>1, <2>2
<1>18. e.cnt \in Tables /\ e.sym \in 1 .. Len(e.cnt) /\ tq_ac_cum(e.cnt, e.sym) = 0
    <2>1. e.cnt \in Tables /\ e.sym \in 1 .. Len(e.cnt)
        BY DEF Coded
    <2>2. t.cum = tq_ac_cum(e.cnt, e.sym)
        BY <1>13 DEF Triple
    <2> QED
        BY <1>17, <2>1, <2>2
<1>19. PICK cnt \in Tables : cnt = e.cnt
    BY <1>18
<1>20. PICK i \in 1 .. Len(cnt) : i = e.sym /\ tq_ac_cum(cnt, i) = 0
    BY <1>18, <1>19
<1>21. i = 1
    <2>1. SUFFICES ASSUME i # 1 PROVE FALSE
        OBVIOUS
    <2>2. Len(cnt) \in Nat /\ 1 \in 1 .. Len(cnt) /\ 1 < i
        BY <2>1, TablesAssumption
    <2>3. tq_ac_cum(cnt, 1) + cnt[1] <= 0 /\ tq_ac_cum(cnt, 1) = 0 /\ cnt[1] \in Nat /\ cnt[1] > 0
        BY <1>20, <2>2, CumMonotone, CumStep
    <2> QED
        BY <2>3
<1> QED
    BY <1>11, <1>20, <1>21

\* The encoder's half is left alone.
LEMMA InvStays ==
    ASSUME Inv, UNCHANGED coderVars, DecInv'
    PROVE  Inv'
<1>1. UNCHANGED encVars /\ sent' = sent
    BY DEF coderVars
<1>2. EncInv'
    BY <1>1 DEF encVars, Inv, EncInv, EncTypeOK, RangeFloor, CarryAbsorbed, CarryRoom
<1> QED
    BY <1>1, <1>2 DEF Inv

\* Where the receiver's command begins.
LEMMA ArriveKnows ==
    ASSUME SemInv, sphase = "sent", rphase = "idle"
    PROVE  /\ FullInv /\ Inv /\ link = "none" /\ got = <<>> /\ dpc = "idle"
           /\ want \in 0 .. LEN_SYMBOLS - 1 /\ epc = "finished" /\ ~ overflow
           /\ buf \in Seq(Byte)
<1>1. Coder /\ Receives /\ Sends
    BY DEF SemInv
<1>2. /\ link = "none" /\ got = <<>> /\ dpc = "idle" /\ want \in 0 .. LEN_SYMBOLS - 1
    BY <1>1 DEF Receives, ReceiverOK
<1>3. epc = "finished" /\ ~ overflow
    BY <1>1 DEF Sends, SenderOK
<1> QED
    BY <1>1, <1>2, <1>3 DEF Coder, Inv, EncInv, EncTypeOK

\* A receiver that has got its bytes.
LEMMA ReceiverBegins ==
    ASSUME NEW v, NEW m, NEW role \in Roles, NEW lk \in {"whole", "cut", "stray"},
           NEW ph \in {"refused", "length"}, NEW w \in 0 .. LEN_SYMBOLS - 1, NEW f, NEW dp,
           ph = "length" => f = <<>>
    PROVE  ReceiverOK(v, m, role, "sent", ph, lk, w, <<>>, f, dp)
<1>1. LEN_SYMBOLS \in Nat
    BY LenTableIs
<1>2. <<>> \in Seq(1 .. Cardinality(Ids(v))) /\ Len(<<>>) = 0
    OBVIOUS
<1>3. 0 <= w
    BY <1>1
<1> QED
    BY <1>2, <1>3 DEF ReceiverOK

\* What the receiver reads is the wire, or the front of one that is too long.
LEMMA ReadIs ==
    ASSUME NEW w \in Seq(Byte), NEW role \in Roles
    PROVE  /\ Read(role, w) \in Seq(Byte)
           /\ ~ (Len(w) > Room(role)) => Read(role, w) = w
<1>1. PICK n \in Nat : n = Room(role)
    BY SemaphoreAssumption, CapAssumption DEF Room
<1>2. CASE Len(w) <= n
    BY <1>1, <1>2 DEF Read
<1>3. CASE ~ (Len(w) <= n)
    <2>1. n \in 0 .. Len(w) /\ Len(w) > n
        BY <1>3
    <2>2. SubSeq(w, 1, n) \in Seq(Byte)
        BY <2>1, FrontIs DEF Front
    <2> QED
        BY <1>1, <1>3, <2>1, <2>2 DEF Read
<1> QED
    BY <1>2, <1>3

\* The wire arrives, or something else does.
LEMMA ArriveKeeps ==
    ASSUME SemInv, NEW w \in Seq(Byte), NEW how \in {"whole", "cut", "stray"},
           how = "whole" => w = buf, Arrive(w, how)
    PROVE  SemInv'
<1>1. /\ sphase = "sent" /\ rphase = "idle" /\ receiver' \in Roles
      /\ want' = want /\ got' = got /\ sphase' = sphase /\ out' = out
      /\ UNCHANGED <<tokVars, coderVars, sender, line, sphase, coded>> /\ TokInv /\ MergedOut
    BY DEF Arrive, SemInv
<1>2. /\ FullInv /\ Inv /\ link = "none" /\ got = <<>> /\ dpc = "idle"
      /\ want \in 0 .. LEN_SYMBOLS - 1 /\ epc = "finished" /\ ~ overflow
    BY <1>1, ArriveKnows
<1>3. /\ Len(msg) \in Nat /\ Len(sent) = 2 * Len(msg) + 1
      /\ sent[1] = [cnt |-> LenTable, sym |-> Len(msg) + 1]
      /\ msg \in Seq(1 .. Cardinality(Ids(vocab)))
    BY <1>1, FlushKnows DEF SentFor
<1>4. msg' = msg /\ buf' = buf
    BY <1>1, TokStays DEF coderVars, encVars
<1>5. PICK read \in Seq(Byte) :
          /\ read = Read(receiver', w)
          /\ ~ (Len(w) > Room(receiver')) => read = w
    BY <1>1, ReadIs
<1>6. link' \in {"whole", "cut", "stray"} /\ (link' = "whole" => read = buf)
    <2>1. link' = IF how = "whole" /\ Len(w) > Room(receiver') THEN "cut" ELSE how
        BY DEF Arrive
    <2> QED
        BY <1>5, <2>1
<1>7. CASE receiver' = "board" /\ (read = <<>> \/ Len(read) > SEM_MAX_WIRE)
    <2>1. rphase' = "refused" /\ UNCHANGED decVars
        BY <1>5, <1>7 DEF Arrive
    <2>2. UNCHANGED vars
        BY <1>1, <2>1 DEF vars, coderVars
    <2>3. FullInv' /\ Coder'
        BY <1>2, <2>2, FullKeeps DEF Coder, FullInv
    <2>4. Receives'
        <3>1. ReceiverOK(vocab', msg', receiver', "sent", "refused", link', want, <<>>, found', dpc')
            BY <1>1, <1>2, <1>6, ReceiverBegins
        <3> QED
            BY <1>1, <1>2, <2>1, <3>1, Zenon DEF Receives
    <2>5. ASSUME link' = "whole", read = <<>> PROVE msg = <<>>
        <3>1. buf = <<>>
            BY <1>6, <2>5
        <3>2. Len(sent) >= 1
            BY <1>3
        <3>3. sent[1].sym = 1
            BY <1>2, <3>1, <3>2, EmptyWire
        <3>4. Len(msg) = 0
            BY <1>3, <3>3
        <3> QED
            BY <1>3, <3>4, EmptySeq
    <2>6. IntactWireAccepted'
        <3>1. SUFFICES ASSUME link' = "whole"
                       PROVE  msg' = <<>> \/ Len(buf') > SEM_MAX_WIRE
            BY <1>7 DEF IntactWireAccepted
        <3> QED
            BY <1>4, <1>6, <1>7, <2>5, <3>1
    <2>7. TextArrives'
        BY <2>1 DEF TextArrives
    <2> QED
        BY <1>1, <2>3, <2>4, <2>6, <2>7, ReceiverStep
<1>8. CASE ~ (receiver' = "board" /\ (read = <<>> \/ Len(read) > SEM_MAX_WIRE))
    <2>1. rphase' = "length" /\ tq_ac_dec_init(read)
        BY <1>5, <1>8 DEF Arrive
    <2>2. found' = <<>>
        BY <2>1 DEF tq_ac_dec_init
    <2>3. Inv'
        BY <1>1, <1>2, <2>1, DecInitInv, InvStays
    <2>4. ASSUME link' = "whole" PROVE FullInv'
        <3>1. Deliver
            BY <1>1, <1>2, <1>6, <2>1, <2>4 DEF Deliver, coderVars
        <3> QED
            BY <1>2, <3>1, FullKeeps DEF Next
    <2>5. Coder'
        BY <1>6, <2>3, <2>4 DEF Coder
    <2>6. Receives'
        <3>1. ReceiverOK(vocab', msg', receiver', "sent", "length", link', want, <<>>, found', dpc')
            BY <1>1, <1>2, <1>6, <2>2, ReceiverBegins
        <3> QED
            BY <1>1, <1>2, <2>1, <3>1, Zenon DEF Receives
    <2>7. IntactWireAccepted' /\ TextArrives'
        BY <2>1 DEF IntactWireAccepted, TextArrives
    <2> QED
        BY <1>1, <2>5, <2>6, <2>7, ReceiverStep
<1> QED
    BY <1>7, <1>8

\* The three ways in which bytes arrive.
LEMMA AllArriveKeeps ==
    ASSUME SemInv, ArriveWhole \/ ArriveCut \/ ArriveStray PROVE SemInv'
<1>1. sphase = "sent" /\ rphase = "idle"
    BY DEF ArriveWhole, ArriveCut, ArriveStray, Arrive
<1>2. buf \in Seq(Byte)
    BY <1>1, ArriveKnows
<1>3. CASE ArriveWhole
    BY <1>2, <1>3, ArriveKeeps DEF ArriveWhole
<1>4. CASE ArriveCut
    <2>1. PICK k \in 0 .. Len(buf) - 1 : Arrive(SubSeq(buf, 1, k), "cut")
        BY <1>4 DEF ArriveCut
    <2>2. k \in 0 .. Len(buf)
        BY <1>2
    <2>3. PICK w \in Seq(Byte) : w = SubSeq(buf, 1, k)
        BY <1>2, <2>2, FrontIs DEF Front
    <2> QED
        BY <2>1, <2>3, ArriveKeeps
<1>5. CASE ArriveStray
    BY <1>5, SemaphoreAssumption, ArriveKeeps DEF ArriveStray
<1> QED
    BY <1>3, <1>4, <1>5

\* A symbol is decoded: one of the table.
LEMMA DecSymFinds ==
    ASSUME Inv, NEW cnt \in Tables, DecSym(cnt), UNCHANGED coderVars
    PROVE  /\ Inv' /\ found \in Seq(Nat) /\ Len(found) \in Nat
           /\ Len(found') = Len(found) + 1
           /\ found'[Len(found) + 1] \in 1 .. Len(cnt)
           /\ \A i \in 1 .. Len(found) : found'[i] = found[i]
<1>1. found \in Seq(Nat) /\ DecInv
    BY DEF Inv, DecInv, DecTypeOK
<1>2. Inv'
    BY <1>1, DecSymInv, InvStays
<1>3. PICK s : s = tq_ac_find(cnt, tq_ac_dec_target(Total(cnt))) /\ found' = Append(found, s)
    BY DEF DecSym
<1>4. s \in 1 .. Len(cnt) /\ s \in Nat
    BY <1>3, TablesAssumption, FindInTable
<1>5. /\ Len(Append(found, s)) = Len(found) + 1 /\ Append(found, s)[Len(found) + 1] = s
      /\ \A i \in 1 .. Len(found) : Append(found, s)[i] = found[i]
    BY <1>1, <1>4, RowMore
<1> QED
    BY <1>1, <1>2, <1>3, <1>4, <1>5

\* On an intact wire it is the one that was coded, if both ends use one table.
LEMMA Received ==
    ASSUME FullInv, UNCHANGED coderVars, NEW cnt, DecSym(cnt),
           NEW k \in Nat, k = Len(found), k < Len(sent), sent[k + 1].cnt = cnt,
           Len(found') = k + 1
    PROVE  FullInv' /\ found'[k + 1] = sent[k + 1].sym
<1>1. Receive
    BY DEF Receive, coderVars
<1>2. FullInv'
    BY <1>1, FullKeeps DEF Next
<1>3. k + 1 \in 1 .. Len(found') /\ sent' = sent
    BY DEF coderVars
<1> QED
    BY <1>2, <1>3 DEF FullInv, RoundTrip

\* What a receiver at work knows.
LEMMA ReceiverKnows ==
    ASSUME SemInv, rphase \in {"length", "token", "symbol"}
    PROVE  /\ Inv /\ link \in {"whole", "cut", "stray"} /\ sphase = "sent" /\ receiver \in Roles
           /\ LEN_SYMBOLS \in Nat /\ want \in Nat /\ want < LEN_SYMBOLS
           /\ vocab \in DOMAIN Vocabs /\ vocab \in Codable /\ got \in Seq(1 .. Cardinality(Ids(vocab)))
           /\ Len(got) \in Nat /\ Len(got) <= want
           /\ rphase = "length" => found = <<>> /\ got = <<>>
           /\ rphase = "token" => Len(found) = 2 * Len(got) + 1
           /\ rphase = "symbol" =>
                 /\ Len(found) = 2 * Len(got) + 2 /\ Len(got) < want
                 /\ found[Len(found)] \in 1 .. nbuckets(Cardinality(Ids(vocab)))
           /\ link = "whole" => FullInv
           /\ link = "whole" /\ rphase # "length" => want = Len(msg) /\ Follows1(msg, got)
<1>1. TokInv /\ Coder /\ Receives
    BY DEF SemInv
<1>2. /\ link \in {"whole", "cut", "stray"} /\ sphase = "sent" /\ receiver \in Roles
      /\ want \in 0 .. LEN_SYMBOLS - 1
      /\ got \in Seq(1 .. Cardinality(Ids(vocab))) /\ Len(got) <= want
      /\ rphase = "length" => found = <<>> /\ got = <<>>
      /\ rphase = "token" => Len(found) = 2 * Len(got) + 1
      /\ rphase = "symbol" =>
            /\ Len(found) = 2 * Len(got) + 2 /\ Len(got) < want
            /\ found[Len(found)] \in 1 .. nbuckets(Cardinality(Ids(vocab)))
      /\ link = "whole" /\ rphase # "length" => want = Len(msg) /\ Follows1(msg, got)
    BY <1>1 DEF Receives, ReceiverOK
<1>3. Inv /\ (link = "whole" => FullInv)
    BY <1>1 DEF Coder
<1>4. LEN_SYMBOLS \in Nat /\ want \in Nat /\ want < LEN_SYMBOLS
    BY <1>2, LenTableIs
<1>5. vocab \in DOMAIN Vocabs /\ vocab \in Codable
    BY <1>2, FlushKnows
<1>6. Len(got) \in Nat
    BY <1>2
<1> QED
    BY <1>2, <1>3, <1>4, <1>5, <1>6

\* The length field arrives.
LEMMA DecodeLengthKeeps ==
    ASSUME SemInv, DecodeLength PROVE SemInv'
<1>1. /\ TokInv /\ MergedOut /\ rphase = "length" /\ DecSym(LenTable)
      /\ want' = found'[1] - 1
      /\ rphase' = (IF TooLong(receiver, want' + 1) THEN "refused" ELSE "token")
      /\ UNCHANGED <<tokVars, coderVars, sender, line, sphase, coded>>
      /\ UNCHANGED coderVars /\ UNCHANGED tokVars
      /\ receiver' = receiver /\ got' = got /\ link' = link /\ sphase' = sphase
    BY DEF SemInv, DecodeLength
<1>2. /\ Inv /\ link \in {"whole", "cut", "stray"} /\ sphase = "sent" /\ receiver \in Roles
      /\ found = <<>> /\ got = <<>> /\ (link = "whole" => FullInv)
    BY <1>1, ReceiverKnows
<1>3. LenTable \in Tables /\ Len(LenTable) = LEN_SYMBOLS /\ LEN_SYMBOLS \in Nat \ {0}
    BY LenTableIs
<1>4. Len(found) = 0
    BY <1>2
<1>5. Inv' /\ Len(found') = 1 /\ found'[1] \in 1 .. LEN_SYMBOLS
    <2>1. /\ Inv' /\ Len(found') = Len(found) + 1 /\ found'[Len(found) + 1] \in 1 .. Len(LenTable)
        BY <1>1, <1>2, <1>3, DecSymFinds
    <2>2. 0 + 1 = 1
        OBVIOUS
    <2> QED
        BY <1>3, <1>4, <2>1, <2>2
<1>6. PICK w \in 0 .. LEN_SYMBOLS - 1 : w = want' /\ w + 1 = found'[1]
    BY <1>1, <1>3, <1>5
<1>7. /\ sender \in Roles /\ Len(msg) \in Nat /\ Len(msg) < LEN_SYMBOLS
      /\ SentFor(vocab, sender, msg, sent, coded) /\ Len(sent) = 2 * Len(msg) + 1
    BY <1>2, FlushKnows
<1>8. msg' = msg /\ vocab' = vocab
    BY <1>1, TokStays
<1>9. ASSUME link = "whole" PROVE FullInv' /\ w = Len(msg)
    <2>1. sent[1] = [cnt |-> LenTable, sym |-> Len(msg) + 1] /\ 0 < Len(sent)
        BY <1>7 DEF SentFor
    <2>2. sent[0 + 1].cnt = LenTable /\ 0 + 1 = 1
        BY <2>1
    <2>3. FullInv' /\ found'[0 + 1] = sent[0 + 1].sym
        BY <1>1, <1>2, <1>4, <1>5, <1>9, <2>1, <2>2, Received
    <2>4. w + 1 = Len(msg) + 1
        BY <1>6, <2>1, <2>2, <2>3
    <2> QED
        BY <1>7, <2>3, <2>4
<1>10. Coder'
    BY <1>1, <1>2, <1>5, <1>9 DEF Coder
<1>11. Receives'
    <2>1. <<>> \in Seq(1 .. Cardinality(Ids(vocab))) /\ Len(<<>>) = 0 /\ 0 <= w /\ 1 = 2 * 0 + 1
        BY <1>3
    <2>2. Follows1(msg, <<>>)
        BY DEF Follows1
    <2>3. ASSUME NEW ph \in {"refused", "token"}
          PROVE  ReceiverOK(vocab, msg, receiver, "sent", ph, link, w, <<>>, found', dpc')
        BY <1>2, <1>5, <1>6, <1>9, <2>1, <2>2 DEF ReceiverOK
    <2>4. rphase' \in {"refused", "token"}
        BY <1>1
    <2> QED
        BY <1>1, <1>2, <1>6, <1>8, <2>3, <2>4, Zenon DEF Receives
<1>12. IntactWireAccepted'
    <2>1. SUFFICES ASSUME link = "whole", rphase' = "refused"
                   PROVE  receiver = "board" /\ Len(msg) + 1 > MaxSeq
        BY <1>1, <1>8 DEF IntactWireAccepted
    <2>2. TooLong(receiver, Len(msg) + 1)
        BY <1>1, <1>6, <1>9, <2>1
    <2>3. ~ ((Len(msg) + 1) - 1 >= LEN_SYMBOLS)
        BY <1>3, <1>7
    <2> QED
        BY <2>2, <2>3 DEF TooLong
<1>13. TextArrives'
    BY <1>1 DEF TextArrives
<1> QED
    BY <1>1, <1>10, <1>11, <1>12, <1>13, ReceiverStep

\* The next token's two table entries at the sender, as the receiver computes
\* them from what it has decoded.
LEMMA SameNext ==
    ASSUME SemInv, rphase \in {"token", "symbol"}, link = "whole", Len(got) < want
    PROVE  /\ Len(msg) \in Nat /\ Len(got) < Len(msg) /\ Len(sent) = 2 * Len(msg) + 1
           /\ msg[Len(got) + 1] \in 1 .. Cardinality(Ids(vocab))
           /\ sent[2 * Len(got) + 2] = [cnt |-> BucketTable[receiver][vocab][Hidden(got)],
                                        sym |-> BucketOf(msg[Len(got) + 1])]
           /\ sent[2 * Len(got) + 3] =
                 [cnt |-> SymbolTable[receiver][vocab][Hidden(got)][BucketOf(msg[Len(got) + 1])],
                  sym |-> SymbolOf(msg[Len(got) + 1])]
<1>1. /\ sphase = "sent" /\ receiver \in Roles /\ vocab \in DOMAIN Vocabs
      /\ vocab \in Codable
      /\ got \in Seq(1 .. Cardinality(Ids(vocab))) /\ Len(got) \in Nat
      /\ want = Len(msg) /\ Follows1(msg, got)
    BY ReceiverKnows
<1>2. /\ sender \in Roles /\ msg \in Seq(1 .. Cardinality(Ids(vocab))) /\ Len(msg) \in Nat
      /\ coded = Len(msg) /\ Len(msg) < LEN_SYMBOLS
      /\ SentFor(vocab, sender, msg, sent, coded) /\ Len(sent) = 2 * Len(msg) + 1
    BY <1>1, FlushKnows
<1>3. PICK k \in Nat : k = Len(got) /\ k \in 0 .. Len(msg) - 1 /\ k < Len(msg)
    BY <1>1, <1>2
<1>4. Front(msg, k) = got
    <2>1. Len(got) <= Len(msg)
        BY <1>2, <1>3
    <2> QED
        BY <1>1, <1>2, <1>3, <2>1, FrontFollows
<1>5. /\ sent[2 * k + 2] = NextBucket(vocab, sender, msg, k)
      /\ sent[2 * k + 3] = NextSymbol(vocab, sender, msg, k)
    BY <1>2, <1>3 DEF SentFor
<1>6. /\ NextBucket(vocab, sender, msg, k) = NextBucket(vocab, receiver, msg, k)
      /\ NextSymbol(vocab, sender, msg, k) = NextSymbol(vocab, receiver, msg, k)
    BY <1>1, <1>2, <1>3, SameTables
<1>7. msg[k + 1] \in 1 .. Cardinality(Ids(vocab))
    BY <1>1, <1>2, <1>3, NextTables
<1>8. /\ NextBucket(vocab, receiver, msg, k) =
            [cnt |-> BucketTable[receiver][vocab][Hidden(got)], sym |-> BucketOf(msg[k + 1])]
      /\ NextSymbol(vocab, receiver, msg, k) =
            [cnt |-> SymbolTable[receiver][vocab][Hidden(got)][BucketOf(msg[k + 1])],
             sym |-> SymbolOf(msg[k + 1])]
    BY <1>4, Zenon DEF NextBucket, NextSymbol, Front
<1> QED
    BY <1>2, <1>3, <1>5, <1>6, <1>7, <1>8

\* A bucket is decoded.
LEMMA DecodeBucketKeeps ==
    ASSUME SemInv, DecodeBucket PROVE SemInv'
<1>1. /\ TokInv /\ MergedOut /\ rphase = "token" /\ Len(got) < want /\ Len(got) < MaxSeq
      /\ DecSym(BucketTable[receiver][vocab][Hidden(got)]) /\ rphase' = "symbol"
      /\ UNCHANGED <<tokVars, coderVars, sender, line, sphase, coded>>
      /\ UNCHANGED coderVars /\ UNCHANGED tokVars
      /\ receiver' = receiver /\ got' = got /\ want' = want /\ link' = link /\ sphase' = sphase
    BY DEF SemInv, DecodeBucket, BucketCounts, ForwardOK
<1>2. /\ Inv /\ link \in {"whole", "cut", "stray"} /\ sphase = "sent" /\ receiver \in Roles
      /\ LEN_SYMBOLS \in Nat /\ want \in Nat /\ want < LEN_SYMBOLS
      /\ vocab \in DOMAIN Vocabs /\ vocab \in Codable /\ got \in Seq(1 .. Cardinality(Ids(vocab)))
      /\ Len(got) \in Nat /\ Len(found) = 2 * Len(got) + 1
      /\ link = "whole" => FullInv /\ want = Len(msg) /\ Follows1(msg, got)
    BY <1>1, ReceiverKnows
<1>3. PICK n : n = Cardinality(Ids(vocab))
    OBVIOUS
<1>4. PICK h \in DOMAIN Acts : h = Hidden(got)
    <2>1. Len(got) < LEN_SYMBOLS
        BY <1>1, <1>2
    <2> QED
        BY <1>2, <2>1, PrefixKnown
<1>5. PICK cnt \in Tables : cnt = BucketTable[receiver][vocab][h] /\ Len(cnt) = nbuckets(n)
    BY <1>2, <1>3, <1>4, TablesAre
<1>6. DecSym(cnt)
    BY <1>1, <1>4, <1>5
<1>7. PICK g \in Nat : g = Len(got) /\ Len(found) = 2 * g + 1
    BY <1>2
<1>8. Inv' /\ Len(found') = 2 * g + 2 /\ found'[2 * g + 2] \in 1 .. nbuckets(n)
    <2>1. PICK k \in Nat : k = Len(found) /\ k + 1 = 2 * g + 2
        BY <1>7
    <2>2. Inv' /\ Len(found') = k + 1 /\ found'[k + 1] \in 1 .. Len(cnt)
        BY <1>1, <1>2, <1>6, <2>1, DecSymFinds
    <2> QED
        BY <1>5, <2>1, <2>2
<1>9. ASSUME link = "whole" PROVE FullInv'
    <2>1. PICK k \in Nat : k = Len(found) /\ k + 1 = 2 * g + 2
        BY <1>7
    <2>2. /\ Len(msg) \in Nat /\ g < Len(msg) /\ Len(sent) = 2 * Len(msg) + 1
          /\ sent[2 * g + 2] = [cnt |-> BucketTable[receiver][vocab][Hidden(got)],
                                sym |-> BucketOf(msg[g + 1])]
        BY <1>1, <1>7, <1>9, SameNext
    <2>3. k < Len(sent)
        BY <2>1, <2>2
    <2>4. sent[k + 1].cnt = cnt
        BY <1>4, <1>5, <2>1, <2>2
    <2>5. Len(found') = k + 1
        BY <1>8, <2>1
    <2> QED
        BY <1>1, <1>2, <1>6, <1>9, <2>1, <2>3, <2>4, <2>5, Received
<1>10. Coder'
    BY <1>1, <1>2, <1>8, <1>9 DEF Coder
<1>11. msg' = msg /\ vocab' = vocab
    BY <1>1, TokStays
<1>12. Receives'
    <2>1. want \in 0 .. LEN_SYMBOLS - 1 /\ Len(got) <= want
        BY <1>1, <1>2
    <2>2. ReceiverOK(vocab, msg, receiver, "sent", "symbol", link, want, got, found', dpc')
        BY <1>1, <1>2, <1>3, <1>7, <1>8, <2>1 DEF ReceiverOK
    <2> QED
        BY <1>1, <1>2, <1>11, <2>2, Zenon DEF Receives
<1>13. IntactWireAccepted' /\ TextArrives'
    BY <1>1 DEF IntactWireAccepted, TextArrives
<1> QED
    BY <1>1, <1>10, <1>12, <1>13, ReceiverStep

\* A token is decoded; it is always one of the vocabulary.
LEMMA DecodeSymbolKeeps ==
    ASSUME SemInv, DecodeSymbol
    PROVE  SemInv' /\ rphase' = "token" /\ \E tok : got' = Append(got, tok)
<1>1. /\ TokInv /\ MergedOut /\ rphase = "symbol"
      /\ DecSym(SymbolTable[receiver][vocab][Hidden(got)][found[Len(found)]])
      /\ UNCHANGED <<tokVars, coderVars, sender, line, sphase, coded>>
      /\ UNCHANGED coderVars /\ UNCHANGED tokVars
      /\ receiver' = receiver /\ want' = want /\ link' = link /\ sphase' = sphase
    BY DEF SemInv, DecodeSymbol, SymbolCounts
<1>2. /\ Inv /\ link \in {"whole", "cut", "stray"} /\ sphase = "sent" /\ receiver \in Roles
      /\ LEN_SYMBOLS \in Nat /\ want \in Nat /\ want < LEN_SYMBOLS
      /\ vocab \in DOMAIN Vocabs /\ vocab \in Codable /\ got \in Seq(1 .. Cardinality(Ids(vocab)))
      /\ Len(got) \in Nat /\ Len(found) = 2 * Len(got) + 2 /\ Len(got) < want
      /\ found[Len(found)] \in 1 .. nbuckets(Cardinality(Ids(vocab)))
      /\ link = "whole" => FullInv /\ want = Len(msg) /\ Follows1(msg, got)
    BY <1>1, ReceiverKnows
<1>3. PICK n \in Nat \ {0} : n = Cardinality(Ids(vocab))
    BY <1>2, VocabIs
<1>4. PICK h \in DOMAIN Acts : h = Hidden(got)
    <2>1. Len(got) < LEN_SYMBOLS
        BY <1>2
    <2> QED
        BY <1>2, <2>1, PrefixKnown
<1>5. PICK b \in 1 .. nbuckets(n) : b = found[Len(found)]
    BY <1>2, <1>3
<1>6. PICK cnt \in Tables : cnt = SymbolTable[receiver][vocab][h][b] /\ Len(cnt) = BucketSize(n, b)
    BY <1>2, <1>3, <1>4, TablesAre
<1>7. DecSym(cnt)
    BY <1>1, <1>4, <1>5, <1>6
<1>8. PICK g \in Nat : g = Len(got) /\ Len(found) = 2 * g + 2 /\ g < want
    BY <1>2
<1>9. PICK s \in 1 .. BucketSize(n, b) :
          Inv' /\ Len(found') = 2 * g + 3 /\ s = found'[2 * g + 3] /\ s = found'[Len(found')]
    <2>1. PICK k \in Nat : k = Len(found) /\ k + 1 = 2 * g + 3
        BY <1>8
    <2>2. Inv' /\ Len(found') = k + 1 /\ found'[k + 1] \in 1 .. Len(cnt)
        BY <1>1, <1>2, <1>7, <2>1, DecSymFinds
    <2> QED
        BY <1>6, <2>1, <2>2
<1>10. PICK tok \in 1 .. n : tok = (b - 1) * BUCKET + s
    <2>1. /\ (b - 1) * BUCKET \in Nat /\ BucketSize(n, b) \in Nat \ {0}
          /\ (b - 1) * BUCKET + BucketSize(n, b) <= n
        BY <1>3, BucketIs
    <2>2. PICK x \in Nat, y \in Nat : x = (b - 1) * BUCKET /\ y = BucketSize(n, b) /\ x + y <= n
        BY <2>1
    <2>3. x + s \in 1 .. n
        BY <1>9, <2>2
    <2> QED
        BY <2>2, <2>3
<1>11. got' = Append(got, tok) /\ rphase' = "token"
    <2>1. tok <= Cardinality(Ids(vocab))
        BY <1>3, <1>10
    <2> QED
        BY <1>5, <1>9, <1>10, <2>1 DEF DecodeSymbol
<1>12. /\ got' \in Seq(1 .. n) /\ Len(got') = g + 1 /\ got'[g + 1] = tok
       /\ \A i \in 1 .. g : got'[i] = got[i]
    <2>1. PICK V : V = 1 .. n
        OBVIOUS
    <2>2. got \in Seq(V) /\ tok \in V
        BY <1>2, <1>3, <1>10, <2>1
    <2>3. /\ Append(got, tok) \in Seq(V) /\ Len(Append(got, tok)) = Len(got) + 1
          /\ Append(got, tok)[Len(got) + 1] = tok
          /\ \A i \in 1 .. Len(got) : Append(got, tok)[i] = got[i]
        BY <2>2, RowMore
    <2> QED
        BY <1>8, <1>11, <2>1, <2>3
<1>13. msg' = msg /\ vocab' = vocab
    BY <1>1, TokStays
<1>14. ASSUME link = "whole" PROVE FullInv' /\ Follows1(msg, got')
    <2>1. PICK k \in Nat : k = Len(found) /\ k + 1 = 2 * g + 3 /\ k = 2 * g + 2
        BY <1>8
    <2>2. /\ Len(msg) \in Nat /\ g < Len(msg) /\ Len(sent) = 2 * Len(msg) + 1
          /\ msg[g + 1] \in 1 .. n
          /\ sent[2 * g + 2].sym = BucketOf(msg[g + 1])
          /\ sent[2 * g + 3].cnt = SymbolTable[receiver][vocab][Hidden(got)][BucketOf(msg[g + 1])]
          /\ sent[2 * g + 3].sym = SymbolOf(msg[g + 1])
        BY <1>1, <1>2, <1>3, <1>8, <1>14, SameNext, SMTT(30)
    <2>3. k < Len(sent)
        BY <2>1, <2>2
    <2>4. b = BucketOf(msg[g + 1])
        <3>1. RoundTrip /\ k \in 1 .. Len(found)
            BY <1>2, <1>14, <2>1 DEF FullInv
        <3>2. found[k] = sent[k].sym
            BY <3>1 DEF RoundTrip
        <3> QED
            BY <1>5, <2>1, <2>2, <3>2
    <2>5. sent[k + 1].cnt = cnt
        BY <1>4, <1>6, <2>1, <2>2, <2>4
    <2>6. Len(found') = k + 1
        BY <1>9, <2>1
    <2>7. FullInv' /\ found'[k + 1] = sent[k + 1].sym
        BY <1>1, <1>2, <1>7, <1>14, <2>1, <2>3, <2>5, <2>6, Received
    <2>8. s = SymbolOf(msg[g + 1])
        BY <1>9, <2>1, <2>2, <2>7
    <2>9. tok = msg[g + 1]
        <3>1. PICK x \in 1 .. n : x = msg[g + 1]
            BY <2>2
        <3>2. (BucketOf(x) - 1) * BUCKET + SymbolOf(x) = x
            BY TokenPlace
        <3> QED
            BY <1>10, <2>4, <2>8, <3>1, <3>2
    <2>10. ASSUME NEW i \in 1 .. Len(got') PROVE got'[i] = msg[i]
        <3>1. i \in 1 .. g \/ i = g + 1
            BY <1>12
        <3>2. CASE i \in 1 .. g
            BY <1>2, <1>8, <1>12, <1>14, <3>2 DEF Follows1
        <3>3. CASE i = g + 1
            BY <1>12, <2>9, <3>3
        <3> QED
            BY <3>1, <3>2, <3>3
    <2> QED
        BY <2>7, <2>10 DEF Follows1
<1>15. Coder'
    BY <1>1, <1>2, <1>9, <1>14 DEF Coder
<1>16. Receives'
    <2>1. want \in 0 .. LEN_SYMBOLS - 1 /\ g + 1 <= want /\ 2 * g + 3 = 2 * (g + 1) + 1
        BY <1>2, <1>8
    <2>2. got' \in Seq(1 .. Cardinality(Ids(vocab)))
        BY <1>3, <1>12
    <2>3. ReceiverOK(vocab, msg, receiver, "sent", "token", link, want, got', found', dpc')
        BY <1>1, <1>2, <1>9, <1>12, <1>14, <2>1, <2>2 DEF ReceiverOK
    <2> QED
        BY <1>1, <1>2, <1>11, <1>13, <2>3, Zenon DEF Receives
<1>17. IntactWireAccepted' /\ TextArrives'
    BY <1>11 DEF IntactWireAccepted, TextArrives
<1> QED
    BY <1>1, <1>11, <1>15, <1>16, <1>17, ReceiverStep

\* tq_forward fails at the receiver.
LEMMA DecodeFailsKeeps ==
    ASSUME SemInv, DecodeFails PROVE SemInv'
<1>1. /\ TokInv /\ MergedOut /\ Coder /\ rphase = "token" /\ rphase' = "failed" /\ UNCHANGED vars
      /\ UNCHANGED <<tokVars, coderVars, sender, line, sphase, coded>> /\ UNCHANGED tokVars
      /\ receiver' = receiver /\ got' = got /\ want' = want /\ link' = link /\ sphase' = sphase
    BY DEF SemInv, DecodeFails, vars, coderVars
<1>2. /\ Inv /\ link \in {"whole", "cut", "stray"} /\ sphase = "sent" /\ receiver \in Roles
      /\ LEN_SYMBOLS \in Nat /\ want \in Nat /\ want < LEN_SYMBOLS
      /\ got \in Seq(1 .. Cardinality(Ids(vocab))) /\ Len(got) <= want
      /\ Len(found) = 2 * Len(got) + 1
      /\ link = "whole" => FullInv /\ want = Len(msg) /\ Follows1(msg, got)
    BY <1>1, ReceiverKnows
<1>3. Inv' /\ (link = "whole" => FullInv')
    BY <1>1, <1>2, NextInv, FullKeeps
<1>4. Coder'
    BY <1>1, <1>2, <1>3 DEF Coder
<1>5. msg' = msg /\ vocab' = vocab /\ found' = found
    BY <1>1, TokStays DEF vars, decVars
<1>6. Receives'
    <2>1. want \in 0 .. LEN_SYMBOLS - 1
        BY <1>2
    <2>2. ReceiverOK(vocab, msg, receiver, "sent", "failed", link, want, got, found, dpc')
        BY <1>2, <2>1 DEF ReceiverOK
    <2> QED
        BY <1>1, <1>2, <1>5, <2>2, Zenon DEF Receives
<1>7. IntactWireAccepted' /\ TextArrives'
    BY <1>1 DEF IntactWireAccepted, TextArrives
<1> QED
    BY <1>1, <1>4, <1>6, <1>7, ReceiverStep

\* The text is printed.
LEMMA DecodeReturnsKeeps ==
    ASSUME SemInv, DecodeReturns PROVE SemInv'
<1>1. /\ TokInv /\ MergedOut /\ Coder /\ Given /\ rphase = "token" /\ rphase' = "done"
      /\ Len(got) = want /\ out' = Printed /\ UNCHANGED vars
      /\ UNCHANGED <<tokVars, coderVars, sender, line, sphase, coded>> /\ UNCHANGED tokVars
      /\ receiver' = receiver /\ got' = got /\ want' = want /\ link' = link /\ sphase' = sphase
      /\ sender' = sender /\ line' = line
    BY DEF SemInv, DecodeReturns, vars, coderVars
<1>2. /\ Inv /\ link \in {"whole", "cut", "stray"} /\ sphase = "sent" /\ receiver \in Roles
      /\ LEN_SYMBOLS \in Nat /\ want \in Nat /\ want < LEN_SYMBOLS
      /\ vocab \in DOMAIN Vocabs /\ got \in Seq(1 .. Cardinality(Ids(vocab))) /\ Len(got) <= want
      /\ link = "whole" => FullInv /\ want = Len(msg) /\ Follows1(msg, got)
    BY <1>1, ReceiverKnows
<1>3. Inv' /\ (link = "whole" => FullInv')
    BY <1>1, <1>2, NextInv, FullKeeps
<1>4. Coder'
    BY <1>1, <1>2, <1>3 DEF Coder
<1>5. msg' = msg /\ vocab' = vocab /\ text' = text
    BY <1>1, TokStays
<1>6. Receives'
    <2>1. want \in 0 .. LEN_SYMBOLS - 1
        BY <1>2
    <2>2. ReceiverOK(vocab, msg, receiver, "sent", "done", link, want, got, found', dpc')
        BY <1>1, <1>2, <2>1 DEF ReceiverOK
    <2> QED
        BY <1>1, <1>2, <1>5, <2>2, Zenon DEF Receives
<1>7. IntactWireAccepted'
    BY <1>1 DEF IntactWireAccepted
<1>8. ASSUME link = "whole" PROVE out' = text
    <2>1. /\ tpc = "encoded" /\ msg \in Seq(1 .. Cardinality(Ids(vocab))) /\ Len(msg) \in Nat
        BY <1>2, FlushKnows
    <2>2. got = msg
        <3>1. PICK V : V = 1 .. Cardinality(Ids(vocab))
            OBVIOUS
        <3>2. PICK k \in Nat : k = Len(got) /\ k = Len(msg)
            BY <1>1, <1>2, <1>8, <2>1
        <3>3. got \in Seq(V) /\ msg \in Seq(V) /\ \A i \in 1 .. k : got[i] = msg[i]
            BY <1>2, <1>8, <2>1, <3>1, <3>2 DEF Follows1
        <3> QED
            BY <3>2, <3>3, SeqEqual
    <2>3. /\ text \in Seq(Bytes) /\ split = Len(text) /\ Opens(vocab, text, tokens)
          /\ Spelt(vocab, text, Len(Lead(vocab, text)) + split, tokens)
        BY <1>1, <2>1 DEF TokInv, TokOK, TokTypes, Spelling
    <2>4. Len(Full(vocab, text)) = Len(Lead(vocab, text)) + split
        BY <1>2, <2>3, LeadIs
    <2>5. Spelt(vocab, text, Len(Full(vocab, text)), tokens)
        BY <2>3, <2>4
    <2>6. Printed = text
        BY <1>2, <2>2, <2>3, <2>5, PrintedIs
    <2> QED
        BY <1>1, <2>6
<1>9. ASSUME sender = "board", Len(Spaced(line)) + 2 < TEXT_BYTES PROVE text = Spaced(line)
    BY <1>1, <1>9, BoardTextIs DEF Given
<1>10. TextArrives'
    <2>1. SUFFICES ASSUME link = "whole"
                   PROVE  /\ out' = text
                          /\ sender = "board" /\ Len(Spaced(line)) + 2 < TEXT_BYTES => out' = Spaced(line)
        <3>1. Spaced(line)' = Spaced(line)
            BY <1>1, Zenon DEF Spaced
        <3> QED
            BY <1>1, <1>5, <3>1, Zenon DEF TextArrives
    <2> QED
        BY <1>8, <1>9, <2>1
<1> QED
    BY <1>1, <1>4, <1>6, <1>7, <1>10, ReceiverStep

\* The coder's loop at the receiver.
LEMMA ReceiverLoopKeeps ==
    ASSUME SemInv, ReceiverLoop PROVE SemInv'
<1>1. /\ TokInv /\ MergedOut /\ Coder /\ Receives /\ IntactWireAccepted /\ TextArrives
      /\ DecodeLoop /\ UNCHANGED tokVars /\ UNCHANGED semVars
    BY DEF SemInv, ReceiverLoop
<1>2. UNCHANGED <<sender, receiver, line, out, sphase, coded, rphase, want, got, link>>
    BY <1>1 DEF semVars
<1>3. dpc = "renorm" /\ found' = found /\ buf' = buf /\ UNCHANGED coderVars
    BY <1>1 DEF DecodeLoop, DecRenorm, encVars, coderVars
<1>4. msg' = msg /\ vocab' = vocab /\ text' = text
    BY <1>1, TokStays
<1>5. rphase # "idle"
    BY <1>1, <1>3 DEF Receives, ReceiverOK
<1>6. Coder'
    <2>1. Inv'
        BY <1>1, NextInv DEF Coder, Next
    <2>2. FullInv => FullInv'
        BY <1>1, FullKeeps DEF Next
    <2> QED
        BY <1>1, <1>2, <2>1, <2>2 DEF Coder
<1>7. ReceiverOK(vocab, msg, receiver, sphase, rphase, link, want, got, found, dpc')
    BY <1>1, <1>5 DEF Receives, ReceiverOK
<1>8. Receives'
    BY <1>2, <1>3, <1>4, <1>7, Zenon DEF Receives
<1>9. IntactWireAccepted' /\ TextArrives'
    <2>1. Spaced(line)' = Spaced(line)
        BY <1>2, Zenon DEF Spaced
    <2> QED
        BY <1>1, <1>2, <1>3, <1>4, <2>1, Zenon DEF IntactWireAccepted, TextArrives
<1>10. UNCHANGED <<tokVars, coderVars, sender, line, sphase, coded>>
    BY <1>1, <1>2, <1>3
<1> QED
    BY <1>6, <1>8, <1>9, <1>10, ReceiverStep

\* Nothing happens.
LEMMA IdleKeeps ==
    ASSUME SemInv, UNCHANGED sysVars PROVE SemInv'
<1>1. /\ TokInv /\ MergedOut /\ Coder /\ Receives /\ IntactWireAccepted /\ TextArrives
      /\ UNCHANGED vars /\ UNCHANGED tokVars /\ UNCHANGED semVars
    BY DEF SemInv, sysVars
<1>2. UNCHANGED <<sender, receiver, line, out, sphase, coded, rphase, want, got, link>>
    BY <1>1 DEF semVars
<1>3. found' = found /\ dpc' = dpc /\ buf' = buf /\ UNCHANGED coderVars
    BY <1>1 DEF vars, decVars, encVars, coderVars
<1>4. msg' = msg /\ vocab' = vocab /\ text' = text
    BY <1>1, TokStays
<1>5. Coder'
    <2>1. Inv'
        BY <1>1, NextInv DEF Coder
    <2>2. FullInv => FullInv'
        BY <1>1, FullKeeps
    <2> QED
        BY <1>1, <1>2, <2>1, <2>2 DEF Coder
<1>6. Receives'
    BY <1>1, <1>2, <1>3, <1>4, Zenon DEF Receives
<1>7. IntactWireAccepted' /\ TextArrives'
    <2>1. Spaced(line)' = Spaced(line)
        BY <1>2, Zenon DEF Spaced
    <2> QED
        BY <1>1, <1>2, <1>3, <1>4, <2>1, Zenon DEF IntactWireAccepted, TextArrives
<1>8. UNCHANGED <<tokVars, coderVars, sender, line, sphase, coded>>
    BY <1>1, <1>2, <1>3
<1> QED
    BY <1>5, <1>6, <1>7, <1>8, ReceiverStep

\* Every step of either end, and of the wire between them.
LEMMA SemNextInv ==
    ASSUME SemInv, [SemNext]_sysVars PROVE SemInv'
<1>1. CASE Commands
    BY <1>1, NotReadyKeeps, TokenizeKeeps, EncodeLengthKeeps, EncodeBucketKeeps, EncodeSymbolKeeps,
       EncodeFailsKeeps, EncodeFinishKeeps, EncodeReturnsKeeps, SenderLoopsKeeps,
       DecodeLengthKeeps, DecodeBucketKeeps, DecodeSymbolKeeps, DecodeFailsKeeps,
       DecodeReturnsKeeps, ReceiverLoopKeeps DEF Commands
<1>2. CASE ArriveWhole \/ ArriveCut \/ ArriveStray
    BY <1>2, AllArriveKeeps
<1>3. CASE UNCHANGED sysVars
    BY <1>3, IdleKeeps
<1> QED
    BY <1>1, <1>2, <1>3 DEF SemNext

\* What both commands rest on holds throughout.
LEMMA SemInvariant == SemSpec => []SemInv
<1>1. SemInit => SemInv
    BY SemInitInv
<1>2. SemInv /\ [SemNext]_sysVars => SemInv'
    BY SemNextInv
<1> QED
    BY <1>1, <1>2, PTL DEF SemSpec

\* tq_encode leaves no pair of neighbours that makes up a piece: its binary
\* search finds every piece of every sorted vocabulary.
THEOREM AlwaysMergedOut == SemSpec => []MergedOut
<1>1. SemInv => MergedOut
    BY DEF SemInv
<1> QED
    BY <1>1, SemInvariant, PTL

\* The board's packed kernels and the host's plain ones give the same integer
\* products of the last matrix's weights and activations, the exact ones, for every
\* token at every step of every message.
THEOREM KernelsAlwaysAgree == SemSpec => []KernelsAgree
<1>1. SemInv => KernelsAgree
    <2>1. SUFFICES ASSUME SemInv, sphase \in {"token", "symbol"}, NEW role \in Roles
                   PROVE  Scores[role][vocab][Hidden(SubSeq(msg, 1, coded))]
                            = ExactScores[vocab][Hidden(SubSeq(msg, 1, coded))]
        BY DEF KernelsAgree
    <2>2. /\ vocab \in DOMAIN Vocabs /\ msg \in Seq(1 .. Cardinality(Ids(vocab)))
          /\ Len(msg) \in Nat /\ coded \in 0 .. Len(msg) /\ Len(msg) < LEN_SYMBOLS
        BY <2>1, SenderKnows
    <2>3. PICK g \in Seq(1 .. Cardinality(Ids(vocab))) : g = Front(msg, coded) /\ Len(g) = coded
        BY <2>2, FrontIs
    <2>4. Len(g) < LEN_SYMBOLS
        BY <2>2, <2>3, LenTableIs
    <2>5. Hidden(g) \in DOMAIN Acts
        BY <2>2, <2>4, PrefixKnown
    <2>6. Scores[role][vocab][Hidden(g)] = ExactScores[vocab][Hidden(g)]
        BY <2>2, <2>5, ScoresAgree
    <2> QED
        BY <2>3, <2>6 DEF Front
<1> QED
    BY <1>1, SemInvariant, PTL

\* Whatever text is typed and whatever bytes arrive, cut short or never produced
\* by an encoder, the tokenizer, the coder and the decoder stay inside their
\* arrays, words, tables, vocabulary, length field and context.
THEOREM WireAlwaysHarmless == SemSpec => []AnyWireIsHarmless
<1>1. SemInv => AnyWireIsHarmless
    <2>1. SUFFICES ASSUME SemInv PROVE AnyWireIsHarmless
        OBVIOUS
    <2>2. EncTypeOK /\ DecTypeOK
        BY <2>1 DEF SemInv, Coder, Inv, EncInv, DecInv
    <2>3. Len(tokens) <= max_tokens
        BY <2>1 DEF SemInv, TokInv, TokOK, TokTypes
    <2>4. PICK V : V = 1 .. Cardinality(Ids(vocab))
        OBVIOUS
    <2>5. /\ want \in 0 .. LEN_SYMBOLS - 1 /\ got \in Seq(V) /\ Len(got) <= want
          /\ rphase = "symbol" => /\ found[Len(found)] \in 1 .. nbuckets(Cardinality(Ids(vocab)))
                                  /\ Len(got) < MaxSeq
          /\ rphase = "failed" => Len(found) = 2 * Len(got) + 1
        BY <2>1, <2>4 DEF SemInv, Receives, ReceiverOK
    <2>6. \A i \in 1 .. Len(got) : got[i] \in V
        BY <2>5
    <2> QED
        BY <2>2, <2>3, <2>4, <2>5, <2>6 DEF AnyWireIsHarmless, ForwardOK
<1> QED
    BY <1>1, SemInvariant, PTL

\* A wire that reaches the decoder intact is turned away by a board only, and only
\* when it has no bytes because the message is empty, when the message fills the
\* context, or when it is longer than the board's buffer.
THEOREM IntactAlwaysAccepted == SemSpec => []IntactWireAccepted
<1>1. SemInv => IntactWireAccepted
    BY DEF SemInv
<1> QED
    BY <1>1, SemInvariant, PTL

\* The round trip of the whole program: the text that was typed at one end is
\* printed at the other, byte for byte, for every vocabulary, text, model head,
\* pair of machines and coder buffer that the assumptions allow.
THEOREM TextAlwaysArrives == SemSpec => []TextArrives
<1>1. SemInv => TextArrives
    BY DEF SemInv
<1> QED
    BY <1>1, SemInvariant, PTL

-----------------------------------------------------------------------------
(* The message as the courier sees it.                                       *)

Handed == Front(msg, coded)
Arrived == IF link = "whole" THEN got ELSE <<>>

FateOf(tp, sp, rp, lk) ==
    CASE sp \in {"refused", "failed"} \/ tp = "failed"    -> "lost"
      [] lk \in {"cut", "stray"}                          -> "lost"
      [] lk = "whole" /\ rp \in {"refused", "failed"}     -> "lost"
      [] sp = "sent" /\ lk = "none"                       -> "sealed"
      [] lk = "whole" /\ rp \notin {"refused", "failed"}  -> "sealed"
      [] OTHER                                            -> "open"

\* The phases that go together.
Together(tp, sp, rp, lk) ==
    /\ sp \in {"idle", "refused", "token", "symbol", "failed", "flushing", "sent"}
    /\ sp \notin {"idle", "refused"} => tp = "encoded"
    /\ lk \in {"none", "whole", "cut", "stray"}
    /\ lk = "none" <=> rp = "idle"
    /\ lk # "none" => sp = "sent"

\* What they say of the message.
LEMMA FateIs ==
    ASSUME NEW tp, NEW sp, NEW rp, NEW lk, Together(tp, sp, rp, lk)
    PROVE  /\ sp \in {"refused", "failed"} \/ tp = "failed" => FateOf(tp, sp, rp, lk) = "lost"
           /\ sp \notin {"refused", "failed", "sent"} /\ tp # "failed" =>
                 FateOf(tp, sp, rp, lk) = "open"
           /\ sp = "sent" /\ lk = "none" => FateOf(tp, sp, rp, lk) = "sealed"
           /\ lk \in {"cut", "stray"} => FateOf(tp, sp, rp, lk) = "lost"
           /\ lk = "whole" /\ rp \in {"refused", "failed"} => FateOf(tp, sp, rp, lk) = "lost"
           /\ lk = "whole" /\ rp \notin {"refused", "failed"} => FateOf(tp, sp, rp, lk) = "sealed"
BY DEF Together, FateOf

\* They do go together.
LEMMA PhasesTogether ==
    ASSUME Sends, Receives
    PROVE  Together(tpc, sphase, rphase, link) /\ Fate = FateOf(tpc, sphase, rphase, link)
<1>1. Together(tpc, sphase, rphase, link)
    BY DEF Together, Sends, Receives, SenderOK, ReceiverOK
<1>2. Fate = FateOf(tpc, sphase, rphase, link)
    BY Zenon DEF Fate, FateOf
<1> QED
    BY <1>1, <1>2

\* The same of the state after a step.
LEMMA PhasesTogetherNext ==
    ASSUME Sends', Receives'
    PROVE  Together(tpc', sphase', rphase', link') /\ Fate' = FateOf(tpc', sphase', rphase', link')
<1>1. Together(tpc', sphase', rphase', link')
    BY DEF Together, Sends, Receives, SenderOK, ReceiverOK
<1>2. Fate' = FateOf(tpc', sphase', rphase', link')
    BY Zenon DEF Fate, FateOf
<1> QED
    BY <1>1, <1>2

\* The steps of the courier.
LEMMA PostStays ==
    ASSUME Handed' = Handed, Arrived' = Arrived, Fate' = Fate
    PROVE  UNCHANGED Post!vars
BY DEF Post!vars, Handed, Arrived, Front

\* The courier loses the message.
LEMMA PostLost ==
    ASSUME Handed' = Handed, Arrived' = Arrived, Fate \in {"open", "sealed"}, Fate' = "lost"
    PROVE  Post!Next
BY DEF Post!Next, Post!Lose, Handed, Arrived, Front

\* The sender is done.
LEMMA PostSealed ==
    ASSUME Handed' = Handed, Arrived' = Arrived, Fate = "open", Fate' = "sealed"
    PROVE  Post!Next
BY DEF Post!Next, Post!Seal, Handed, Arrived, Front

\* The sender hands one token over.
LEMMA PostHands ==
    ASSUME NEW item \in UNION {1 .. Cardinality(Ids(v)) : v \in DOMAIN Vocabs},
           Handed' = Append(Handed, item), Arrived' = Arrived, Fate = "open", Fate' = "open"
    PROVE  Post!Next
<1>1. Post!Hand(item)
    BY DEF Post!Hand, Handed, Arrived, Front
<1> QED
    BY <1>1 DEF Post!Next

\* The next token arrives.
LEMMA PostArrives ==
    ASSUME Handed' = Handed, Fate = "sealed", Fate' = "sealed", Len(Arrived) < Len(Handed),
           Arrived' = Append(Arrived, Handed[Len(Arrived) + 1])
    PROVE  Post!Next
<1>1. Post!Arrive
    BY DEF Post!Arrive, Handed, Arrived, Front
<1> QED
    BY <1>1 DEF Post!Next

\* Nothing was handed over yet.
LEMMA NothingHanded == ASSUME coded = 0 PROVE Handed = <<>>
<1>1. SubSeq(msg, 1, 0) = <<>>
    OBVIOUS
<1> QED
    BY <1>1 DEF Handed, Front

\* Nor in the next state.
LEMMA NothingHandedNext == ASSUME coded' = 0 PROVE Handed' = <<>>
<1>1. SubSeq(msg', 1, 0) = <<>>
    OBVIOUS
<1> QED
    BY <1>1 DEF Handed, Front

\* One token more was handed over.
LEMMA FrontMore ==
    ASSUME NEW V, NEW m \in Seq(V), NEW j \in 0 .. Len(m) - 1
    PROVE  Front(m, j + 1) = Append(Front(m, j), m[j + 1])
<1>1. PICK l \in Nat : l = Len(m) /\ j \in 0 .. l /\ j + 1 \in 0 .. l /\ j + 1 \in 1 .. l
    OBVIOUS
<1>2. PICK f \in Seq(V) : f = Front(m, j) /\ Len(f) = j /\ \A i \in 1 .. j : f[i] = m[i]
    BY <1>1, FrontIs
<1>3. PICK x \in V : x = m[j + 1]
    BY <1>1
<1>4. PICK a \in Seq(V) : a = Append(f, x)
    BY <1>2, RowMore
<1>5. Len(a) = j + 1 /\ a[j + 1] = x /\ \A i \in 1 .. j : a[i] = f[i]
    BY <1>2, <1>4, RowMore
<1>6. PICK g \in Seq(V) : g = Front(m, j + 1) /\ Len(g) = j + 1 /\ \A i \in 1 .. j + 1 : g[i] = m[i]
    BY <1>1, FrontIs
<1>7. ASSUME NEW i \in 1 .. j + 1 PROVE g[i] = a[i]
    <2>1. i \in 1 .. j \/ i = j + 1
        BY <1>1
    <2> QED
        BY <1>2, <1>3, <1>5, <1>6, <2>1
<1> QED
    BY <1>2, <1>3, <1>4, <1>5, <1>6, <1>7, SeqEqual

\* A step of the tokenizer or of the sender, before anything arrives.
LEMMA SenderPost ==
    ASSUME SemInv, SemInv', sphase # "sent", link' = link, msg' = msg, tpc' = tpc,
           sphase' \in {"refused", "failed", "token", "symbol", "flushing", "sent"},
           tpc = "encoded", coded' = coded, sphase \notin {"refused", "failed"}
    PROVE  [Post!Next]_(Post!vars)
<1>1. Sends /\ Receives /\ Sends' /\ Receives'
    BY DEF SemInv
<1>2. link = "none"
    BY <1>1, NotBegun
<1>3. /\ Together(tpc, sphase, rphase, link) /\ Fate = FateOf(tpc, sphase, rphase, link)
      /\ Together(tpc', sphase', rphase', link') /\ Fate' = FateOf(tpc', sphase', rphase', link')
    BY <1>1, PhasesTogether, PhasesTogetherNext
<1>4. Handed' = Handed
    BY Zenon DEF Handed
<1>5. Arrived' = Arrived
    BY <1>2 DEF Arrived
<1>6. Fate = "open"
    <2>1. sphase \notin {"refused", "failed", "sent"} /\ tpc # "failed"
        OBVIOUS
    <2> QED
        BY <1>3, <2>1, FateIs
<1>7. CASE sphase' \in {"refused", "failed"}
    <2>1. Fate' = "lost"
        BY <1>3, <1>7, FateIs
    <2> QED
        BY <1>4, <1>5, <1>6, <2>1, PostLost
<1>8. CASE sphase' = "sent"
    <2>1. Fate' = "sealed"
        BY <1>2, <1>3, <1>8, FateIs
    <2> QED
        BY <1>4, <1>5, <1>6, <2>1, PostSealed
<1>9. CASE sphase' \in {"token", "symbol", "flushing"}
    <2>1. sphase' \notin {"refused", "failed", "sent"} /\ tpc' # "failed"
        BY <1>9
    <2>2. Fate' = "open"
        BY <1>3, <2>1, FateIs
    <2> QED
        BY <1>4, <1>5, <1>6, <2>2, PostStays
<1> QED
    BY <1>7, <1>8, <1>9

\* A step of the receiver that decodes no token.
LEMMA ReceiverPost ==
    ASSUME SemInv, SemInv', link \in {"whole", "cut", "stray"}, link' = link, msg' = msg,
           coded' = coded, got' = got, rphase \notin {"refused", "failed"}
    PROVE  [Post!Next]_(Post!vars)
<1>1. Sends /\ Receives /\ Sends' /\ Receives'
    BY DEF SemInv
<1>2. /\ Together(tpc, sphase, rphase, link) /\ Fate = FateOf(tpc, sphase, rphase, link)
      /\ Together(tpc', sphase', rphase', link') /\ Fate' = FateOf(tpc', sphase', rphase', link')
    BY <1>1, PhasesTogether, PhasesTogetherNext
<1>3. Handed' = Handed /\ Arrived' = Arrived
    BY Zenon DEF Handed, Arrived
<1>4. CASE link \in {"cut", "stray"}
    <2>1. Fate = "lost" /\ Fate' = "lost"
        BY <1>2, <1>4, FateIs
    <2> QED
        BY <1>3, <2>1, PostStays
<1>5. CASE link = "whole"
    <2>1. Fate = "sealed"
        BY <1>2, <1>5, FateIs
    <2>2. Fate' \in {"sealed", "lost"}
        BY <1>2, <1>5, FateIs
    <2> QED
        BY <1>3, <2>1, <2>2, PostStays, PostLost
<1> QED
    BY <1>4, <1>5

\* A step that leaves every phase alone.
LEMMA QuietPost ==
    ASSUME UNCHANGED tokVars, UNCHANGED semVars
    PROVE  [Post!Next]_(Post!vars)
<1>1. /\ tokens' = tokens /\ tpc' = tpc /\ coded' = coded /\ got' = got /\ link' = link
      /\ sphase' = sphase /\ rphase' = rphase
    BY DEF tokVars, semVars
<1>2. msg' = msg
    BY <1>1, Zenon DEF msg
<1>3. Handed' = Handed /\ Arrived' = Arrived
    BY <1>1, <1>2, Zenon DEF Handed, Arrived
<1>4. Fate' = Fate
    BY <1>1, Zenon DEF Fate
<1> QED
    BY <1>3, <1>4, PostStays

\* The command returns before it begins.
LEMMA NotReadyPost ==
    ASSUME SemInv, SemInv', NotReady
    PROVE  [Post!Next]_(Post!vars)
<1>1. /\ Sends /\ Receives /\ Sends' /\ Receives' /\ sphase = "idle" /\ sphase' = "refused"
      /\ coded' = coded /\ link' = link
    BY DEF SemInv, NotReady
<1>2. coded = 0 /\ link = "none"
    BY <1>1, NotBegun DEF Sends, SenderOK
<1>3. Handed = <<>> /\ Handed' = <<>> /\ Arrived' = Arrived
    BY <1>1, <1>2, NothingHanded, NothingHandedNext DEF Arrived
<1>4. /\ Together(tpc, sphase, rphase, link) /\ Fate = FateOf(tpc, sphase, rphase, link)
      /\ Together(tpc', sphase', rphase', link') /\ Fate' = FateOf(tpc', sphase', rphase', link')
    BY <1>1, PhasesTogether, PhasesTogetherNext
<1>5. Fate \in {"open", "lost"} /\ Fate' = "lost"
    BY <1>1, <1>4, FateIs
<1> QED
    BY <1>3, <1>5, PostStays, PostLost

\* A step of tq_encode.
LEMMA TokenizePost ==
    ASSUME SemInv, SemInv', Tokenize
    PROVE  [Post!Next]_(Post!vars)
<1>1. Sends /\ Receives /\ Sends' /\ Receives' /\ TokStep /\ UNCHANGED semVars /\ sphase = "idle"
    BY DEF SemInv, Tokenize
<1>2. tpc # "failed"
    BY <1>1 DEF TokStep, Start, Split, SplitDone, Merge, MergeDone
<1>3. sphase = "idle" /\ coded = 0
    BY <1>1, <1>2 DEF Sends, SenderOK
<1>4. link = "none"
    BY <1>1, <1>3, NotBegun
<1>5. sphase' = "idle" /\ coded' = 0 /\ link' = "none"
    BY <1>1, <1>3, <1>4 DEF semVars
<1>6. Handed = <<>> /\ Handed' = <<>> /\ Arrived' = Arrived
    BY <1>3, <1>4, <1>5, NothingHanded, NothingHandedNext DEF Arrived
<1>7. /\ Together(tpc, sphase, rphase, link) /\ Fate = FateOf(tpc, sphase, rphase, link)
      /\ Together(tpc', sphase', rphase', link') /\ Fate' = FateOf(tpc', sphase', rphase', link')
    BY <1>1, PhasesTogether, PhasesTogetherNext
<1>8. Fate = "open"
    BY <1>2, <1>3, <1>7, FateIs
<1>9. Fate' \in {"open", "lost"}
    BY <1>5, <1>7, FateIs
<1> QED
    BY <1>6, <1>8, <1>9, PostStays, PostLost

\* A token was coded.
LEMMA EncodeSymbolPost ==
    ASSUME SemInv, SemInv', EncodeSymbol
    PROVE  [Post!Next]_(Post!vars)
<1>1. /\ TokInv /\ MergedOut /\ Sends /\ Receives /\ Sends' /\ Receives' /\ UNCHANGED tokVars
      /\ sphase = "symbol" /\ sphase' = "token" /\ coded' = coded + 1 /\ link' = link
    BY DEF SemInv, EncodeSymbol
<1>2. /\ tpc = "encoded" /\ vocab \in DOMAIN Vocabs
      /\ msg \in Seq(1 .. Cardinality(Ids(vocab))) /\ Len(msg) \in Nat
      /\ coded \in Nat /\ coded < Len(msg)
    BY <1>1, SenderKnows
<1>3. msg' = msg /\ tpc' = tpc /\ link = "none"
    BY <1>1, TokStays, NotBegun
<1>4. PICK c \in Nat : c = coded /\ c \in 0 .. Len(msg) - 1 /\ c + 1 \in 1 .. Len(msg)
    BY <1>2
<1>5. PICK V : V = 1 .. Cardinality(Ids(vocab))
    OBVIOUS
<1>6. PICK item \in V : item = msg[c + 1]
    <2>1. msg \in Seq(V)
        BY <1>2, <1>5
    <2> QED
        BY <1>4, <2>1
<1>7. Front(msg, c + 1) = Append(Front(msg, c), item)
    BY <1>2, <1>4, <1>6, FrontMore
<1>8. Handed' = Append(Handed, item)
    BY <1>1, <1>3, <1>4, <1>7, Zenon DEF Handed
<1>9. Arrived' = Arrived
    BY <1>1, <1>3 DEF Arrived
<1>10. item \in UNION {1 .. Cardinality(Ids(v)) : v \in DOMAIN Vocabs}
    BY <1>2, <1>5, <1>6
<1>11. /\ Together(tpc, sphase, rphase, link) /\ Fate = FateOf(tpc, sphase, rphase, link)
       /\ Together(tpc', sphase', rphase', link') /\ Fate' = FateOf(tpc', sphase', rphase', link')
    BY <1>1, PhasesTogether, PhasesTogetherNext
<1>12. Fate = "open" /\ Fate' = "open"
    BY <1>1, <1>2, <1>3, <1>11, FateIs
<1> QED
    BY <1>8, <1>9, <1>10, <1>12, PostHands

\* Bytes arrive.
LEMMA ArrivePost ==
    ASSUME SemInv, SemInv', NEW w, NEW how \in {"whole", "cut", "stray"}, Arrive(w, how)
    PROVE  [Post!Next]_(Post!vars)
<1>1. /\ TokInv /\ MergedOut /\ Sends /\ Receives /\ Sends' /\ Receives' /\ UNCHANGED tokVars
      /\ sphase = "sent" /\ rphase = "idle" /\ link' \in {how, "cut"}
      /\ coded' = coded /\ got' = got
    BY DEF SemInv, Arrive
<1>2. link = "none" /\ got = <<>>
    BY <1>1, ArriveKnows
<1>3. msg' = msg
    BY <1>1, TokStays
<1>4. Handed' = Handed
    BY <1>1, <1>3, Zenon DEF Handed
<1>5. Arrived' = Arrived
    BY <1>1, <1>2 DEF Arrived
<1>6. /\ Together(tpc, sphase, rphase, link) /\ Fate = FateOf(tpc, sphase, rphase, link)
      /\ Together(tpc', sphase', rphase', link') /\ Fate' = FateOf(tpc', sphase', rphase', link')
    BY <1>1, PhasesTogether, PhasesTogetherNext
<1>7. Fate = "sealed"
    BY <1>1, <1>2, <1>6, FateIs
<1>8. Fate' \in {"sealed", "lost"}
    BY <1>1, <1>6, FateIs
<1> QED
    BY <1>4, <1>5, <1>7, <1>8, PostStays, PostLost

\* A token was decoded.
LEMMA DecodeSymbolPost ==
    ASSUME SemInv, SemInv', DecodeSymbol
    PROVE  [Post!Next]_(Post!vars)
<1>1. /\ TokInv /\ MergedOut /\ Sends /\ Receives /\ Sends' /\ Receives' /\ UNCHANGED tokVars
      /\ rphase = "symbol" /\ coded' = coded /\ link' = link
    BY DEF SemInv, DecodeSymbol
<1>2. rphase' = "token" /\ \E tok : got' = Append(got, tok)
    BY DecodeSymbolKeeps
<1>3. PICK tok : got' = Append(got, tok)
    BY <1>2
<1>4. msg' = msg
    BY <1>1, TokStays
<1>5. Handed' = Handed
    BY <1>1, <1>4, Zenon DEF Handed
<1>6. /\ link \in {"whole", "cut", "stray"} /\ sphase = "sent"
      /\ got \in Seq(1 .. Cardinality(Ids(vocab))) /\ Len(got) \in Nat /\ Len(got) < want
      /\ link = "whole" => want = Len(msg)
    BY <1>1, ReceiverKnows
<1>7. /\ coded = Len(msg) /\ Len(msg) \in Nat /\ msg \in Seq(1 .. Cardinality(Ids(vocab)))
    BY <1>6, FlushKnows
<1>8. /\ Together(tpc, sphase, rphase, link) /\ Fate = FateOf(tpc, sphase, rphase, link)
      /\ Together(tpc', sphase', rphase', link') /\ Fate' = FateOf(tpc', sphase', rphase', link')
    BY <1>1, PhasesTogether, PhasesTogetherNext
<1>9. CASE link \in {"cut", "stray"}
    <2>1. Arrived' = Arrived
        BY <1>1, <1>9 DEF Arrived
    <2>2. Fate = "lost" /\ Fate' = "lost"
        BY <1>1, <1>8, <1>9, FateIs
    <2> QED
        BY <1>5, <2>1, <2>2, PostStays
<1>10. CASE link = "whole"
    <2>1. Arrived = got /\ Arrived' = got'
        BY <1>1, <1>10 DEF Arrived
    <2>2. Fate = "sealed" /\ Fate' = "sealed"
        BY <1>1, <1>2, <1>8, <1>10, FateIs
    <2>3. PICK g \in Nat : g = Len(got) /\ g < Len(msg) /\ g + 1 \in 1 .. Len(msg)
        BY <1>6, <1>7, <1>10
    <2>4. Follows1(msg', got')
        BY <1>1, <1>2, <1>10 DEF Receives, ReceiverOK
    <2>5. Len(got') = g + 1 /\ got'[g + 1] = tok
        BY <1>3, <1>6, <2>3
    <2>6. tok = msg[g + 1]
        <3>1. g + 1 \in 1 .. Len(got')
            BY <2>3, <2>5
        <3> QED
            BY <1>4, <2>4, <2>5, <3>1 DEF Follows1
    <2>7. Len(Handed) = Len(msg) /\ Handed[g + 1] = msg[g + 1]
        <3>1. Len(msg) \in 0 .. Len(msg)
            BY <1>7
        <3>2. /\ Len(Front(msg, Len(msg))) = Len(msg)
              /\ \A i \in 1 .. Len(msg) : Front(msg, Len(msg))[i] = msg[i]
            BY <1>7, <3>1, FrontIs
        <3> QED
            BY <1>7, <2>3, <3>2 DEF Handed
    <2>8. Len(Arrived) < Len(Handed) /\ Arrived' = Append(Arrived, Handed[Len(Arrived) + 1])
        BY <1>3, <2>1, <2>3, <2>6, <2>7
    <2> QED
        BY <1>5, <2>2, <2>8, PostArrives
<1> QED
    BY <1>6, <1>9, <1>10

\* Every step is a step of the courier of tokens, or none.
LEMMA PostStep ==
    ASSUME SemInv, SemInv', [SemNext]_sysVars
    PROVE  [Post!Next]_(Post!vars)
<1>1. TokInv /\ MergedOut
    BY DEF SemInv
<1>2. ASSUME EncodeLength \/ EncodeBucket \/ EncodeFails \/ EncodeFinish \/ EncodeReturns
      PROVE  [Post!Next]_(Post!vars)
    <2>1. /\ UNCHANGED tokVars /\ link' = link /\ coded' = coded
          /\ sphase \in {"idle", "token", "flushing"}
          /\ sphase' \in {"refused", "failed", "token", "symbol", "flushing", "sent"}
          /\ sphase = "idle" => tpc = "encoded"
        BY <1>2 DEF EncodeLength, EncodeBucket, EncodeFails, EncodeFinish, EncodeReturns
    <2>2. tpc = "encoded"
        BY <2>1 DEF SemInv, Sends, SenderOK
    <2>3. msg' = msg /\ tpc' = tpc
        BY <1>1, <2>1, TokStays
    <2> QED
        BY <2>1, <2>2, <2>3, SenderPost
<1>3. ASSUME DecodeLength \/ DecodeBucket \/ DecodeFails \/ DecodeReturns
      PROVE  [Post!Next]_(Post!vars)
    <2>1. /\ UNCHANGED tokVars /\ link' = link /\ coded' = coded /\ got' = got
          /\ rphase \in {"length", "token"}
        BY <1>3 DEF DecodeLength, DecodeBucket, DecodeFails, DecodeReturns
    <2>2. link \in {"whole", "cut", "stray"}
        BY <2>1, ReceiverKnows
    <2>3. msg' = msg
        BY <1>1, <2>1, TokStays
    <2> QED
        BY <2>1, <2>2, <2>3, ReceiverPost
<1>4. CASE NotReady \/ Tokenize
    BY <1>4, NotReadyPost, TokenizePost
<1>5. CASE EncodeSymbol
    BY <1>5, EncodeSymbolPost
<1>6. CASE DecodeSymbol
    BY <1>6, DecodeSymbolPost
<1>7. CASE SenderLoops \/ ReceiverLoop \/ UNCHANGED sysVars
    <2>1. UNCHANGED tokVars /\ UNCHANGED semVars
        BY <1>7 DEF SenderLoops, ReceiverLoop, sysVars
    <2> QED
        BY <2>1, QuietPost
<1>8. CASE ArriveWhole \/ ArriveCut \/ ArriveStray
    <2>1. CASE ArriveWhole
        BY <2>1, ArrivePost DEF ArriveWhole
    <2>2. CASE ArriveCut
        <3>1. PICK k \in 0 .. Len(buf) - 1 : Arrive(SubSeq(buf, 1, k), "cut")
            BY <2>2 DEF ArriveCut
        <3>2. PICK w : w = SubSeq(buf, 1, k)
            OBVIOUS
        <3> QED
            BY <3>1, <3>2, ArrivePost
    <2>3. CASE ArriveStray
        <3>1. PICK w \in Stray : Arrive(w, "stray")
            BY <2>3 DEF ArriveStray
        <3> QED
            BY <3>1, ArrivePost
    <2> QED
        BY <1>8, <2>1, <2>2, <2>3
<1> QED
    BY <1>2, <1>3, <1>4, <1>5, <1>6, <1>7, <1>8 DEF SemNext, Commands

\* Nothing has been sent.
LEMMA PostBegins == ASSUME SemInit, SemInv PROVE Post!Init
<1>1. /\ coded = 0 /\ link = "none" /\ sphase = "idle" /\ tpc = "start" /\ Sends /\ Receives
    BY DEF SemInit, TokInit, SemInv
<1>2. Handed = <<>> /\ Arrived = <<>>
    BY <1>1, NothingHanded DEF Arrived
<1>3. Fate = "open"
    BY <1>1, PhasesTogether, FateIs
<1> QED
    BY <1>2, <1>3 DEF Post!Init, Handed, Arrived, Front

\* Two machines are a courier of tokens: on an intact wire they arrive one by
\* one, unaltered and in order, until one of the ends reports that it gave up.
THEOREM TokensArriveInOrder == SemSpec => TokensByCourier
<1>1. SemInit => Post!Init
    BY SemInitInv, PostBegins
<1>2. SemInv /\ SemInv' /\ [SemNext]_sysVars => [Post!Next]_(Post!vars)
    BY PostStep
<1> QED
    BY <1>1, <1>2, SemInvariant, PTL DEF SemSpec, TokensByCourier, Post!Safety
-----------------------------------------------------------------------------
(* What tq_ac_normalize makes of weights is a table the coder can use.        *)

\* The total of a row is its sum.
LEMMA TotalIs ==
    ASSUME NEW m \in Nat, NEW w \in [1 .. m -> Nat]
    PROVE  /\ Len(w) = m
           /\ \E c \in [0 .. m -> Nat] :
                 /\ AddsUp(c, m, w) /\ Total(w) = c[m]
                 /\ \A i \in 1 .. m : tq_ac_cum(w, i) = c[i - 1]
<1>1. Len(w) = m
    OBVIOUS
<1> DEFINE c == CHOOSE f : CumRecurrence(f, w)
<1>2. CumRecurrence(c, w)
    <2>1. \A k \in 1 .. Len(w) : w[k] \in Nat
        BY <1>1
    <2> QED
        BY <1>1, <2>1, CumExists
<1>3. ASSUME NEW k PROVE tq_ac_cum(w, k) = c[k - 1]
    BY DEF tq_ac_cum, CumRecurrence
<1> HIDE DEF c
<1>4. c[0] = 0 /\ \A k \in 1 .. m : c[k] = c[k - 1] + w[k]
    BY <1>1, <1>2 DEF CumRecurrence
<1>5. AddsUp(c, m, w)
    BY <1>4 DEF AddsUp
<1>6. \A k \in 0 .. m : c[k] \in Nat
    BY <1>5, SumType
<1>7. c = [k \in 0 .. m |-> c[k]]
    BY <1>1, <1>2 DEF CumRecurrence
<1>8. c \in [0 .. m -> Nat]
    BY <1>6, <1>7
<1>9. Total(w) = c[m]
    <2>1. (m + 1) - 1 = m
        OBVIOUS
    <2> QED
        BY <1>1, <1>3, <2>1 DEF Total
<1> QED
    BY <1>1, <1>3, <1>5, <1>8, <1>9

\* Sums grow.
LEMMA SumGrows ==
    ASSUME NEW m \in Nat, NEW w \in [1 .. m -> Nat], NEW c \in [0 .. m -> Nat], AddsUp(c, m, w),
           NEW i \in 0 .. m
    PROVE  c[i] <= c[m]
<1> DEFINE S == {q \in Nat : i + q <= m => c[i] <= c[i + q]}
<1>1. 0 \in S
    BY SMT
<1>2. ASSUME NEW q \in Nat, q \in S PROVE q + 1 \in S
    <2>1. SUFFICES ASSUME i + (q + 1) <= m PROVE c[i] <= c[i + (q + 1)]
        OBVIOUS
    <2>2. PICK k \in Nat : k = i + q /\ k + 1 \in 1 .. m /\ k \in 0 .. m /\ (k + 1) - 1 = k
                           /\ i + (q + 1) = k + 1
        BY <2>1
    <2>3. c[i] <= c[k]
        BY <1>2, <2>2
    <2>4. c[k + 1] = c[k] + w[k + 1] /\ w[k + 1] \in Nat /\ c[k] \in Nat /\ c[i] \in Nat
        BY <2>2 DEF AddsUp
    <2> QED
        BY <2>2, <2>3, <2>4
<1>3. \A q \in Nat : q \in S
    <2> HIDE DEF S
    <2> QED
        BY <1>1, <1>2, SetInduction
<1>4. PICK q \in Nat : i + q = m
    <2>1. m - i \in Nat /\ i + (m - i) = m
        OBVIOUS
    <2> QED
        BY <2>1
<1>5. i + q <= m => c[i] <= c[i + q]
    BY <1>3
<1>6. i + q <= m
    BY <1>4
<1> QED
    BY <1>4, <1>5, <1>6, Zenon

\* z is w with d more at one place.
Raised(w, z, m, top, d) ==
    z[top] = w[top] + d /\ \A i \in 1 .. m : i # top => z[i] = w[i]

\* That is as much more in all.
LEMMA OneGrows ==
    ASSUME NEW m \in Nat, NEW w \in [1 .. m -> Nat], NEW z \in [1 .. m -> Nat], NEW d \in Nat,
           NEW top \in 1 .. m, Raised(w, z, m, top, d),
           NEW c \in [0 .. m -> Nat], AddsUp(c, m, w), NEW e \in [0 .. m -> Nat], AddsUp(e, m, z)
    PROVE  e[m] = c[m] + d
<1> DEFINE S == {q \in Nat : q <= m => /\ q < top => e[q] = c[q]
                                       /\ top <= q => e[q] = c[q] + d}
<1>1. 0 \in S
    BY DEF AddsUp
<1>2. ASSUME NEW q \in Nat, q \in S PROVE q + 1 \in S
    <2>1. SUFFICES ASSUME q + 1 <= m PROVE /\ q + 1 < top => e[q + 1] = c[q + 1]
                                           /\ top <= q + 1 => e[q + 1] = c[q + 1] + d
        OBVIOUS
    <2>2. PICK r \in 1 .. m : r = q + 1 /\ q \in 0 .. m /\ r - 1 = q
        BY <2>1
    <2>3. PICK e0 \in Nat, c0 \in Nat, zr \in Nat, wr \in Nat :
              e0 = e[q] /\ c0 = c[q] /\ zr = z[r] /\ wr = w[r]
        BY <2>2
    <2>4. e[r] = e0 + zr /\ c[r] = c0 + wr
        BY <2>2, <2>3 DEF AddsUp
    <2>5. (q < top => e0 = c0) /\ (top <= q => e0 = c0 + d)
        BY <1>2, <2>1, <2>3
    <2>6. r # top => zr = wr
        BY <2>3 DEF Raised
    <2>7. r = top => zr = wr + d
        BY <2>3 DEF Raised
    <2>8. r < top => e[r] = c[r]
        <3>1. r < top => e0 = c0 /\ zr = wr
            BY <2>2, <2>5, <2>6
        <3> QED
            BY <2>4, <3>1
    <2>9. top <= r => e[r] = c[r] + d
        <3>1. CASE r = top
            <4>1. e0 = c0 /\ zr = wr + d
                BY <2>2, <2>5, <2>7, <3>1
            <4> QED
                BY <2>4, <4>1
        <3>2. CASE r # top
            <4>1. top <= r => e0 = c0 + d /\ zr = wr
                BY <2>2, <2>5, <2>6, <3>2
            <4> QED
                BY <2>4, <4>1
        <3> QED
            BY <3>1, <3>2
    <2> QED
        BY <2>2, <2>8, <2>9
<1>3. \A q \in Nat : q \in S
    <2> HIDE DEF S
    <2> QED
        BY <1>1, <1>2, SetInduction
<1> QED
    BY <1>3

\* The first of the heaviest.
IsTop(w, q, i) ==
    /\ i \in 1 .. q
    /\ \A j \in 1 .. q : w[j] <= w[i]
    /\ \A j \in 1 .. i - 1 : w[j] < w[i]

\* There is one.
LEMMA TopExists ==
    ASSUME NEW m \in Nat \ {0}, NEW w \in [1 .. m -> Int]
    PROVE  \E i : IsTop(w, m, i)
<1> DEFINE S == {q \in Nat : q + 1 <= m => \E i : IsTop(w, q + 1, i)}
<1>1. 0 \in S
    <2>1. IsTop(w, 0 + 1, 1)
        BY DEF IsTop
    <2> QED
        BY <2>1
<1>2. ASSUME NEW q \in Nat, q \in S PROVE q + 1 \in S
    <2>1. SUFFICES ASSUME (q + 1) + 1 <= m PROVE \E i : IsTop(w, (q + 1) + 1, i)
        OBVIOUS
    <2>2. PICK i : IsTop(w, q + 1, i)
        BY <1>2, <2>1
    <2>3. PICK k \in Nat : k = q + 1 /\ k + 1 \in 1 .. m
        BY <2>1
    <2>4. i \in 1 .. k /\ i \in 1 .. m
        BY <2>2, <2>3 DEF IsTop
    <2>5. \A j \in 1 .. k : w[j] \in Int /\ w[j] <= w[i]
        BY <2>2, <2>3 DEF IsTop
    <2>6. w[i] \in Int /\ w[k + 1] \in Int
        BY <2>3, <2>4
    <2>7. CASE w[k + 1] <= w[i]
        <3>1. ASSUME NEW j \in 1 .. k + 1 PROVE w[j] <= w[i]
            <4>1. j \in 1 .. k \/ j = k + 1
                OBVIOUS
            <4> QED
                BY <2>5, <2>7, <4>1
        <3>2. i \in 1 .. k + 1
            BY <2>4
        <3>3. IsTop(w, k + 1, i)
            BY <2>2, <3>1, <3>2 DEF IsTop
        <3> QED
            BY <2>3, <3>3
    <2>8. CASE ~ (w[k + 1] <= w[i])
        <3>1. ASSUME NEW j \in 1 .. k PROVE w[j] < w[k + 1]
            BY <2>5, <2>6, <2>8
        <3>2. ASSUME NEW j \in 1 .. k + 1 PROVE w[j] <= w[k + 1]
            <4>1. j \in 1 .. k \/ j = k + 1
                OBVIOUS
            <4> QED
                BY <2>5, <2>6, <3>1, <4>1
        <3>3. (k + 1) - 1 = k /\ k + 1 \in 1 .. k + 1
            OBVIOUS
        <3>4. IsTop(w, k + 1, k + 1)
            BY <3>1, <3>2, <3>3 DEF IsTop
        <3> QED
            BY <2>3, <3>4
    <2> QED
        BY <2>7, <2>8
<1>3. \A q \in Nat : q \in S
    <2> HIDE DEF S
    <2> QED
        BY <1>1, <1>2, SetInduction
<1>4. m - 1 \in Nat /\ (m - 1) + 1 = m
    OBVIOUS
<1> QED
    BY <1>3, <1>4

\* What is shared out in proportion and rounded down does not exceed what
\* there is.
LEMMA SharesFit ==
    ASSUME NEW m \in Nat, NEW w \in [1 .. m -> Nat], NEW c \in [0 .. m -> Nat], AddsUp(c, m, w),
           NEW sum \in Nat, sum = c[m], sum > 0, NEW spread \in Nat,
           NEW x \in [1 .. m -> Nat], \A i \in 1 .. m : x[i] = 1 + (w[i] * spread) \div sum,
           NEW e \in [0 .. m -> Nat], AddsUp(e, m, x)
    PROVE  e[m] <= m + spread
<1> DEFINE S == {q \in Nat : q <= m => q <= e[q] /\ sum * (e[q] - q) <= c[q] * spread}
<1>1. 0 \in S
    BY DEF AddsUp
<1>2. ASSUME NEW q \in Nat, q \in S PROVE q + 1 \in S
    <2>1. SUFFICES ASSUME q + 1 <= m
                   PROVE  q + 1 <= e[q + 1] /\ sum * (e[q + 1] - (q + 1)) <= c[q + 1] * spread
        OBVIOUS
    <2>2. q + 1 \in 1 .. m /\ q \in 0 .. m /\ (q + 1) - 1 = q
        BY <2>1
    <2>3. PICK a \in Nat, b \in Nat, v \in Nat :
              /\ a = e[q] - q /\ e[q] = a + q /\ b = c[q] /\ v = w[q + 1] /\ sum * a <= b * spread
        BY <1>2, <2>1, <2>2
    <2>4. c[q + 1] = b + v /\ e[q + 1] = (a + q) + x[q + 1]
        BY <2>2, <2>3 DEF AddsUp
    <2>5. v * spread \in Nat
        OBVIOUS
    <2>6. PICK d \in Nat, r \in Nat : d = (v * spread) \div sum /\ v * spread = sum * d + r
        <3>1. PICK p \in Nat : p = v * spread
            BY <2>5
        <3>2. p \div sum \in Nat /\ p % sum \in 0 .. sum - 1 /\ p = sum * (p \div sum) + (p % sum)
            BY DivMod
        <3>3. PICK u \in Nat : u = p \div sum
            BY <3>2
        <3>4. p % sum \in Nat
            BY <3>2
        <3>5. PICK r \in Nat : r = p % sum
            BY <3>4
        <3>6. u = (v * spread) \div sum /\ v * spread = sum * u + r
            BY <3>1, <3>2, <3>3, <3>5, Zenon
        <3> QED
            BY <3>6
    <2>7. x[q + 1] = 1 + d
        BY <2>2, <2>3, <2>6
    <2>8. e[q + 1] = (q + 1) + (a + d) /\ e[q + 1] - (q + 1) = a + d
        BY <2>4, <2>7
    <2>9. sum * (a + d) = sum * a + sum * d /\ (b + v) * spread = b * spread + v * spread
        OBVIOUS
    <2>10. sum * a \in Nat /\ sum * d \in Nat /\ b * spread \in Nat
        OBVIOUS
    <2>11. sum * (a + d) <= (b + v) * spread
        <3>1. PICK A \in Nat, D \in Nat, B \in Nat, E \in Nat :
                 A = sum * a /\ D = sum * d /\ B = b * spread /\ E = v * spread
            BY <2>5, <2>10
        <3>2. A <= B /\ E = D + r
            BY <2>3, <2>6, <3>1
        <3>3. A + D <= B + E
            BY <3>2
        <3> QED
            BY <2>9, <3>1, <3>3
    <2> QED
        BY <2>4, <2>8, <2>11
<1>3. \A q \in Nat : q \in S
    <2> HIDE DEF S
    <2> QED
        BY <1>1, <1>2, SetInduction
<1>4. m <= e[m] /\ sum * (e[m] - m) <= sum * spread
    BY <1>3
<1>5. PICK a \in Nat : a = e[m] - m /\ e[m] = m + a
    BY <1>4
<1>6. a <= spread
    <2>1. SUFFICES ASSUME spread + 1 <= a PROVE FALSE
        BY <1>5
    <2>2. sum * (spread + 1) <= sum * a
        <3>1. PICK s1 \in Nat : s1 = spread + 1
            OBVIOUS
        <3>2. sum * s1 <= sum * a
            BY <2>1, <3>1, MulMono
        <3> QED
            BY <3>1, <3>2
    <2>3. sum * (spread + 1) = sum * spread + sum /\ sum * spread \in Nat /\ sum * a \in Nat
        OBVIOUS
    <2>4. PICK A \in Nat, B \in Nat : A = sum * a /\ B = sum * spread
        BY <2>3
    <2>5. B + sum <= A /\ A <= B
        BY <1>4, <1>5, <2>2, <2>3, <2>4
    <2> QED
        BY <2>5
<1> QED
    BY <1>5, <1>6

\* A table the coder can use: no count is zero, and the intervals fill the
\* coder's total.
Legal(cnt) ==
    /\ Len(cnt) \in Nat \ {0}
    /\ \A i \in 1 .. Len(cnt) : /\ Triple(cnt, i).cum \in Nat /\ Triple(cnt, i).freq \in Nat \ {0}
                                /\ Triple(cnt, i).tot = TOT
                                /\ Triple(cnt, i).cum + Triple(cnt, i).freq <= TOT

\* Positive counts with that total are one.
LEMMA LegalIs ==
    ASSUME NEW m \in Nat \ {0}, NEW z \in [1 .. m -> Nat], \A i \in 1 .. m : z[i] >= 1,
           Total(z) = TOT
    PROVE  Legal(z)
<1>1. PICK c \in [0 .. m -> Nat] :
          /\ AddsUp(c, m, z) /\ Total(z) = c[m] /\ \A i \in 1 .. m : tq_ac_cum(z, i) = c[i - 1]
    BY TotalIs
<1>2. Len(z) = m
    OBVIOUS
<1>3. ASSUME NEW i \in 1 .. m
      PROVE  /\ Triple(z, i).cum \in Nat /\ Triple(z, i).freq \in Nat \ {0}
             /\ Triple(z, i).tot = TOT
             /\ Triple(z, i).cum + Triple(z, i).freq <= TOT
    <2>1. i - 1 \in 0 .. m /\ i \in 0 .. m
        OBVIOUS
    <2>2. c[i] <= c[m]
        BY <1>1, <2>1, SumGrows
    <2>3. c[i] = c[i - 1] + z[i] /\ c[i - 1] \in Nat /\ z[i] \in Nat \ {0}
        BY <1>1, <2>1 DEF AddsUp
    <2>4. Triple(z, i) = [cum |-> c[i - 1], freq |-> z[i], tot |-> TOT]
        BY <1>1 DEF Triple
    <2>5. Triple(z, i).cum = c[i - 1] /\ Triple(z, i).freq = z[i] /\ Triple(z, i).tot = TOT
        BY <2>4
    <2>6. c[i - 1] + z[i] <= TOT
        BY <1>1, <2>2, <2>3
    <2> QED
        BY <2>3, <2>5, <2>6, Zenon
<1> QED
    BY <1>2, <1>3 DEF Legal

\* The total of equal counts.
LEMMA EvenTotal ==
    ASSUME NEW m \in Nat, NEW k \in Nat, NEW z \in [1 .. m -> Nat], \A i \in 1 .. m : z[i] = k
    PROVE  Total(z) = m * k
<1>1. PICK c \in [0 .. m -> Nat] : AddsUp(c, m, z) /\ Total(z) = c[m]
    BY TotalIs
<1> DEFINE S == {q \in Nat : q <= m => c[q] = q * k}
<1>2. 0 \in S
    BY <1>1 DEF AddsUp
<1>3. ASSUME NEW q \in Nat, q \in S PROVE q + 1 \in S
    <2>1. SUFFICES ASSUME q + 1 <= m PROVE c[q + 1] = (q + 1) * k
        OBVIOUS
    <2>2. PICK r \in 1 .. m : r = q + 1 /\ r - 1 = q
        BY <2>1
    <2>3. c[r] = c[q] + k
        BY <1>1, <2>2 DEF AddsUp
    <2>4. c[q] = q * k
        BY <1>3, <2>1
    <2>5. (q + 1) * k = q * k + k
        OBVIOUS
    <2> QED
        BY <2>2, <2>3, <2>4, <2>5
<1>4. \A q \in Nat : q \in S
    <2> HIDE DEF S
    <2> QED
        BY <1>2, <1>3, SetInduction
<1> QED
    BY <1>1, <1>4

\* The shares before the leftover is given away.
Share(w, sum, spread) ==
    [i \in 1 .. Len(w) |-> IF sum = 0 THEN 1 ELSE 1 + (w[i] * spread) \div sum]
TopOf(w) == CHOOSE i \in 1 .. Len(w) : /\ \A j \in 1 .. Len(w) : w[j] <= w[i]
                                       /\ \A j \in 1 .. i - 1 : w[j] < w[i]

\* They are at least one each, and no more than the total together.
LEMMA ShareIs ==
    ASSUME NEW m \in Nat, m >= 1, m <= TOT, NEW w \in [1 .. m -> Nat], NEW x, x = Share(w, Total(w), TOT - m)
    PROVE  x \in {y \in [1 .. m -> Nat] : /\ \A i \in 1 .. m : y[i] >= 1
                                         /\ Total(y) \in Nat /\ Total(y) <= TOT}
<1>0. m \in Nat /\ Len(w) = m
    BY Sizes
<1>1. PICK c \in [0 .. m -> Nat] : AddsUp(c, m, w) /\ Total(w) = c[m]
    BY <1>0, TotalIs, SMTT(90)
<1>2. PICK sum \in Nat : sum = Total(w) /\ sum = c[m]
    BY <1>0, <1>1
<1>3. PICK spread \in Nat : spread = TOT - m /\ m + spread = TOT
    BY Sizes
<1>4. x = [i \in 1 .. m |-> IF sum = 0 THEN 1 ELSE 1 + (w[i] * spread) \div sum]
    BY <1>0, <1>2, <1>3 DEF Share
<1>5. ASSUME NEW i \in 1 .. m PROVE x[i] \in Nat /\ x[i] >= 1
    <2>1. PICK v \in Nat : v = w[i]
        BY <1>0
    <2>2. CASE sum = 0
        BY <1>4, <2>2
    <2>3. CASE sum # 0
        <3>1. PICK p \in Nat : p = v * spread
            OBVIOUS
        <3>2. p \div sum \in Nat
            <4>1. sum > 0
                BY <2>3
            <4> QED
                BY <4>1, DivMod
        <3>3. x[i] = 1 + (p \div sum)
            BY <1>4, <2>1, <2>3, <3>1
        <3> QED
            BY <3>2, <3>3
    <2> QED
        BY <2>2, <2>3
<1>6. PICK y \in [1 .. m -> Nat] : y = x
    BY <1>4, <1>5
<1>7. PICK e \in [0 .. m -> Nat] : AddsUp(e, m, y) /\ Total(y) = e[m]
    BY TotalIs
<1>8. e[m] \in Nat
    BY <1>0
<1>9. CASE sum = 0
    <2>1. \A i \in 1 .. m : y[i] = 1
        BY <1>4, <1>6, <1>9
    <2>2. Total(y) = m * 1
        <3>1. 1 \in Nat
            OBVIOUS
        <3> QED
            BY <2>1, <3>1, EvenTotal
    <2>3. Total(y) <= TOT
        BY <2>2, Sizes
    <2> QED
        BY <1>5, <1>6, <1>7, <1>8, <2>3
<1>10. CASE sum # 0
    <2>1. \A i \in 1 .. m : y[i] = 1 + (w[i] * spread) \div sum
        BY <1>4, <1>6, <1>10
    <2>2. sum > 0
        BY <1>10
    <2>3. e[m] <= m + spread
        BY <1>1, <1>2, <1>7, <2>1, <2>2, SharesFit
    <2> QED
        BY <1>3, <1>5, <1>6, <1>7, <1>8, <2>3
<1> QED
    BY <1>9, <1>10

\* tq_ac_normalize makes a table the coder can use of any weights, all of them
\* zero included.
LEMMA NormalizedLegal ==
    ASSUME NEW m \in Nat, m >= 1, m <= TOT, NEW w \in [1 .. m -> Nat]
    PROVE  Legal(tq_ac_normalize(w))
<1>0. m \in Nat /\ m \in Nat \ {0} /\ Len(w) = m /\ TOT \in Nat
    BY Sizes
<1>1. PICK x \in [1 .. m -> Nat] : x = Share(w, Total(w), TOT - m)
    BY ShareIs
<1>2. (\A i \in 1 .. m : x[i] >= 1) /\ Total(x) \in Nat /\ Total(x) <= TOT
    BY <1>1, ShareIs
<1>3. PICK top \in 1 .. m : top = TopOf(w)
    <2>1. w \in [1 .. m -> Int]
        BY <1>0
    <2>2. PICK i : IsTop(w, m, i)
        BY <1>0, <2>1, TopExists
    <2>3. TopOf(w) \in 1 .. m
        BY <1>0, <2>2 DEF TopOf, IsTop
    <2> QED
        BY <2>3
<1>4. PICK d \in Nat : d = TOT - Total(x) /\ Total(x) + d = TOT
    <2>1. PICK t \in Nat, T \in Nat : t = Total(x) /\ T = TOT /\ t <= T
        BY <1>0, <1>2
    <2>2. T - t \in Nat /\ t + (T - t) = T
        BY <2>1
    <2> QED
        BY <2>1, <2>2
<1>5. tq_ac_normalize(w) = [x EXCEPT ![top] = @ + (TOT - Total(x))]
    BY <1>0, <1>1, <1>3 DEF tq_ac_normalize, Share, TopOf
<1>6. PICK z \in [1 .. m -> Nat] : z = [x EXCEPT ![top] = @ + d]
    <2>1. x[top] + d \in Nat
        OBVIOUS
    <2>2. [x EXCEPT ![top] = @ + d] \in [1 .. m -> Nat]
        BY <2>1
    <2> QED
        BY <2>2
<1>7. z = tq_ac_normalize(w)
    BY <1>4, <1>5, <1>6
<1>8. /\ \A i \in 1 .. m : z[i] >= 1
      /\ z[top] = x[top] + d /\ \A i \in 1 .. m : i # top => z[i] = x[i]
    BY <1>2, <1>6
<1>9. Total(z) = TOT
    <2>1. PICK c \in [0 .. m -> Nat] : AddsUp(c, m, x) /\ Total(x) = c[m]
        BY TotalIs, ZenonT(90)
    <2>2. PICK e \in [0 .. m -> Nat] : AddsUp(e, m, z) /\ Total(z) = e[m]
        BY TotalIs
    <2>3. Raised(x, z, m, top, d)
        BY <1>8 DEF Raised
    <2>4. e[m] = c[m] + d
        BY <2>1, <2>2, <2>3, OneGrows, ZenonT(90)
    <2> QED
        BY <1>4, <2>1, <2>2, <2>4
<1>10. Legal(z)
    BY <1>0, <1>8, <1>9, LegalIs
<1> QED
    BY <1>7, <1>10

\* The weights tq_ac_exp2_q24 can return.
LEMMA HalvedIs == Halved \in [0 .. 26 -> Nat]
<1> DEFINE G == [j \in 1 .. 26 |-> [v \in Nat |-> v \div 2]]
           Is(f) == f = [d \in 0 .. 26 |-> IF d = 0 THEN Unit ELSE f[d - 1] \div 2]
<1>1. G \in [1 .. 26 -> [Nat -> Nat]]
    <2>1. ASSUME NEW v \in Nat PROVE v \div 2 \in Nat
        OBVIOUS
    <2> QED
        BY <2>1
<1>2. PICK f \in [0 .. 26 -> Nat] : Recurrence(f, Unit, G, 26)
    <2>1. Unit \in Nat /\ 26 \in Nat
        BY SemaphoreAssumption
    <2> HIDE DEF G
    <2> QED
        BY <1>1, <2>1, Recursion, Zenon
<1>3. Is(f)
    <2>1. ASSUME NEW d \in 0 .. 26 PROVE f[d] = IF d = 0 THEN Unit ELSE f[d - 1] \div 2
        <3>1. CASE d = 0
            BY <1>2, <3>1 DEF Recurrence
        <3>2. CASE d # 0
            <4>1. d \in 1 .. 26 /\ d - 1 \in 0 .. 26
                BY <3>2
            <4>2. f[d] = G[d][f[d - 1]] /\ f[d - 1] \in Nat
                BY <1>2, <4>1 DEF Recurrence
            <4> QED
                BY <3>2, <4>1, <4>2
        <3> QED
            BY <3>1, <3>2
    <2> QED
        BY <2>1
<1>4. Is(Halved)
    <2>1. Halved = CHOOSE g : Is(g)
        BY DEF Halved
    <2> HIDE DEF Is
    <2> QED
        BY <1>3, <2>1
<1> DEFINE S == {q \in Nat : q <= 26 => Halved[q] \in Nat}
<1>5. 0 \in S
    BY <1>4, SemaphoreAssumption
<1>6. ASSUME NEW q \in Nat, q \in S PROVE q + 1 \in S
    <2>1. SUFFICES ASSUME q + 1 <= 26 PROVE Halved[q + 1] \in Nat
        OBVIOUS
    <2>2. PICK v \in Nat : v = Halved[q]
        BY <1>6, <2>1
    <2>3. q + 1 \in 0 .. 26 /\ q + 1 # 0 /\ (q + 1) - 1 = q
        BY <2>1
    <2>4. Halved[q + 1] = v \div 2
        BY <1>4, <2>2, <2>3
    <2> QED
        BY <2>4
<1>7. \A q \in Nat : q \in S
    <2> HIDE DEF S
    <2> QED
        BY <1>5, <1>6, SetInduction
<1>8. \A d \in 0 .. 26 : Halved[d] \in Nat
    BY <1>7
<1> QED
    BY <1>4, <1>8

\* The weight of a logit no larger than the largest is one of them.
LEMMA WeightIs ==
    ASSUME NEW l \in Int, NEW max \in Int, l <= max PROVE Weight(l, max) \in Nat
<1>1. (IF max - l > 26 THEN 26 ELSE max - l) \in 0 .. 26
    OBVIOUS
<1> QED
    BY <1>1, HalvedIs DEF Weight

\* The largest logit of a run of tokens.
LEMMA PeakIs ==
    ASSUME NEW n \in Nat, NEW lg \in [1 .. n -> Int], NEW a \in Nat, NEW k \in Nat \ {0},
           a + k <= n, NEW S, \A i : i \in S <=> i \in a + 1 .. a + k
    PROVE  Peak(lg, S) \in Int /\ \A i \in S : i \in 1 .. n /\ lg[i] <= Peak(lg, S)
<1> DEFINE g == [j \in 1 .. k |-> lg[a + j]]
<1>1. g \in [1 .. k -> Int]
    <2>1. ASSUME NEW j \in 1 .. k PROVE lg[a + j] \in Int
        <3>1. a + j \in 1 .. n
            OBVIOUS
        <3> QED
            BY <3>1
    <2> QED
        BY <2>1
<1>2. PICK t : IsTop(g, k, t)
    <2> HIDE DEF g
    <2> QED
        BY <1>1, TopExists
<1>3. t \in 1 .. k /\ \A j \in 1 .. k : g[j] <= g[t]
    BY <1>2 DEF IsTop
<1>4. PICK u : u = a + t /\ u \in S /\ g[t] = lg[u]
    BY <1>3
<1>5. ASSUME NEW i \in S PROVE i \in 1 .. n /\ lg[i] <= lg[u] /\ lg[i] \in Int
    <2>1. i \in a + 1 .. a + k
        OBVIOUS
    <2>2. PICK j \in 1 .. k : i = a + j
        <3>1. i - a \in 1 .. k /\ i = a + (i - a)
            BY <2>1
        <3> QED
            BY <3>1
    <2>3. g[j] = lg[i] /\ g[j] <= g[t]
        BY <1>3, <2>2
    <2>4. i \in 1 .. n
        BY <2>1
    <2> QED
        BY <1>4, <2>3, <2>4
<1> HIDE DEF g
<1>6. \E x \in {lg[i] : i \in S} : \A i \in S : lg[i] <= x
    BY <1>4, <1>5, Zenon
<1>7. Peak(lg, S) \in {lg[i] : i \in S} /\ \A i \in S : lg[i] <= Peak(lg, S)
    BY <1>6, Zenon DEF Peak
<1> QED
    BY <1>5, <1>7, Zenon

\* A sum of weights is a natural.
LEMMA SumOverIs ==
    ASSUME NEW n \in Nat, NEW w \in [1 .. n -> Nat], NEW S PROVE SumOver(w, S) \in Nat
<1> DEFINE inc == [i \in 1 .. n |-> IF i \in S THEN w[i] ELSE 0]
           d == CHOOSE c : c = [i \in 0 .. n |-> IF i = 0 THEN 0 ELSE c[i - 1] + inc[i]]
           e == CHOOSE c : c = [i \in 0 .. n |-> IF i = 0 THEN 0
                                                 ELSE c[i - 1] + (IF i \in S THEN w[i] ELSE 0)]
<1>1. inc \in [1 .. n -> Int] /\ \A i \in 1 .. n : inc[i] \in Nat
    OBVIOUS
<1>2. e = d
    <2>1. ASSUME NEW c
          PROVE  [i \in 0 .. n |-> IF i = 0 THEN 0 ELSE c[i - 1] + inc[i]]
                   = [i \in 0 .. n |-> IF i = 0 THEN 0 ELSE c[i - 1] + (IF i \in S THEN w[i] ELSE 0)]
        <3>1. ASSUME NEW i \in 0 .. n, i # 0 PROVE inc[i] = IF i \in S THEN w[i] ELSE 0
            <4>1. i \in 1 .. n
                BY <3>1
            <4> QED
                BY <4>1
        <3> HIDE DEF inc
        <3> QED
            BY <3>1, Zenon
    <2> HIDE DEF inc
    <2> QED
        BY <2>1, Zenon
<1>3. SumOver(w, S) = e[n]
    <2>1. Len(w) = n
        OBVIOUS
    <2> QED
        BY <2>1 DEF SumOver
<1>4. AddsUp(d, n, inc)
    <2> HIDE DEF inc
    <2> QED
        BY <1>1, SumIs
<1>5. \A i \in 0 .. n : d[i] \in Nat
    <2> HIDE DEF d, inc
    <2> QED
        BY <1>1, <1>4, SumType
<1> HIDE DEF d, e
<1> QED
    BY <1>2, <1>3, <1>5

\* Logits are integers.
LEMMA ScoresAre ==
    ASSUME NEW role \in Roles, NEW v \in DOMAIN Vocabs, NEW h \in DOMAIN Acts,
           NEW n \in Nat, n = Cardinality(Ids(v))
    PROVE  Scores[role][v][h] \in [1 .. n -> Int]
<1>1. Ids(v) = 0 .. n - 1
    BY VocabIs
<1>2. ASSUME NEW t \in 1 .. n PROVE InnerProduct(Heads[v].rows[t - 1], Acts[h]) \div LogitUnit \in Int
    <2>1. PICK W : /\ W \subseteq Int
                   /\ W = (IF Heads[v].dtype = "Q4_0" THEN -8 .. 7 ELSE -128 .. 127)
        <3>1. (IF Heads[v].dtype = "Q4_0" THEN -8 .. 7 ELSE -128 .. 127) \subseteq Int
            OBVIOUS
        <3> QED
            BY <3>1, Zenon
    <2>2. Heads[v].rows \in [Ids(v) -> [0 .. GROUP - 1 -> W]]
        BY <2>1, SemaphoreAssumption, ZenonT(40)
    <2>3. t - 1 \in Ids(v)
        <3>1. t - 1 \in 0 .. n - 1
            OBVIOUS
        <3> QED
            BY <1>1, <3>1, Zenon
    <2>4. Heads[v].rows[t - 1] \in [0 .. GROUP - 1 -> W]
        BY <2>2, <2>3, Zenon
    <2>5. PICK q \in [Elements -> Int] : q = Heads[v].rows[t - 1]
        <3>1. 0 .. GROUP - 1 = Elements
            BY DEF Elements, GROUP
        <3>2. Heads[v].rows[t - 1] \in [Elements -> W]
            BY <2>4, <3>1, Zenon
        <3>3. ASSUME NEW f \in [Elements -> W] PROVE f \in [Elements -> Int]
            BY <2>1
        <3> QED
            BY <3>2, <3>3, Zenon
    <2>6. PICK a \in [Elements -> Int] : a = Acts[h]
        <3>1. Acts[h] \in [0 .. GROUP - 1 -> -128 .. 127]
            BY SemaphoreAssumption, SMTT(30)
        <3>2. 0 .. GROUP - 1 = Elements
            BY DEF Elements, GROUP
        <3>3. Acts[h] \in [Elements -> -128 .. 127]
            BY <3>1, <3>2, Zenon
        <3>4. ASSUME NEW f \in [Elements -> -128 .. 127] PROVE f \in [Elements -> Int]
            OBVIOUS
        <3> QED
            BY <3>3, <3>4, Zenon
    <2>7. PICK x \in Int : x = InnerProduct(q, a)
        BY InnerProductInt
    <2>8. PICK u \in Nat : u = LogitUnit /\ u > 0
        BY SemaphoreAssumption
    <2>9. x \div u \in Int
        BY <2>8
    <2> QED
        BY <2>5, <2>6, <2>7, <2>8, <2>9
<1>3. ExactScores[v][h] = [t \in 1 .. n |-> InnerProduct(Heads[v].rows[t - 1], Acts[h]) \div LogitUnit]
    BY DEF ExactScores
<1>4. ExactScores[v][h] \in [1 .. n -> Int]
    BY <1>2, <1>3
<1> QED
    BY <1>4, ScoresAgree

\* There are no more buckets than the coder's total.
LEMMA FewBuckets ==
    ASSUME NEW n \in Nat \ {0}, n <= MAX_VOCAB
    PROVE  nbuckets(n) \in Nat /\ nbuckets(n) >= 1 /\ nbuckets(n) <= TOT
<1>1. PICK B \in Nat, T \in Nat : B = BUCKET /\ T = MAX_BUCKETS /\ B > 0 /\ T <= TOT
    <2>1. BUCKET \in Nat /\ MAX_BUCKETS \in Nat /\ BUCKET > 0 /\ MAX_BUCKETS <= TOT
        BY SemaphoreAssumption, Sizes
    <2> QED
        BY <2>1
<1>2. PICK a \in Nat : a = n + B - 1 /\ a + 1 = n + B
    BY <1>1
<1>3. PICK q \in Nat, m \in Nat : q = a \div B /\ m < B /\ a = B * q + m
    <2>1. a \div B \in Nat /\ a % B \in 0 .. B - 1 /\ a = B * (a \div B) + (a % B)
        BY <1>1, DivMod
    <2> QED
        BY <1>1, <2>1
<1>4. nbuckets(n) = q
    BY <1>1, <1>2, <1>3 DEF nbuckets
<1>5. q # 0
    <2>1. SUFFICES ASSUME q = 0 PROVE FALSE
        OBVIOUS
    <2>2. a = m
        BY <1>3, <2>1
    <2> QED
        BY <1>2, <1>3, <2>2
<1>6. q <= T
    <2>1. SUFFICES ASSUME T + 1 <= q PROVE FALSE
        OBVIOUS
    <2>2. PICK s \in Nat : s = T + 1
        OBVIOUS
    <2>3. B * s <= B * q
        BY <2>1, <2>2, MulMono
    <2>4. B * s = B * T + B
        BY <2>2
    <2>5. PICK X \in Nat, Y \in Nat : X = B * T /\ Y = B * q
        OBVIOUS
    <2>6. n <= X
        BY <1>1, <2>5 DEF MAX_VOCAB
    <2>7. X + B <= Y /\ a = Y + m
        BY <1>3, <2>3, <2>4, <2>5
    <2> QED
        BY <1>2, <2>6, <2>7
<1> QED
    BY <1>1, <1>4, <1>5, <1>6, Sizes

\* The tables of a prediction.
LEMMA CountsLegal ==
    ASSUME NEW n \in Nat \ {0}, n <= MAX_VOCAB, NEW lg \in [1 .. n -> Int]
    PROVE  /\ Legal(tq_ac_bucket_counts(lg))
           /\ \A b \in 1 .. nbuckets(n) : Legal(tq_ac_symbol_counts(lg, b))
<1>0. Len(lg) = n
    OBVIOUS
<1>1. PICK k \in Nat : k = nbuckets(n) /\ k >= 1 /\ k <= TOT
    BY FewBuckets
<1>2. Legal(tq_ac_bucket_counts(lg))
    <2>1. Peak(lg, 1 .. n) \in Int /\ \A i \in 1 .. n : lg[i] <= Peak(lg, 1 .. n)
        <3>1. \A i : i \in 1 .. n <=> i \in 0 + 1 .. 0 + n
            OBVIOUS
        <3>2. 0 + n <= n /\ n \in Nat /\ 0 \in Nat
            OBVIOUS
        <3>3. PICK S : S = 1 .. n
            OBVIOUS
        <3>4. Peak(lg, S) \in Int /\ \A i \in S : i \in 1 .. n /\ lg[i] <= Peak(lg, S)
            BY <3>1, <3>2, <3>3, PeakIs
        <3> QED
            BY <3>3, <3>4
    <2>2. PICK max \in Int : max = Peak(lg, 1 .. n)
        BY <2>1
    <2>3. [i \in 1 .. n |-> Weight(lg[i], max)] \in [1 .. n -> Nat]
        <3>1. ASSUME NEW i \in 1 .. n PROVE Weight(lg[i], max) \in Nat
            <4>1. PICK l \in Int : l = lg[i] /\ l <= max
                BY <2>1, <2>2
            <4> QED
                BY <4>1, WeightIs
        <3> QED
            BY <3>1
    <2>4. PICK w \in [1 .. n -> Nat] : w = [i \in 1 .. n |-> Weight(lg[i], max)]
        BY <2>3
    <2>5. ASSUME NEW b \in 1 .. k PROVE SumOver(w, BucketTokens(n, b)) \in Nat
        BY SumOverIs
    <2>6. [b \in 1 .. k |-> SumOver(w, BucketTokens(n, b))] \in [1 .. k -> Nat]
        BY <2>5
    <2>7. PICK f \in [1 .. k -> Nat] : f = [b \in 1 .. k |-> SumOver(w, BucketTokens(n, b))]
        BY <2>6
    <2>8. tq_ac_bucket_counts(lg) = tq_ac_normalize(f)
        BY <1>0, <1>1, <2>2, <2>4, <2>7, Zenon DEF tq_ac_bucket_counts
    <2> QED
        BY <1>1, <2>8, NormalizedLegal
<1>3. ASSUME NEW b \in 1 .. nbuckets(n) PROVE Legal(tq_ac_symbol_counts(lg, b))
    <2>1. PICK a \in Nat, c \in Nat, B \in Nat :
              /\ a = (b - 1) * BUCKET /\ c = BucketSize(n, b) /\ B = BUCKET /\ B <= TOT
              /\ c >= 1 /\ a + c <= n /\ b * BUCKET = a + B
              /\ Cardinality(BucketTokens(n, b)) = c
        <3>1. BUCKET \in Nat /\ BUCKET <= TOT
            BY SemaphoreAssumption, Sizes
        <3>2. /\ (b - 1) * BUCKET \in Nat
              /\ b * BUCKET = (b - 1) * BUCKET + BUCKET
              /\ BucketSize(n, b) \in Nat \ {0}
              /\ (b - 1) * BUCKET + BucketSize(n, b) <= n
              /\ Cardinality(BucketTokens(n, b)) = BucketSize(n, b)
            BY BucketIs
        <3>3. BucketSize(n, b) \in Nat /\ BucketSize(n, b) >= 1
            BY <3>2
        <3> QED
            BY <3>1, <3>2, <3>3, Zenon
    <2>2. c <= B /\ (a + c = n \/ c = B)
        BY <2>1 DEF BucketSize
    <2>3. PICK S : S = BucketTokens(n, b)
        OBVIOUS
    <2>4. ASSUME NEW i PROVE i \in S <=> i \in a + 1 .. a + c
        BY <2>1, <2>2, <2>3, SMTT(30) DEF BucketTokens
    <2>5. Peak(lg, S) \in Int /\ \A i \in S : i \in 1 .. n /\ lg[i] <= Peak(lg, S)
        <3>1. n \in Nat /\ c \in Nat \ {0} /\ a + c <= n
            BY <2>1
        <3>2. \A i : i \in S <=> i \in a + 1 .. a + c
            BY <2>4
        <3> QED
            BY <3>1, <3>2, PeakIs
    <2>6. PICK max \in Int : max = Peak(lg, S)
        BY <2>5
    <2>7. ASSUME NEW i \in 1 .. c PROVE Weight(lg[a + i], max) \in Nat
        <3>1. a + i \in S
            BY <2>4
        <3>2. PICK l \in Int : l = lg[a + i] /\ l <= max
            BY <2>5, <2>6, <3>1
        <3> QED
            BY <3>2, WeightIs
    <2>8. PICK f \in [1 .. c -> Nat] : f = [i \in 1 .. c |-> Weight(lg[a + i], max)]
        BY <2>7
    <2>9. tq_ac_symbol_counts(lg, b) = tq_ac_normalize(f)
        BY <1>0, <2>1, <2>3, <2>6, <2>8, Zenon DEF tq_ac_symbol_counts
    <2>10. c <= TOT
        BY <2>1, <2>2, Sizes
    <2> QED
        BY <2>1, <2>9, <2>10, NormalizedLegal
<1> QED
    BY <1>2, <1>3

\* Every table the two ends hand to the coder, the flat one of the length and
\* those of every prediction, leaves no symbol without a count and fills the
\* coder's total: what tq_ac_enc_sym and tq_ac_dec_sym take for granted is
\* what tq_ac_bucket_counts and tq_ac_symbol_counts deliver, whatever the
\* logits.
THEOREM CountTablesLegal ==
    /\ Legal(LenTable)
    /\ \A role \in Roles : \A v \in Codable : \A h \in DOMAIN Acts :
          /\ Legal(BucketTable[role][v][h])
          /\ \A b \in 1 .. nbuckets(Cardinality(Ids(v))) : Legal(SymbolTable[role][v][h][b])
<1>1. Legal(LenTable)
    <2>1. PICK L \in Nat \ {0}, T \in Nat : L = LEN_SYMBOLS /\ T = TOT /\ T % L = 0 /\ L <= T
        BY SemaphoreAssumption, Sizes
    <2>2. PICK k \in Nat : k = T \div L /\ T = L * k
        <3>1. L \in Nat /\ L > 0
            OBVIOUS
        <3>2. T \div L \in Nat /\ T = L * (T \div L) + (T % L)
            BY <3>1, DivMod
        <3>3. L * (T \div L) \in Int
            BY <3>1, <3>2
        <3> QED
            BY <2>1, <3>2, <3>3
    <2>3. k >= 1
        <3>1. SUFFICES ASSUME k = 0 PROVE FALSE
            OBVIOUS
        <3> QED
            BY <2>1, <2>2, <3>1
    <2>4. PICK z \in [1 .. L -> Nat] : z = LenTable /\ \A i \in 1 .. L : z[i] = k
        <3>1. LenTable = [i \in 1 .. L |-> k]
            BY <2>1, <2>2, Zenon DEF LenTable
        <3>2. [i \in 1 .. L |-> k] \in [1 .. L -> Nat]
            OBVIOUS
        <3>3. \A i \in 1 .. L : [j \in 1 .. L |-> k][i] = k
            OBVIOUS
        <3> QED
            BY <3>1, <3>2, <3>3, Zenon
    <2>5. Total(z) = L * k
        BY <2>4, EvenTotal
    <2> QED
        BY <2>1, <2>2, <2>3, <2>4, <2>5, LegalIs
<1>2. ASSUME NEW role \in Roles, NEW v \in Codable, NEW h \in DOMAIN Acts
      PROVE  /\ Legal(BucketTable[role][v][h])
             /\ \A b \in 1 .. nbuckets(Cardinality(Ids(v))) : Legal(SymbolTable[role][v][h][b])
    <2>0. v \in DOMAIN Vocabs /\ Cardinality(Ids(v)) <= MAX_VOCAB
        BY DEF Codable
    <2>1. PICK n \in Nat \ {0} : n = Cardinality(Ids(v)) /\ n <= MAX_VOCAB
        BY <2>0, VocabIs
    <2>2. PICK lg \in [1 .. n -> Int] : lg = Scores[role][v][h]
        BY <2>0, <2>1, ScoresAre
    <2>3. BucketTable[role][v][h] = tq_ac_bucket_counts(lg)
        BY <2>0, <2>2 DEF BucketTable
    <2>4. ASSUME NEW b \in 1 .. nbuckets(n)
          PROVE  SymbolTable[role][v][h][b] = tq_ac_symbol_counts(lg, b)
        BY <2>0, <2>1, <2>2 DEF SymbolTable
    <2> QED
        BY <2>1, <2>3, <2>4, CountsLegal
<1> QED
    BY <1>1, <1>2

=============================================================================
