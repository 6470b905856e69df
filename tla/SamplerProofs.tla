--------------------------- MODULE SamplerProofs ----------------------------
(***************************************************************************)
(* Proofs about tq_sample, for vocabularies, logits and settings of every  *)
(* size: the heap sort sorts, the scratch arrays stay in step, and the     *)
(* draw is from the nucleus of the whole vocabulary although most of it    *)
(* was never sorted.                                                       *)
(*                                                                         *)
(* The invariant has a part for every loop: a heap above i while the heap  *)
(* is built, a heap with one hole while an entry sinks, a heap in front of *)
(* a sorted tail of larger entries while the largest are popped.           *)
(***************************************************************************)
EXTENDS Sampler, FiniteSetTheorems, WellFoundedInduction, TLAPS

-----------------------------------------------------------------------------
(* Induction over sets of naturals, and functions defined by recursion. *)

\* A set of naturals that is not empty has a least element.
LEMMA LeastElement ==
    ASSUME NEW S, S \subseteq Nat, S # {}
    PROVE  \E m \in S : \A q \in S : m <= q
<1>1. \E m \in S : \A q \in S : ~ (<<q, m>> \in OpToRel(<, Nat))
    BY NatLessThanWellFounded, WFMin, Zenon
<1>2. PICK m \in S : \A q \in S : ~ (<<q, m>> \in OpToRel(<, Nat))
    BY <1>1
<1>3. \A q \in S : ~ (q < m)
    BY <1>2 DEF OpToRel
<1> QED
    BY <1>3

\* Induction, with a set in place of a predicate.
LEMMA SetInduction ==
    ASSUME NEW S, 0 \in S, \A q \in Nat : q \in S => q + 1 \in S
    PROVE  \A q \in Nat : q \in S
<1> DEFINE bad == {q \in Nat : q \notin S}
<1>1. SUFFICES ASSUME bad # {} PROVE FALSE
    OBVIOUS
<1>2. PICK m \in bad : \A q \in bad : m <= q
    <2>1. bad \subseteq Nat
        OBVIOUS
    <2> QED
        BY <1>1, <2>1, LeastElement
<1>3. m \in Nat /\ m \notin S /\ m # 0
    OBVIOUS
<1>4. m - 1 \in Nat /\ m - 1 \notin bad
    BY <1>2, <1>3
<1>5. m - 1 \in S
    BY <1>4
<1>6. (m - 1) + 1 \in S
    BY <1>4, <1>5
<1> QED
    BY <1>3, <1>6

Recurrence(f, b, G, m) ==
    /\ f[0] = b
    /\ \A j \in 1 .. m : f[j] = G[j][f[j - 1]]

\* A recursive function over 0 .. m exists.
LEMMA Recursion ==
    ASSUME NEW V, NEW b \in V, NEW m \in Nat, NEW G \in [1 .. m -> [V -> V]]
    PROVE  \E f \in [0 .. m -> V] : Recurrence(f, b, G, m)
<1> DEFINE S == {q \in Nat : q <= m => \E f \in [0 .. q -> V] : Recurrence(f, b, G, q)}
<1>1. 0 \in S
    <2>1. [j \in 0 .. 0 |-> b] \in [0 .. 0 -> V]
        OBVIOUS
    <2>2. Recurrence([j \in 0 .. 0 |-> b], b, G, 0)
        BY DEF Recurrence
    <2> QED
        BY <2>1, <2>2
<1>2. ASSUME NEW q \in Nat, q \in S PROVE q + 1 \in S
    <2>1. SUFFICES ASSUME q + 1 <= m
                   PROVE  \E f \in [0 .. q + 1 -> V] : Recurrence(f, b, G, q + 1)
        OBVIOUS
    <2>2. PICK f \in [0 .. q -> V] : Recurrence(f, b, G, q)
        BY <1>2, <2>1
    <2> DEFINE x == G[q + 1][f[q]]
               g == [j \in 0 .. q + 1 |-> IF j = q + 1 THEN x ELSE f[j]]
    <2>3. x \in V
        <3>1. q + 1 \in 1 .. m /\ f[q] \in V
            BY <2>1
        <3> QED
            BY <3>1
    <2>4. g \in [0 .. q + 1 -> V]
        BY <2>3
    <2>5. g[0] = b
        BY <2>2 DEF Recurrence
    <2>6. ASSUME NEW j \in 1 .. q + 1 PROVE g[j] = G[j][g[j - 1]]
        <3>1. CASE j = q + 1
            <4>1. g[j] = x /\ g[j - 1] = f[q]
                BY <3>1
            <4> QED
                BY <3>1, <4>1
        <3>2. CASE j # q + 1
            <4>1. j \in 1 .. q /\ g[j] = f[j] /\ g[j - 1] = f[j - 1]
                BY <3>2
            <4> QED
                BY <4>1, <2>2 DEF Recurrence
        <3> QED
            BY <3>1, <3>2
    <2> QED
        BY <2>4, <2>5, <2>6 DEF Recurrence
<1> HIDE DEF S
<1>3. m \in S
    BY <1>1, <1>2, SetInduction
<1> QED
    BY <1>3 DEF S

\* Two functions that follow the same recursion agree.
LEMMA RecursionAgrees ==
    ASSUME NEW f, NEW g, NEW b, NEW G, NEW m \in Nat, NEW q \in Nat, q <= m,
           Recurrence(f, b, G, q), Recurrence(g, b, G, m)
    PROVE  f[q] = g[q]
<1> DEFINE S == {j \in Nat : j <= q => f[j] = g[j]}
<1>1. 0 \in S
    BY DEF Recurrence
<1>2. ASSUME NEW j \in Nat, j \in S PROVE j + 1 \in S
    <2>1. SUFFICES ASSUME j + 1 <= q PROVE f[j + 1] = g[j + 1]
        OBVIOUS
    <2>2. f[j] = g[j] /\ j + 1 \in 1 .. q /\ j + 1 \in 1 .. m /\ (j + 1) - 1 = j
        BY <1>2, <2>1
    <2>3. f[j + 1] = G[j + 1][f[j]] /\ g[j + 1] = G[j + 1][g[j]]
        BY <2>2 DEF Recurrence
    <2> QED
        BY <2>2, <2>3
<1> HIDE DEF S
<1>3. q \in S
    BY <1>1, <1>2, SetInduction
<1> QED
    BY <1>3 DEF S

-----------------------------------------------------------------------------
(* Mass. *)

MassSteps(f, m) == [j \in 1 .. m |-> [v \in Int |-> v + f[j - 1]]]
MassSum(c, f, m) == c = [j \in 0 .. m |-> IF j = 0 THEN 0 ELSE c[j - 1] + f[j - 1]]

\* The sum Mass is defined by exists.
LEMMA MassSumExists ==
    ASSUME NEW f, NEW m \in Nat, \A j \in 0 .. m - 1 : f[j] \in Int
    PROVE  \E c \in [0 .. m -> Int] : /\ MassSum(c, f, m)
                                      /\ Recurrence(c, 0, MassSteps(f, m), m)
<1> DEFINE G == MassSteps(f, m)
<1>1. G \in [1 .. m -> [Int -> Int]]
    <2>1. ASSUME NEW j \in 1 .. m PROVE [v \in Int |-> v + f[j - 1]] \in [Int -> Int]
        BY SMT
    <2> QED
        BY <2>1 DEF MassSteps
<1>2. PICK c \in [0 .. m -> Int] : Recurrence(c, 0, G, m)
    <2> HIDE DEF G
    <2>1. 0 \in Int
        OBVIOUS
    <2> QED
        BY <1>1, <2>1, Recursion, Zenon
<1>3. ASSUME NEW j \in 1 .. m PROVE c[j] = c[j - 1] + f[j - 1]
    <2>1. c[j - 1] \in Int /\ c[j] = G[j][c[j - 1]]
        BY <1>2 DEF Recurrence
    <2> QED
        BY <2>1 DEF MassSteps
<1>4. c[0] = 0
    BY <1>2 DEF Recurrence
<1>5. MassSum(c, f, m)
    <2>1. c = [j \in 0 .. m |-> c[j]]
        OBVIOUS
    <2>2. ASSUME NEW j \in 0 .. m PROVE c[j] = IF j = 0 THEN 0 ELSE c[j - 1] + f[j - 1]
        BY <1>3, <1>4
    <2> QED
        BY <2>1, <2>2 DEF MassSum
<1> QED
    BY <1>2, <1>5

\* Mass is a value of that sum.
LEMMA MassValue ==
    ASSUME NEW f, NEW m \in Nat, \A j \in 0 .. m - 1 : f[j] \in Int
    PROVE  \E c : /\ Recurrence(c, 0, MassSteps(f, m), m)
                  /\ Mass(f, m) = c[m] /\ Mass(f, m) \in Int
<1> DEFINE c == CHOOSE c : MassSum(c, f, m)
<1>1. MassSum(c, f, m)
    BY MassSumExists
<1>2. Mass(f, m) = c[m]
    BY DEF Mass, MassSum
<1> HIDE DEF c
<1>3. c[0] = 0 /\ \A j \in 1 .. m : c[j] = c[j - 1] + f[j - 1]
    BY <1>1 DEF MassSum
<1> DEFINE S == {j \in Nat : j <= m => c[j] \in Int}
<1>4. 0 \in S
    BY <1>3
<1>5. ASSUME NEW j \in Nat, j \in S PROVE j + 1 \in S
    <2>1. SUFFICES ASSUME j + 1 <= m PROVE c[j + 1] \in Int
        OBVIOUS
    <2>2. j \in 0 .. m - 1 /\ j + 1 \in 1 .. m /\ (j + 1) - 1 = j /\ c[j] \in Int
        BY <2>1, <1>5
    <2>3. c[j + 1] = c[j] + f[j] /\ f[j] \in Int
        BY <2>2, <1>3
    <2> QED
        BY <2>2, <2>3
<1>6. \A j \in Nat : j \in S
    <2> HIDE DEF S
    <2> QED
        BY <1>4, <1>5, SetInduction
<1>7. \A j \in 0 .. m : c[j] \in Int
    BY <1>6
<1>8. Recurrence(c, 0, MassSteps(f, m), m)
    <2>1. ASSUME NEW j \in 1 .. m PROVE c[j] = MassSteps(f, m)[j][c[j - 1]]
        <3>1. c[j - 1] \in Int
            BY <1>7
        <3> QED
            BY <1>3, <3>1 DEF MassSteps
    <2> QED
        BY <1>3, <2>1 DEF Recurrence
<1> QED
    BY <1>2, <1>7, <1>8

\* Mass adds one entry at a time.
LEMMA MassStep ==
    ASSUME NEW f, NEW m \in Nat, \A j \in 0 .. m : f[j] \in Int
    PROVE  /\ Mass(f, 0) = 0 /\ Mass(f, m) \in Int
           /\ Mass(f, m + 1) = Mass(f, m) + f[m]
<1>1. PICK c : /\ Recurrence(c, 0, MassSteps(f, m), m)
               /\ Mass(f, m) = c[m] /\ Mass(f, m) \in Int
    BY MassValue
<1>2. PICK d : /\ Recurrence(d, 0, MassSteps(f, m + 1), m + 1)
               /\ Mass(f, m + 1) = d[m + 1] /\ Mass(f, m + 1) \in Int
    <2>1. m + 1 \in Nat /\ \A j \in 0 .. (m + 1) - 1 : f[j] \in Int
        OBVIOUS
    <2> QED
        BY <2>1, MassValue
<1>3. PICK e : Recurrence(e, 0, MassSteps(f, 0), 0) /\ Mass(f, 0) = e[0]
    <2>1. 0 \in Nat /\ \A j \in 0 .. 0 - 1 : f[j] \in Int
        OBVIOUS
    <2> QED
        BY <2>1, MassValue
<1>4. Recurrence(d, 0, MassSteps(f, m), m)
    <2>1. \A j \in 1 .. m : MassSteps(f, m + 1)[j] = MassSteps(f, m)[j]
        BY DEF MassSteps
    <2>2. \A j \in 1 .. m : j \in 1 .. m + 1
        OBVIOUS
    <2> QED
        BY <1>2, <2>1, <2>2 DEF Recurrence
<1>5. c[m] = d[m]
    BY <1>1, <1>4, RecursionAgrees
<1>6. d[m + 1] = MassSteps(f, m + 1)[m + 1][d[m]]
    <2>1. m + 1 \in 1 .. m + 1 /\ (m + 1) - 1 = m
        OBVIOUS
    <2> QED
        BY <1>2, <2>1 DEF Recurrence
<1>7. MassSteps(f, m + 1)[m + 1][d[m]] = d[m] + f[m]
    <2>1. d[m] \in Int
        BY <1>1, <1>5
    <2>2. m + 1 \in 1 .. m + 1 /\ (m + 1) - 1 = m
        OBVIOUS
    <2> QED
        BY <2>1, <2>2 DEF MassSteps
<1> QED
    BY <1>1, <1>2, <1>3, <1>5, <1>6, <1>7 DEF Recurrence

\* A sum of naturals grows with its length and is no less than its entries.
LEMMA MassMono ==
    ASSUME NEW f, NEW m \in Nat, \A j \in 0 .. m - 1 : f[j] \in Nat
    PROVE  /\ \A a \in 0 .. m : Mass(f, a) \in Nat
           /\ \A a, b \in 0 .. m : a <= b => Mass(f, a) <= Mass(f, b)
           /\ \A j \in 0 .. m - 1 : Mass(f, j + 1) = Mass(f, j) + f[j]
           /\ Mass(f, 0) = 0
<1>0. Mass(f, 0) = 0
    <2>1. PICK e : Recurrence(e, 0, MassSteps(f, 0), 0) /\ Mass(f, 0) = e[0]
        <3>1. 0 \in Nat /\ \A j \in 0 .. 0 - 1 : f[j] \in Int
            OBVIOUS
        <3> QED
            BY <3>1, MassValue
    <2> QED
        BY <2>1 DEF Recurrence
<1>1. ASSUME NEW j \in 0 .. m - 1
      PROVE  Mass(f, j) \in Int /\ Mass(f, j + 1) = Mass(f, j) + f[j]
    <2>1. j \in Nat /\ \A o \in 0 .. j : f[o] \in Int
        OBVIOUS
    <2> QED
        BY <2>1, MassStep
<1> DEFINE S == {b \in Nat : b <= m => /\ Mass(f, b) \in Nat
                                       /\ \A a \in 0 .. b : Mass(f, a) <= Mass(f, b)}
<1>2. 0 \in S
    BY <1>0
<1>3. ASSUME NEW b \in Nat, b \in S PROVE b + 1 \in S
    <2>1. SUFFICES ASSUME b + 1 <= m
                   PROVE  /\ Mass(f, b + 1) \in Nat
                          /\ \A a \in 0 .. b + 1 : Mass(f, a) <= Mass(f, b + 1)
        OBVIOUS
    <2>2. /\ Mass(f, b) \in Nat /\ \A a \in 0 .. b : Mass(f, a) <= Mass(f, b)
          /\ b \in 0 .. m - 1
        BY <1>3, <2>1
    <2>3. Mass(f, b + 1) = Mass(f, b) + f[b] /\ f[b] \in Nat
        BY <1>1, <2>2
    <2>4. ASSUME NEW a \in 0 .. b + 1 PROVE Mass(f, a) <= Mass(f, b + 1)
        <3>1. CASE a = b + 1
            BY <3>1, <2>2, <2>3
        <3>2. CASE a # b + 1
            <4>1. a \in 0 .. b
                BY <3>2
            <4>2. a \in 0 .. m - 1
                BY <4>1, <2>2
            <4>3. Mass(f, a) \in Int
                BY <4>2, <1>1
            <4> QED
                BY <4>1, <4>3, <2>2, <2>3
        <3> QED
            BY <3>1, <3>2
    <2> QED
        BY <2>2, <2>3, <2>4
<1>4. \A b \in Nat : b \in S
    <2> HIDE DEF S
    <2> QED
        BY <1>2, <1>3, SetInduction
<1>5. \A b \in 0 .. m : /\ Mass(f, b) \in Nat
                        /\ \A a \in 0 .. b : Mass(f, a) <= Mass(f, b)
    BY <1>4
<1> HIDE DEF S
<1> QED
    BY <1>0, <1>1, <1>5

\* The entries of two sums added one by one.
LEMMA MassAdds ==
    ASSUME NEW f, NEW g, NEW h, NEW m \in Nat,
           \A j \in 0 .. m - 1 : f[j] \in Nat /\ g[j] \in Nat /\ h[j] = f[j] + g[j]
    PROVE  Mass(h, m) = Mass(f, m) + Mass(g, m)
<1>1. \A j \in 0 .. m - 1 : h[j] \in Nat
    OBVIOUS
<1>2. /\ \A a \in 0 .. m : Mass(f, a) \in Nat /\ Mass(g, a) \in Nat /\ Mass(h, a) \in Nat
      /\ Mass(f, 0) = 0 /\ Mass(g, 0) = 0 /\ Mass(h, 0) = 0
      /\ \A j \in 0 .. m - 1 : /\ Mass(f, j + 1) = Mass(f, j) + f[j]
                               /\ Mass(g, j + 1) = Mass(g, j) + g[j]
                               /\ Mass(h, j + 1) = Mass(h, j) + h[j]
    BY <1>1, MassMono
<1> DEFINE S == {b \in Nat : b <= m => Mass(h, b) = Mass(f, b) + Mass(g, b)}
<1>3. 0 \in S
    BY <1>2
<1>4. ASSUME NEW b \in Nat, b \in S PROVE b + 1 \in S
    <2>1. SUFFICES ASSUME b + 1 <= m
                   PROVE  Mass(h, b + 1) = Mass(f, b + 1) + Mass(g, b + 1)
        OBVIOUS
    <2>2. b \in 0 .. m - 1 /\ b \in 0 .. m
        BY <2>1
    <2>3. Mass(h, b) = Mass(f, b) + Mass(g, b)
        BY <1>4, <2>1
    <2> QED
        BY <1>2, <2>2, <2>3
<1>5. m \in S
    <2> HIDE DEF S
    <2> QED
        BY <1>3, <1>4, SetInduction
<1> QED
    BY <1>5

\* A sum with a single entry that is not zero.
LEMMA MassSingle ==
    ASSUME NEW m \in Nat, NEW t \in 0 .. m - 1, NEW d \in Nat
    PROVE  Mass([j \in 0 .. m - 1 |-> IF j = t THEN d ELSE 0], m) = d
<1> DEFINE f == [j \in 0 .. m - 1 |-> IF j = t THEN d ELSE 0]
<1>1. \A j \in 0 .. m - 1 : f[j] \in Nat /\ f[j] = IF j = t THEN d ELSE 0
    OBVIOUS
<1> HIDE DEF f
<1>2. /\ \A a \in 0 .. m : Mass(f, a) \in Nat
      /\ Mass(f, 0) = 0
      /\ \A j \in 0 .. m - 1 : Mass(f, j + 1) = Mass(f, j) + f[j]
    BY <1>1, MassMono
<1> DEFINE S == {b \in Nat : b <= m => Mass(f, b) = IF t < b THEN d ELSE 0}
<1>3. 0 \in S
    BY <1>2
<1>4. ASSUME NEW b \in Nat, b \in S PROVE b + 1 \in S
    <2>1. SUFFICES ASSUME b + 1 <= m
                   PROVE  Mass(f, b + 1) = IF t < b + 1 THEN d ELSE 0
        OBVIOUS
    <2>2. b \in 0 .. m - 1 /\ b \in 0 .. m
        BY <2>1
    <2>3. Mass(f, b) = IF t < b THEN d ELSE 0
        BY <1>4, <2>1
    <2>4. Mass(f, b + 1) = Mass(f, b) + (IF b = t THEN d ELSE 0)
        BY <1>1, <1>2, <2>2
    <2> QED
        BY <2>3, <2>4
<1>5. m \in S
    <2> HIDE DEF S
    <2> QED
        BY <1>3, <1>4, SetInduction
<1>6. Mass(f, m) = d
    BY <1>5
<1> QED
    BY <1>6 DEF f

\* The part of the tokens t # t0 that are each below c/D.
LEMMA MassBelow ==
    ASSUME NEW g, NEW m \in Nat, NEW t0 \in 0 .. m - 1, NEW D \in Nat, NEW c \in Nat,
           \A j \in 0 .. m - 1 : g[j] \in Nat /\ g[j] * D <= c,
           g[t0] = 0
    PROVE  Mass(g, m) \in Nat /\ Mass(g, m) * D <= c * (m - 1)
<1>1. /\ \A a \in 0 .. m : Mass(g, a) \in Nat
      /\ Mass(g, 0) = 0
      /\ \A j \in 0 .. m - 1 : Mass(g, j + 1) = Mass(g, j) + g[j]
    BY MassMono
<1> DEFINE S == {b \in Nat : b <= m => Mass(g, b) * D <= c * (IF t0 < b THEN b - 1 ELSE b)}
<1>2. 0 \in S
    BY <1>1
<1>3. ASSUME NEW b \in Nat, b \in S PROVE b + 1 \in S
    <2>1. SUFFICES ASSUME b + 1 <= m
                   PROVE  Mass(g, b + 1) * D <= c * (IF t0 < b + 1 THEN (b + 1) - 1 ELSE b + 1)
        OBVIOUS
    <2>2. b \in 0 .. m - 1 /\ b \in 0 .. m
        BY <2>1
    <2>3. Mass(g, b) * D <= c * (IF t0 < b THEN b - 1 ELSE b)
        BY <1>3, <2>1
    <2>4. PICK x \in Nat : x = Mass(g, b)
        BY <1>1, <2>2
    <2>5. PICK y \in Nat : y = g[b]
        BY <2>2
    <2>6. Mass(g, b + 1) = x + y /\ y * D <= c
        BY <1>1, <2>2, <2>4, <2>5
    <2>7. Mass(g, b + 1) * D = x * D + y * D
        BY <2>6
    <2>8. x * D \in Nat /\ y * D \in Nat
        OBVIOUS
    <2>9. CASE t0 < b
        <3>1. c * ((b + 1) - 1) = c * (b - 1) + c
            OBVIOUS
        <3>2. x * D <= c * (b - 1) /\ c * (b - 1) \in Int
            BY <2>3, <2>4, <2>9
        <3> QED
            BY <2>6, <2>7, <2>8, <2>9, <3>1, <3>2
    <2>10. CASE t0 = b
        <3>1. y = 0 /\ y * D = 0
            BY <2>5, <2>10
        <3>2. x * D <= c * b
            BY <2>3, <2>4, <2>10
        <3> QED
            BY <2>7, <2>8, <2>10, <3>1, <3>2
    <2>11. CASE t0 > b
        <3>1. c * (b + 1) = c * b + c
            OBVIOUS
        <3>2. x * D <= c * b /\ c * b \in Int
            BY <2>3, <2>4, <2>11
        <3> QED
            BY <2>6, <2>7, <2>8, <2>11, <3>1, <3>2
    <2> QED
        BY <2>9, <2>10, <2>11
<1>4. m \in S
    <2> HIDE DEF S
    <2> QED
        BY <1>2, <1>3, SetInduction
<1>5. Mass(g, m) * D <= c * (m - 1)
    BY <1>4
<1> QED
    BY <1>1, <1>5

-----------------------------------------------------------------------------
(* The weights of softmax. *)

\* Halving a unit leaves something between 0 and a unit.
LEMMA HalvedType ==
    ASSUME NEW d \in Nat
    PROVE  Halved(d) \in 0 .. Unit /\ (d = 0 => Halved(d) = Unit)
<1> DEFINE V == 0 .. Unit
           G == [j \in 1 .. d |-> [v \in V |-> v \div 2]]
           Is(h) == h = [j \in 0 .. d |-> IF j = 0 THEN Unit ELSE h[j - 1] \div 2]
<1>0. Unit \in Nat /\ Unit \in V
    BY SamplerAssumption
<1>1. \E h : Is(h)
    <2>1. G \in [1 .. d -> [V -> V]]
        <3>1. \A v \in V : v \div 2 \in V
            BY <1>0
        <3> HIDE DEF V
        <3> QED
            BY <3>1
    <2>2. PICK h \in [0 .. d -> V] : Recurrence(h, Unit, G, d)
        <3> HIDE DEF G, V
        <3> QED
            BY <1>0, <2>1, Recursion, Zenon
    <2>3. ASSUME NEW j \in 1 .. d PROVE h[j] = h[j - 1] \div 2
        <3>1. j - 1 \in 0 .. d /\ h[j - 1] \in V
            OBVIOUS
        <3>2. h[j] = G[j][h[j - 1]]
            BY <2>2 DEF Recurrence
        <3> HIDE DEF V
        <3> QED
            BY <3>1, <3>2
    <2>4. h[0] = Unit
        BY <2>2 DEF Recurrence
    <2>5. h = [j \in 0 .. d |-> h[j]]
        OBVIOUS
    <2>6. ASSUME NEW j \in 0 .. d PROVE h[j] = IF j = 0 THEN Unit ELSE h[j - 1] \div 2
        BY <2>3, <2>4
    <2>7. Is(h)
        <3> HIDE DEF V
        <3> QED
            BY <2>5, <2>6
    <2> QED
        BY <2>7
<1> DEFINE h == CHOOSE h : Is(h)
<1>2. Is(h)
    <2> HIDE DEF Is
    <2> QED
        BY <1>1
<1>3. Halved(d) = h[d]
    BY DEF Halved
<1> HIDE DEF h
<1>4. h[0] = Unit /\ \A j \in 1 .. d : h[j] = h[j - 1] \div 2
    BY <1>2
<1> DEFINE S == {j \in Nat : j <= d => h[j] \in V}
<1>5. 0 \in S
    BY <1>0, <1>4
<1>6. ASSUME NEW j \in Nat, j \in S PROVE j + 1 \in S
    <2>1. SUFFICES ASSUME j + 1 <= d PROVE h[j + 1] \in V
        OBVIOUS
    <2>2. j + 1 \in 1 .. d /\ (j + 1) - 1 = j /\ h[j] \in V
        BY <2>1, <1>6
    <2>3. h[j + 1] = h[j] \div 2
        BY <2>2, <1>4
    <2> QED
        BY <2>2, <2>3, <1>0
<1>7. d \in S
    <2> HIDE DEF S
    <2> QED
        BY <1>5, <1>6, SetInduction
<1> QED
    BY <1>3, <1>4, <1>7

\* There is a largest logit, and a first one as large.
LEMMA ArgmaxExists ==
    ASSUME NEW v \in [Tokens -> Int]
    PROVE  /\ tq_argmax(v) \in Tokens
           /\ \A o \in Tokens : v[o] <= v[tq_argmax(v)]
<1> DEFINE First(t, m) == \A o \in 0 .. m - 1 : v[o] < v[t] \/ (v[o] = v[t] /\ t <= o)
           S == {m \in Nat : m < vocab_size => \E t \in 0 .. m : First(t, m + 1)}
<1>0. vocab_size \in Nat /\ vocab_size > 0
    BY SamplerAssumption
<1>1. 0 \in S
    <2>1. \A o \in 0 .. 1 - 1 : o = 0
        OBVIOUS
    <2>2. First(0, 0 + 1)
        BY <2>1
    <2>3. 0 \in 0 .. 0
        OBVIOUS
    <2> QED
        BY <2>2, <2>3
<1>2. ASSUME NEW m \in Nat, m \in S PROVE m + 1 \in S
    <2>1. SUFFICES ASSUME m + 1 < vocab_size
                   PROVE  \E t \in 0 .. m + 1 : First(t, (m + 1) + 1)
        OBVIOUS
    <2>2. PICK t \in 0 .. m : First(t, m + 1)
        BY <1>0, <1>2, <2>1
    <2>3. \A o \in 0 .. m + 1 : v[o] \in Int
        BY <2>1, <1>0 DEF Tokens
    <2>4. CASE v[m + 1] > v[t]
        <3>1. First(m + 1, (m + 1) + 1)
            BY <2>2, <2>3, <2>4
        <3> QED
            BY <3>1
    <2>5. CASE ~ (v[m + 1] > v[t])
        <3>1. First(t, (m + 1) + 1)
            BY <2>2, <2>3, <2>5
        <3> QED
            BY <3>1
    <2> QED
        BY <2>4, <2>5
<1>3. vocab_size - 1 \in S
    <2> HIDE DEF S
    <2> QED
        BY <1>0, <1>1, <1>2, SetInduction
<1>4. \E t \in Tokens : First(t, vocab_size)
    BY <1>0, <1>3 DEF Tokens
<1>5. \E t \in Tokens : \A o \in Tokens : v[o] < v[t] \/ (v[o] = v[t] /\ t <= o)
    BY <1>4 DEF Tokens
<1>6. /\ tq_argmax(v) \in Tokens
      /\ \A o \in Tokens : v[o] < v[tq_argmax(v)] \/ (v[o] = v[tq_argmax(v)] /\ tq_argmax(v) <= o)
    BY <1>5 DEF tq_argmax
<1> QED
    BY <1>6

-----------------------------------------------------------------------------
(* The inductive invariant. *)

Working == pc \in {"choose", "build", "sift", "pop", "cut", "draw"}
Sorting == pc \in {"build", "sift", "pop", "cut", "draw"}

\* Softmax left weights, one of them a whole unit.
Weighted ==
    /\ logits \in [Tokens -> 0 .. Unit]
    /\ \E t \in Tokens : logits[t] = Unit

Children(p) == {2 * p + 1, 2 * p + 2}

\* Every entry from lo on is no less than its children below m.
HeapFrom(lo, m) ==
    \A p \in lo .. m - 1 : \A c \in Children(p) : c < m => prob[p] >= prob[c]

\* The same but for one entry, whose children are below its parent.
HeapExcept(lo, m, hole) ==
    /\ \A p \in lo .. m - 1 : \A c \in Children(p) :
          c < m /\ p # hole => prob[p] >= prob[c]
    /\ \A p \in lo .. m - 1 : hole \in Children(p) =>
          \A c \in Children(hole) : c < m => prob[p] >= prob[c]

\* From m on the entries are in ascending order and above all before them.
SortedTail(m) ==
    \A a \in 0 .. k - 1, b \in m .. k - 1 : a <= b => prob[a] <= prob[b]

Descending == \A a, b \in 0 .. k - 1 : a <= b => prob[a] >= prob[b]

HeapInv ==
    /\ pc = "build" => HeapFrom(i + 1, k) /\ i < k
    /\ pc = "sift" /\ ret = "build" =>
          /\ n = k /\ i + 1 <= root /\ root < n
          /\ HeapExcept(i + 1, k, root)
    /\ pc = "sift" /\ ret = "pop" =>
          /\ n = i + 1 /\ root < n /\ n < k
          /\ HeapExcept(0, n, root) /\ SortedTail(n)
    /\ pc = "pop" => 0 <= i /\ i < k /\ HeapFrom(0, i + 1) /\ SortedTail(i + 1)
    /\ pc \in {"cut", "draw"} => Descending

Above(m) == Mass(prob, m) * ToppUnit > s.topp * Whole

CutInv ==
    pc = "draw" => /\ last < k /\ Above(last + 1)
                   /\ \A j \in 0 .. last - 1 : ~ Above(j + 1)

\* What ScratchInStep says while there are candidates.
Scratch ==
    /\ \A j \in 0 .. k - 1 : idx[j] \in Tokens /\ prob[j] = logits[idx[j]]
    /\ \A j, m \in 0 .. k - 1 : idx[j] = idx[m] => j = m
    /\ \A t \in Tokens : ReachesCutoff(t) <=> \E j \in 0 .. k - 1 : idx[j] = t

Inv ==
    /\ TypeOK
    /\ pc \in {"softmax", "choose"} => k = 0
    /\ Working => s.inv_t > 0 /\ Weighted
    /\ Sorting => NucleusOn /\ k >= 1
    /\ ScratchInStep
    /\ HeapInv
    /\ CutInv

-----------------------------------------------------------------------------
(* Walking along the cumulated weights. *)

\* A draw below the mass of the first m entries ends at one of them, the one
\* whose cell it is.
LEMMA WalkEnds ==
    ASSUME NEW f, DOMAIN f = Tokens, NEW m \in 1 .. vocab_size,
           \A j \in 0 .. m - 1 : f[j] \in Nat,
           NEW cell \in 0 .. Mass(f, m) - 1
    PROVE  /\ Walk(f, cell) \in 0 .. m - 1 /\ Walk(f, cell) \in Tokens
           /\ \A j \in 0 .. m - 1 :
                 Walk(f, cell) = j <=> Mass(f, j) <= cell /\ cell < Mass(f, j + 1)
<1>0. vocab_size \in Nat /\ m \in Nat /\ m >= 1 /\ 0 .. m - 1 \subseteq Tokens
    BY SamplerAssumption DEF Tokens
<1>1. /\ \A a \in 0 .. m : Mass(f, a) \in Nat
      /\ \A a, b \in 0 .. m : a <= b => Mass(f, a) <= Mass(f, b)
      /\ Mass(f, 0) = 0
    BY <1>0, MassMono
<1> DEFINE A == {j \in 0 .. m - 1 : cell < Mass(f, j + 1)}
           Is(j) == cell < Mass(f, j + 1) /\ \A o \in DOMAIN f : o < j => Mass(f, o + 1) <= cell
<1>2. cell \in Nat /\ cell < Mass(f, m) /\ Mass(f, m) \in Nat
    BY <1>0, <1>1
<1>3. m - 1 \in A
    BY <1>0, <1>2
<1>4. PICK e \in A : \A j \in A : e <= j
    <2>1. A \subseteq Nat /\ A # {}
        BY <1>0, <1>3
    <2> HIDE DEF A
    <2> QED
        BY <2>1, LeastElement
<1>5. e \in 0 .. m - 1 /\ e \in Tokens /\ cell < Mass(f, e + 1)
    BY <1>0
<1>6. ASSUME NEW o \in Tokens, o < e PROVE Mass(f, o + 1) <= cell
    <2>1. o \in 0 .. m - 1 /\ o + 1 \in 0 .. m /\ o \notin A
        BY <1>0, <1>4, <1>5, <1>6 DEF Tokens
    <2>2. Mass(f, o + 1) \in Nat
        BY <2>1, <1>1
    <2> QED
        BY <2>1, <2>2, <1>2
<1>7. Is(e)
    BY <1>5, <1>6
<1> DEFINE w == Walk(f, cell)
<1>8. w \in Tokens /\ Is(w)
    BY <1>5, <1>7 DEF Walk
<1>9. w = e
    <2> HIDE DEF w
    <2>1. w \in Nat /\ e \in Nat
        BY <1>0, <1>5, <1>8 DEF Tokens
    <2>2. CASE w < e
        <3>1. w \in A
            BY <2>2, <2>1, <1>0, <1>5, <1>8
        <3> QED
            BY <3>1, <2>1, <2>2, <1>4
    <2>3. CASE e < w
        <3>1. Mass(f, e + 1) <= cell
            BY <2>3, <1>5, <1>8
        <3>2. Mass(f, e + 1) \in Nat
            <4>1. e + 1 \in 0 .. m
                BY <1>5, <1>0
            <4> QED
                BY <4>1, <1>1
        <3> QED
            BY <3>1, <3>2, <1>2, <1>5
    <2> QED
        BY <2>1, <2>2, <2>3
<1> HIDE DEF w, A, Is
<1>10. Mass(f, e) <= cell
    <2>1. CASE e = 0
        BY <2>1, <1>1, <1>2
    <2>2. CASE e > 0
        <3>1. e - 1 \in Tokens /\ e - 1 < e /\ (e - 1) + 1 = e
            BY <2>2, <1>0, <1>5 DEF Tokens
        <3> QED
            BY <3>1, <1>6
    <2> QED
        BY <2>1, <2>2, <1>5, <1>0
<1>11. ASSUME NEW j \in 0 .. m - 1, Mass(f, j) <= cell, cell < Mass(f, j + 1) PROVE j = e
    <2>1. /\ j \in 0 .. m /\ j + 1 \in 0 .. m /\ e \in 0 .. m /\ e + 1 \in 0 .. m
          /\ j \in Nat /\ e \in Nat
        BY <1>0, <1>5
    <2>2. /\ Mass(f, j) \in Nat /\ Mass(f, j + 1) \in Nat
          /\ Mass(f, e) \in Nat /\ Mass(f, e + 1) \in Nat
        BY <2>1, <1>1
    <2>3. CASE j < e
        <3>1. Mass(f, j + 1) <= Mass(f, e)
            BY <2>1, <2>3, <1>1
        <3> QED
            BY <3>1, <2>2, <1>2, <1>10, <1>11
    <2>4. CASE e < j
        <3>1. Mass(f, e + 1) <= Mass(f, j)
            BY <2>1, <2>4, <1>1
        <3> QED
            BY <3>1, <2>2, <1>2, <1>5, <1>11
    <2> QED
        BY <2>1, <2>3, <2>4
<1> QED
    BY <1>5, <1>8, <1>9, <1>10, <1>11 DEF w

-----------------------------------------------------------------------------
(* The tokens that are kept, in order. *)

Rank(S, t) == Cardinality({o \in S : o < t})

\* The ranks of a set of tokens are the positions below its size, one each.
LEMMA Ranks ==
    ASSUME NEW S, S \subseteq Tokens
    PROVE  /\ Cardinality(S) \in 0 .. vocab_size
           /\ Cardinality(S) = 0 <=> S = {}
           /\ \A t \in S : Rank(S, t) \in 0 .. Cardinality(S) - 1
           /\ \A t, u \in S : Rank(S, t) = Rank(S, u) => t = u
           /\ \A j \in 0 .. Cardinality(S) - 1 : \E t \in S : Rank(S, t) = j
<1>0. vocab_size \in Nat /\ vocab_size > 0
    BY SamplerAssumption
<1>1. IsFiniteSet(Tokens) /\ Cardinality(Tokens) = vocab_size
    BY <1>0, FS_Interval DEF Tokens
<1>2. IsFiniteSet(S) /\ Cardinality(S) <= vocab_size /\ Cardinality(S) \in Nat
    BY <1>1, FS_Subset, FS_CardinalityType
<1>3. Cardinality(S) = 0 <=> S = {}
    BY <1>2, FS_EmptySet
<1> DEFINE B(x) == {o \in S : o < x}
<1>a. \A o \in S : o \in Nat /\ o < vocab_size
    BY <1>0 DEF Tokens
<1>4. ASSUME NEW x \in Nat
      PROVE  /\ IsFiniteSet(B(x)) /\ Cardinality(B(x)) \in Nat
             /\ Cardinality(B(x)) <= Cardinality(S)
    <2>1. B(x) \in SUBSET S
        OBVIOUS
    <2> QED
        BY <1>2, <2>1, FS_Subset, FS_CardinalityType
<1>5. ASSUME NEW x \in Nat
      PROVE  Cardinality(B(x + 1)) = IF x \in S THEN Cardinality(B(x)) + 1 ELSE Cardinality(B(x))
    <2>2. CASE x \in S
        <3>1. \A o \in S : o < x + 1 <=> o < x \/ o = x
            BY <1>a
        <3>2. B(x + 1) = B(x) \cup {x}
            BY <2>2, <3>1
        <3>3. x \notin B(x)
            OBVIOUS
        <3> HIDE DEF B
        <3> QED
            BY <2>2, <3>2, <3>3, <1>4, FS_AddElement
    <2>3. CASE x \notin S
        <3>1. \A o \in S : o < x + 1 <=> o < x
            BY <1>a, <2>3
        <3>2. B(x + 1) = B(x)
            BY <3>1
        <3> QED
            BY <2>3, <3>2
    <2> QED
        BY <2>2, <2>3
<1>6. ASSUME NEW x \in Nat, NEW y \in Nat, x <= y
      PROVE  Cardinality(B(x)) <= Cardinality(B(y))
    <2>1. B(x) \in SUBSET B(y)
        <3>1. \A o \in S : o < x => o < y
            BY <1>6, <1>a
        <3> QED
            BY <3>1
    <2>2. IsFiniteSet(B(y))
        BY <1>4
    <2> HIDE DEF B
    <2> QED
        BY <2>1, <2>2, FS_Subset
<1>7. Cardinality(B(0)) = 0 /\ B(vocab_size) = S
    <2>1. B(0) = {}
        <3>1. \A o \in S : ~ (o < 0)
            BY <1>a
        <3> QED
            BY <3>1
    <2>2. B(vocab_size) = S
        BY <1>a
    <2> QED
        BY <2>1, <2>2, FS_EmptySet
<1> HIDE DEF B
<1>8. ASSUME NEW t \in S PROVE t \in Nat /\ t < vocab_size /\ t + 1 \in Nat
    BY <1>0 DEF Tokens
<1>9. ASSUME NEW t \in S PROVE Cardinality(B(t)) \in 0 .. Cardinality(S) - 1
    <2>1. Cardinality(B(t + 1)) = Cardinality(B(t)) + 1
        BY <1>5, <1>8
    <2>2. Cardinality(B(t + 1)) <= Cardinality(S) /\ Cardinality(B(t)) \in Nat
        BY <1>4, <1>8
    <2> QED
        BY <2>1, <2>2, <1>2
<1>10. ASSUME NEW t \in S, NEW u \in S, t < u
       PROVE  Cardinality(B(t)) # Cardinality(B(u))
    <2>1. Cardinality(B(t + 1)) = Cardinality(B(t)) + 1
        BY <1>5, <1>8
    <2>2. t + 1 \in Nat /\ u \in Nat /\ t + 1 <= u
        BY <1>8, <1>10
    <2>3. Cardinality(B(t + 1)) <= Cardinality(B(u))
        BY <1>6, <2>2
    <2>4. Cardinality(B(t)) \in Nat /\ Cardinality(B(u)) \in Nat
        BY <1>4, <1>8
    <2> QED
        BY <2>1, <2>3, <2>4
<1>11. ASSUME NEW t \in S, NEW u \in S, Cardinality(B(t)) = Cardinality(B(u)) PROVE t = u
    <2>1. t \in Nat /\ u \in Nat
        BY <1>8
    <2> QED
        BY <1>10, <1>11, <2>1
<1>12. ASSUME NEW j \in 0 .. Cardinality(S) - 1 PROVE \E t \in S : Cardinality(B(t)) = j
    <2> DEFINE X == {x \in Nat : Cardinality(B(x)) > j}
    <2>1. vocab_size \in X
        BY <1>0, <1>2, <1>7
    <2>2. PICK x \in X : \A y \in X : x <= y
        <3>1. X \subseteq Nat /\ X # {}
            BY <2>1
        <3> HIDE DEF X
        <3> QED
            BY <3>1, LeastElement
    <2>3. x \in Nat /\ Cardinality(B(x)) > j /\ x # 0
        BY <1>7
    <2>4. x - 1 \in Nat /\ x - 1 \notin X /\ (x - 1) + 1 = x
        BY <2>2, <2>3
    <2>5. Cardinality(B(x - 1)) \in Nat /\ ~ (Cardinality(B(x - 1)) > j)
        BY <2>4, <1>4
    <2>6. Cardinality(B(x)) = IF x - 1 \in S THEN Cardinality(B(x - 1)) + 1
                              ELSE Cardinality(B(x - 1))
        BY <1>5, <2>4
    <2>7. x - 1 \in S /\ Cardinality(B(x - 1)) = j
        BY <1>2, <2>3, <2>5, <2>6
    <2> QED
        BY <2>7
<1>13. \A t \in S : Rank(S, t) = Cardinality(B(t))
    BY DEF B, Rank
<1>14. Cardinality(S) \in 0 .. vocab_size
    BY <1>0, <1>2
<1>15. \A t \in S : Rank(S, t) \in 0 .. Cardinality(S) - 1
    BY <1>9, <1>13
<1>16. \A t, u \in S : Rank(S, t) = Rank(S, u) => t = u
    BY <1>11, <1>13
<1>17. \A j \in 0 .. Cardinality(S) - 1 : \E t \in S : Rank(S, t) = j
    <2>1. ASSUME NEW j \in 0 .. Cardinality(S) - 1 PROVE \E t \in S : Rank(S, t) = j
        <3>1. PICK t \in S : Cardinality(B(t)) = j
            BY <1>12
        <3> QED
            BY <3>1, <1>13
    <2> QED
        BY <2>1
<1> QED
    BY <1>3, <1>14, <1>15, <1>16, <1>17

-----------------------------------------------------------------------------
(* The scratch arrays through the sort. *)

\* Moving entries to and fro keeps the arrays in step.
LEMMA ScratchMoved ==
    ASSUME TypeOK, Scratch, NEW P \in [0 .. k - 1 -> 0 .. k - 1],
           \A j \in 0 .. k - 1 : P[P[j]] = j,
           \A j \in 0 .. k - 1 : idx'[j] = idx[P[j]] /\ prob'[j] = prob[P[j]],
           UNCHANGED <<s, logits, k>>
    PROVE  Scratch'
<1>1. k' = k /\ logits' = logits /\ s' = s
    OBVIOUS
<1>2. \A t : ReachesCutoff(t)' <=> ReachesCutoff(t)
    BY <1>1 DEF ReachesCutoff, Whole
<1>3. \A j \in 0 .. k - 1 : idx'[j] \in Tokens /\ prob'[j] = logits[idx'[j]]
    BY DEF Scratch
<1>4. ASSUME NEW j \in 0 .. k - 1, NEW m \in 0 .. k - 1, idx'[j] = idx'[m] PROVE j = m
    <2>1. P[j] \in 0 .. k - 1 /\ P[m] \in 0 .. k - 1 /\ idx[P[j]] = idx[P[m]]
        BY <1>4
    <2>2. P[j] = P[m]
        BY <2>1 DEF Scratch
    <2>3. P[P[j]] = j /\ P[P[m]] = m
        OBVIOUS
    <2> QED
        BY <2>2, <2>3
<1>5. ASSUME NEW t \in Tokens
      PROVE  (\E j \in 0 .. k - 1 : idx[j] = t) <=> (\E j \in 0 .. k - 1 : idx'[j] = t)
    <2>1. ASSUME NEW j \in 0 .. k - 1, idx[j] = t PROVE \E m \in 0 .. k - 1 : idx'[m] = t
        <3>1. P[j] \in 0 .. k - 1 /\ P[P[j]] = j
            OBVIOUS
        <3>2. idx'[P[j]] = idx[P[P[j]]]
            BY <3>1
        <3> QED
            BY <3>1, <3>2, <2>1
    <2>2. ASSUME NEW j \in 0 .. k - 1, idx'[j] = t PROVE \E m \in 0 .. k - 1 : idx[m] = t
        <3>1. P[j] \in 0 .. k - 1 /\ idx'[j] = idx[P[j]]
            OBVIOUS
        <3> QED
            BY <3>1, <2>2
    <2> QED
        BY <2>1, <2>2
<1>6. ASSUME NEW t \in Tokens
      PROVE  ReachesCutoff(t)' <=> \E j \in 0 .. k - 1 : idx'[j] = t
    <2>1. ReachesCutoff(t) <=> \E j \in 0 .. k - 1 : idx[j] = t
        BY DEF Scratch
    <2> QED
        BY <1>2, <1>5, <2>1
<1> QED
    BY <1>1, <1>3, <1>4, <1>6 DEF Scratch

\* Swap exchanges two entries and leaves the others.
LEMMA SwapMoves ==
    ASSUME TypeOK, NEW a \in 0 .. k - 1, NEW b \in 0 .. k - 1, Swap(a, b)
    PROVE  /\ \A j \in Tokens :
                 /\ prob'[j] = (IF j = a THEN prob[b] ELSE IF j = b THEN prob[a] ELSE prob[j])
                 /\ idx'[j] = (IF j = a THEN idx[b] ELSE IF j = b THEN idx[a] ELSE idx[j])
           /\ prob' \in [Tokens -> -1 .. Unit] /\ idx' \in [Tokens -> Tokens \cup {-1}]
<1>1. a \in Tokens /\ b \in Tokens
    BY SamplerAssumption DEF TypeOK, Tokens
<1>2. prob \in [Tokens -> -1 .. Unit] /\ idx \in [Tokens -> Tokens \cup {-1}]
    BY DEF TypeOK
<1> QED
    BY <1>1, <1>2 DEF Swap

\* Swap keeps the arrays in step.
LEMMA ScratchSwapped ==
    ASSUME TypeOK, Scratch, NEW a \in 0 .. k - 1, NEW b \in 0 .. k - 1, Swap(a, b),
           UNCHANGED <<s, logits, k>>
    PROVE  Scratch'
<1> DEFINE P == [j \in 0 .. k - 1 |-> IF j = a THEN b ELSE IF j = b THEN a ELSE j]
<1>1. 0 .. k - 1 \subseteq Tokens
    BY SamplerAssumption DEF TypeOK, Tokens
<1>2. P \in [0 .. k - 1 -> 0 .. k - 1] /\ \A j \in 0 .. k - 1 : P[P[j]] = j
    OBVIOUS
<1>3. \A j \in 0 .. k - 1 : idx'[j] = idx[P[j]] /\ prob'[j] = prob[P[j]]
    BY <1>1, SwapMoves
<1> HIDE DEF P
<1> QED
    BY <1>2, <1>3, ScratchMoved

-----------------------------------------------------------------------------
(* Heaps. *)

\* The root of a heap is its largest entry.
LEMMA HeapRoot ==
    ASSUME TypeOK, NEW m \in 1 .. k, HeapFrom(0, m)
    PROVE  \A c \in 0 .. m - 1 : prob[c] <= prob[0]
<1>0. /\ k \in Nat /\ k <= vocab_size /\ vocab_size \in Nat
      /\ \A j \in Tokens : prob[j] \in Int
      /\ 0 .. m - 1 \subseteq Tokens
    BY SamplerAssumption DEF TypeOK, Tokens
<1> DEFINE bad == {c \in 0 .. m - 1 : ~ (prob[c] <= prob[0])}
<1>1. SUFFICES ASSUME bad # {} PROVE FALSE
    OBVIOUS
<1>2. PICK c \in bad : \A d \in bad : c <= d
    <2>1. bad \subseteq Nat
        OBVIOUS
    <2> HIDE DEF bad
    <2> QED
        BY <1>1, <2>1, LeastElement
<1>3. c \in 0 .. m - 1 /\ ~ (prob[c] <= prob[0]) /\ c # 0 /\ 0 \in 0 .. m - 1
    BY <1>0
<1> DEFINE p == (c - 1) \div 2
<1>4. p \in 0 .. m - 1 /\ p < c /\ c \in Children(p)
    BY <1>3 DEF Children
<1> HIDE DEF p
<1>5. prob[p] >= prob[c]
    BY <1>3, <1>4 DEF HeapFrom
<1>6. p \notin bad
    BY <1>2, <1>3, <1>4
<1>7. prob[p] <= prob[0]
    BY <1>4, <1>6
<1>8. prob[p] \in Int /\ prob[c] \in Int /\ prob[0] \in Int
    BY <1>0, <1>3, <1>4
<1> QED
    BY <1>3, <1>5, <1>7, <1>8

\* What Biggest returns: the root if no child exceeds it, else a child that
\* exceeds it and that the other child does not exceed.
LEMMA BiggestIs ==
    ASSUME TypeOK, root < n
    PROVE  \/ Biggest = root /\ \A c \in Children(root) : c < n => prob[c] <= prob[root]
           \/ /\ Biggest # root /\ Biggest \in Children(root) /\ Biggest < n
              /\ prob[Biggest] > prob[root]
              /\ \A c \in Children(root) : c < n => prob[c] <= prob[Biggest]
<1>0. /\ root \in Nat /\ n \in Nat /\ n <= vocab_size /\ vocab_size \in Nat
      /\ \A j \in 0 .. n - 1 : prob[j] \in Int
    BY SamplerAssumption DEF TypeOK, Tokens
<1> DEFINE above == {c \in {2 * root + 1, 2 * root + 2} : c < n /\ prob[c] > prob[root]}
           Is(c) == \A o \in above : prob[c] > prob[o] \/ (prob[c] = prob[o] /\ c <= o)
           l == 2 * root + 1
           r == 2 * root + 2
<1>1. /\ l \in Nat /\ r \in Nat /\ l # root /\ r # root
      /\ Children(root) = {l, r} /\ root \in 0 .. n - 1
      /\ \A c \in Children(root) : c < n => c \in 0 .. n - 1
    BY <1>0 DEF Children
<1>2. \A c \in above : c \in {l, r} /\ c < n /\ prob[c] > prob[root] /\ prob[c] \in Int
    BY <1>0, <1>1
<1>3. CASE above = {}
    <2>1. Biggest = root
        BY <1>3 DEF Biggest
    <2>2. ASSUME NEW c \in Children(root), c < n PROVE prob[c] <= prob[root]
        <3>1. c \in {l, r} /\ c \notin above /\ c \in 0 .. n - 1
            BY <1>1, <1>3, <2>2
        <3>2. ~ (prob[c] > prob[root])
            BY <3>1, <2>2
        <3>3. prob[c] \in Int /\ prob[root] \in Int
            BY <1>0, <1>1, <3>1
        <3> QED
            BY <3>2, <3>3
    <2> QED
        BY <2>1, <2>2
<1>4. CASE above # {}
    <2>1. Biggest = CHOOSE c \in above : Is(c)
        BY <1>4 DEF Biggest
    <2>2. \E c \in above : Is(c)
        <3> HIDE DEF above
        <3>1. CASE above = {l}
            <4>1. prob[l] = prob[l] /\ l <= l
                BY <1>1
            <4>2. Is(l)
                BY <3>1, <4>1
            <4> QED
                BY <3>1, <4>2
        <3>2. CASE above = {r}
            <4>1. prob[r] = prob[r] /\ r <= r
                BY <1>1
            <4>2. Is(r)
                BY <3>2, <4>1
            <4> QED
                BY <3>2, <4>2
        <3>3. CASE above = {l, r}
            <4>1. prob[l] \in Int /\ prob[r] \in Int /\ l < r /\ l \in Int /\ r \in Int
                BY <3>3, <1>0, <1>2
            <4>2. CASE prob[l] >= prob[r]
                <5>1. \A o \in {l, r} : prob[l] > prob[o] \/ (prob[l] = prob[o] /\ l <= o)
                    <6> HIDE DEF l, r
                    <6> QED
                        BY <4>1, <4>2
                <5>2. Is(l)
                    BY <3>3, <5>1
                <5> QED
                    BY <3>3, <5>2
            <4>3. CASE ~ (prob[l] >= prob[r])
                <5>1. \A o \in {l, r} : prob[r] > prob[o] \/ (prob[r] = prob[o] /\ r <= o)
                    <6> HIDE DEF l, r
                    <6> QED
                        BY <4>1, <4>3
                <5>2. Is(r)
                    BY <3>3, <5>1
                <5> QED
                    BY <3>3, <5>2
            <4> QED
                BY <4>2, <4>3
        <3>4. above \subseteq {l, r}
            BY <1>2
        <3>5. above = {l} \/ above = {r} \/ above = {l, r}
            <4> HIDE DEF l, r
            <4> QED
                BY <1>4, <3>4
        <3> QED
            BY <3>1, <3>2, <3>3, <3>5
    <2>3. Biggest \in above /\ Is(Biggest)
        <3> HIDE DEF above, Is
        <3> QED
            BY <2>1, <2>2
    <2>4. /\ Biggest \in {l, r} /\ Biggest < n /\ prob[Biggest] > prob[root]
          /\ prob[Biggest] \in Int
        BY <1>2, <2>3
    <2>5. ASSUME NEW c \in Children(root), c < n PROVE prob[c] <= prob[Biggest]
        <3>1. prob[c] \in Int /\ prob[root] \in Int
            BY <1>0, <1>1, <2>5
        <3>2. CASE c \in above
            BY <3>1, <3>2, <2>3, <2>4
        <3>3. CASE c \notin above
            <4>1. ~ (prob[c] > prob[root])
                BY <3>3, <1>1, <2>5
            <4> QED
                BY <4>1, <3>1, <2>4
        <3> QED
            BY <3>2, <3>3
    <2> QED
        BY <1>1, <2>4, <2>5
<1> QED
    BY <1>3, <1>4

\* One turn of tq_sift: the hole moves down.
LEMMA SiftMoves ==
    ASSUME TypeOK, NEW lo \in Nat, NEW b, n <= k, lo <= root, root < n,
           HeapExcept(lo, n, root),
           b \in Children(root), b < n, prob[b] > prob[root],
           \A c \in Children(root) : c < n => prob[c] <= prob[b],
           Swap(root, b), n' = n
    PROVE  HeapExcept(lo, n, b)'
<1>0. /\ root \in Nat /\ n \in Nat /\ k \in Nat /\ k <= vocab_size /\ vocab_size \in Nat
      /\ \A j \in 0 .. n - 1 : prob[j] \in Int
      /\ 0 .. n - 1 \subseteq Tokens
    BY SamplerAssumption DEF TypeOK, Tokens
<1>1. b \in Nat /\ b \in 0 .. n - 1 /\ root \in 0 .. n - 1 /\ root < b /\ root # b
    BY <1>0 DEF Children
<1>2. \A j \in 0 .. n - 1 :
         prob'[j] = (IF j = root THEN prob[b] ELSE IF j = b THEN prob[root] ELSE prob[j])
    <2>1. root \in 0 .. k - 1 /\ b \in 0 .. k - 1
        BY <1>0, <1>1
    <2> QED
        BY <1>0, <2>1, SwapMoves
<1>3. ASSUME NEW p \in lo .. n - 1, NEW c \in Children(p), c < n, p # b
      PROVE  prob'[p] >= prob'[c]
    <2>1. p \in 0 .. n - 1 /\ c \in 0 .. n - 1 /\ c # p
        BY <1>0, <1>3 DEF Children
    <2>2. /\ prob[p] \in Int /\ prob[c] \in Int /\ prob[root] \in Int /\ prob[b] \in Int
        BY <1>0, <1>1, <2>1
    <2>3. CASE p = root
        <3>1. prob'[p] = prob[b] /\ c # root
            BY <1>2, <2>1, <2>3
        <3>2. prob[c] <= prob[b]
            BY <2>3, <1>3
        <3> QED
            BY <1>1, <1>2, <2>1, <2>2, <3>1, <3>2
    <2>4. CASE p # root /\ c = root
        <3>1. prob[p] >= prob[b]
            BY <2>4, <1>3, <1>1 DEF HeapExcept
        <3> QED
            BY <1>1, <1>2, <1>3, <2>1, <2>2, <2>4, <3>1
    <2>5. CASE p # root /\ c # root
        <3>1. c # b
            BY <2>5, <2>1, <1>0 DEF Children
        <3>2. prob[p] >= prob[c]
            BY <2>5, <1>3 DEF HeapExcept
        <3> QED
            BY <1>1, <1>2, <1>3, <2>1, <2>5, <3>1, <3>2
    <2> QED
        BY <2>3, <2>4, <2>5
<1>4. ASSUME NEW p \in lo .. n - 1, b \in Children(p), NEW c \in Children(b), c < n
      PROVE  prob'[p] >= prob'[c]
    <2>1. p = root
        BY <1>0, <1>4 DEF Children
    <2>2. c \in 0 .. n - 1 /\ c # root /\ c # b
        BY <1>0, <1>1, <1>4 DEF Children
    <2>3. prob[b] >= prob[c]
        <3>1. b \in lo .. n - 1
            BY <1>0, <1>1
        <3> QED
            BY <3>1, <1>1, <1>4 DEF HeapExcept
    <2> QED
        BY <1>1, <1>2, <2>1, <2>2, <2>3
<1> QED
    BY <1>3, <1>4 DEF HeapExcept

\* The hole is filled when no child exceeds it.
LEMMA SiftEnds ==
    ASSUME TypeOK, NEW lo, HeapExcept(lo, n, root),
           \A c \in Children(root) : c < n => prob[c] <= prob[root],
           root < n
    PROVE  HeapFrom(lo, n)
<1>1. ASSUME NEW p \in lo .. n - 1, NEW c \in Children(p), c < n
      PROVE  prob[p] >= prob[c]
    <2>1. CASE p = root
        <3>1. prob[c] <= prob[root]
            BY <1>1, <2>1
        <3>2. /\ root \in Nat /\ n \in Nat /\ n <= vocab_size /\ vocab_size \in Nat
              /\ \A j \in 0 .. n - 1 : prob[j] \in Int
            BY SamplerAssumption DEF TypeOK, Tokens
        <3>3. c \in 0 .. n - 1 /\ root \in 0 .. n - 1
            BY <1>1, <2>1, <3>2 DEF Children
        <3> QED
            BY <2>1, <3>1, <3>2, <3>3
    <2>2. CASE p # root
        BY <1>1, <2>2 DEF HeapExcept
    <2> QED
        BY <2>1, <2>2
<1> QED
    BY <1>1 DEF HeapFrom

-----------------------------------------------------------------------------
(* The weight of a set of tokens. *)

Part(S) == [t \in Tokens |-> IF t \in S THEN logits[t] ELSE 0]

\* A token adds its own weight, and the rest of the vocabulary is the rest of
\* the mass.
LEMMA MassOfParts ==
    ASSUME logits \in [Tokens -> 0 .. Unit], NEW S
    PROVE  /\ MassOf(S) \in Nat /\ Whole \in Nat /\ MassOf({}) = 0
           /\ \A t \in Tokens \ S : MassOf(S \cup {t}) = MassOf(S) + logits[t]
           /\ \A t \in Tokens \cap S : MassOf(S) = MassOf(S \ {t}) + logits[t]
           /\ Whole = MassOf(S) + MassOf(Tokens \ S)
           /\ \A t \in Tokens : logits[t] <= Whole
<1>0. vocab_size \in Nat /\ vocab_size > 0 /\ Unit \in Nat /\ Tokens = 0 .. vocab_size - 1
    BY SamplerAssumption DEF Tokens
<1>1. \A t \in Tokens : logits[t] \in Nat
    BY <1>0
<1>2. ASSUME NEW A PROVE MassOf(A) = Mass(Part(A), vocab_size)
    BY DEF MassOf, Part
<1>3. ASSUME NEW A PROVE \A t \in Tokens : /\ Part(A)[t] \in Nat
                                           /\ Part(A)[t] = IF t \in A THEN logits[t] ELSE 0
    BY <1>1 DEF Part
<1>4. ASSUME NEW A PROVE MassOf(A) \in Nat
    <2>1. \A j \in 0 .. vocab_size - 1 : Part(A)[j] \in Nat
        BY <1>0, <1>3
    <2>2. vocab_size \in 0 .. vocab_size
        BY <1>0
    <2> QED
        BY <1>0, <1>2, <2>1, <2>2, MassMono
<1>5. Whole \in Nat /\ \A t \in Tokens : logits[t] <= Whole
    <2>1. /\ \A a \in 0 .. vocab_size : Mass(logits, a) \in Nat
          /\ \A a, b \in 0 .. vocab_size : a <= b => Mass(logits, a) <= Mass(logits, b)
          /\ \A j \in 0 .. vocab_size - 1 : Mass(logits, j + 1) = Mass(logits, j) + logits[j]
        BY <1>0, <1>1, MassMono
    <2>2. vocab_size \in 0 .. vocab_size
        BY <1>0
    <2>3. ASSUME NEW t \in Tokens PROVE logits[t] <= Whole
        <3>1. t \in 0 .. vocab_size - 1 /\ t \in 0 .. vocab_size /\ t + 1 \in 0 .. vocab_size
            BY <1>0
        <3>2. Mass(logits, t + 1) <= Mass(logits, vocab_size)
            BY <2>1, <2>2, <3>1
        <3>3. Mass(logits, t) \in Nat /\ Mass(logits, t + 1) = Mass(logits, t) + logits[t]
            BY <2>1, <3>1
        <3>4. Mass(logits, vocab_size) \in Nat /\ logits[t] \in Nat
            BY <1>1, <2>1, <2>2
        <3> QED
            BY <3>2, <3>3, <3>4 DEF Whole
    <2> QED
        BY <2>1, <2>2, <2>3 DEF Whole
<1>6. MassOf({}) = 0
    <2>1. \A j \in 0 .. vocab_size - 1 :
             /\ Part({})[j] \in Nat /\ Part({})[j] = Part({})[j] + Part({})[j]
        BY <1>0, <1>3
    <2>2. MassOf({}) = MassOf({}) + MassOf({})
        BY <1>0, <1>2, <2>1, MassAdds, ZenonT(40)
    <2> QED
        BY <1>4, <2>2
<1>7. ASSUME NEW A, NEW t \in Tokens, t \notin A
      PROVE  MassOf(A \cup {t}) = MassOf(A) + logits[t]
    <2> DEFINE one == [j \in 0 .. vocab_size - 1 |-> IF j = t THEN logits[t] ELSE 0]
    <2>1. Mass(one, vocab_size) = logits[t]
        BY <1>0, <1>1, MassSingle
    <2>2. \A j \in 0 .. vocab_size - 1 : one[j] \in Nat /\ one[j] = IF j = t THEN logits[t] ELSE 0
        BY <1>1
    <2> HIDE DEF one
    <2>3. \A j \in 0 .. vocab_size - 1 :
             /\ Part(A)[j] \in Nat /\ one[j] \in Nat
             /\ Part(A \cup {t})[j] = Part(A)[j] + one[j]
        <3>1. ASSUME NEW j \in 0 .. vocab_size - 1
              PROVE  Part(A \cup {t})[j] = Part(A)[j] + one[j]
            <4>1. j \in Tokens
                BY <1>0
            <4>2. /\ Part(A)[j] = IF j \in A THEN logits[j] ELSE 0
                  /\ Part(A \cup {t})[j] = IF j \in A \cup {t} THEN logits[j] ELSE 0
                BY <4>1, <1>3
            <4>3. logits[j] \in Nat /\ one[j] = IF j = t THEN logits[t] ELSE 0
                BY <4>1, <1>1, <2>2
            <4> QED
                BY <4>2, <4>3, <1>7
        <3> QED
            BY <1>0, <1>3, <2>2, <3>1
    <2>4. Mass(Part(A \cup {t}), vocab_size) = Mass(Part(A), vocab_size) + Mass(one, vocab_size)
        <3>1. PICK f, g, h : f = Part(A) /\ g = one /\ h = Part(A \cup {t})
            OBVIOUS
        <3>2. \A j \in 0 .. vocab_size - 1 : f[j] \in Nat /\ g[j] \in Nat /\ h[j] = f[j] + g[j]
            BY <2>3, <3>1
        <3>3. Mass(h, vocab_size) = Mass(f, vocab_size) + Mass(g, vocab_size)
            BY <1>0, <3>2, MassAdds
        <3> QED
            BY <3>1, <3>3
    <2> QED
        BY <1>2, <2>1, <2>4
<1>8. ASSUME NEW t \in Tokens \cap S PROVE MassOf(S) = MassOf(S \ {t}) + logits[t]
    <2>1. (S \ {t}) \cup {t} = S /\ t \notin S \ {t} /\ t \in Tokens
        OBVIOUS
    <2>2. MassOf((S \ {t}) \cup {t}) = MassOf(S \ {t}) + logits[t]
        BY <1>7, <2>1
    <2> QED
        BY <2>1, <2>2
<1>9. Whole = MassOf(S) + MassOf(Tokens \ S)
    <2>1. ASSUME NEW j \in 0 .. vocab_size - 1
          PROVE  /\ Part(S)[j] \in Nat /\ Part(Tokens \ S)[j] \in Nat
                 /\ logits[j] = Part(S)[j] + Part(Tokens \ S)[j]
        <3>1. j \in Tokens
            BY <1>0
        <3>2. /\ Part(S)[j] = IF j \in S THEN logits[j] ELSE 0
              /\ Part(Tokens \ S)[j] = IF j \in Tokens \ S THEN logits[j] ELSE 0
              /\ logits[j] \in Nat
            BY <3>1, <1>1, <1>3
        <3> QED
            BY <3>1, <3>2
    <2>2. Mass(logits, vocab_size)
            = Mass(Part(S), vocab_size) + Mass(Part(Tokens \ S), vocab_size)
        <3>1. PICK f, g, h : f = Part(S) /\ g = Part(Tokens \ S) /\ h = logits
            OBVIOUS
        <3>2. \A j \in 0 .. vocab_size - 1 : f[j] \in Nat /\ g[j] \in Nat /\ h[j] = f[j] + g[j]
            BY <2>1, <3>1
        <3>3. Mass(h, vocab_size) = Mass(f, vocab_size) + Mass(g, vocab_size)
            BY <1>0, <3>2, MassAdds
        <3> QED
            BY <3>1, <3>3
    <2> QED
        BY <1>2, <2>2 DEF Whole
<1> QED
    BY <1>4, <1>5, <1>6, <1>7, <1>8, <1>9

Held(m) == {idx[j] : j \in 0 .. m - 1}

\* The first m candidates weigh what their entries say.
LEMMA MassOfHeld ==
    ASSUME TypeOK, Scratch, logits \in [Tokens -> 0 .. Unit], NEW m \in 0 .. k
    PROVE  MassOf(Held(m)) = Mass(prob, m)
<1>0. /\ k \in Nat /\ k <= vocab_size /\ Unit \in Nat
      /\ \A j \in 0 .. k - 1 : idx[j] \in Tokens /\ prob[j] = logits[idx[j]] /\ prob[j] \in Nat
    BY SamplerAssumption DEF TypeOK, Scratch
<1>1. /\ Mass(prob, 0) = 0
      /\ \A j \in 0 .. k - 1 : Mass(prob, j + 1) = Mass(prob, j) + prob[j]
    BY <1>0, MassMono
<1> DEFINE S == {q \in Nat : q <= k => MassOf(Held(q)) = Mass(prob, q)}
<1>2. 0 \in S
    <2>1. Held(0) = {}
        BY DEF Held
    <2> QED
        BY <1>1, <2>1, MassOfParts
<1>3. ASSUME NEW q \in Nat, q \in S PROVE q + 1 \in S
    <2>1. SUFFICES ASSUME q + 1 <= k PROVE MassOf(Held(q + 1)) = Mass(prob, q + 1)
        OBVIOUS
    <2>2. q \in 0 .. k - 1 /\ MassOf(Held(q)) = Mass(prob, q)
        BY <1>0, <1>3, <2>1
    <2>3. Held(q + 1) = Held(q) \cup {idx[q]}
        <3>1. 0 .. (q + 1) - 1 = (0 .. q - 1) \cup {q}
            OBVIOUS
        <3> QED
            BY <3>1 DEF Held
    <2>4. idx[q] \in Tokens \ Held(q)
        <3>1. ASSUME NEW j \in 0 .. q - 1, idx[j] = idx[q] PROVE FALSE
            <4>1. j \in 0 .. k - 1 /\ j # q
                BY <1>0, <2>2
            <4> QED
                BY <4>1, <2>2, <3>1 DEF Scratch
        <3> QED
            BY <1>0, <2>2, <3>1 DEF Held
    <2>5. MassOf(Held(q) \cup {idx[q]}) = MassOf(Held(q)) + logits[idx[q]]
        BY <2>4, MassOfParts
    <2> QED
        BY <1>0, <1>1, <2>2, <2>3, <2>5
<1>4. m \in S
    <2> HIDE DEF S
    <2>1. m \in Nat
        BY <1>0
    <2> QED
        BY <1>2, <1>3, <2>1, SetInduction
<1> QED
    BY <1>0, <1>4

\* The tokens that were dropped, each below the cutoff, are together too light
\* to be needed for topp: the candidates exceed it.
LEMMA EnoughKept ==
    ASSUME TypeOK, Scratch, Weighted, NucleusOn, k >= 1
    PROVE  Above(k)
<1>0. /\ vocab_size \in Nat /\ vocab_size >= 1 /\ k \in Nat /\ k <= vocab_size
      /\ Unit \in Nat /\ Unit > 0 /\ ToppUnit \in Nat /\ ToppUnit > 0
      /\ s.topp \in Int /\ 0 < s.topp /\ s.topp < ToppUnit
      /\ Tokens = 0 .. vocab_size - 1
      /\ logits \in [Tokens -> 0 .. Unit]
    BY SamplerAssumption DEF TypeOK, Tokens, Weighted, NucleusOn
<1> DEFINE rest == Tokens \ Held(k)
           c == (ToppUnit - s.topp) * Whole
           D == ToppUnit * (vocab_size - 1)
<1>1. Whole \in Nat /\ Whole > 0
    <2>1. PICK t \in Tokens : logits[t] = Unit
        BY DEF Weighted
    <2>2. Whole \in Nat /\ logits[t] <= Whole
        BY <1>0, MassOfParts
    <2> QED
        BY <1>0, <2>1, <2>2
<1>2. c \in Nat /\ c >= 1 /\ D \in Nat
    <2>1. ToppUnit - s.topp \in Nat /\ ToppUnit - s.topp >= 1
        BY <1>0
    <2>2. (ToppUnit - s.topp) * Whole \in Nat /\ (ToppUnit - s.topp) * Whole >= 1
        BY <1>1, <2>1
    <2>3. vocab_size - 1 \in Nat
        BY <1>0
    <2> QED
        BY <1>0, <2>2, <2>3
<1>3. idx[0] \in Tokens /\ idx[0] \in Held(k)
    <2>1. 0 \in 0 .. k - 1
        BY <1>0
    <2> QED
        BY <2>1 DEF Scratch, Held
<1> HIDE DEF c, D
<1>4. \A j \in 0 .. vocab_size - 1 : Part(rest)[j] \in Nat /\ Part(rest)[j] * D <= c - 1
    <2>1. SUFFICES ASSUME NEW j \in 0 .. vocab_size - 1
                   PROVE  Part(rest)[j] \in Nat /\ Part(rest)[j] * D <= c - 1
        OBVIOUS
    <2>2. j \in Tokens /\ logits[j] \in Nat
        BY <1>0
    <2>3. CASE j \in rest
        <3>1. Part(rest)[j] = logits[j]
            BY <2>2, <2>3 DEF Part
        <3>2. ~ ReachesCutoff(j)
            <4>1. ~ \E o \in 0 .. k - 1 : idx[o] = j
                BY <2>3 DEF Held
            <4> QED
                BY <2>2, <4>1 DEF Scratch
        <3>3. ~ (logits[j] * ToppUnit * (vocab_size - 1) >= c)
            BY <3>2 DEF ReachesCutoff, c
        <3>4. logits[j] * ToppUnit * (vocab_size - 1) = logits[j] * D
            BY <1>0, <2>2 DEF D
        <3>5. logits[j] * D \in Nat
            BY <1>2, <2>2
        <3> QED
            BY <1>2, <2>2, <3>1, <3>3, <3>4, <3>5
    <2>4. CASE j \notin rest
        <3>1. Part(rest)[j] = 0
            BY <2>2, <2>4 DEF Part
        <3> QED
            BY <1>2, <3>1
    <2> QED
        BY <2>3, <2>4
<1>5. Part(rest)[idx[0]] = 0
    BY <1>3 DEF Part
<1>6. MassOf(rest) \in Nat /\ MassOf(rest) * D <= (c - 1) * (vocab_size - 1)
    <2>1. c - 1 \in Nat /\ idx[0] \in 0 .. vocab_size - 1
        BY <1>0, <1>2, <1>3
    <2>2. MassOf(rest) = Mass(Part(rest), vocab_size)
        BY DEF MassOf, Part
    <2> HIDE DEF rest
    <2> QED
        BY <1>0, <1>2, <1>4, <1>5, <2>1, <2>2, MassBelow
<1>7. MassOf(rest) * ToppUnit < c
    <2>1. CASE vocab_size = 1
        <3>1. idx[0] = 0 /\ Tokens = {0}
            BY <1>0, <1>3, <2>1
        <3>2. rest = {}
            BY <1>3, <3>1
        <3>3. MassOf(rest) = 0
            BY <1>0, <3>2, MassOfParts
        <3> QED
            BY <1>0, <1>2, <3>3
    <2>2. CASE vocab_size > 1
        <3>1. PICK R \in Nat : R = MassOf(rest)
            BY <1>6
        <3>2. PICK M \in Nat : M = vocab_size - 1
            BY <1>0
        <3>3. M >= 1 /\ R * (ToppUnit * M) <= (c - 1) * M
            BY <1>0, <1>6, <2>2, <3>1, <3>2 DEF D
        <3>4. R * ToppUnit \in Nat /\ R * (ToppUnit * M) = (R * ToppUnit) * M
            BY <1>0
        <3>5. PICK X \in Nat : X = R * ToppUnit
            BY <3>4
        <3>6. X * M <= (c - 1) * M
            BY <3>3, <3>4, <3>5
        <3>7. X <= c - 1
            BY <1>2, <3>3, <3>6
        <3> QED
            BY <1>2, <3>1, <3>5, <3>7
    <2> QED
        BY <1>0, <2>1, <2>2
<1>8. Whole = MassOf(Held(k)) + MassOf(rest) /\ MassOf(Held(k)) \in Nat
    BY <1>0, MassOfParts
<1>9. MassOf(Held(k)) = Mass(prob, k)
    <2>1. k \in 0 .. k
        BY <1>0
    <2> QED
        BY <1>0, <2>1, MassOfHeld
<1> HIDE DEF rest
<1>10. PICK H \in Nat, R \in Nat, W \in Nat, T \in Nat, U \in Nat :
            /\ H = Mass(prob, k) /\ R = MassOf(rest) /\ W = Whole
            /\ T = s.topp /\ U = ToppUnit
    BY <1>0, <1>1, <1>6, <1>8, <1>9
<1>11. W = H + R /\ R * U < (U - T) * W
    BY <1>7, <1>8, <1>9, <1>10 DEF c
<1>12. H * U > T * W
    <2>1. H * U = W * U - R * U /\ (U - T) * W = W * U - T * W
        BY <1>11
    <2>2. W * U \in Int /\ R * U \in Int /\ T * W \in Int /\ H * U \in Int
        OBVIOUS
    <2> QED
        BY <1>11, <2>1, <2>2
<1> QED
    BY <1>10, <1>12 DEF Above

-----------------------------------------------------------------------------
(* Every step keeps the invariant. *)

\* Numbers and ranges behind the type invariant.
LEMMA Sizes ==
    ASSUME TypeOK
    PROVE  /\ vocab_size \in Nat /\ vocab_size >= 1 /\ Unit \in Nat /\ Unit >= 1
           /\ ToppUnit \in Nat /\ ToppUnit >= 1
           /\ k \in Nat /\ k <= vocab_size /\ i \in Int /\ n \in Nat /\ root \in Nat
           /\ last \in Nat /\ last < vocab_size
           /\ 0 .. k - 1 \subseteq Tokens /\ 0 \in Tokens
           /\ s.inv_t \in Nat /\ s.topp \in Int
           /\ \A j \in Tokens : prob[j] \in Int
           /\ \A j : j \in Tokens <=> j \in Nat /\ j < vocab_size
    BY SamplerAssumption DEF TypeOK, Tokens

\* A fresh call.
LEMMA InitInv == Init => Inv
<1> SUFFICES ASSUME Init PROVE Inv
    OBVIOUS
<1>1. vocab_size \in Nat /\ vocab_size >= 1 /\ Unit \in Nat /\ 0 \in Tokens
    BY SamplerAssumption DEF Tokens
<1>2. logits \in [Tokens -> Int]
    BY SamplerAssumption DEF Init
<1>3. TypeOK
    BY <1>1, <1>2 DEF Init, TypeOK
<1> QED
    BY <1>3 DEF Init, Inv, Working, Sorting, ScratchInStep, HeapInv, CutInv

\* A call that returns leaves nothing to keep but the types.
LEMMA ReturnInv ==
    ASSUME Inv, NEW t \in Tokens, Return(t),
           UNCHANGED <<s, logits, prob, idx, k, i, root, n, ret, last>>
    PROVE  Inv'
<1>1. TypeOK'
    BY DEF Inv, TypeOK, Return
<1> QED
    BY <1>1 DEF Return, Inv, Working, Sorting, ScratchInStep, HeapInv, CutInv

\* Greedy sampling.
LEMMA GreedyInv ==
    ASSUME Inv, Greedy
    PROVE  Inv'
<1>1. tq_argmax(logits) \in Tokens
    BY ArgmaxExists DEF Inv, TypeOK
<1> QED
    BY <1>1, ReturnInv DEF Greedy, sortVars

\* The product of naturals is one.
LEMMA ProductNat ==
    ASSUME NEW a \in Nat, NEW b \in Nat
    PROVE  a * b \in Nat /\ (b = 0 => a * b = 0)
    OBVIOUS

\* Softmax.
LEMMA SoftmaxInv ==
    ASSUME Inv, Softmax
    PROVE  Inv'
<1> DEFINE top == tq_argmax(logits)
<1>1. /\ pc = "softmax" /\ s.inv_t > 0 /\ pc' = "choose"
      /\ logits' = [t \in Tokens |-> Halved(s.inv_t * (logits[top] - logits[t]))]
      /\ UNCHANGED <<s, prob, idx, k, i, root, n, ret, last, token>>
    BY DEF Softmax, sortVars
<1>2. logits \in [Tokens -> Int] /\ s.inv_t \in Nat /\ Unit \in Nat
    BY Sizes DEF Inv, TypeOK
<1>3. top \in Tokens /\ \A t \in Tokens : logits[t] <= logits[top]
    BY <1>2, ArgmaxExists
<1> HIDE DEF top
<1>4. ASSUME NEW t \in Tokens
      PROVE  /\ s.inv_t * (logits[top] - logits[t]) \in Nat
             /\ t = top => s.inv_t * (logits[top] - logits[t]) = 0
    <2>1. logits[top] - logits[t] \in Nat /\ (t = top => logits[top] - logits[t] = 0)
        BY <1>2, <1>3
    <2> QED
        BY <1>2, <2>1, ProductNat
<1>5. logits' \in [Tokens -> 0 .. Unit] /\ logits'[top] = Unit
    <2>1. ASSUME NEW t \in Tokens
          PROVE  /\ Halved(s.inv_t * (logits[top] - logits[t])) \in 0 .. Unit
                 /\ t = top => Halved(s.inv_t * (logits[top] - logits[t])) = Unit
        BY <1>4, HalvedType
    <2> QED
        BY <1>1, <1>3, <2>1
<1>6. Weighted'
    BY <1>3, <1>5 DEF Weighted
<1>7. logits' \in [Tokens -> Int]
    BY <1>2, <1>5
<1>8. TypeOK'
    BY <1>1, <1>7 DEF Inv, TypeOK
<1> QED
    BY <1>1, <1>6, <1>8 DEF Inv, Working, Sorting, ScratchInStep, HeapInv, CutInv

\* Sampling from the whole vocabulary.
LEMMA MultinomialInv ==
    ASSUME Inv, Multinomial
    PROVE  Inv'
<1>1. PICK cell \in 0 .. Whole - 1 : Return(Walk(logits, cell))
    BY DEF Multinomial
<1>2. pc = "choose" /\ logits \in [Tokens -> 0 .. Unit]
    BY DEF Multinomial, Inv, Working, Weighted
<1>3. Walk(logits, cell) \in Tokens
    <2>1. vocab_size \in 1 .. vocab_size /\ \A j \in 0 .. vocab_size - 1 : logits[j] \in Nat
        BY <1>2, Sizes, SMTT(30) DEF Inv, Tokens
    <2>2. DOMAIN logits = Tokens /\ cell \in 0 .. Mass(logits, vocab_size) - 1
        BY <1>2 DEF Whole
    <2> QED
        BY <2>1, <2>2, WalkEnds
<1> QED
    BY <1>1, <1>3, ReturnInv DEF Multinomial, sortVars

\* The candidates.
LEMMA FilterInv ==
    ASSUME Inv, Filter
    PROVE  Inv'
<1> DEFINE kept == {t \in Tokens : ReachesCutoff(t)}
           num  == Cardinality(kept)
           nth(j) == CHOOSE t \in kept : Cardinality({o \in kept : o < t}) = j
<1>1. /\ pc = "choose" /\ NucleusOn
      /\ idx'  = [j \in Tokens |-> IF j < num THEN nth(j) ELSE idx[j]]
      /\ prob' = [j \in Tokens |-> IF j < num THEN logits[nth(j)] ELSE prob[j]]
      /\ k' = num
      /\ IF num = 0
         THEN Return(tq_argmax(logits)) /\ UNCHANGED i
         ELSE i' = (num \div 2) - 1 /\ pc' = "build" /\ UNCHANGED token
      /\ UNCHANGED <<s, logits, root, n, ret, last>>
    BY DEF Filter
<1>2. TypeOK /\ k = 0 /\ Weighted /\ s.inv_t > 0 /\ kept \subseteq Tokens
    BY <1>1 DEF Inv, Working
<1>3. /\ num \in 0 .. vocab_size
      /\ \A t \in kept : Rank(kept, t) \in 0 .. num - 1
      /\ \A t, u \in kept : Rank(kept, t) = Rank(kept, u) => t = u
      /\ \A j \in 0 .. num - 1 : \E t \in kept : Rank(kept, t) = j
    <2> HIDE DEF kept
    <2> QED
        BY <1>2, Ranks
<1>4. \A j : nth(j) = CHOOSE t \in kept : Rank(kept, t) = j
    BY DEF Rank
<1>5. \A t \in Tokens : t \in kept <=> ReachesCutoff(t)
    OBVIOUS
<1> HIDE DEF kept, num, nth
<1>6. ASSUME NEW j \in 0 .. num - 1
      PROVE  nth(j) \in kept /\ nth(j) \in Tokens /\ Rank(kept, nth(j)) = j
    <2>1. \E t \in kept : Rank(kept, t) = j
        BY <1>3
    <2> QED
        BY <1>2, <1>4, <2>1
<1>7. num \in Nat /\ num <= vocab_size /\ vocab_size \in Nat /\ vocab_size >= 1 /\ Unit \in Nat
    BY <1>2, <1>3, Sizes
<1>8. \A j \in Tokens : j < num => j \in 0 .. num - 1
    BY <1>7 DEF Tokens
<1>9. \A j \in 0 .. num - 1 : j \in Tokens /\ idx'[j] = nth(j) /\ prob'[j] = logits[nth(j)]
    <2>1. \A j \in 0 .. num - 1 : j \in Tokens /\ j < num
        BY <1>7 DEF Tokens
    <2> QED
        BY <1>1, <2>1
<1>10. prob' \in [Tokens -> -1 .. Unit] /\ idx' \in [Tokens -> Tokens \cup {-1}]
    <2>1. /\ prob \in [Tokens -> -1 .. Unit] /\ idx \in [Tokens -> Tokens \cup {-1}]
          /\ logits \in [Tokens -> 0 .. Unit]
        BY <1>2 DEF TypeOK, Weighted
    <2>2. \A j \in Tokens : j < num => nth(j) \in Tokens /\ logits[nth(j)] \in -1 .. Unit
        BY <1>6, <1>7, <1>8, <2>1
    <2> QED
        BY <1>1, <2>1, <2>2
<1>11. \A t : ReachesCutoff(t)' <=> ReachesCutoff(t)
    BY <1>1 DEF ReachesCutoff, Whole
<1>12. Scratch'
    <2>1. \A j \in 0 .. num - 1 : idx'[j] \in Tokens /\ prob'[j] = logits'[idx'[j]]
        BY <1>1, <1>6, <1>9
    <2>2. ASSUME NEW j \in 0 .. num - 1, NEW m \in 0 .. num - 1, idx'[j] = idx'[m]
          PROVE  j = m
        BY <1>6, <1>9, <2>2
    <2>3. ASSUME NEW t \in Tokens
          PROVE  ReachesCutoff(t) <=> \E j \in 0 .. num - 1 : idx'[j] = t
        <3>1. ASSUME t \in kept PROVE \E j \in 0 .. num - 1 : idx'[j] = t
            <4>1. Rank(kept, t) \in 0 .. num - 1
                BY <1>3, <3>1
            <4>2. /\ Rank(kept, nth(Rank(kept, t))) = Rank(kept, t)
                  /\ nth(Rank(kept, t)) \in kept
                BY <1>6, <4>1
            <4>3. nth(Rank(kept, t)) = t
                BY <1>3, <3>1, <4>2
            <4> QED
                BY <1>9, <4>1, <4>3
        <3>2. ASSUME NEW j \in 0 .. num - 1, idx'[j] = t PROVE t \in kept
            BY <1>6, <1>9, <3>2
        <3> QED
            BY <1>5, <3>1, <3>2
    <2> QED
        BY <1>1, <1>11, <2>1, <2>2, <2>3 DEF Scratch
<1>13. CASE num = 0
    <2>1. pc' = "done" /\ token' = tq_argmax(logits) /\ i' = i
        BY <1>1, <1>13 DEF Return
    <2>2. tq_argmax(logits) \in Tokens
        BY <1>2, ArgmaxExists DEF TypeOK
    <2>3. TypeOK'
        BY <1>1, <1>2, <1>7, <1>10, <2>1, <2>2 DEF TypeOK
    <2> QED
        BY <2>1, <2>3 DEF Inv, Working, Sorting, ScratchInStep, HeapInv, CutInv
<1>14. CASE num # 0
    <2>1. pc' = "build" /\ token' = token /\ i' = (num \div 2) - 1
        BY <1>1, <1>14
    <2>2. i' \in -1 .. vocab_size - 1 /\ i' < num /\ 2 * (i' + 1) + 1 >= num /\ i' + 1 \in Nat
        BY <1>7, <1>14, <2>1
    <2>3. TypeOK'
        BY <1>1, <1>2, <1>7, <1>10, <2>1, <2>2 DEF TypeOK
    <2>4. HeapFrom(i + 1, k)'
        <3>0. PICK q \in Nat : q = i' + 1 /\ 2 * q + 1 >= num
            BY <2>2
        <3>1. ASSUME NEW p \in q .. num - 1, NEW c \in Children(p) PROVE ~ (c < num)
            BY <1>7, <3>0 DEF Children
        <3> QED
            BY <1>1, <3>0, <3>1 DEF HeapFrom
    <2>5. HeapInv'
        BY <1>1, <2>1, <2>2, <2>4 DEF HeapInv
    <2>6. NucleusOn' /\ k' >= 1 /\ Weighted' /\ s'.inv_t > 0
        BY <1>1, <1>2, <1>7, <1>14 DEF NucleusOn, Weighted
    <2>7. ScratchInStep'
        BY <1>12 DEF Scratch, ScratchInStep
    <2> QED
        BY <2>1, <2>3, <2>5, <2>6, <2>7 DEF Inv, Working, Sorting, CutInv
<1> QED
    BY <1>13, <1>14

\* The invariant while the arrays are sorted, in one piece.
LEMMA SortingInv ==
    ASSUME Inv, Sorting
    PROVE  /\ TypeOK /\ s.inv_t > 0 /\ Weighted /\ NucleusOn /\ k >= 1 /\ Scratch
    BY DEF Inv, Sorting, Working, ScratchInStep, Scratch

\* The parts of it that a step of the sort has to keep.
LEMMA SortStep ==
    ASSUME Inv, Sorting, Sorting', UNCHANGED <<s, logits, k>>,
           TypeOK', Scratch', HeapInv', CutInv'
    PROVE  Inv'
<1>1. s.inv_t > 0 /\ Weighted /\ NucleusOn /\ k >= 1
    BY SortingInv
<1>2. s'.inv_t > 0 /\ Weighted' /\ NucleusOn' /\ k' >= 1
    BY <1>1 DEF Weighted, NucleusOn
<1>3. ScratchInStep'
    BY DEF ScratchInStep, Scratch
<1>4. pc' \notin {"softmax", "choose"}
    BY DEF Sorting
<1> QED
    BY <1>2, <1>3, <1>4 DEF Inv

\* The first loop of the sort.
LEMMA BuildInv ==
    ASSUME Inv, Build
    PROVE  Inv'
<1>1. /\ pc = "build" /\ UNCHANGED <<s, logits, prob, idx, k, last, token>>
      /\ IF i >= 0
         THEN Sifting(i, k, "build") /\ i' = i - 1
         ELSE pc' = "pop" /\ i' = k - 1 /\ UNCHANGED <<root, n, ret>>
    BY DEF Build
<1>2. Sorting /\ TypeOK /\ Scratch /\ k >= 1 /\ HeapFrom(i + 1, k) /\ i < k
    BY <1>1, SortingInv DEF Sorting, Inv, HeapInv
<1>3. /\ k \in Nat /\ k <= vocab_size /\ i \in Int /\ i >= -1 /\ vocab_size \in Nat
      /\ 0 .. k - 1 \subseteq Tokens
    BY <1>2, Sizes DEF TypeOK
<1>4. Scratch'
    BY <1>1, <1>2 DEF Scratch, ReachesCutoff, Whole
<1>5. CASE i >= 0
    <2>1. root' = i /\ n' = k /\ ret' = "build" /\ pc' = "sift" /\ i' = i - 1
        BY <1>1, <1>5 DEF Sifting
    <2>2. i \in Tokens
        BY <1>2, <1>3, <1>5
    <2>3. TypeOK'
        BY <1>1, <1>2, <1>3, <1>5, <2>1, <2>2 DEF TypeOK
    <2>4. HeapExcept(i, k, i)
        <3>1. ASSUME NEW p \in i .. k - 1, NEW c \in Children(p), c < k, p # i
              PROVE  prob[p] >= prob[c]
            <4>1. p \in i + 1 .. k - 1
                BY <1>3, <3>1
            <4> QED
                BY <1>2, <3>1, <4>1 DEF HeapFrom
        <3>2. ASSUME NEW p \in i .. k - 1 PROVE i \notin Children(p)
            BY <1>3, <1>5 DEF Children
        <3> QED
            BY <3>1, <3>2 DEF HeapExcept
    <2>5. HeapExcept(i + 1, k, root)'
        <3>1. i' + 1 = i
            BY <1>3, <2>1
        <3> QED
            BY <1>1, <2>1, <2>4, <3>1 DEF HeapExcept
    <2>6. HeapInv'
        BY <1>1, <1>2, <1>3, <2>1, <2>5 DEF HeapInv
    <2> QED
        BY <1>1, <1>2, <1>4, <2>1, <2>3, <2>6, SortStep DEF Sorting, CutInv
<1>6. CASE ~ (i >= 0)
    <2>1. pc' = "pop" /\ i' = k - 1 /\ UNCHANGED <<root, n, ret>> /\ i + 1 = 0
        BY <1>1, <1>3, <1>6
    <2>2. TypeOK'
        BY <1>1, <1>2, <1>3, <2>1 DEF TypeOK
    <2>3. 0 <= i' /\ i' < k /\ i' + 1 = k
        BY <1>2, <1>3, <2>1
    <2>4. HeapFrom(0, i + 1)'
        BY <1>1, <1>2, <2>1, <2>3 DEF HeapFrom
    <2>5. SortedTail(i + 1)'
        <3>1. \A b \in k .. k - 1 : FALSE
            BY <1>3
        <3> QED
            BY <1>1, <2>3, <3>1 DEF SortedTail
    <2>6. HeapInv'
        BY <1>1, <2>1, <2>3, <2>4, <2>5 DEF HeapInv
    <2> QED
        BY <1>1, <1>2, <1>4, <2>1, <2>2, <2>6, SortStep DEF Sorting, CutInv
<1> QED
    BY <1>5, <1>6

\* Moving entries below m keeps the tail behind them sorted.
LEMMA TailKept ==
    ASSUME TypeOK, NEW a \in 0 .. k - 1, NEW b \in 0 .. k - 1, Swap(a, b), k' = k,
           NEW m \in 0 .. k, a < m, b < m, SortedTail(m)
    PROVE  \A x \in 0 .. k - 1, y \in m .. k - 1 : x <= y => prob'[x] <= prob'[y]
<1>0. k \in Nat /\ 0 .. k - 1 \subseteq Tokens
    BY Sizes
<1>1. SUFFICES ASSUME NEW x \in 0 .. k - 1, NEW y \in m .. k - 1, x <= y
               PROVE  prob'[x] <= prob'[y]
    OBVIOUS
<1>2. y \in 0 .. k - 1 /\ y # a /\ y # b /\ a <= y /\ b <= y
    BY <1>0, <1>1
<1>3. prob'[y] = prob[y]
    BY <1>0, <1>2, SwapMoves
<1>4. prob'[x] = (IF x = a THEN prob[b] ELSE IF x = b THEN prob[a] ELSE prob[x])
    BY <1>0, SwapMoves
<1>5. prob[a] <= prob[y] /\ prob[b] <= prob[y] /\ prob[x] <= prob[y]
    BY <1>1, <1>2 DEF SortedTail
<1> QED
    BY <1>3, <1>4, <1>5

\* A turn of tq_sift.
LEMMA SiftInv ==
    ASSUME Inv, Sift
    PROVE  Inv'
<1>1. /\ pc = "sift"
      /\ IF Biggest = root
         THEN pc' = ret /\ UNCHANGED <<prob, idx, root>>
         ELSE Swap(root, Biggest) /\ root' = Biggest /\ UNCHANGED pc
      /\ UNCHANGED <<s, logits, k, i, n, ret, last, token>>
    BY DEF Sift
<1>2. Sorting /\ TypeOK /\ Scratch /\ k >= 1
    BY <1>1, SortingInv DEF Sorting
<1>3. /\ k \in Nat /\ k <= vocab_size /\ i \in Int /\ i >= -1 /\ vocab_size \in Nat
      /\ n \in Nat /\ root \in Nat /\ 0 .. k - 1 \subseteq Tokens /\ ret \in {"build", "pop"}
    BY <1>2, Sizes DEF TypeOK
<1> DEFINE lo == IF ret = "build" THEN i + 1 ELSE 0
<1>4. /\ lo \in Nat /\ lo <= root /\ root < n /\ n <= k /\ HeapExcept(lo, n, root)
      /\ ret = "build" => n = k
      /\ ret = "pop" => n = i + 1 /\ n < k /\ SortedTail(n)
    BY <1>1, <1>3 DEF Inv, HeapInv
<1>5. root \in 0 .. k - 1 /\ n \in 0 .. k
    BY <1>3, <1>4
<1>6. CASE Biggest = root
    <2>1. pc' = ret /\ UNCHANGED <<prob, idx, root, s, logits, k, i, n, ret, last, token>>
        BY <1>1, <1>6
    <2>2. \A c \in Children(root) : c < n => prob[c] <= prob[root]
        BY <1>2, <1>4, <1>6, BiggestIs
    <2>3. HeapFrom(lo, n)
        <3> HIDE DEF lo
        <3> QED
            BY <1>2, <1>4, <2>2, SiftEnds
    <2>4. TypeOK'
        BY <1>2, <2>1 DEF TypeOK
    <2>5. Scratch'
        BY <1>2, <2>1 DEF Scratch, ReachesCutoff, Whole
    <2>6. CASE ret = "build"
        <3>1. HeapFrom(i + 1, k) /\ pc' = "build" /\ i < k
            BY <1>3, <1>4, <2>1, <2>3, <2>6
        <3>2. HeapFrom(i + 1, k)'
            BY <2>1, <3>1 DEF HeapFrom
        <3>3. HeapInv'
            BY <2>1, <3>1, <3>2 DEF HeapInv
        <3> QED
            BY <1>2, <2>1, <2>4, <2>5, <3>1, <3>3, SortStep DEF Sorting, CutInv
    <2>7. CASE ret = "pop"
        <3>1. HeapFrom(0, i + 1) /\ pc' = "pop" /\ i < k /\ 0 <= i /\ SortedTail(i + 1)
            BY <1>3, <1>4, <2>1, <2>3, <2>7
        <3>2. HeapFrom(0, i + 1)' /\ SortedTail(i + 1)'
            BY <2>1, <3>1 DEF HeapFrom, SortedTail
        <3>3. HeapInv'
            BY <2>1, <3>1, <3>2 DEF HeapInv
        <3> QED
            BY <1>2, <2>1, <2>4, <2>5, <3>1, <3>3, SortStep DEF Sorting, CutInv
    <2> QED
        BY <1>3, <2>6, <2>7
<1>7. CASE Biggest # root
    <2>1. PICK b : b = Biggest
        OBVIOUS
    <2>2. /\ Swap(root, b) /\ root' = b /\ pc' = "sift"
          /\ UNCHANGED <<s, logits, k, i, n, ret, last, token>>
        BY <1>1, <1>7, <2>1
    <2>3. /\ b \in Children(root) /\ b < n /\ prob[b] > prob[root]
          /\ \A c \in Children(root) : c < n => prob[c] <= prob[b]
        BY <1>2, <1>4, <1>7, <2>1, BiggestIs
    <2>4. b \in Nat /\ root < b /\ b \in 0 .. k - 1
        BY <1>3, <1>4, <2>3 DEF Children
    <2>5. HeapExcept(lo, n, b)'
        <3>1. PICK low \in Nat : low = lo
            BY <1>4
        <3>2. HeapExcept(low, n, b)'
            <4> HIDE DEF lo
            <4> QED
                BY <1>2, <1>4, <2>2, <2>3, <3>1, SiftMoves
        <3>3. lo' = low
            BY <2>2, <3>1
        <3> QED
            BY <3>2, <3>3 DEF HeapExcept
    <2>6. Scratch'
        BY <1>2, <1>5, <2>2, <2>4, ScratchSwapped
    <2>7. prob' \in [Tokens -> -1 .. Unit] /\ idx' \in [Tokens -> Tokens \cup {-1}]
        BY <1>2, <1>5, <2>2, <2>4, SwapMoves
    <2>8. TypeOK'
        BY <1>2, <1>3, <2>2, <2>4, <2>7 DEF TypeOK
    <2>9. CASE ret = "build"
        <3>1. HeapExcept(i + 1, k, root)'
            BY <1>4, <2>2, <2>5, <2>9 DEF HeapExcept
        <3>2. i' + 1 <= root' /\ root' < n' /\ n' = k'
            BY <1>3, <1>4, <2>2, <2>3, <2>4, <2>9
        <3>3. HeapInv'
            BY <2>2, <2>9, <3>1, <3>2 DEF HeapInv
        <3> QED
            BY <1>2, <2>2, <2>6, <2>8, <3>3, SortStep DEF Sorting, CutInv
    <2>10. CASE ret = "pop"
        <3>1. HeapExcept(0, n, root)'
            BY <2>2, <2>5, <2>10 DEF HeapExcept
        <3>2. SortedTail(n)'
            <4>1. \A x \in 0 .. k - 1, y \in n .. k - 1 : x <= y => prob'[x] <= prob'[y]
                BY <1>2, <1>4, <1>5, <2>2, <2>3, <2>4, <2>10, TailKept
            <4> QED
                BY <2>2, <4>1 DEF SortedTail
        <3>3. root' < n' /\ n' = i' + 1 /\ n' < k'
            BY <1>4, <2>2, <2>3, <2>10
        <3>4. HeapInv'
            BY <2>2, <2>10, <3>1, <3>2, <3>3 DEF HeapInv
        <3> QED
            BY <1>2, <2>2, <2>6, <2>8, <3>4, SortStep DEF Sorting, CutInv
    <2> QED
        BY <1>3, <2>9, <2>10
<1> QED
    BY <1>6, <1>7

\* The second loop of the sort: the largest goes in front of the tail.
LEMMA PopInv ==
    ASSUME Inv, Pop
    PROVE  Inv'
<1>1. /\ pc = "pop" /\ i > 0 /\ Swap(0, i) /\ i' = i - 1
      /\ root' = 0 /\ n' = i /\ ret' = "pop" /\ pc' = "sift"
      /\ UNCHANGED <<s, logits, k, last, token>>
    BY DEF Pop, Sifting
<1>2. /\ Sorting /\ TypeOK /\ Scratch /\ k >= 1
      /\ i < k /\ HeapFrom(0, i + 1) /\ SortedTail(i + 1)
    BY <1>1, SortingInv DEF Sorting, Inv, HeapInv
<1>3. /\ k \in Nat /\ k <= vocab_size /\ i \in Nat /\ vocab_size \in Nat /\ vocab_size >= 1
      /\ 0 .. k - 1 \subseteq Tokens /\ i \in 0 .. k - 1 /\ 0 \in 0 .. k - 1 /\ 0 \in Tokens
      /\ \A j \in Tokens : prob[j] \in Int
    BY <1>1, <1>2, Sizes
<1>4. Scratch'
    BY <1>1, <1>2, <1>3, ScratchSwapped
<1>5. /\ prob' \in [Tokens -> -1 .. Unit] /\ idx' \in [Tokens -> Tokens \cup {-1}]
      /\ \A j \in Tokens :
            prob'[j] = (IF j = 0 THEN prob[i] ELSE IF j = i THEN prob[0] ELSE prob[j])
    BY <1>1, <1>2, <1>3, SwapMoves
<1>6. TypeOK'
    BY <1>1, <1>2, <1>3, <1>5 DEF TypeOK
<1>7. HeapExcept(0, n, root)'
    <2>1. ASSUME NEW p \in 0 .. i - 1, NEW c \in Children(p), c < i, p # 0
          PROVE  prob'[p] >= prob'[c]
        <3>1. /\ p \in 0 .. (i + 1) - 1 /\ c < i + 1 /\ p \in Tokens /\ c \in Tokens
              /\ c # 0 /\ c # i /\ p # i
            BY <1>3, <2>1 DEF Children, Tokens
        <3>2. prob[p] >= prob[c]
            BY <1>2, <2>1, <3>1 DEF HeapFrom
        <3> QED
            BY <1>5, <2>1, <3>1, <3>2
    <2>2. ASSUME NEW p \in 0 .. i - 1 PROVE 0 \notin Children(p)
        BY <1>3 DEF Children
    <2> QED
        BY <1>1, <2>1, <2>2 DEF HeapExcept
<1>8. SortedTail(n)'
    <2>1. SUFFICES ASSUME NEW x \in 0 .. k - 1, NEW y \in i .. k - 1, x <= y
                   PROVE  prob'[x] <= prob'[y]
        BY <1>1 DEF SortedTail
    <2>2. \A c \in 0 .. (i + 1) - 1 : prob[c] <= prob[0]
        <3>1. i + 1 \in 1 .. k
            BY <1>2, <1>3
        <3> QED
            BY <1>2, <3>1, HeapRoot
    <2>3. /\ x \in Tokens /\ y \in Tokens /\ y \in 0 .. k - 1 /\ y # 0
          /\ prob[0] \in Int /\ prob[i] \in Int /\ prob[x] \in Int /\ prob[y] \in Int
        BY <1>1, <1>3
    <2>4. CASE y = i
        <3>1. prob'[y] = prob[0]
            BY <1>5, <2>3, <2>4
        <3>2. i \in 0 .. (i + 1) - 1 /\ x \in 0 .. (i + 1) - 1
            BY <1>3, <2>1, <2>4
        <3>3. prob[i] <= prob[0] /\ prob[x] <= prob[0]
            BY <2>2, <3>2
        <3> QED
            BY <1>5, <2>3, <3>1, <3>3
    <2>5. CASE y # i
        <3>1. y \in i + 1 .. k - 1 /\ i <= y /\ 0 <= y
            BY <1>3, <2>1, <2>5
        <3>2. prob[x] <= prob[y] /\ prob[i] <= prob[y] /\ prob[0] <= prob[y]
            BY <1>2, <1>3, <2>1, <3>1 DEF SortedTail
        <3>3. prob'[y] = prob[y]
            BY <1>5, <2>3, <2>5
        <3> QED
            BY <1>5, <2>3, <3>2, <3>3
    <2> QED
        BY <2>4, <2>5
<1>9. HeapInv'
    BY <1>1, <1>2, <1>3, <1>7, <1>8 DEF HeapInv
<1> QED
    BY <1>1, <1>2, <1>4, <1>6, <1>9, SortStep DEF Sorting, CutInv

\* The third loop of the sort.
LEMMA ReverseInv ==
    ASSUME Inv, Reverse
    PROVE  Inv'
<1>1. /\ pc = "pop" /\ i <= 0 /\ pc' = "cut"
      /\ prob' = [j \in Tokens |-> IF j < k THEN prob[k - 1 - j] ELSE prob[j]]
      /\ idx'  = [j \in Tokens |-> IF j < k THEN idx[k - 1 - j] ELSE idx[j]]
      /\ UNCHANGED <<s, logits, k, i, root, n, ret, last, token>>
    BY DEF Reverse, sortVars
<1>2. /\ Sorting /\ TypeOK /\ Scratch /\ k >= 1 /\ i = 0 /\ SortedTail(1)
    <2>1. Sorting /\ TypeOK /\ Scratch /\ k >= 1 /\ 0 <= i /\ SortedTail(i + 1)
        BY <1>1, SortingInv DEF Sorting, Inv, HeapInv
    <2>2. i = 0 /\ i + 1 = 1
        BY <1>1, <2>1, Sizes
    <2> QED
        BY <2>1, <2>2
<1>3. /\ k \in Nat /\ k <= vocab_size /\ vocab_size \in Nat
      /\ 0 .. k - 1 \subseteq Tokens /\ \A j \in Tokens : prob[j] \in Int
    BY <1>2, Sizes
<1> DEFINE P == [j \in 0 .. k - 1 |-> k - 1 - j]
<1>4. P \in [0 .. k - 1 -> 0 .. k - 1] /\ \A j \in 0 .. k - 1 : P[P[j]] = j
    BY <1>3
<1>5. \A j \in 0 .. k - 1 :
         /\ j \in Tokens /\ j < k /\ P[j] = k - 1 - j
         /\ prob'[j] = prob[k - 1 - j] /\ idx'[j] = idx[k - 1 - j]
    BY <1>1, <1>3
<1>6. Scratch'
    <2>1. \A j \in 0 .. k - 1 : idx'[j] = idx[P[j]] /\ prob'[j] = prob[P[j]]
        BY <1>5
    <2> HIDE DEF P
    <2> QED
        BY <1>1, <1>2, <1>4, <2>1, ScratchMoved
<1>7. prob' \in [Tokens -> -1 .. Unit] /\ idx' \in [Tokens -> Tokens \cup {-1}]
    <2>1. \A j \in Tokens : j < k => k - 1 - j \in Tokens
        BY <1>3 DEF Tokens
    <2>2. prob \in [Tokens -> -1 .. Unit] /\ idx \in [Tokens -> Tokens \cup {-1}]
        BY <1>2 DEF TypeOK
    <2> QED
        BY <1>1, <2>1, <2>2
<1>8. TypeOK'
    BY <1>1, <1>2, <1>7 DEF TypeOK
<1>9. Descending'
    <2>1. SUFFICES ASSUME NEW a \in 0 .. k - 1, NEW b \in 0 .. k - 1, a <= b
                   PROVE  prob'[a] >= prob'[b]
        BY <1>1 DEF Descending
    <2>2. prob'[a] = prob[k - 1 - a] /\ prob'[b] = prob[k - 1 - b]
        BY <1>5
    <2>3. /\ k - 1 - a \in 0 .. k - 1 /\ k - 1 - b \in 0 .. k - 1
          /\ k - 1 - b <= k - 1 - a /\ prob[k - 1 - a] \in Int /\ prob[k - 1 - b] \in Int
        BY <1>3, <2>1
    <2>4. CASE k - 1 - a \in 1 .. k - 1
        <3>1. prob[k - 1 - b] <= prob[k - 1 - a]
            BY <1>2, <2>3, <2>4 DEF SortedTail
        <3> QED
            BY <2>2, <2>3, <3>1
    <2>5. CASE k - 1 - a \notin 1 .. k - 1
        <3>1. k - 1 - a = k - 1 - b
            BY <1>3, <2>3, <2>5
        <3> QED
            BY <2>2, <2>3, <3>1
    <2> QED
        BY <2>4, <2>5
<1>10. HeapInv'
    BY <1>1, <1>9 DEF HeapInv
<1> QED
    BY <1>1, <1>2, <1>6, <1>8, <1>10, SortStep DEF Sorting, CutInv

\* The end of the nucleus.
LEMMA CutKeeps ==
    ASSUME Inv, Cut
    PROVE  Inv'
<1> DEFINE over == {j \in 0 .. k - 1 : Mass(prob, j + 1) * ToppUnit > s.topp * Whole}
<1>1. /\ pc = "cut" /\ pc' = "draw"
      /\ last' = IF over = {} THEN k - 1 ELSE CHOOSE j \in over : \A o \in over : j <= o
      /\ UNCHANGED <<s, logits, prob, idx, k, i, root, n, ret, token>>
    BY DEF Cut, sortVars
<1>2. Sorting /\ TypeOK /\ Scratch /\ k >= 1 /\ Weighted /\ NucleusOn /\ Descending
    BY <1>1, SortingInv DEF Sorting, Inv, HeapInv
<1>3. k \in Nat /\ k <= vocab_size /\ 0 .. k - 1 \subseteq Tokens
    BY <1>2, Sizes
<1>4. \A j : j \in over <=> j \in 0 .. k - 1 /\ Above(j + 1)
    BY DEF Above
<1> HIDE DEF over
<1>5. k - 1 \in over
    <2>1. Above(k)
        BY <1>2, EnoughKept
    <2>2. k - 1 \in 0 .. k - 1 /\ (k - 1) + 1 = k
        BY <1>2, <1>3
    <2> QED
        BY <1>4, <2>1, <2>2
<1>6. last' \in over /\ \A o \in over : last' <= o
    <2>1. over \subseteq Nat /\ over # {}
        BY <1>4, <1>5
    <2>2. \E j \in over : \A o \in over : j <= o
        BY <2>1, LeastElement
    <2> QED
        BY <1>1, <2>1, <2>2
<1>7. last' \in 0 .. k - 1 /\ Above(last' + 1)
    BY <1>4, <1>6
<1>8. ASSUME NEW j \in 0 .. last' - 1 PROVE ~ Above(j + 1)
    <2>0. PICK L \in 0 .. k - 1 : L = last'
        BY <1>7
    <2>1. j \in 0 .. L - 1
        BY <2>0
    <2>2. j \in 0 .. k - 1 /\ ~ (L <= j)
        BY <1>3, <2>1
    <2>3. j \notin over
        BY <1>6, <2>0, <2>2
    <2> QED
        BY <1>4, <2>2, <2>3
<1>9. TypeOK'
    BY <1>1, <1>2, <1>3, <1>7 DEF TypeOK
<1>10. Scratch' /\ Descending'
    BY <1>1, <1>2 DEF Scratch, Descending, ReachesCutoff, Whole
<1>11. CutInv'
    <2>1. \A m : Above(m)' <=> Above(m)
        BY <1>1 DEF Above, Whole
    <2>2. last' < k
        BY <1>3, <1>7
    <2>3. Above(last + 1)'
        <3>1. Above(last + 1)' <=> Mass(prob', last' + 1) * ToppUnit > s'.topp * Whole'
            BY DEF Above
        <3>2. Whole' = Whole
            BY <1>1 DEF Whole
        <3> QED
            BY <1>1, <1>7, <3>1, <3>2 DEF Above
    <2> QED
        BY <1>1, <1>8, <2>1, <2>2, <2>3 DEF CutInv
<1>12. HeapInv'
    BY <1>1, <1>10 DEF HeapInv
<1> QED
    BY <1>1, <1>2, <1>9, <1>10, <1>11, <1>12, SortStep DEF Sorting

\* The draw.
LEMMA DrawInv ==
    ASSUME Inv, Draw
    PROVE  Inv'
<1>1. pc = "draw"
    BY DEF Draw
<1>2. PICK cell \in 0 .. Mass(prob, last + 1) - 1 : Return(idx[Walk(prob, cell)])
    BY DEF Draw
<1>3. Sorting /\ TypeOK /\ Scratch /\ Weighted /\ last < k
    BY <1>1, SortingInv DEF Sorting, Inv, CutInv
<1>4. k \in Nat /\ k <= vocab_size /\ last \in Nat /\ vocab_size \in Nat /\ Unit \in Nat
    BY <1>3, Sizes
<1>5. \A j \in 0 .. k - 1 : idx[j] \in Tokens /\ prob[j] \in Nat
    BY <1>3, <1>4 DEF Scratch, Weighted
<1>6. Walk(prob, cell) \in 0 .. (last + 1) - 1
    <2>1. last + 1 \in 1 .. vocab_size /\ \A j \in 0 .. (last + 1) - 1 : prob[j] \in Nat
        BY <1>3, <1>4, <1>5
    <2>2. DOMAIN prob = Tokens
        BY <1>3 DEF TypeOK
    <2> QED
        BY <1>2, <2>1, <2>2, WalkEnds
<1>7. idx[Walk(prob, cell)] \in Tokens
    <2>1. Walk(prob, cell) \in 0 .. k - 1
        BY <1>3, <1>4, <1>6
    <2> QED
        BY <1>5, <2>1
<1> QED
    BY <1>2, <1>7, ReturnInv DEF Draw, sortVars

\* No step breaks the invariant.
LEMMA NextInv == Inv /\ [Next]_vars => Inv'
<1> SUFFICES ASSUME Inv, [Next]_vars PROVE Inv'
    OBVIOUS
<1>1. CASE UNCHANGED vars
    <2>1. UNCHANGED <<s, logits, prob, idx, k, pc, i, root, n, ret, last, token>>
        BY <1>1 DEF vars
    <2>2. /\ TypeOK' /\ (Weighted <=> Weighted') /\ (Working <=> Working')
          /\ (Sorting <=> Sorting') /\ (NucleusOn <=> NucleusOn')
        BY <2>1 DEF Inv, TypeOK, Weighted, Working, Sorting, NucleusOn
    <2>3. ScratchInStep'
        BY <2>1 DEF Inv, ScratchInStep, ReachesCutoff, Whole
    <2>4. HeapInv'
        BY <2>1, Zenon DEF Inv, HeapInv, HeapFrom, HeapExcept, SortedTail, Descending
    <2>5. CutInv'
        BY <2>1 DEF Inv, CutInv, Above, Whole
    <2> QED
        BY <2>1, <2>2, <2>3, <2>4, <2>5 DEF Inv
<1>2. CASE Next
    BY <1>1, <1>2, GreedyInv, SoftmaxInv, MultinomialInv, FilterInv, BuildInv, SiftInv,
       PopInv, ReverseInv, CutKeeps, DrawInv DEF Next
<1> QED
    BY <1>1, <1>2

\* Every reachable state of a call satisfies the invariant.
LEMMA InductiveInvariant == Spec => []Inv
<1> QED
    BY InitInv, NextInv, PTL DEF Spec

\* tq_sample stays inside its arrays: every index of the sort, the end of the
\* nucleus and the token it returns are inside the vocabulary.
THEOREM SamplerTypeCorrect == Spec => []TypeOK
<1>1. Inv => TypeOK
    BY DEF Inv
<1> QED
    BY <1>1, InductiveInvariant, PTL

\* However the heap sort moves the entries, the scratch arrays stay in step: the
\* tokens that reach the cutoff, once each, with their own probabilities.
THEOREM AlwaysInStep == Spec => []ScratchInStep
<1>1. Inv => ScratchInStep
    BY DEF Inv
<1> QED
    BY <1>1, InductiveInvariant, PTL

-----------------------------------------------------------------------------
(* The nucleus. *)

\* An interval of naturals has as many members as its bounds are apart.
LEMMA IntervalSize ==
    ASSUME NEW a \in Nat, NEW b \in Nat, a <= b
    PROVE  Cardinality(a .. b - 1) = b - a
<1>1. b - 1 \in Int /\ a \in Int
    OBVIOUS
<1>2. Cardinality(a .. b - 1) = IF a > b - 1 THEN 0 ELSE (b - 1) - a + 1
    BY <1>1, FS_Interval
<1> QED
    BY <1>2

\* The invariant gives the nucleus: the candidates up to `last' are the heaviest,
\* they exceed topp as soon as possible, and a draw hits each in proportion.
LEMMA InvDraws == Inv => DrawsTheNucleus
<1> SUFFICES ASSUME Inv, pc = "draw" PROVE DrawsTheNucleus
    BY DEF DrawsTheNucleus
<1> DEFINE M == Mass(prob, last + 1)
           C(t) == {c \in 0 .. M - 1 : idx[Walk(prob, c)] = t}
           cells(t) == Cardinality(C(t))
           in == {t \in Tokens : cells(t) > 0}
           over(S) == MassOf(S) * ToppUnit > s.topp * Whole
<1>1. /\ TypeOK /\ Scratch /\ Weighted /\ NucleusOn /\ k >= 1 /\ Descending
      /\ last < k /\ Above(last + 1) /\ \A j \in 0 .. last - 1 : ~ Above(j + 1)
    BY SortingInv DEF Sorting, Inv, HeapInv, CutInv
<1>2. /\ k \in Nat /\ k <= vocab_size /\ last \in Nat /\ vocab_size \in Nat
      /\ Unit \in Nat /\ ToppUnit \in Nat /\ ToppUnit >= 1 /\ s.topp \in Int
      /\ 0 .. k - 1 \subseteq Tokens
    BY <1>1, Sizes
<1>3. /\ logits \in [Tokens -> 0 .. Unit] /\ \A t \in Tokens : logits[t] \in Nat
      /\ s.topp \in Nat
    BY <1>1, <1>2 DEF Weighted, NucleusOn
<1>4. \A j \in 0 .. k - 1 : idx[j] \in Tokens /\ prob[j] = logits[idx[j]] /\ prob[j] \in Nat
    BY <1>1, <1>3 DEF Scratch
<1>5. /\ \A a \in 0 .. k : Mass(prob, a) \in Nat
      /\ \A a, b \in 0 .. k : a <= b => Mass(prob, a) <= Mass(prob, b)
      /\ \A j \in 0 .. k - 1 : Mass(prob, j + 1) = Mass(prob, j) + prob[j]
      /\ Mass(prob, 0) = 0
    BY <1>2, <1>4, MassMono
<1>6. last \in 0 .. k - 1 /\ last \in 0 .. k /\ last + 1 \in 0 .. k /\ last + 1 \in 1 .. vocab_size
    BY <1>1, <1>2
<1>7. M \in Nat /\ M = Mass(prob, last) + prob[last]
    BY <1>5, <1>6
<1>8. Whole \in Nat
    BY <1>3, MassOfParts
<1>9. PICK X \in Nat : X = s.topp * Whole
    BY <1>3, <1>8
<1>10. M * ToppUnit > X /\ Mass(prob, last) * ToppUnit <= X
    <2>1. M * ToppUnit > X
        BY <1>1, <1>9 DEF Above
    <2>0. PICK y \in Nat : y = Mass(prob, last) * ToppUnit /\ (last = 0 => y = 0)
        <3>1. Mass(prob, last) \in Nat /\ (last = 0 => Mass(prob, last) = 0)
            BY <1>5, <1>6
        <3>2. PICK x \in Nat : x = Mass(prob, last)
            BY <3>1
        <3>3. x * ToppUnit \in Nat /\ (x = 0 => x * ToppUnit = 0)
            BY <1>2
        <3> QED
            BY <3>1, <3>2, <3>3
    <2>2. CASE last = 0
        BY <1>9, <2>0, <2>1, <2>2
    <2>3. CASE last > 0
        <3>1. last - 1 \in 0 .. last - 1 /\ (last - 1) + 1 = last
            BY <1>2, <2>3
        <3>2. ~ Above(last)
            BY <1>1, <3>1
        <3>3. ~ (Mass(prob, last) * ToppUnit > X)
            BY <1>9, <3>2 DEF Above
        <3>4. ~ (y > X)
            BY <2>0, <3>3
        <3>5. y <= X
            BY <3>4
        <3> QED
            BY <2>0, <2>1, <3>5
    <2> QED
        BY <1>2, <2>1, <2>2, <2>3
<1>11. prob[last] > 0 /\ \A j \in 0 .. last : prob[j] >= prob[last] /\ prob[j] > 0
    <2>1. prob[last] > 0
        <3>1. prob[last] \in Nat /\ Mass(prob, last) \in Nat
            BY <1>4, <1>5, <1>6
        <3>2. CASE prob[last] = 0
            <4>1. M = Mass(prob, last)
                BY <1>7, <3>1, <3>2
            <4>2. PICK y : y = Mass(prob, last) * ToppUnit
                OBVIOUS
            <4>3. y > X /\ y <= X /\ y \in Int
                BY <1>2, <1>10, <3>1, <4>1, <4>2
            <4> QED
                BY <4>3
        <3> QED
            BY <3>1, <3>2
    <2>2. ASSUME NEW j \in 0 .. last PROVE prob[j] >= prob[last] /\ prob[j] \in Nat
        <3>1. j \in 0 .. k - 1 /\ j <= last
            BY <1>2, <1>6
        <3> QED
            BY <1>1, <1>4, <1>6, <3>1 DEF Descending
    <2>3. prob[last] \in Nat
        BY <1>4, <1>6
    <2> QED
        BY <2>1, <2>2, <2>3
<1>12. ASSUME NEW c \in 0 .. M - 1
       PROVE  /\ Walk(prob, c) \in 0 .. last
              /\ \A j \in 0 .. last :
                    Walk(prob, c) = j <=> Mass(prob, j) <= c /\ c < Mass(prob, j + 1)
    <2>1. DOMAIN prob = Tokens /\ (last + 1) - 1 = last
        BY <1>1, <1>2 DEF TypeOK
    <2>2. \A j \in 0 .. (last + 1) - 1 : prob[j] \in Nat
        BY <1>2, <1>4, <1>6
    <2> QED
        BY <1>6, <2>1, <2>2, WalkEnds
<1>13. ASSUME NEW j \in 0 .. last PROVE cells(idx[j]) = logits[idx[j]]
    <2>1. j \in 0 .. k - 1 /\ j + 1 \in 0 .. k /\ j \in 0 .. k /\ j + 1 <= last + 1
        BY <1>2, <1>6
    <2>2. /\ Mass(prob, j) \in Nat /\ Mass(prob, j + 1) \in Nat
          /\ Mass(prob, j + 1) = Mass(prob, j) + prob[j] /\ Mass(prob, j + 1) <= M
          /\ prob[j] \in Nat
        BY <1>4, <1>5, <1>6, <2>1
    <2>3. ASSUME NEW c \in 0 .. M - 1
          PROVE  idx[Walk(prob, c)] = idx[j] <=> c \in Mass(prob, j) .. Mass(prob, j + 1) - 1
        <3>1. Walk(prob, c) \in 0 .. k - 1
            BY <1>2, <1>6, <1>12
        <3>2. idx[Walk(prob, c)] = idx[j] <=> Walk(prob, c) = j
            BY <1>1, <2>1, <3>1 DEF Scratch
        <3>3. Walk(prob, c) = j <=> Mass(prob, j) <= c /\ c < Mass(prob, j + 1)
            BY <1>12
        <3>4. c \in Nat
            BY <1>7
        <3> QED
            BY <2>2, <3>2, <3>3, <3>4
    <2>4. \A c \in Mass(prob, j) .. Mass(prob, j + 1) - 1 : c \in 0 .. M - 1
        BY <1>7, <2>2
    <2>5. C(idx[j]) = Mass(prob, j) .. Mass(prob, j + 1) - 1
        <3>1. PICK I : I = Mass(prob, j) .. Mass(prob, j + 1) - 1
            OBVIOUS
        <3>2. PICK Z : Z = 0 .. M - 1
            OBVIOUS
        <3>3. \A c \in Z : idx[Walk(prob, c)] = idx[j] <=> c \in I
            BY <2>3, <3>1, <3>2
        <3>4. \A c \in I : c \in Z
            BY <2>4, <3>1, <3>2
        <3>5. C(idx[j]) = {c \in Z : idx[Walk(prob, c)] = idx[j]}
            BY <3>2
        <3>6. C(idx[j]) = I
            BY <3>3, <3>4, <3>5
        <3> QED
            BY <3>1, <3>6
    <2>6. Cardinality(Mass(prob, j) .. Mass(prob, j + 1) - 1) = Mass(prob, j + 1) - Mass(prob, j)
        <3>1. Mass(prob, j) <= Mass(prob, j + 1)
            BY <2>2
        <3> QED
            BY <2>2, <3>1, IntervalSize
    <2>7. cells(idx[j]) = Mass(prob, j + 1) - Mass(prob, j)
        BY <2>5, <2>6
    <2>8. Mass(prob, j + 1) - Mass(prob, j) = prob[j]
        BY <2>2
    <2> HIDE DEF cells
    <2> QED
        BY <1>4, <2>1, <2>7, <2>8
<1>14. in = Held(last + 1)
    <2>1. ASSUME NEW j \in 0 .. last PROVE idx[j] \in in
        <3>1. j \in 0 .. k - 1
            BY <1>2, <1>6
        <3>2. idx[j] \in Tokens /\ logits[idx[j]] > 0
            BY <1>4, <1>11, <3>1
        <3> QED
            BY <1>13, <3>2
    <2>2. ASSUME NEW t \in in PROVE \E j \in 0 .. last : idx[j] = t
        <3>1. SUFFICES ASSUME \A j \in 0 .. last : idx[j] # t PROVE FALSE
            OBVIOUS
        <3>2. C(t) = {}
            BY <1>12, <3>1
        <3>3. cells(t) = 0
            BY <3>2, FS_EmptySet
        <3> QED
            BY <3>3
    <2>3. (last + 1) - 1 = last
        BY <1>2
    <2> HIDE DEF in
    <2> QED
        BY <2>1, <2>2, <2>3 DEF Held
<1> HIDE DEF C, cells, in
<1>15. in \subseteq Tokens /\ \A t \in in : \E j \in 0 .. last : idx[j] = t
    <2>1. (last + 1) - 1 = last
        BY <1>2
    <2>2. \A j \in 0 .. last : idx[j] \in Tokens
        BY <1>2, <1>4, <1>6
    <2> QED
        BY <1>14, <2>1, <2>2 DEF Held
<1>16. MassOf(in) = M
    BY <1>1, <1>3, <1>6, <1>14, MassOfHeld
<1>17. over(in)
    BY <1>9, <1>10, <1>16
<1>18. \A t \in in : cells(t) = logits[t]
    BY <1>13, <1>15
<1>19. ASSUME NEW t \in in, NEW o \in Tokens \ in PROVE logits[t] >= logits[o]
    <2>1. PICK j \in 0 .. last : idx[j] = t
        BY <1>15
    <2>2. j \in 0 .. k - 1 /\ prob[j] = logits[t] /\ prob[j] \in Nat /\ logits[o] \in Nat
        BY <1>2, <1>3, <1>4, <1>6, <2>1
    <2>3. CASE \E m \in 0 .. k - 1 : idx[m] = o
        <3>1. PICK m \in 0 .. k - 1 : idx[m] = o
            BY <2>3
        <3>2. m \notin 0 .. last
            <4>1. (last + 1) - 1 = last
                BY <1>2
            <4> QED
                BY <1>14, <3>1, <4>1 DEF Held
        <3>3. j <= m /\ prob[m] = logits[o]
            BY <1>2, <1>4, <1>6, <3>1, <3>2
        <3>4. prob[j] >= prob[m]
            BY <1>1, <2>2, <3>3 DEF Descending
        <3> QED
            BY <2>2, <3>3, <3>4
    <2>4. CASE ~ \E m \in 0 .. k - 1 : idx[m] = o
        <3>1. ~ ReachesCutoff(o) /\ ReachesCutoff(t)
            <4>1. t \in Tokens /\ \E m \in 0 .. k - 1 : idx[m] = t
                BY <1>15, <2>1, <2>2
            <4> QED
                BY <1>1, <2>4, <4>1 DEF Scratch
        <3>2. PICK a \in Nat, b \in Nat, c \in Nat, D \in Nat, v \in Nat :
                 /\ a = logits[t] /\ b = logits[o] /\ c = (ToppUnit - s.topp) * Whole
                 /\ D = ToppUnit /\ v = vocab_size - 1
            <4>1. ToppUnit - s.topp \in Nat
                BY <1>1, <1>2, <1>3 DEF NucleusOn
            <4>2. (ToppUnit - s.topp) * Whole \in Nat
                BY <1>8, <4>1
            <4>3. vocab_size - 1 \in Nat
                BY <1>1, <1>2
            <4>4. logits[t] \in Nat
                BY <2>2
            <4> QED
                BY <1>2, <2>2, <4>2, <4>3, <4>4
        <3>3. a * D * v >= c /\ ~ (b * D * v >= c)
            BY <3>1, <3>2 DEF ReachesCutoff
        <3>4. a >= b
            <4>1. PICK E \in Nat : E = D * v
                OBVIOUS
            <4>2. a * D * v = a * E /\ b * D * v = b * E
                BY <4>1
            <4>3. CASE a < b
                <5>1. a * E <= b * E
                    BY <4>3
                <5>2. a * E \in Nat /\ b * E \in Nat
                    OBVIOUS
                <5> QED
                    BY <3>3, <4>2, <5>1, <5>2
            <4> QED
                BY <4>3
        <3> QED
            BY <3>2, <3>4
    <2> QED
        BY <2>3, <2>4
<1>20. ASSUME NEW t \in in PROVE ~ over(in \ {t})
    <2>1. PICK j \in 0 .. last : idx[j] = t
        BY <1>15
    <2>2. logits[t] >= prob[last] /\ logits[t] \in Nat /\ prob[last] \in Nat /\ t \in Tokens
        BY <1>2, <1>4, <1>6, <1>11, <2>1
    <2>3. MassOf(in) = MassOf(in \ {t}) + logits[t] /\ MassOf(in \ {t}) \in Nat
        BY <1>3, <2>2, MassOfParts
    <2>4. MassOf(in \ {t}) <= Mass(prob, last) /\ Mass(prob, last) \in Nat
        BY <1>5, <1>6, <1>7, <1>16, <2>2, <2>3
    <2>5. PICK a \in Nat, b \in Nat : a = MassOf(in \ {t}) /\ b = Mass(prob, last) /\ a <= b
        BY <2>3, <2>4
    <2>6. a * ToppUnit <= b * ToppUnit /\ a * ToppUnit \in Nat /\ b * ToppUnit \in Nat
        BY <1>2, <2>5
    <2> QED
        BY <1>9, <1>10, <2>5, <2>6
<1> QED
    BY <1>17, <1>18, <1>19, <1>20 DEF DrawsTheNucleus, M, C, cells, in, over

\* Dropping what is below the cutoff, the heap sort and the cut give the nucleus
\* of the whole vocabulary, and the draw gives each of its tokens its share.
THEOREM AlwaysDrawsTheNucleus == Spec => []DrawsTheNucleus
<1> QED
    BY InvDraws, InductiveInvariant, PTL

=============================================================================
