----------------------- MODULE ReconnectHandler_proofs -----------------------
(***************************************************************************)
(* Proofs about ReconnectHandler: for any cap on the gap, any width of the *)
(* words and any number of retries.                                        *)
(*                                                                         *)
(* Pow2 and the schedule are recursive functions.  What they compute is    *)
(* proved here from the fact that a set of naturals has a least element: a *)
(* first index at which a claim fails is not 0, and the claim holds at the *)
(* index before it.                                                        *)
(***************************************************************************)
EXTENDS ReconnectHandler, Integers, WellFoundedInduction, TLAPS

-----------------------------------------------------------------------------
(* Recursive functions of a natural number. *)

(* A set of natural numbers that is not empty has a least element. *)
LEMMA LeastElement ==
  ASSUME NEW T \in SUBSET Nat, T # {}
  PROVE  \E x \in T : \A y \in T : x <= y
  <1> DEFINE R == {p \in Nat \X Nat : p[1] < p[2]}
  <1>1. IsWellFoundedOn(R, Nat)
    BY NatLessThanWellFounded DEF OpToRel
  <1>2. \A x, y \in Nat : <<y, x>> \notin R => x <= y
    OBVIOUS
  <1> HIDE DEF R
  <1>3. \E x \in T : \A y \in T : <<y, x>> \notin R
    BY <1>1, WFMin
  <1> QED BY <1>2, <1>3

(* g is the first n + 1 values of the sequence a, D[0, a], D[1, D[0, a]], ... *)
Unfolds(V, a, D, n, g) ==
    /\ g \in [0..n -> V]
    /\ g[0] = a
    /\ \A i \in 0..n : i # 0 => g[i] = D[<<i - 1, g[i - 1]>>]

LEMMA UnfoldExists ==
  ASSUME NEW V, NEW a \in V, NEW D \in [Nat \X V -> V]
  PROVE  \A n \in Nat : \E g : Unfolds(V, a, D, n, g)
  <1> DEFINE T == {n \in Nat : ~\E g : Unfolds(V, a, D, n, g)}
  <1>1. SUFFICES ASSUME T # {} PROVE FALSE
    OBVIOUS
  <1>2. PICK n \in T : \A m \in T : n <= m
    BY <1>1, LeastElement
  <1>3. Unfolds(V, a, D, 0, [i \in 0..0 |-> a])
    BY DEF Unfolds
  <1>4. n \in Nat /\ n # 0
    BY <1>3
  <1>5. n - 1 \in Nat /\ n - 1 \notin T
    BY <1>2, <1>4
  <1>6. PICK g : Unfolds(V, a, D, n - 1, g)
    BY <1>5
  <1> DEFINE h == [i \in 0..n |-> IF i = n THEN D[<<n - 1, g[n - 1]>>] ELSE g[i]]
  <1>7. \A i \in 0..(n - 1) : g[i] \in V
    BY <1>6 DEF Unfolds
  <1>8. D[<<n - 1, g[n - 1]>>] \in V
    <2>1. <<n - 1, g[n - 1]>> \in Nat \X V
      BY <1>4, <1>5, <1>7
    <2> QED BY <2>1
  <1>9. h \in [0..n -> V]
    BY <1>4, <1>7, <1>8
  <1>10. h[0] = a
    BY <1>4, <1>6 DEF Unfolds
  <1>11. ASSUME NEW i \in 0..n, i # 0  PROVE h[i] = D[<<i - 1, h[i - 1]>>]
    <2>1. i - 1 \in 0..n /\ i - 1 # n /\ h[i - 1] = g[i - 1]
      BY <1>4, <1>11
    <2>2. CASE i = n
      BY <2>1, <2>2
    <2>3. CASE i # n
      <3>1. i \in 0..(n - 1)
        BY <1>4, <2>3
      <3> QED BY <1>6, <1>11, <2>1, <2>3, <3>1 DEF Unfolds
    <2> QED BY <2>2, <2>3
  <1> HIDE DEF h
  <1>12. Unfolds(V, a, D, n, h)
    BY <1>9, <1>10, <1>11 DEF Unfolds
  <1> QED BY <1>2, <1>12

(* Two unfoldings agree where both are defined. *)
LEMMA UnfoldAgrees ==
  ASSUME NEW V, NEW a \in V, NEW D \in [Nat \X V -> V], NEW m \in Nat, NEW n \in Nat, m <= n,
         NEW g, NEW h, Unfolds(V, a, D, m, g), Unfolds(V, a, D, n, h)
  PROVE  \A i \in 0..m : g[i] = h[i]
  <1> DEFINE T == {i \in 0..m : g[i] # h[i]}
  <1>0. T \in SUBSET Nat
    OBVIOUS
  <1>1. SUFFICES ASSUME T # {} PROVE FALSE
    OBVIOUS
  <1> HIDE DEF T
  <1>2. PICK i \in T : \A j \in T : i <= j
    BY <1>0, <1>1, LeastElement
  <1> USE DEF T
  <1>3. i \in 0..m /\ i \in 0..n /\ g[i] # h[i]
    BY <1>2
  <1>4. i # 0
    BY <1>3 DEF Unfolds
  <1>5. i - 1 \in 0..m /\ i - 1 \notin T
    BY <1>2, <1>3, <1>4
  <1>6. g[i - 1] = h[i - 1]
    BY <1>5
  <1>7. g[i] = D[<<i - 1, g[i - 1]>>] /\ h[i] = D[<<i - 1, h[i - 1]>>]
    BY <1>3, <1>4 DEF Unfolds
  <1> QED BY <1>3, <1>6, <1>7

(* f is that sequence. *)
Recurs(V, a, D, f) ==
    /\ f \in [Nat -> V]
    /\ \A k \in Nat : f[k] = IF k = 0 THEN a ELSE D[<<k - 1, f[k - 1]>>]

LEMMA RecursionExists ==
  ASSUME NEW V, NEW a \in V, NEW D \in [Nat \X V -> V]
  PROVE  \E f : Recurs(V, a, D, f)
  <1> DEFINE u(k) == CHOOSE g : Unfolds(V, a, D, k, g)
             f == [k \in Nat |-> u(k)[k]]
  <1>1. \A k \in Nat : Unfolds(V, a, D, k, u(k))
    BY UnfoldExists
  <1> HIDE DEF u
  <1>2. f \in [Nat -> V]
    BY <1>1 DEF Unfolds
  <1>3. ASSUME NEW k \in Nat
        PROVE  f[k] = IF k = 0 THEN a ELSE D[<<k - 1, f[k - 1]>>]
    <2>1. CASE k = 0
      BY <1>1, <2>1 DEF Unfolds
    <2>2. CASE k # 0
      <3>1. k - 1 \in Nat /\ k - 1 \in 0..(k - 1) /\ k \in 0..k /\ k - 1 <= k
        BY <2>2
      <3>2. u(k - 1)[k - 1] = u(k)[k - 1]
        <4>1. Unfolds(V, a, D, k - 1, u(k - 1)) /\ Unfolds(V, a, D, k, u(k))
          BY <1>1, <3>1
        <4> QED BY <3>1, <4>1, UnfoldAgrees
      <3>3. u(k)[k] = D[<<k - 1, u(k)[k - 1]>>]
        BY <1>1, <2>2, <3>1 DEF Unfolds
      <3>4. f[k] = u(k)[k] /\ f[k - 1] = u(k - 1)[k - 1]
        BY <3>1
      <3> QED BY <2>2, <3>2, <3>3, <3>4
    <2> QED BY <2>1, <2>2
  <1> HIDE DEF f
  <1> QED BY <1>2, <1>3 DEF Recurs

-----------------------------------------------------------------------------
(* Powers of two, and the schedule. *)

LEMMA Pow2Facts ==
  /\ Pow2 \in [Nat -> Nat \ {0}] /\ Pow2[0] = 1
  /\ \A k \in Nat : Pow2[k + 1] = 2 * Pow2[k]
  <1> DEFINE V == Nat \ {0}
             D == [p \in Nat \X V |-> 2 * p[2]]
             a == 1
  <1>1. D \in [Nat \X V -> V] /\ a \in V
    OBVIOUS
  <1>2. \A k \in Nat, v \in V : D[<<k, v>>] = 2 * v
    OBVIOUS
  <1> HIDE DEF D, V, a
  <1>3. PICK f : Recurs(V, a, D, f)
    BY <1>1, RecursionExists
  <1>4. \A k \in Nat : f[k] = IF k = 0 THEN 1 ELSE 2 * f[k - 1]
    <2>1. \A k \in Nat : k # 0 => k - 1 \in Nat
      OBVIOUS
    <2> QED BY <1>2, <1>3, <2>1 DEF a, Recurs
  <1>5. f = [k \in Nat |-> IF k = 0 THEN 1 ELSE 2 * f[k - 1]]
    BY <1>3, <1>4 DEF Recurs
  <1>6. Pow2 = [k \in Nat |-> IF k = 0 THEN 1 ELSE 2 * Pow2[k - 1]]
    BY <1>5 DEF Pow2
  <1>7. \A k \in Nat : Pow2[k] = IF k = 0 THEN 1 ELSE 2 * Pow2[k - 1]
    BY <1>6
  <1>8. Pow2[0] = 1
    BY <1>7
  <1>9. \A k \in Nat : Pow2[k + 1] = 2 * Pow2[k]
    BY <1>7
  <1>10. Pow2 \in [Nat -> Nat \ {0}]
    <2> DEFINE T == {k \in Nat : Pow2[k] \notin Nat \ {0}}
    <2>1. SUFFICES ASSUME T # {} PROVE FALSE
      BY <1>6
    <2>2. PICK k \in T : \A j \in T : k <= j
      BY <2>1, LeastElement
    <2>3. k # 0
      BY <1>8
    <2>4. k - 1 \in Nat /\ Pow2[k - 1] \in Nat \ {0}
      BY <2>2, <2>3
    <2>5. Pow2[k] = 2 * Pow2[k - 1]
      BY <1>7, <2>2, <2>3
    <2> QED BY <2>2, <2>4, <2>5
  <1> QED BY <1>8, <1>9, <1>10

LEMMA Pow2Monotone ==
  ASSUME NEW m \in Nat, NEW n \in Nat, m <= n
  PROVE  Pow2[m] <= Pow2[n]
  <1> DEFINE T == {k \in Nat : m <= k /\ ~(Pow2[m] <= Pow2[k])}
  <1>1. SUFFICES ASSUME T # {} PROVE FALSE
    OBVIOUS
  <1>2. PICK k \in T : \A j \in T : k <= j
    BY <1>1, LeastElement
  <1>3. k # m
    BY <1>2, Pow2Facts
  <1>4. k - 1 \in Nat /\ m <= k - 1 /\ Pow2[m] <= Pow2[k - 1]
    BY <1>2, <1>3
  <1>5. Pow2[(k - 1) + 1] = 2 * Pow2[k - 1]
    BY <1>4, Pow2Facts
  <1>6. Pow2[m] \in Nat /\ Pow2[k - 1] \in Nat /\ (k - 1) + 1 = k
    BY <1>4, Pow2Facts
  <1> QED BY <1>2, <1>4, <1>5, <1>6

LEMMA GapType == ASSUME NEW k \in Nat  PROVE Gap(k) \in Nat \ {0}
  BY Pow2Facts, BackoffAssumption DEF Gap

LEMMA ScheduleFacts ==
  /\ Schedule \in [Nat -> Nat] /\ Schedule[0] = 0
  /\ \A k \in Nat : Schedule[k + 1] = Schedule[k] + Gap(k)
  <1> DEFINE D == [p \in Nat \X Nat |-> p[2] + Gap(p[1])]
             a == 0
  <1>1. D \in [Nat \X Nat -> Nat] /\ a \in Nat
    BY GapType
  <1>2. \A k \in Nat, v \in Nat : D[<<k, v>>] = v + Gap(k)
    OBVIOUS
  <1> HIDE DEF D, a
  <1>3. PICK f : Recurs(Nat, a, D, f)
    BY <1>1, RecursionExists
  <1>4. \A k \in Nat : f[k] = IF k = 0 THEN 0 ELSE f[k - 1] + Gap(k - 1)
    <2>1. \A k \in Nat : k # 0 => k - 1 \in Nat
      OBVIOUS
    <2> QED BY <1>2, <1>3, <2>1 DEF a, Recurs
  <1>5. f = [k \in Nat |-> IF k = 0 THEN 0 ELSE f[k - 1] + Gap(k - 1)]
    BY <1>3, <1>4 DEF Recurs
  <1>6. Schedule = [k \in Nat |-> IF k = 0 THEN 0 ELSE Schedule[k - 1] + Gap(k - 1)]
    BY <1>5 DEF Schedule
  <1>7. \A k \in Nat : Schedule[k] = IF k = 0 THEN 0 ELSE Schedule[k - 1] + Gap(k - 1)
    BY <1>6
  <1>8. Schedule[0] = 0
    BY <1>7
  <1>9. \A k \in Nat : Schedule[k + 1] = Schedule[k] + Gap(k)
    <2>1. \A k \in Nat : k + 1 \in Nat /\ k + 1 # 0 /\ (k + 1) - 1 = k
      OBVIOUS
    <2> QED BY <1>7, <2>1
  <1>10. Schedule \in [Nat -> Nat]
    <2> DEFINE T == {k \in Nat : Schedule[k] \notin Nat}
    <2>1. SUFFICES ASSUME T # {} PROVE FALSE
      BY <1>6
    <2>2. PICK k \in T : \A j \in T : k <= j
      BY <2>1, LeastElement
    <2>3. k # 0
      BY <1>8, <2>2
    <2>4. k - 1 \in Nat /\ Schedule[k - 1] \in Nat
      BY <2>2, <2>3
    <2>5. Schedule[k] = Schedule[k - 1] + Gap(k - 1)
      BY <1>7, <2>2, <2>3
    <2> QED BY <2>2, <2>4, <2>5, GapType
  <1> QED BY <1>8, <1>9, <1>10

-----------------------------------------------------------------------------
(* The interval before the next retry. *)

LEMMA ModRange ==
  ASSUME NEW a \in Nat, NEW b \in Nat \ {0}
  PROVE  a % b \in Nat /\ a % b < b /\ (a < b => a % b = a)
  OBVIOUS

(* 125 shifted left by less than a word is cut to a quarter of the word's  *)
(* range, or more. *)
LEMMA CutWord ==
  ASSUME NEW m \in Nat \ {0}, NEW w \in {2 * m, 4 * m, 8 * m, 16 * m, 32 * m, 64 * m}
  PROVE  w <= 125 * m /\ w <= 4 * ((125 * m) % w)
  <1>1. CASE w = 2 * m
    <2>1. (125 * m) % (2 * m) = m
      OBVIOUS
    <2> QED BY <1>1, <2>1
  <1>2. CASE w = 4 * m
    <2>1. (125 * m) % (4 * m) = m
      OBVIOUS
    <2> QED BY <1>2, <2>1
  <1>3. CASE w = 8 * m
    <2>1. (125 * m) % (8 * m) = 5 * m
      OBVIOUS
    <2> QED BY <1>3, <2>1
  <1>4. CASE w = 16 * m
    <2>1. (125 * m) % (16 * m) = 13 * m
      OBVIOUS
    <2> QED BY <1>4, <2>1
  <1>5. CASE w = 32 * m
    <2>1. (125 * m) % (32 * m) = 29 * m
      OBVIOUS
    <2> QED BY <1>5, <2>1
  <1>6. CASE w = 64 * m
    <2>1. (125 * m) % (64 * m) = 61 * m
      OBVIOUS
    <2> QED BY <1>6, <2>1
  <1> QED BY <1>1, <1>2, <1>3, <1>4, <1>5, <1>6

LEMMA Pow2Unrolled ==
  ASSUME NEW k \in Nat
  PROVE  /\ Pow2[k + 1] = 2 * Pow2[k] /\ Pow2[k + 2] = 4 * Pow2[k] /\ Pow2[k + 3] = 8 * Pow2[k]
         /\ Pow2[k + 4] = 16 * Pow2[k] /\ Pow2[k + 5] = 32 * Pow2[k]
         /\ Pow2[k + 6] = 64 * Pow2[k] /\ Pow2[k + 7] = 128 * Pow2[k]
  <1>0. Pow2[k] \in Nat
    BY Pow2Facts
  <1>1. Pow2[k + 1] = 2 * Pow2[k]
    BY Pow2Facts
  <1>2. Pow2[(k + 1) + 1] = 2 * Pow2[k + 1] /\ (k + 1) + 1 = k + 2
    BY Pow2Facts
  <1>3. Pow2[(k + 2) + 1] = 2 * Pow2[k + 2] /\ (k + 2) + 1 = k + 3
    BY Pow2Facts
  <1>4. Pow2[(k + 3) + 1] = 2 * Pow2[k + 3] /\ (k + 3) + 1 = k + 4
    BY Pow2Facts
  <1>5. Pow2[(k + 4) + 1] = 2 * Pow2[k + 4] /\ (k + 4) + 1 = k + 5
    BY Pow2Facts
  <1>6. Pow2[(k + 5) + 1] = 2 * Pow2[k + 5] /\ (k + 5) + 1 = k + 6
    BY Pow2Facts
  <1>7. Pow2[(k + 6) + 1] = 2 * Pow2[k + 6] /\ (k + 6) + 1 = k + 7
    BY Pow2Facts
  <1> QED BY <1>0, <1>1, <1>2, <1>3, <1>4, <1>5, <1>6, <1>7

(* Until 1000 * 2^k has lost its last bit, it is either whole or still     *)
(* larger than any 32-bit word. *)
LEMMA ShiftedInterval ==
  ASSUME NEW k \in Nat, k + 3 < Bits64, Bits32 + 2 <= Bits64
  PROVE  LET x == (1000 * Pow2[k]) % Pow2[Bits64]
         IN  \/ x = 1000 * Pow2[k]
             \/ x >= Pow2[Bits32] /\ 1000 * Pow2[k] >= Pow2[Bits32]
  <1> DEFINE m == Pow2[k + 3]
             w == Pow2[Bits64]
  <1>1. /\ Bits32 \in Nat /\ Bits64 \in Nat /\ Pow2[k] \in Nat \ {0} /\ Pow2[Bits32] \in Nat \ {0}
        /\ m \in Nat \ {0} /\ w \in Nat \ {0} /\ k + 3 \in Nat
    BY BackoffAssumption, Pow2Facts
  <1>2. 1000 * Pow2[k] = 125 * m
    BY <1>1, Pow2Unrolled
  <1>3. 4 * Pow2[Bits32] <= w
    <2>1. Bits32 + 2 \in Nat /\ Pow2[Bits32 + 2] = 4 * Pow2[Bits32]
      BY <1>1, Pow2Unrolled
    <2> QED BY <1>1, <2>1, Pow2Monotone
  <1>4. CASE Bits64 >= k + 3 + 7
    <2>1. Pow2[(k + 3) + 7] = 128 * m /\ (k + 3) + 7 \in Nat
      BY <1>1, Pow2Unrolled
    <2>2. 128 * m <= w
      BY <1>1, <1>4, <2>1, Pow2Monotone
    <2> HIDE DEF m, w
    <2>3. 125 * m \in Nat /\ 125 * m < w
      BY <1>1, <2>2
    <2>4. (125 * m) % w = 125 * m
      BY <1>1, <2>3, ModRange
    <2> QED BY <1>2, <2>4 DEF w
  <1>5. CASE Bits64 < k + 3 + 7
    <2>1. Bits64 \in {(k + 3) + 1, (k + 3) + 2, (k + 3) + 3, (k + 3) + 4, (k + 3) + 5, (k + 3) + 6}
      BY <1>1, <1>5
    <2>2. w \in {2 * m, 4 * m, 8 * m, 16 * m, 32 * m, 64 * m}
      BY <1>1, <2>1, Pow2Unrolled
    <2> HIDE DEF m, w
    <2>3. w <= 125 * m /\ w <= 4 * ((125 * m) % w)
      BY <1>1, <2>2, CutWord
    <2>4. (125 * m) % w \in Nat
      <3>1. 125 * m \in Nat
        BY <1>1
      <3> QED BY <1>1, <3>1, ModRange
    <2>5. Pow2[Bits32] <= (125 * m) % w /\ Pow2[Bits32] <= 125 * m
      BY <1>1, <1>3, <2>3, <2>4
    <2> QED BY <1>2, <2>5 DEF w
  <1> QED BY <1>1, <1>4, <1>5

LEMMA MaxMsIs == MaxMs = MaxIntervalS * 1000
  <1> DEFINE cap == MaxIntervalS * 1000
             w == Pow2[Bits32]
  <1>1. cap \in Nat /\ w \in Nat \ {0} /\ cap < w
    BY BackoffAssumption, Pow2Facts
  <1> HIDE DEF cap, w
  <1>2. cap % w = cap
    BY <1>1, ModRange
  <1> QED BY <1>2 DEF MaxMs, cap, w

(* The gap of the schedule, which a cap of 0 makes a gap of one tick.      *)
LEMMA NextIntervalIs ==
  ASSUME attempt \in Nat, attempt + 3 < Bits64, attempt <= ShiftCap, Bits32 + 2 <= Bits64
  PROVE  NextIntervalMs = 1000 * (IF Pow2[attempt] < MaxIntervalS THEN Pow2[attempt]
                                  ELSE MaxIntervalS)
  <1> DEFINE x == (1000 * Pow2[attempt]) % Pow2[Bits64]
  <1>1. /\ Pow2[attempt] \in Nat \ {0} /\ Pow2[Bits32] \in Nat \ {0} /\ Pow2[Bits64] \in Nat \ {0}
        /\ MaxIntervalS \in Nat /\ MaxIntervalS * 1000 < Pow2[Bits32] /\ ShiftCap \in Nat
    BY BackoffAssumption, Pow2Facts
  <1>2. MaxMs = MaxIntervalS * 1000
    BY MaxMsIs
  <1>3. (IF attempt < ShiftCap THEN attempt ELSE ShiftCap) = attempt
    BY <1>1
  <1>4. NextIntervalMs = IF x > MaxMs THEN MaxMs ELSE x
    BY <1>3 DEF NextIntervalMs
  <1>5. x = 1000 * Pow2[attempt] \/ (x >= Pow2[Bits32] /\ 1000 * Pow2[attempt] >= Pow2[Bits32])
    BY ShiftedInterval
  <1>6. x \in Nat
    <2>1. 1000 * Pow2[attempt] \in Nat
      BY <1>1
    <2> QED BY <1>1, <2>1, ModRange
  <1> HIDE DEF x
  <1> QED BY <1>1, <1>2, <1>4, <1>5, <1>6

(* The cut at the cap holds whatever the shift left of the interval. *)
LEMMA IntervalCut ==
  ASSUME attempt \in Nat
  PROVE  NextIntervalMs \in Nat /\ NextIntervalMs <= MaxIntervalS * 1000
  <1> DEFINE shift == IF attempt < ShiftCap THEN attempt ELSE ShiftCap
             x == (1000 * Pow2[shift]) % Pow2[Bits64]
  <1>1. shift \in Nat /\ MaxIntervalS \in Nat /\ Bits64 \in Nat
    BY BackoffAssumption
  <1> HIDE DEF shift
  <1>2. 1000 * Pow2[shift] \in Nat /\ Pow2[Bits64] \in Nat \ {0}
    BY <1>1, Pow2Facts
  <1>3. x \in Nat
    BY <1>2, ModRange
  <1>4. NextIntervalMs = IF x > MaxMs THEN MaxMs ELSE x
    BY DEF NextIntervalMs, shift
  <1> HIDE DEF x
  <1> QED BY <1>1, <1>3, <1>4, MaxMsIs

(* The milliseconds since the last retry fit their word. *)
LEMMA ElapsedMs ==
  ASSUME elapsed \in Nat, elapsed + 1 <= MaxIntervalS
  PROVE  ((elapsed + 1) * 1000) % Pow2[Bits32] = (elapsed + 1) * 1000
  <1> DEFINE ms == (elapsed + 1) * 1000
             w == Pow2[Bits32]
  <1>1. ms \in Nat /\ w \in Nat \ {0} /\ ms < w
    BY BackoffAssumption, Pow2Facts
  <1> HIDE DEF ms, w
  <1>2. ms % w = ms
    BY <1>1, ModRange
  <1> QED BY <1>2 DEF ms, w

-----------------------------------------------------------------------------
(* The theorems. *)

LEMMA WaitsWithinCap ==
  ASSUME TypeOK, ~Due
  PROVE  elapsed + 1 \in 1..(MaxIntervalS - 1)
  <1>1. attempt \in Nat /\ elapsed \in Nat /\ MaxIntervalS \in Nat
    BY BackoffAssumption DEF TypeOK
  <1>2. NextIntervalMs \in Nat /\ NextIntervalMs <= MaxIntervalS * 1000
    BY <1>1, IntervalCut
  <1>3. CASE MaxIntervalS = 0
    <2>1. NextIntervalMs = 0
      BY <1>2, <1>3
    <2>2. (elapsed + 1) * 1000 \in Nat /\ Pow2[Bits32] \in Nat \ {0}
      BY <1>1, BackoffAssumption, Pow2Facts
    <2>3. ((elapsed + 1) * 1000) % Pow2[Bits32] \in Nat
      BY <2>2, ModRange
    <2> QED BY <2>1, <2>3 DEF Due
  <1>4. CASE MaxIntervalS # 0
    <2>1. elapsed + 1 <= MaxIntervalS
      BY <1>1, <1>4 DEF TypeOK
    <2>2. (elapsed + 1) * 1000 < NextIntervalMs
      BY <1>1, <1>2, <2>1, ElapsedMs DEF Due
    <2> QED BY <1>1, <1>2, <2>2
  <1> QED BY <1>3, <1>4

(* Every variable keeps its type, with any words and any cap that fits     *)
(* them: the count of seconds never reaches the cap, so that neither it    *)
(* nor its milliseconds wrap (reconnect_handler.cc:29-30).                 *)
THEOREM BackoffIsTyped == Spec => []TypeOK
  <1>0. 0 \in 0..MaxAttempts
    BY BackoffAssumption
  <1>1. Init => TypeOK
    <2> SUFFICES ASSUME Init PROVE TypeOK
      OBVIOUS
    <2>1. reconnecting \in BOOLEAN /\ attempt \in 0..MaxAttempts /\ elapsed = 0
      BY <1>0 DEF Init
    <2>2. clock \in Nat /\ fired \in Nat
      BY DEF Init
    <2> QED BY <2>1, <2>2 DEF TypeOK
  <1>2. TypeOK /\ [Next]_vars => TypeOK'
    <2> SUFFICES ASSUME TypeOK, [Next]_vars PROVE TypeOK'
      OBVIOUS
    <2>1. CASE TickWaits
      <3>1. elapsed + 1 \in 1..(MaxIntervalS - 1)
        BY <2>1, WaitsWithinCap DEF TickWaits
      <3> QED BY <2>1, <3>1 DEF TypeOK, TickWaits
    <2>2. CASE TickFires
      BY <2>2, BackoffAssumption DEF TypeOK, TickFires
    <2>3. CASE OnDisconnected \/ TickReconnects \/ Reset
      <3>1. reconnecting' \in BOOLEAN /\ attempt' = 0 /\ elapsed' = 0
        BY <2>3 DEF OnDisconnected, TickReconnects, Reset
      <3>2. clock \in Nat /\ fired \in Nat
        BY DEF TypeOK
      <3>3. clock' \in Nat /\ fired' \in Nat
        BY <2>3, <3>2 DEF OnDisconnected, TickReconnects, Reset
      <3> QED BY <1>0, <3>1, <3>3 DEF TypeOK
    <2>4. CASE UNCHANGED vars
      BY <2>4 DEF TypeOK, vars
    <2> QED BY <2>1, <2>2, <2>3, <2>4 DEF Next, Tick
  <1> QED BY <1>1, <1>2, PTL DEF Spec

(* The seconds counted since the last retry are fewer than the gap.        *)
OnSchedule ==
    reconnecting =>
        /\ fired = Schedule[attempt]
        /\ clock = fired + elapsed
        /\ elapsed < Gap(attempt)

(* A tick is the one that ends the gap, or does not end it.                *)
LEMMA DueAtTheGap ==
  ASSUME TypeOK, reconnecting, OnSchedule,
         MaxAttempts + 3 < Bits64, MaxAttempts <= ShiftCap, Bits32 + 2 <= Bits64
  PROVE  Due <=> elapsed + 1 = Gap(attempt)
  <1> DEFINE gap == IF Pow2[attempt] < MaxIntervalS THEN Pow2[attempt] ELSE MaxIntervalS
  <1>1. /\ attempt \in Nat /\ elapsed \in Nat /\ MaxIntervalS \in Nat /\ Pow2[attempt] \in Nat \ {0}
        /\ attempt <= MaxAttempts /\ MaxAttempts \in Nat /\ ShiftCap \in Nat /\ Bits64 \in Nat
    BY BackoffAssumption, Pow2Facts DEF TypeOK
  <1>2. attempt + 3 < Bits64 /\ attempt <= ShiftCap
    BY <1>1
  <1>3. NextIntervalMs = 1000 * gap
    BY <1>1, <1>2, NextIntervalIs
  <1>4. CASE MaxIntervalS = 0
    <2>1. gap = 0 /\ Gap(attempt) = 1
      BY <1>1, <1>4 DEF Gap
    <2>2. (elapsed + 1) * 1000 \in Nat /\ Pow2[Bits32] \in Nat \ {0}
      BY <1>1, BackoffAssumption, Pow2Facts
    <2>3. ((elapsed + 1) * 1000) % Pow2[Bits32] \in Nat
      BY <2>2, ModRange
    <2>4. Due
      BY <1>3, <2>1, <2>3 DEF Due
    <2>5. elapsed = 0
      BY <1>1, <2>1 DEF OnSchedule
    <2> QED BY <2>1, <2>4, <2>5
  <1>5. CASE MaxIntervalS # 0
    <2>1. gap = Gap(attempt) /\ gap \in Nat /\ gap <= MaxIntervalS
      BY <1>1, <1>5 DEF Gap
    <2>2. elapsed + 1 <= gap
      BY <1>1, <2>1 DEF OnSchedule
    <2>3. ((elapsed + 1) * 1000) % Pow2[Bits32] = (elapsed + 1) * 1000
      BY <1>1, <2>1, <2>2, ElapsedMs
    <2> HIDE DEF gap
    <2>4. Due <=> (elapsed + 1) * 1000 >= 1000 * gap
      BY <1>3, <2>3 DEF Due
    <2> QED BY <1>1, <2>1, <2>2, <2>4
  <1> QED BY <1>4, <1>5

LEMMA ScheduleStep ==
  ASSUME TypeOK, OnSchedule, [Next]_vars,
         MaxAttempts + 3 < Bits64, MaxAttempts <= ShiftCap, Bits32 + 2 <= Bits64
  PROVE  OnSchedule'
  <1>1. /\ attempt \in Nat /\ elapsed \in Nat /\ clock \in Nat /\ fired \in Nat
        /\ Gap(attempt) \in Nat \ {0}
    BY GapType, BackoffAssumption DEF TypeOK
  <1>2. CASE TickWaits
    <2>1. elapsed + 1 # Gap(attempt)
      BY <1>2, DueAtTheGap DEF TickWaits
    <2> QED BY <1>1, <1>2, <2>1 DEF TickWaits, OnSchedule, Gap
  <1>3. CASE TickFires
    <2>1. /\ elapsed + 1 = Gap(attempt) /\ attempt' = attempt + 1 /\ fired' = clock + 1
          /\ clock' = clock + 1 /\ elapsed' = 0
      BY <1>3, DueAtTheGap DEF TickFires
    <2>2. Schedule[attempt + 1] = Schedule[attempt] + Gap(attempt) /\ Schedule[attempt] \in Nat
      BY <1>1, ScheduleFacts
    <2>3. fired = Schedule[attempt] /\ clock = fired + elapsed
      BY <1>3 DEF TickFires, OnSchedule
    <2>4. fired' = Schedule[attempt']
      BY <1>1, <2>1, <2>2, <2>3
    <2>5. Gap(attempt') \in Nat \ {0}
      BY <1>1, <2>1, GapType
    <2> QED BY <1>1, <2>1, <2>4, <2>5 DEF OnSchedule, Gap
  <1>4. CASE OnDisconnected
    <2>1. Gap(0) \in Nat \ {0}
      BY GapType
    <2> QED BY <1>4, <2>1, ScheduleFacts DEF OnDisconnected, OnSchedule, Gap
  <1>5. CASE TickReconnects \/ Reset
    BY <1>5 DEF TickReconnects, Reset, OnSchedule
  <1>6. CASE UNCHANGED vars
    BY <1>6 DEF vars, OnSchedule, Gap
  <1> QED BY <1>2, <1>3, <1>4, <1>5, <1>6 DEF Next, Tick

LEMMA ScheduleHolds ==
  ASSUME MaxAttempts + 3 < Bits64, MaxAttempts <= ShiftCap, Bits32 + 2 <= Bits64
  PROVE  Spec => [](TypeOK /\ OnSchedule)
  <1>1. Init => OnSchedule
    BY DEF Init, OnSchedule
  <1>2. TypeOK /\ OnSchedule /\ [Next]_vars => OnSchedule'
    BY ScheduleStep
  <1> QED BY <1>1, <1>2, BackoffIsTyped, PTL DEF Spec

(* The n-th retry of an outage fires exactly at the n-th tick of the       *)
(* documented schedule, and none is overdue, for any cap and as long as    *)
(* the shift leaves a bit of the 1000 in its word: 60 retries with the     *)
(* words and the shift of reconnect_handler.cc:40-48.                      *)
THEOREM RetriesKeepSchedule ==
  ASSUME MaxAttempts + 3 < Bits64, MaxAttempts <= ShiftCap, Bits32 + 2 <= Bits64
  PROVE  Spec => []RetriesOnSchedule
  <1>1. TypeOK /\ OnSchedule => RetriesOnSchedule
    <2> SUFFICES ASSUME TypeOK, OnSchedule, reconnecting
                 PROVE  fired = Schedule[attempt] /\ clock < Schedule[attempt + 1]
      BY DEF RetriesOnSchedule
    <2>1. attempt \in Nat /\ elapsed \in Nat /\ Gap(attempt) \in Nat
      BY GapType, BackoffAssumption DEF TypeOK
    <2>2. Schedule[attempt + 1] = Schedule[attempt] + Gap(attempt) /\ Schedule[attempt] \in Nat
      BY <2>1, ScheduleFacts
    <2> QED BY <2>1, <2>2 DEF OnSchedule
  <1> QED BY <1>1, ScheduleHolds, PTL

(* The interval doubles to the cap for those retries, and stays there.     *)
THEOREM IntervalsDouble ==
  ASSUME MaxAttempts + 3 < Bits64, MaxAttempts <= ShiftCap, Bits32 + 2 <= Bits64,
         MaxIntervalS >= 1
  PROVE  Spec => []IntervalDoublesToTheCap
  <1>1. TypeOK => IntervalDoublesToTheCap
    <2> SUFFICES ASSUME TypeOK PROVE NextIntervalMs = Gap(attempt) * 1000
      BY DEF IntervalDoublesToTheCap
    <2>1. /\ attempt \in Nat /\ attempt + 3 < Bits64 /\ attempt <= ShiftCap
          /\ MaxIntervalS \in Nat /\ Pow2[attempt] \in Nat
      BY BackoffAssumption, Pow2Facts DEF TypeOK
    <2> QED BY <2>1, NextIntervalIs DEF Gap
  <1> QED BY <1>1, BackoffIsTyped, PTL

LEMMA TwiceMultiple ==
  ASSUME NEW a \in Nat, NEW b \in Nat \ {0}, a % b = 0
  PROVE  (2 * a) % b = 0
  <1> DEFINE d == a \div b
             e == (2 * a) \div b
             r == (2 * a) % b
  <1>1. a = b * d /\ d \in Nat
    OBVIOUS
  <1>2. 2 * a = b * e + r /\ e \in Nat /\ r \in Nat /\ r < b
    OBVIOUS
  <1> HIDE DEF d, e, r
  <1>3. b * (2 * d) = b * e + r
    BY <1>1, <1>2
  <1>4. r = b * (2 * d - e) /\ 2 * d - e \in Int
    BY <1>1, <1>2, <1>3
  <1>5. CASE 2 * d - e <= 0
    <2>1. \A x \in Int : x <= 0 => b * x <= 0
      OBVIOUS
    <2> QED BY <1>2, <1>4, <1>5, <2>1 DEF r
  <1>6. CASE 2 * d - e >= 1
    <2>1. \A x \in Int : x >= 1 => b * x >= b
      OBVIOUS
    <2> QED BY <1>2, <1>4, <1>6, <2>1
  <1> QED BY <1>4, <1>5, <1>6

(* The last bit of the 1000 is lost three shifts before the word's width.  *)
LEMMA ShiftedOut ==
  ASSUME NEW k \in Nat, 3 <= Bits64, Bits64 <= k + 3
  PROVE  (1000 * Pow2[k]) % Pow2[Bits64] = 0
  <1> DEFINE w == Pow2[Bits64]
             Lost(i) == (1000 * Pow2[i]) % w = 0
             T == {i \in Nat : Bits64 <= i + 3 /\ ~Lost(i)}
  <1>1. SUFFICES ASSUME T # {} PROVE FALSE
    OBVIOUS
  <1>2. PICK i \in T : \A j \in T : i <= j
    BY <1>1, LeastElement
  <1>3. Bits64 \in Nat /\ w \in Nat \ {0} /\ i \in Nat
    BY <1>2, BackoffAssumption, Pow2Facts
  <1>4. CASE Bits64 = i + 3
    <2>1. w = 8 * Pow2[i] /\ Pow2[i] \in Nat \ {0}
      BY <1>3, <1>4, Pow2Unrolled, Pow2Facts
    <2>2. (1000 * Pow2[i]) % (8 * Pow2[i]) = 0
      <3>1. \A m \in Nat \ {0} : (1000 * m) % (8 * m) = 0
        OBVIOUS
      <3> QED BY <2>1, <3>1
    <2> QED BY <1>2, <2>1, <2>2
  <1>5. CASE Bits64 # i + 3
    <2>1. i - 1 \in Nat /\ Bits64 <= (i - 1) + 3 /\ (i - 1) + 1 = i
      BY <1>2, <1>3, <1>5
    <2>2. i - 1 \notin T
      BY <1>2, <2>1
    <2>3. Lost(i - 1)
      BY <2>1, <2>2
    <2>4. Pow2[i] = 2 * Pow2[i - 1] /\ Pow2[i - 1] \in Nat
      BY <2>1, Pow2Facts
    <2>5. 1000 * Pow2[i - 1] \in Nat /\ 1000 * Pow2[i] = 2 * (1000 * Pow2[i - 1])
      BY <2>4
    <2>6. Lost(i)
      BY <1>3, <2>3, <2>5, TwiceMultiple
    <2> QED BY <1>2, <2>6
  <1> QED BY <1>4, <1>5

(* Where the schedule ends, it gives way to a retry at every tick: after   *)
(* 61 retries with the words and the shift of reconnect_handler.cc:40-48.  *)
THEOREM ScheduleCollapses ==
  ASSUME 3 <= Bits64, Bits64 <= ShiftCap + 3
  PROVE  Spec => [](attempt + 3 >= Bits64 => NextIntervalMs = 0 /\ Due)
  <1>1. TypeOK => (attempt + 3 >= Bits64 => NextIntervalMs = 0 /\ Due)
    <2> SUFFICES ASSUME TypeOK, attempt + 3 >= Bits64 PROVE NextIntervalMs = 0 /\ Due
      OBVIOUS
    <2> DEFINE shift == IF attempt < ShiftCap THEN attempt ELSE ShiftCap
               x == (1000 * Pow2[shift]) % Pow2[Bits64]
    <2>1. attempt \in Nat /\ elapsed \in Nat /\ ShiftCap \in Nat /\ Bits64 \in Nat
      BY BackoffAssumption DEF TypeOK
    <2>2. shift \in Nat /\ Bits64 <= shift + 3
      BY <2>1
    <2> HIDE DEF shift
    <2>3. x = 0
      BY <2>2, ShiftedOut
    <2>4. NextIntervalMs = IF x > MaxMs THEN MaxMs ELSE x
      BY DEF NextIntervalMs, shift
    <2> HIDE DEF x
    <2>5. MaxMs \in Nat
      BY MaxMsIs, BackoffAssumption
    <2>6. NextIntervalMs = 0
      BY <2>3, <2>4, <2>5
    <2>7. ((elapsed + 1) * 1000) % Pow2[Bits32] \in Nat
      <3>1. (elapsed + 1) * 1000 \in Nat /\ Pow2[Bits32] \in Nat \ {0}
        BY <2>1, BackoffAssumption, Pow2Facts
      <3> QED BY <3>1, ModRange
    <2> QED BY <2>6, <2>7 DEF Due
  <1> QED BY <1>1, BackoffIsTyped, PTL
==============================================================================
