---------------------------- MODULE Scores_proofs ----------------------------
(***************************************************************************)
(* The arithmetic of the scheduler and of the analytics: what was learned  *)
(* is bounded and moves the right way, the candidates begin with the       *)
(* assignment, and the percentiles are ranks, for every number of          *)
(* outcomes, capabilities, preferences and metrics.                        *)
(***************************************************************************)
EXTENDS Scheduler, Analytics, FiniteSetTheorems, NaturalsInduction, TLAPS

(* Quotients.  \div rounds down. *)
\* A quotient is an integer, and times its divisor it is the dividend but for less
\* than the divisor.
LEMMA Quotient ==
  ASSUME NEW x \in Int, NEW n \in Nat \ {0}
  PROVE  x \div n \in Int /\ n * (x \div n) <= x /\ x < n * (x \div n) + n
OBVIOUS

\* Products with a natural number are ordered as their factors.
LEMMA Scaled ==
  ASSUME NEW x \in Int, NEW y \in Int, NEW b \in Nat, x <= y
  PROVE  x * b <= y * b /\ b * x <= b * y /\ x * b \in Int /\ y * b \in Int
OBVIOUS

\* A quotient is within a bound if the dividend is within as many of it.
LEMMA QuotientWithin ==
  ASSUME NEW x \in Int, NEW n \in Nat \ {0}, NEW u \in Int
  PROVE  /\ x <= n * u => x \div n <= u
         /\ n * u <= x => u <= x \div n
OBVIOUS

\* Quotients are ordered as the fractions are.
LEMMA QuotientsOrdered ==
  ASSUME NEW x \in Int, NEW y \in Int, NEW n \in Nat \ {0}, NEW m \in Nat \ {0},
         x * m <= y * n
  PROVE  x \div n <= y \div m
<1> DEFINE q == x \div n
<1>1. q \in Int /\ n * q <= x
  BY Quotient
<1> HIDE DEF q
<1>2. m * (n * q) <= m * x
  BY <1>1
<1>3. m * (n * q) = n * (m * q)
  BY <1>1
<1>4. n * (m * q) <= n * y
  BY <1>1, <1>2, <1>3
<1>5. m * q <= y
  BY <1>1, <1>4
<1> QED BY <1>1, <1>5, QuotientWithin DEF q
-----------------------------------------------------------------------------
(* Recursion.  A set of numbers with 0 and the successors of its members is *)
(* Nat.                                                                    *)
LEMMA SetInduction ==
  ASSUME NEW T, T \subseteq Nat, 0 \in T, \A n \in T : n + 1 \in T
  PROVE  T = Nat
<1> SUFFICES ASSUME T # Nat PROVE FALSE
  OBVIOUS
<1> DEFINE R == OpToRel(<, Nat)
<1>1. IsWellFoundedOn(R, Nat)
  BY NatLessThanWellFounded
<1>2. Nat \ T \subseteq Nat /\ Nat \ T # {}
  OBVIOUS
<1> HIDE DEF R
<1>3. PICK x \in Nat \ T : \A y \in Nat \ T : <<y, x>> \notin R
  BY <1>1, <1>2, WFMin
<1>4. x # 0 /\ x - 1 \in Nat /\ x - 1 < x
  BY <1>3
<1>5. <<x - 1, x>> \in R
  BY <1>3, <1>4 DEF R, OpToRel
<1>6. x - 1 \in T
  BY <1>3, <1>4, <1>5
<1>7. (x - 1) + 1 \in T
  BY <1>6
<1> QED BY <1>3, <1>4, <1>7

\* Steps from a number to the next, each from the one before it, can be taken any
\* number of times.
LEMMA Iterated ==
  ASSUME NEW a \in Int, NEW h \in [Nat \X Int -> Int], NEW n \in Nat
  PROVE  \E f \in [0 .. n -> Int] :
            f[0] = a /\ \A i \in 1 .. n : f[i] = h[<<i, f[i - 1]>>]
<1> DEFINE Reaches(m) == \E f \in [0 .. m -> Int] :
                            f[0] = a /\ \A i \in 1 .. m : f[i] = h[<<i, f[i - 1]>>]
           T == {m \in Nat : Reaches(m)}
<1>1. 0 \in T
  <2> DEFINE f == [i \in 0 .. 0 |-> a]
  <2>1. f \in [0 .. 0 -> Int] /\ f[0] = a /\ 1 .. 0 = {}
    OBVIOUS
  <2> QED BY <2>1
<1>2. ASSUME NEW m \in T
      PROVE  m + 1 \in T
  <2>1. PICK f \in [0 .. m -> Int] :
           f[0] = a /\ \A i \in 1 .. m : f[i] = h[<<i, f[i - 1]>>]
    OBVIOUS
  <2> DEFINE g == [i \in 0 .. m + 1 |-> IF i = m + 1 THEN h[<<i, f[m]>>] ELSE f[i]]
  <2>2. m \in Nat /\ f[m] \in Int /\ <<m + 1, f[m]>> \in Nat \X Int
    OBVIOUS
  <2>3. h[<<m + 1, f[m]>>] \in Int
    BY <2>2
  <2>4. g \in [0 .. m + 1 -> Int]
    BY <2>3
  <2>5. g[0] = a
    BY <2>1, <2>2
  <2>6. \A i \in 1 .. m + 1 : g[i] = h[<<i, g[i - 1]>>]
    <3> TAKE i \in 1 .. m + 1
    <3>1. CASE i = m + 1
      <4>1. g[i] = h[<<i, f[m]>>] /\ g[i - 1] = f[m]
        BY <2>2, <3>1
      <4> QED BY <4>1
    <3>2. CASE i # m + 1
      <4>1. i \in 1 .. m /\ i - 1 \in 0 .. m
        BY <2>2, <3>2
      <4>2. g[i] = f[i] /\ g[i - 1] = f[i - 1]
        BY <2>2, <3>2, <4>1
      <4> QED BY <2>1, <4>1, <4>2
    <3> QED BY <3>1, <3>2
  <2>7. Reaches(m + 1)
    BY <2>4, <2>5, <2>6
  <2> QED BY <2>2, <2>7
<1> HIDE DEF Reaches
<1>3. T = Nat
  <2> HIDE DEF T
  <2>1. T \subseteq Nat
    BY DEF T
  <2> QED BY <1>1, <1>2, <2>1, SetInduction
<1>4. Reaches(n)
  BY <1>3
<1> QED BY <1>4 DEF Reaches
-----------------------------------------------------------------------------
(* What was learned. *)
\* Halving keeps a number within a bound on both sides.
LEMMA HalvedWithin ==
  ASSUME NEW delta \in Int, NEW times \in Nat, NEW b \in Nat, -b <= delta, delta <= b
  PROVE  /\ Halved(delta, times) \in Int
         /\ -b <= Halved(delta, times) /\ Halved(delta, times) <= b
<1> DEFINE h == [p \in Nat \X Int |-> p[2] \div 2]
           half[i \in 0 .. times] == IF i = 0 THEN delta ELSE half[i - 1] \div 2
<1>1. h \in [Nat \X Int -> Int]
  <2>1. \A x \in Int : x \div 2 \in Int
    OBVIOUS
  <2> QED BY <2>1
<1>2. PICK f \in [0 .. times -> Int] :
         f[0] = delta /\ \A i \in 1 .. times : f[i] = h[<<i, f[i - 1]>>]
  <2> HIDE DEF h
  <2> QED BY <1>1, Iterated
<1>3. \A i \in 1 .. times : f[i] = f[i - 1] \div 2
  <2> TAKE i \in 1 .. times
  <2>1. i \in Nat /\ f[i - 1] \in Int
    OBVIOUS
  <2> QED BY <1>2, <2>1
<1>4. f = [i \in 0 .. times |-> IF i = 0 THEN delta ELSE f[i - 1] \div 2]
  BY <1>2, <1>3
<1>5. half = [i \in 0 .. times |-> IF i = 0 THEN delta ELSE half[i - 1] \div 2]
  BY <1>4
<1> HIDE DEF half
<1> DEFINE T == {i \in Nat : i <= times =>
                    half[i] \in Int /\ -b <= half[i] /\ half[i] <= b}
<1>6. 0 \in T
  BY <1>5
<1>7. ASSUME NEW i \in T
      PROVE  i + 1 \in T
  <2> SUFFICES ASSUME i + 1 <= times
               PROVE  half[i + 1] \in Int /\ -b <= half[i + 1] /\ half[i + 1] <= b
    OBVIOUS
  <2>1. half[i] \in Int /\ -b <= half[i] /\ half[i] <= b
    OBVIOUS
  <2>2. half[i + 1] = half[i] \div 2
    BY <1>5
  <2>3. \A x \in Int : -b <= x /\ x <= b =>
           x \div 2 \in Int /\ -b <= x \div 2 /\ x \div 2 <= b
    OBVIOUS
  <2> QED BY <2>1, <2>2, <2>3
<1>8. times \in T
  <2> HIDE DEF T
  <2>1. T \subseteq Nat
    BY DEF T
  <2> QED BY <1>6, <1>7, <2>1, SetInduction
<1>9. Halved(delta, times) = half[times]
  BY DEF Halved, half
<1> QED BY <1>8, <1>9

\* A total of integers that are zero but for some, which are within a bound.
LEMMA TotalWithin ==
  ASSUME NEW n \in Nat, NEW deltas \in [1 .. n -> Int], NEW counted \in SUBSET (1 .. n),
         NEW b \in Nat,
         \A i \in counted : -b <= deltas[i] /\ deltas[i] <= b,
         \A i \in (1 .. n) \ counted : deltas[i] = 0
  PROVE  /\ IsFiniteSet(counted)
         /\ Total(deltas, n) \in Int
         /\ -(b * Cardinality(counted)) <= Total(deltas, n)
         /\ Total(deltas, n) <= b * Cardinality(counted)
<1> DEFINE h == [p \in Nat \X Int |-> p[2] + (IF p[1] \in 1 .. n THEN deltas[p[1]] ELSE 0)]
           total[i \in 0 .. n] == IF i = 0 THEN 0 ELSE total[i - 1] + deltas[i]
           C(m) == counted \cap 1 .. m
<1>1. h \in [Nat \X Int -> Int]
  OBVIOUS
<1>2. PICK f \in [0 .. n -> Int] :
         f[0] = 0 /\ \A i \in 1 .. n : f[i] = h[<<i, f[i - 1]>>]
  <2> DEFINE zero == 0
  <2>1. zero \in Int
    OBVIOUS
  <2> HIDE DEF h, zero
  <2>2. \E f \in [0 .. n -> Int] :
           f[0] = zero /\ \A i \in 1 .. n : f[i] = h[<<i, f[i - 1]>>]
    BY <1>1, <2>1, Iterated
  <2> QED BY <2>2 DEF zero
<1>3. \A i \in 1 .. n : f[i] = f[i - 1] + deltas[i]
  <2> TAKE i \in 1 .. n
  <2>1. i \in Nat /\ f[i - 1] \in Int
    OBVIOUS
  <2> QED BY <1>2, <2>1
<1>4. f = [i \in 0 .. n |-> IF i = 0 THEN 0 ELSE f[i - 1] + deltas[i]]
  BY <1>2, <1>3
<1>5. total = [i \in 0 .. n |-> IF i = 0 THEN 0 ELSE total[i - 1] + deltas[i]]
  BY <1>4
<1> HIDE DEF total
<1>6. IsFiniteSet(counted) /\ C(n) = counted
  <2>1. IsFiniteSet(1 .. n)
    BY FS_Interval
  <2> QED BY <2>1, FS_Subset
<1>7. \A m \in Nat : IsFiniteSet(C(m)) /\ Cardinality(C(m)) \in Nat
  <2> TAKE m \in Nat
  <2>1. C(m) \in SUBSET counted
    OBVIOUS
  <2>2. IsFiniteSet(C(m))
    BY <1>6, <2>1, FS_Subset
  <2> QED BY <2>2, FS_CardinalityType
<1> DEFINE In(i) == /\ total[i] \in Int
                    /\ -(b * Cardinality(C(i))) <= total[i]
                    /\ total[i] <= b * Cardinality(C(i))
           T == {i \in Nat : i <= n => In(i)}
<1>8. 0 \in T
  <2>1. C(0) = {}
    OBVIOUS
  <2>2. Cardinality(C(0)) = 0
    BY <2>1, FS_EmptySet
  <2>3. total[0] = 0
    BY <1>5
  <2> QED BY <2>2, <2>3
<1>9. ASSUME NEW i \in T
      PROVE  i + 1 \in T
  <2> SUFFICES ASSUME i + 1 <= n
               PROVE  In(i + 1)
    OBVIOUS
  <2>1. i \in Nat /\ In(i) /\ i + 1 \in 1 .. n
    OBVIOUS
  <2>2. total[i + 1] = total[i] + deltas[i + 1] /\ deltas[i + 1] \in Int
    <3>1. (i + 1) - 1 = i /\ i + 1 # 0 /\ i + 1 \in 0 .. n
      BY <2>1
    <3> QED BY <1>5, <2>1, <3>1
  <2>3. Cardinality(C(i)) \in Nat
    BY <1>7, <2>1
  <2>4. CASE i + 1 \in counted
    <3>1. C(i + 1) = C(i) \cup {i + 1} /\ i + 1 \notin C(i)
      BY <2>1, <2>4
    <3>2. Cardinality(C(i + 1)) = Cardinality(C(i)) + 1
      <4> HIDE DEF C
      <4> QED BY <1>7, <2>1, <3>1, FS_AddElement
    <3>3. b * (Cardinality(C(i)) + 1) = b * Cardinality(C(i)) + b
      BY <2>3
    <3>4. -b <= deltas[i + 1] /\ deltas[i + 1] <= b /\ b * Cardinality(C(i)) \in Nat
      BY <2>3, <2>4
    <3> HIDE DEF C
    <3> QED BY <2>1, <2>2, <3>2, <3>3, <3>4
  <2>5. CASE i + 1 \notin counted
    <3>1. C(i + 1) = C(i)
      BY <2>1, <2>5
    <3>2. deltas[i + 1] = 0
      BY <2>1, <2>5
    <3> HIDE DEF C
    <3> QED BY <2>1, <2>2, <3>1, <3>2
  <2> QED BY <2>4, <2>5
<1>10. In(n)
  <2> HIDE DEF T, In
  <2>1. T \subseteq Nat
    BY DEF T
  <2>2. T = Nat
    BY <1>8, <1>9, <2>1, SetInduction
  <2> QED BY <2>2 DEF T
<1>11. Total(deltas, n) = total[n]
  BY DEF Total, total
<1> QED BY <1>6, <1>10, <1>11

\* What a record with outcomes says is within a tenth.
LEMMA DeltaWithin ==
  ASSUME NEW record, record.success_count \in Nat, record.failure_count \in Nat,
         record.age \in Nat, Outcomes(record) # 0
  PROVE  /\ Delta(record) \in Int
         /\ -Percent(10) <= Delta(record) /\ Delta(record) <= Percent(10)
<1> DEFINE n == Outcomes(record)
           s == record.success_count
           d == ((2 * s - n) * (Unit \div 10)) \div n
<1>1. PICK b \in Nat : Unit \div 10 = b /\ Percent(10) = b
  BY SMT DEF Unit, Percent
<1>2. n \in Nat \ {0} /\ s \in Nat /\ s <= n
  BY DEF Outcomes
<1> HIDE DEF n, s
<1>3. d \in Int /\ -b <= d /\ d <= b
  <2> DEFINE e == 2 * s - n
             x == e * b
  <2>1. e \in Int /\ e <= n /\ -n <= e
    BY <1>2
  <2>2. d = x \div n
    BY <1>1
  <2> HIDE DEF d, e
  <2>3. x \in Int /\ x <= n * b
    BY <1>2, <2>1, Scaled
  <2>4. -n \in Int /\ (-n) * b = n * (-b)
    BY <1>2
  <2>5. n * (-b) <= x
    BY <2>1, <2>4, Scaled
  <2> HIDE DEF x
  <2>6. x \div n \in Int
    BY <1>2, <2>3, Quotient
  <2>7. x \div n <= b /\ -b <= x \div n
    BY <1>2, <2>3, <2>5, QuotientWithin
  <2> QED BY <2>2, <2>6, <2>7
<1>4. Delta(record) = Decayed(d, record)
  BY DEF Delta, n, s
<1> HIDE DEF d
<1>5. record.age \div 7 \in Nat
  OBVIOUS
<1>6. /\ Decayed(d, record) \in Int
      /\ -b <= Decayed(d, record) /\ Decayed(d, record) <= b
  <2>1. /\ Halved(d, record.age \div 7) \in Int
        /\ -b <= Halved(d, record.age \div 7) /\ Halved(d, record.age \div 7) <= b
    BY <1>3, <1>5, HalvedWithin
  <2> QED BY <1>3, <2>1 DEF Decayed
<1> QED BY <1>1, <1>4, <1>6

\* Scores as they are read from the hub.
ReadScores(scores) ==
    \A k \in DOMAIN scores :
        scores[k].success_count \in Nat /\ scores[k].failure_count \in Nat
          /\ scores[k].age \in Nat

\* And so is the mean of the records that count.
LEMMA LearnedBoostWithin ==
  ASSUME NEW scores, ReadScores(scores), NEW runtime, NEW model, NEW capabilities,
         Len(capabilities) \in Nat, DOMAIN capabilities = 1 .. Len(capabilities)
  PROVE  LET boost == LearnedBoost(scores, runtime, model, capabilities)
         IN  boost \in Int /\ -Percent(10) <= boost /\ boost <= Percent(10)
<1> DEFINE key(i) == <<runtime, model.id, capabilities[i]>>
           counted == {i \in DOMAIN capabilities :
                          key(i) \in DOMAIN scores /\ Outcomes(scores[key(i)]) >= 5}
           deltas == [i \in DOMAIN capabilities |->
                         IF i \in counted THEN Delta(scores[key(i)]) ELSE 0]
           n == Len(capabilities)
           b == Percent(10)
           c == Cardinality(counted)
           t == Total(deltas, n)
<1>1. b \in Nat
  BY SMT DEF Percent, Unit
<1>2. LearnedBoost(scores, runtime, model, capabilities) = IF counted = {} THEN 0 ELSE t \div c
  BY DEF LearnedBoost
<1>3. \A i \in counted : Delta(scores[key(i)]) \in Int
                         /\ -b <= Delta(scores[key(i)]) /\ Delta(scores[key(i)]) <= b
  <2> TAKE i \in counted
  <2>1. key(i) \in DOMAIN scores /\ Outcomes(scores[key(i)]) # 0
    OBVIOUS
  <2> HIDE DEF key
  <2> QED BY <2>1, DeltaWithin DEF ReadScores
<1>4. counted \in SUBSET (1 .. n) /\ n \in Nat
  OBVIOUS
<1> HIDE DEF b, n, key
<1>5. /\ deltas \in [1 .. n -> Int]
      /\ \A i \in counted : -b <= deltas[i] /\ deltas[i] <= b
      /\ \A i \in (1 .. n) \ counted : deltas[i] = 0
  <2> DEFINE learned(i) == Delta(scores[key(i)])
  <2>1. DOMAIN capabilities = 1 .. n
    BY DEF n
  <2>2. /\ DOMAIN deltas = 1 .. n
        /\ \A i \in 1 .. n : deltas[i] = IF i \in counted THEN learned(i) ELSE 0
    BY <2>1
  <2>3. deltas = [i \in 1 .. n |-> deltas[i]]
    BY <2>1
  <2>4. \A i \in counted : learned(i) \in Int /\ -b <= learned(i) /\ learned(i) <= b
    BY <1>3
  <2> HIDE DEF counted, learned, deltas
  <2>5. \A i \in 1 .. n : deltas[i] \in Int
    BY <1>4, <2>2, <2>4
  <2> QED BY <1>1, <1>4, <2>2, <2>3, <2>4, <2>5
<1> HIDE DEF deltas, counted
<1>6. IsFiniteSet(counted) /\ t \in Int /\ -(b * c) <= t /\ t <= b * c
  BY <1>1, <1>4, <1>5, TotalWithin
<1>7. CASE counted = {}
  BY <1>1, <1>2, <1>7 DEF b
<1>8. CASE counted # {}
  <2>1. c \in Nat \ {0}
    BY <1>6, <1>8, FS_CardinalityType, FS_EmptySet
  <2> HIDE DEF c, t
  <2>2. t <= c * b /\ c * (-b) <= t
    BY <1>1, <1>6, <2>1
  <2>3. t \div c \in Int /\ t \div c <= b /\ -b <= t \div c
    BY <1>1, <1>6, <2>1, <2>2, Quotient, QuotientWithin
  <2> QED BY <1>2, <1>8, <2>3 DEF b
<1> QED BY <1>7, <1>8

\* Outcomes of a record that is fresh order what it says by their rates.
LEMMA FreshDeltasOrdered ==
  ASSUME NEW old, NEW new,
         old.success_count \in Nat, old.failure_count \in Nat, Outcomes(old) # 0,
         new.success_count \in Nat, new.failure_count \in Nat, Outcomes(new) # 0,
         old.age \in Nat, old.age <= 7, new.age \in Nat, new.age <= 7,
         old.success_count * Outcomes(new) <= new.success_count * Outcomes(old)
  PROVE  Delta(old) <= Delta(new)
<1>1. PICK b \in Nat : Unit \div 10 = b
  BY SMT DEF Unit
<1> DEFINE n == Outcomes(old)  m == Outcomes(new)
           s == old.success_count  u == new.success_count
           x == (2 * s - n) * b
           y == (2 * u - m) * b
<1>2. Delta(old) = x \div n /\ Delta(new) = y \div m
  BY <1>1 DEF Delta, Decayed
<1>3. n \in Nat \ {0} /\ m \in Nat \ {0} /\ s \in Nat /\ u \in Nat /\ s * m <= u * n
  BY DEF Outcomes
<1> HIDE DEF n, m, s, u
<1>4. x \in Int /\ y \in Int
  BY <1>3
<1>5. x * m <= y * n
  <2> DEFINE p == s * m  q == u * n  w == n * m
  <2>1. p \in Int /\ q \in Int /\ w \in Int /\ p <= q
    BY <1>3
  <2>2. (2 * s - n) * m = 2 * p - w /\ (2 * u - m) * n = 2 * q - w
    BY <1>3
  <2>3. x * m = b * ((2 * s - n) * m) /\ y * n = b * ((2 * u - m) * n)
    BY <1>3
  <2> HIDE DEF p, q, w, x, y
  <2> QED BY <2>1, <2>2, <2>3
<1> HIDE DEF x, y
<1> QED BY <1>2, <1>3, <1>4, <1>5, QuotientsOrdered
-----------------------------------------------------------------------------
(* The order of the candidates. *)
\* The shares of a score that are not learned.
LEMMA BaseIsInt ==
  ASSUME NEW slot, NEW runtime \in RuntimeType, NEW model, NEW profile \in SchedulerProfile
  PROVE  BaseScore(slot, runtime, model) + ProfileBoost(runtime, model, profile) \in Int
<1>1. CapabilityMatch(slot) \in Int
  BY DEF CapabilityMatch
<1>2. RuntimeQuality(runtime) \in Int
  BY DEF RuntimeQuality, RuntimeType
<1>3. CostEfficiency(model) \in Int
  BY DEF CostEfficiency
<1>4. ContextFit(model) \in Int
  BY SMT DEF ContextFit
<1>5. Latency(runtime) \in Int
  BY DEF Latency
<1>6. \A w, p : w \in Int /\ p \in Int => Hundredth(w, p) \in Int
  BY SMT DEF Hundredth, Unit
<1> DEFINE q == RuntimeQuality(runtime)  e == CostEfficiency(model)  l == Latency(runtime)
           a == CapabilityMatch(slot)    f == ContextFit(model)
<1>7. BaseScore(slot, runtime, model) \in Int
  <2> HIDE DEF a, q, e, f, l
  <2>0. 30 \in Int /\ 25 \in Int /\ 20 \in Int /\ 15 \in Int /\ 10 \in Int
    OBVIOUS
  <2>1. /\ Hundredth(30, a) \in Int
        /\ Hundredth(25, q) \in Int
        /\ Hundredth(20, e) \in Int
        /\ Hundredth(15, f) \in Int
        /\ Hundredth(10, l) \in Int
    BY <2>0, <1>1, <1>2, <1>3, <1>4, <1>5, <1>6 DEF a, q, e, f, l
  <2> QED BY <2>1 DEF BaseScore, a, q, e, f, l
<1>8. ProfileBoost(runtime, model, profile) \in Int
  <2> HIDE DEF q, e, l
  <2>0. 10 \in Int
    OBVIOUS
  <2>1. /\ Hundredth(10, e) \in Int
        /\ Hundredth(10, l) \in Int
        /\ Hundredth(10, q) \in Int
    BY <2>0, <1>2, <1>3, <1>5, <1>6 DEF q, e, l
  <2>2. profile = "budget_first" \/ profile = "speed_first" \/ profile = "quality_first"
    BY DEF SchedulerProfile
  <2> QED BY <2>1, <2>2 DEF ProfileBoost, q, e, l
<1> QED BY <1>7, <1>8

\* Every preference has a score.
LEMMA PreferenceScoreIsInt ==
  ASSUME NEW scores, ReadScores(scores), NEW models, NEW slot, WorkflowSlot(slot),
         NEW i \in DOMAIN slot.preferred, NEW profile \in SchedulerProfile
  PROVE  PreferenceScore(scores, models, slot, slot.preferred[i], profile) \in Int
<1> DEFINE r == slot.preferred[i].runtime
           m == ModelOf(models, slot.preferred[i].model)
<1>1. r \in RuntimeType
  BY DEF WorkflowSlot
<1> HIDE DEF r, m
<1>2. BaseScore(slot, r, m) + ProfileBoost(r, m, profile) \in Int
  BY <1>1, BaseIsInt
<1>3. LearnedDelta(scores, slot, r, m) \in Int
  <2>1. LearnedBoost(scores, r, m, slot.required_capabilities) \in Int
    BY LearnedBoostWithin DEF WorkflowSlot
  <2> QED BY <2>1 DEF LearnedDelta
<1>4. Score(scores, slot, r, m, profile) \in Int
  BY <1>2, <1>3 DEF Score
<1> QED BY <1>4 DEF PreferenceScore, r, m

\* The first candidate is the assignment, also among equals: the one that none
\* precedes is the first of those with the highest score.
LEMMA CandidatesBeginWithAssign ==
  ASSUME NEW scores, ReadScores(scores), NEW models, NEW slot, WorkflowSlot(slot),
         NEW profile \in SchedulerProfile, slot.preferred # <<>>
  PROVE  LET c == Candidates(scores, models, slot, profile)
         IN  /\ Len(c) = Len(slot.preferred)
             /\ <<c[1]>> = Assign(scores, models, slot, profile)
<1> DEFINE ps == slot.preferred
           n == Len(ps)
           score == [i \in DOMAIN ps |-> PreferenceScore(scores, models, slot, ps[i], profile)]
           Precedes(i, j) == score[i] > score[j] \/ (score[i] = score[j] /\ i < j)
           place(i) == 1 + Cardinality({j \in DOMAIN ps : Precedes(j, i)})
           best == {i \in DOMAIN ps : \A j \in DOMAIN ps : score[j] <= score[i]}
           c == Candidates(scores, models, slot, profile)
<1>1. n \in Nat \ {0} /\ DOMAIN ps = 1 .. n
  <2>1. n \in Nat /\ DOMAIN ps = 1 .. n
    BY DEF WorkflowSlot
  <2>2. n # 0
    <3> SUFFICES ASSUME n = 0 PROVE FALSE
      OBVIOUS
    <3>1. DOMAIN ps = {}
      BY <2>1
    <3> QED BY <3>1
  <2> QED BY <2>1, <2>2
<1>2. \A i \in 1 .. n : score[i] \in Int
  BY <1>1, PreferenceScoreIsInt
<1>3. c = [k \in 1 .. n |-> ps[CHOOSE i \in DOMAIN ps : place(i) = k]]
  BY <1>1 DEF Candidates
<1>4. Assign(scores, models, slot, profile)
        = <<ps[CHOOSE i \in best : \A j \in best : i <= j]>>
  BY DEF Assign
<1> HIDE DEF ps, n, score, c
<1>5. \A i \in 1 .. n : place(i) = 1 <=> \A j \in 1 .. n : ~Precedes(j, i)
  <2> TAKE i \in 1 .. n
  <2> DEFINE S == {j \in DOMAIN ps : Precedes(j, i)}
  <2>1. S \in SUBSET (1 .. n) /\ IsFiniteSet(1 .. n)
    BY <1>1, FS_Interval
  <2>2. IsFiniteSet(S) /\ Cardinality(S) \in Nat
    BY <2>1, FS_Subset, FS_CardinalityType
  <2>3. Cardinality(S) = 0 <=> S = {}
    BY <2>2, FS_EmptySet
  <2>4. place(i) = 1 <=> S = {}
    BY <2>2, <2>3
  <2> QED BY <1>1, <2>4
<1>6. \A i : (i \in DOMAIN ps /\ place(i) = 1)
                <=> (i \in best /\ \A j \in best : i <= j)
  <2> TAKE i
  <2>1. ASSUME i \in 1 .. n, \A j \in 1 .. n : ~Precedes(j, i)
        PROVE  i \in best /\ \A j \in best : i <= j
    <3>1. \A j \in 1 .. n : score[j] <= score[i]
      BY <1>2, <2>1
    <3>2. \A j \in best : score[j] = score[i]
      BY <1>1, <1>2, <2>1, <3>1
    <3> QED BY <1>1, <1>2, <2>1, <3>1, <3>2
  <2>2. ASSUME i \in best, \A j \in best : i <= j
        PROVE  i \in 1 .. n /\ \A j \in 1 .. n : ~Precedes(j, i)
    <3>1. i \in 1 .. n /\ \A j \in 1 .. n : score[j] <= score[i]
      BY <1>1, <2>2
    <3> SUFFICES ASSUME NEW j \in 1 .. n, Precedes(j, i)
                 PROVE  FALSE
      BY <3>1
    <3>2. score[j] = score[i] /\ j < i
      BY <1>2, <3>1
    <3>3. j \in best
      BY <1>1, <3>1, <3>2
    <3> QED BY <1>1, <2>2, <3>1, <3>2, <3>3
  <2> HIDE DEF place, best, Precedes
  <2> QED BY <1>1, <1>5, <2>1, <2>2
<1> HIDE DEF place, best
<1>7. (CHOOSE i \in DOMAIN ps : place(i) = 1) = (CHOOSE i \in best : \A j \in best : i <= j)
  BY <1>6
<1>8. c[1] = ps[CHOOSE i \in DOMAIN ps : place(i) = 1]
  BY <1>1, <1>3
<1>9. Len(c) = n
  BY <1>1, <1>3
<1> QED BY <1>4, <1>7, <1>8, <1>9 DEF n, ps, c
-----------------------------------------------------------------------------
(* Percentiles. *)
\* The index that percentile takes is the least that is not below pct percent of n.
LEMMA IndexIsRank ==
  ASSUME NEW n \in Nat \ {0}, NEW pct \in 1 .. 100
  PROVE  LET i == PercentileIndex(n, pct)
         IN  i \in 1 .. n /\ pct * n <= 100 * i /\ 100 * (i - 1) < pct * n
<1> DEFINE p == pct * n
           idx == (p - 1) \div 100
<1>1. p \in Nat \ {0} /\ p <= 100 * n
  <2>1. pct \in Nat /\ 1 <= pct /\ pct <= 100 /\ n \in Nat /\ 1 <= n
    OBVIOUS
  <2>2. p \in Int /\ pct * n <= 100 * n /\ 1 * n <= pct * n
    BY <2>1, Scaled
  <2> QED BY <2>1, <2>2
<1>2. PercentileIndex(n, pct) = 1 + (IF idx <= n - 1 THEN idx ELSE n - 1)
  BY <1>1 DEF PercentileIndex
<1> HIDE DEF p
<1>3. idx \in Int /\ 100 * idx <= p - 1 /\ p - 1 < 100 * idx + 100
  BY <1>1, Quotient
<1> HIDE DEF idx
<1>4. 0 <= idx /\ idx <= n - 1
  BY <1>1, <1>3
<1> QED BY <1>1, <1>2, <1>3, <1>4 DEF p

\* What comes before k, the latencies in ascending order.
Below(keys, latency, k) ==
    {j \in keys : latency[j] < latency[k] \/ (latency[j] = latency[k] /\ j < k)}

\* The number of those before it is a place of its own for every key.
LEMMA EveryRankIsTaken ==
  ASSUME NEW keys \in SUBSET Int, IsFiniteSet(keys), NEW latency \in [keys -> Nat],
         NEW i \in 0 .. Cardinality(keys) - 1
  PROVE  \E k \in keys : Cardinality(Below(keys, latency, k)) = i
<1> DEFINE n == Cardinality(keys)
           rank == [k \in keys |-> Cardinality(Below(keys, latency, k))]
<1>1. n \in Nat
  BY FS_CardinalityType
<1>2. \A k \in keys :
         /\ Below(keys, latency, k) \in SUBSET keys
         /\ k \notin Below(keys, latency, k)
         /\ IsFiniteSet(Below(keys, latency, k))
         /\ Cardinality(Below(keys, latency, k)) \in 0 .. n - 1
  <2> TAKE k \in keys
  <2> DEFINE B == Below(keys, latency, k)
  <2>1. B \in SUBSET keys /\ k \notin B
    BY DEF Below
  <2> HIDE DEF B
  <2>2. /\ IsFiniteSet(B) /\ Cardinality(B) \in Nat /\ Cardinality(B) <= n
        /\ n = Cardinality(B) => keys = B
    BY <2>1, FS_Subset, FS_CardinalityType
  <2>3. Cardinality(B) # n
    BY <2>1, <2>2
  <2> QED BY <1>1, <2>1, <2>2, <2>3 DEF B
<1>3. \A j, k \in keys : j # k => Cardinality(Below(keys, latency, j))
                                    # Cardinality(Below(keys, latency, k))
  <2>1. ASSUME NEW j \in keys, NEW k \in keys, j \in Below(keys, latency, k)
        PROVE  Cardinality(Below(keys, latency, j)) # Cardinality(Below(keys, latency, k))
    <3> DEFINE A == Below(keys, latency, j)  B == Below(keys, latency, k)
    <3>0. \A l \in keys : l \in Int /\ latency[l] \in Nat
      OBVIOUS
    <3>1. A \in SUBSET B /\ j \in B /\ j \notin A
      <4>1. latency[j] < latency[k] \/ (latency[j] = latency[k] /\ j < k)
        BY <2>1 DEF Below
      <4>2. ASSUME NEW l \in A
            PROVE  l \in B
        <5>1. l \in keys /\ (latency[l] < latency[j] \/ (latency[l] = latency[j] /\ l < j))
          BY DEF Below
        <5>2. latency[l] < latency[k] \/ (latency[l] = latency[k] /\ l < k)
          BY <3>0, <4>1, <5>1
        <5> QED BY <5>1, <5>2 DEF Below
      <4>3. j \in B /\ j \notin A
        BY <3>0, <4>1 DEF Below
      <4> QED BY <4>2, <4>3
    <3>2. IsFiniteSet(B)
      BY <1>2
    <3> HIDE DEF A, B
    <3>3. Cardinality(B) = Cardinality(A) => B = A
      BY <3>1, <3>2, FS_Subset
    <3> QED BY <3>1, <3>3 DEF A, B
  <2>2. \A j, k \in keys : j # k => j \in Below(keys, latency, k) \/ k \in Below(keys, latency, j)
    BY DEF Below
  <2> QED BY <2>1, <2>2
<1>4. rank \in Injection(keys, 0 .. n - 1)
  <2>1. rank \in [keys -> 0 .. n - 1]
    BY <1>2
  <2>2. \A j, k \in keys : rank[j] = rank[k] => j = k
    BY <1>3
  <2> HIDE DEF rank
  <2> QED BY <2>1, <2>2 DEF Injection, IsInjective
<1>5. IsFiniteSet(0 .. n - 1) /\ Cardinality(0 .. n - 1) = n
  <2>1. 0 \in Int /\ n - 1 \in Int
    BY <1>1
  <2>2. /\ IsFiniteSet(0 .. n - 1)
        /\ Cardinality(0 .. n - 1) = IF 0 > n - 1 THEN 0 ELSE (n - 1) - 0 + 1
    BY <2>1, FS_Interval
  <2> QED BY <1>1, <2>2
<1>6. rank \in Surjection(keys, 0 .. n - 1)
  <2> HIDE DEF rank
  <2> QED BY <1>4, <1>5, FS_Injection
<1>7. i \in 0 .. n - 1
  OBVIOUS
<1>8. \E k \in keys : rank[k] = i
  <2> HIDE DEF rank, n
  <2> QED BY <1>6, <1>7 DEF Surjection
<1> QED BY <1>8

\* The percentile is the least measured latency that pct percent of the measured
\* ones do not exceed.
LEMMA PercentileIsRank ==
  ASSUME NEW rows, IsFiniteSet(DOMAIN rows), DOMAIN rows \subseteq Int,
         \A k \in DOMAIN rows : rows[k].latency_ms \in Nat,
         NEW pct \in 1 .. 100,
         {k \in DOMAIN rows : rows[k].latency_ms # 0} # {}
  PROVE  LET x == Percentile(SortedLatencies(rows), pct)
             measured == {k \in DOMAIN rows : rows[k].latency_ms # 0}
             AtMost(y) == Cardinality({k \in measured : rows[k].latency_ms <= y})
         IN  /\ \E k \in measured : rows[k].latency_ms = x
             /\ 100 * AtMost(x) >= pct * Cardinality(measured)
             /\ \A k \in measured : rows[k].latency_ms < x =>
                   100 * AtMost(rows[k].latency_ms) < pct * Cardinality(measured)
<1> DEFINE keys == {k \in DOMAIN rows : rows[k].latency_ms # 0}
           latency == [k \in keys |-> rows[k].latency_ms]
           n == Cardinality(keys)
           i == PercentileIndex(n, pct)
           sorted == SortedLatencies(rows)
           x == Percentile(sorted, pct)
           Upto(y) == {k \in keys : rows[k].latency_ms <= y}
           rank(k) == Cardinality({j \in keys :
                        \/ rows[j].latency_ms < rows[k].latency_ms
                        \/ rows[j].latency_ms = rows[k].latency_ms /\ j < k})
<1>1. keys \in SUBSET Int /\ IsFiniteSet(keys) /\ n \in Nat \ {0}
  <2>1. keys \in SUBSET DOMAIN rows
    OBVIOUS
  <2>2. IsFiniteSet(keys)
    BY <2>1, FS_Subset
  <2>3. n \in Nat /\ n # 0
    BY <2>2, FS_CardinalityType, FS_EmptySet
  <2> QED BY <2>1, <2>2, <2>3
<1>2. /\ latency \in [keys -> Nat]
      /\ \A k \in keys : latency[k] = rows[k].latency_ms /\ latency[k] \in Nat /\ k \in Int
  BY <1>1
<1>3. \A k \in keys : rank(k) = Cardinality(Below(keys, latency, k))
  BY DEF Below
<1>4. sorted = [m \in 1 .. n |-> rows[CHOOSE k \in keys : rank(k) = m - 1].latency_ms]
  BY DEF SortedLatencies
<1>5. i \in 1 .. n /\ pct * n <= 100 * i /\ 100 * (i - 1) < pct * n
  <2> HIDE DEF n
  <2> QED BY <1>1, IndexIsRank
<1> HIDE DEF i, rank, sorted
<1>6. PICK k \in keys : rank(k) = i - 1 /\ sorted[i] = rows[k].latency_ms
  <2> HIDE DEF keys, latency, n
  <2>1. i - 1 \in 0 .. n - 1
    BY <1>1, <1>5
  <2>2. \E k \in keys : rank(k) = i - 1
    <3>1. \E k \in keys : Cardinality(Below(keys, latency, k)) = i - 1
      BY <1>1, <1>2, <2>1, EveryRankIsTaken DEF n
    <3> QED BY <1>3, <3>1
  <2>3. sorted[i] = rows[CHOOSE k \in keys : rank(k) = i - 1].latency_ms
    BY <1>4, <1>5
  <2> QED BY <2>2, <2>3
<1>7. x = rows[k].latency_ms
  <2>1. Len(sorted) = n
    <3> HIDE DEF n
    <3> QED BY <1>1, <1>4
  <2>2. sorted # <<>>
    BY <1>1, <2>1
  <2> QED BY <1>6, <2>1, <2>2 DEF Percentile, i
<1> DEFINE B == Below(keys, latency, k)
<1> HIDE DEF x, latency, keys
<1>8. B \in SUBSET keys /\ k \notin B /\ IsFiniteSet(B) /\ Cardinality(B) = i - 1
  <2>1. B \in SUBSET keys /\ k \notin B
    BY <1>2 DEF Below
  <2> QED BY <1>1, <1>3, <1>6, <2>1, FS_Subset
<1>9. \A y : IsFiniteSet(Upto(y)) /\ Cardinality(Upto(y)) \in Nat
  <2> TAKE y
  <2>1. Upto(y) \in SUBSET keys
    OBVIOUS
  <2> HIDE DEF Upto
  <2> QED BY <1>1, <2>1, FS_Subset, FS_CardinalityType
<1>10. Cardinality(Upto(x)) >= i
  <2>1. B \cup {k} \in SUBSET Upto(x)
    BY <1>2, <1>7, <1>8 DEF Below
  <2> HIDE DEF B, Upto
  <2>2. IsFiniteSet(B \cup {k}) /\ Cardinality(B \cup {k}) = i
    BY <1>5, <1>8, FS_AddElement
  <2> QED BY <1>9, <2>1, <2>2, FS_Subset
<1>11. ASSUME NEW l \in keys, rows[l].latency_ms < x
       PROVE  Cardinality(Upto(rows[l].latency_ms)) <= i - 1
  <2>1. Upto(rows[l].latency_ms) \in SUBSET B
    BY <1>2, <1>7, <1>11 DEF Below
  <2> HIDE DEF B, Upto
  <2> QED BY <1>8, <2>1, FS_Subset
<1>12. 100 * Cardinality(Upto(x)) >= pct * n
  <2> HIDE DEF Upto, n
  <2> QED BY <1>1, <1>5, <1>9, <1>10
<1>13. \A l \in keys : rows[l].latency_ms < x => 100 * Cardinality(Upto(rows[l].latency_ms)) < pct * n
  <2> HIDE DEF Upto, n
  <2> QED BY <1>1, <1>5, <1>9, <1>11
<1> QED BY <1>6, <1>7, <1>12, <1>13 DEF x, keys, sorted
=============================================================================
