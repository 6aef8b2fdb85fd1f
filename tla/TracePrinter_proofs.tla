------------------------ MODULE TracePrinter_proofs ------------------------
(***************************************************************************)
(* Proofs about the command line reader and the register operations, for    *)
(* every machine, width of a byte, buffer and trace: registers hold the     *)
(* numbers that arithmetic on whole registers gives, and each line tells    *)
(* the memory and the registers of its event.                               *)
(***************************************************************************)
EXTENDS TracePrinter, FiniteSetTheorems, SequenceTheorems, WellFoundedInduction, TLAPS

(***************************************************************************)
(* Recursion over numbers                                                  *)
(***************************************************************************)

\* A non-empty set of numbers has a smallest one.
LEMMA SmallestExists ==
    ASSUME NEW T \in SUBSET Nat, T # {}
    PROVE  \E k \in T : \A y \in T : k <= y
<1>1. PICK rel : rel = OpToRel(<, Nat)
  OBVIOUS
<1>2. IsWellFoundedOn(rel, Nat)
  BY <1>1, NatLessThanWellFounded
<1>3. PICK k \in T : \A y \in T : ~(<<y, k>> \in rel)
  BY <1>2, WFMin
<1>4. \A y \in T : ~(y < k)
  BY <1>1, <1>3 DEF OpToRel
<1> QED
  BY <1>4

\* A set of numbers that has 0 and with every number the next one has all.
LEMMA Induction ==
    ASSUME NEW T, 0 \in T, \A n \in Nat : n \in T => n + 1 \in T
    PROVE  Nat \subseteq T
<1>1. SUFFICES ASSUME Nat \ T # {} PROVE FALSE
  OBVIOUS
<1>2. PICK k \in Nat \ T : \A y \in Nat \ T : k <= y
  BY <1>1, SmallestExists
<1>3. k # 0 /\ k - 1 \in Nat
  BY <1>2
<1>4. k - 1 \in T
  BY <1>2, <1>3
<1> QED
  BY <1>2, <1>3, <1>4

Unfolds(f, base, step, n) == f[0] = base /\ \A i \in 1..n : f[i] = step[i][f[i - 1]]

\* For every number of steps there is the function of what they compute,
LEMMA StepsExist ==
    ASSUME NEW S, NEW base \in S, NEW step \in [Nat -> [S -> S]]
    PROVE  \A n \in Nat : \E f \in [0..n -> S] : Unfolds(f, base, step, n)
<1> DEFINE T == {n \in Nat : \E f \in [0..n -> S] : Unfolds(f, base, step, n)}
<1>1. 0 \in T
  <2>1. [i \in 0..0 |-> base] \in [0..0 -> S]
    OBVIOUS
  <2>2. Unfolds([i \in 0..0 |-> base], base, step, 0)
    BY DEF Unfolds
  <2> QED
    BY <2>1, <2>2
<1>2. ASSUME NEW n \in Nat, n \in T PROVE n + 1 \in T
  <2>1. PICK f \in [0..n -> S] : Unfolds(f, base, step, n)
    BY <1>2
  <2>2. PICK v \in S : v = step[n + 1][f[n]]
    OBVIOUS
  <2>3. PICK g : g = [i \in 0..(n + 1) |-> IF i = n + 1 THEN v ELSE f[i]]
    OBVIOUS
  <2>4. g \in [0..(n + 1) -> S]
    <3>1. ASSUME NEW i \in 0..(n + 1) PROVE (IF i = n + 1 THEN v ELSE f[i]) \in S
      OBVIOUS
    <3> QED
      BY <2>3, <3>1
  <2>5. g[n + 1] = v /\ \A i \in 0..n : g[i] = f[i]
    BY <2>3
  <2>6. ASSUME NEW i \in 1..(n + 1) PROVE g[i] = step[i][g[i - 1]]
    <3>1. CASE i = n + 1
      BY <2>2, <2>5, <3>1
    <3>2. CASE i # n + 1
      <4>1. i \in 1..n /\ i - 1 \in 0..n /\ i \in 0..n
        BY <3>2
      <4> QED
        BY <2>1, <2>5, <4>1 DEF Unfolds
    <3> QED
      BY <3>1, <3>2
  <2>7. Unfolds(g, base, step, n + 1)
    BY <2>1, <2>5, <2>6 DEF Unfolds
  <2> QED
    BY <2>4, <2>7
<1> HIDE DEF T
<1>3. Nat \subseteq T
  BY <1>1, <1>2, Induction
<1> QED
  BY <1>3 DEF T

\* where fewer steps compute the same,
LEMMA StepsAgree ==
    ASSUME NEW base, NEW step, NEW m \in Nat, NEW n \in Nat, m <= n, NEW f, NEW g,
           Unfolds(f, base, step, m), Unfolds(g, base, step, n)
    PROVE  f[m] = g[m]
<1> DEFINE T == {i \in Nat : i <= m => f[i] = g[i]}
<1>1. 0 \in T
  BY DEF Unfolds
<1>2. ASSUME NEW i \in Nat, i \in T PROVE i + 1 \in T
  <2> SUFFICES ASSUME i + 1 <= m PROVE f[i + 1] = g[i + 1]
    OBVIOUS
  <2>1. i + 1 \in 1..m /\ i + 1 \in 1..n /\ (i + 1) - 1 = i /\ f[i] = g[i]
    BY <1>2
  <2>2. f[i + 1] = step[i + 1][f[(i + 1) - 1]] /\ g[i + 1] = step[i + 1][g[(i + 1) - 1]]
    BY <2>1 DEF Unfolds
  <2> QED
    BY <2>1, <2>2
<1> HIDE DEF T
<1>3. Nat \subseteq T
  BY <1>1, <1>2, Induction
<1> QED
  BY <1>3 DEF T

StepsIn(S, base, step) == base \in S /\ step \in [Nat -> [S -> S]]
Computes(f, base, step) == f[0] = base /\ \A i \in Nat : f[i + 1] = step[i + 1][f[i]]

\* and one function of all steps.
LEMMA Recursion ==
    ASSUME NEW S, NEW base, NEW step, StepsIn(S, base, step)
    PROVE  \E f \in [Nat -> S] : Computes(f, base, step)
<1> USE DEF StepsIn
<1>1. PICK F : F = [n \in Nat |-> CHOOSE f \in [0..n -> S] : Unfolds(f, base, step, n)]
  OBVIOUS
<1>2. ASSUME NEW n \in Nat
      PROVE  F[n] \in [0..n -> S] /\ Unfolds(F[n], base, step, n)
  <2>1. \E f \in [0..n -> S] : Unfolds(f, base, step, n)
    BY StepsExist
  <2> QED
    BY <1>1, <2>1
<1>3. PICK h : h = [n \in Nat |-> F[n][n]]
  OBVIOUS
<1>4. h \in [Nat -> S]
  <2>1. ASSUME NEW n \in Nat PROVE F[n][n] \in S
    BY <1>2
  <2> QED
    BY <1>3, <2>1
<1>5. h[0] = base
  BY <1>2, <1>3 DEF Unfolds
<1>6. ASSUME NEW n \in Nat PROVE h[n + 1] = step[n + 1][h[n]]
  <2>1. PICK f \in [0..n -> S] : f = F[n] /\ Unfolds(f, base, step, n)
    BY <1>2
  <2>2. PICK g \in [0..(n + 1) -> S] : g = F[n + 1] /\ Unfolds(g, base, step, n + 1)
    BY <1>2
  <2>3. f[n] = g[n]
    <3>1. n + 1 \in Nat /\ n <= n + 1
      OBVIOUS
    <3> QED
      BY <2>1, <2>2, <3>1, StepsAgree
  <2>4. g[n + 1] = step[n + 1][g[(n + 1) - 1]]
    BY <2>2 DEF Unfolds
  <2>5. (n + 1) - 1 = n
    OBVIOUS
  <2>6. h[n] = f[n] /\ h[n + 1] = g[n + 1]
    BY <1>3, <2>1, <2>2
  <2> QED
    BY <2>3, <2>4, <2>5, <2>6
<1> QED
  BY <1>4, <1>5, <1>6 DEF Computes

(***************************************************************************)
(* Powers of two, quotients and remainders                                 *)
(***************************************************************************)

\* The equation that defines PowerOfTwo.
LEMMA Powers ==
    /\ PowerOfTwo[0] = 1
    /\ \A n \in Nat : PowerOfTwo[n] \in Nat \ {0} /\ PowerOfTwo[n + 1] = 2 * PowerOfTwo[n]
<1> DEFINE S == Nat \ {0}
           step == [n \in Nat |-> [v \in S |-> 2 * v]]
<1>1. \A v \in S : 2 * v \in S
  OBVIOUS
<1>2. StepsIn(S, 1, step)
  BY <1>1 DEF StepsIn
<1>3. \A n \in Nat : \A v \in S : step[n + 1][v] = 2 * v
  OBVIOUS
<1> HIDE DEF step, S
<1>4. PICK f \in [Nat -> S] : f[0] = 1 /\ \A n \in Nat : f[n + 1] = step[n + 1][f[n]]
  <2>1. \E f \in [Nat -> S] : Computes(f, 1, step)
    BY <1>2, Recursion
  <2> QED
    BY <2>1 DEF Computes
<1>5. \A n \in Nat : f[n + 1] = 2 * f[n]
  BY <1>3, <1>4
<1> USE DEF S
<1>6. f = [n \in Nat |-> IF n = 0 THEN 1 ELSE 2 * f[n - 1]]
  <2>1. ASSUME NEW n \in Nat PROVE f[n] = IF n = 0 THEN 1 ELSE 2 * f[n - 1]
    <3>1. CASE n = 0
      BY <1>4, <3>1
    <3>2. CASE n # 0
      <4>1. n - 1 \in Nat /\ (n - 1) + 1 = n
        BY <3>2
      <4> QED
        BY <1>5, <3>2, <4>1
    <3> QED
      BY <3>1, <3>2
  <2> QED
    BY <1>4, <2>1
<1>7. PowerOfTwo = [n \in Nat |-> IF n = 0 THEN 1 ELSE 2 * PowerOfTwo[n - 1]]
  BY <1>6, Zenon DEF PowerOfTwo
<1>8. PICK p : p = PowerOfTwo
  OBVIOUS
<1>9. p[0] = 1 /\ \A n \in Nat : p[n + 1] = 2 * p[n]
  <2>1. p = [n \in Nat |-> IF n = 0 THEN 1 ELSE 2 * p[n - 1]]
    BY <1>7, <1>8
  <2> QED
    BY <2>1
<1> DEFINE T == {n \in Nat : p[n] \in S}
<1>10. 0 \in T
  BY <1>9
<1>11. ASSUME NEW n \in Nat, n \in T PROVE n + 1 \in T
  BY <1>1, <1>9, <1>11
<1> HIDE DEF T
<1>12. Nat \subseteq T
  BY <1>10, <1>11, Induction
<1> QED
  BY <1>8, <1>9, <1>12 DEF T

\* 2^(m+n) = 2^m 2^n
LEMMA PowerOfSum ==
    ASSUME NEW m \in Nat, NEW n \in Nat
    PROVE  PowerOfTwo[m + n] = PowerOfTwo[m] * PowerOfTwo[n]
<1> DEFINE T == {i \in Nat : PowerOfTwo[m + i] = PowerOfTwo[m] * PowerOfTwo[i]}
<1>1. 0 \in T
  BY Powers
<1>2. ASSUME NEW i \in Nat, i \in T PROVE i + 1 \in T
  <2>1. m + i \in Nat /\ m + (i + 1) = (m + i) + 1
    OBVIOUS
  <2>2. PowerOfTwo[m + (i + 1)] = 2 * PowerOfTwo[m + i]
    BY <2>1, Powers
  <2>3. PowerOfTwo[i + 1] = 2 * PowerOfTwo[i]
    BY Powers
  <2>4. PICK a \in Nat : a = PowerOfTwo[m]
    BY Powers
  <2>5. PICK b \in Nat : b = PowerOfTwo[i]
    BY Powers
  <2>6. 2 * (a * b) = a * (2 * b)
    OBVIOUS
  <2> QED
    BY <1>2, <2>2, <2>3, <2>4, <2>5, <2>6
<1> HIDE DEF T
<1>3. Nat \subseteq T
  BY <1>1, <1>2, Induction
<1> QED
  BY <1>3 DEF T

\* A number is quotient times divisor plus remainder,
LEMMA Divided ==
    ASSUME NEW x \in Nat, NEW m \in Nat \ {0}
    PROVE  /\ x \div m \in Nat /\ x % m \in 0..(m - 1)
           /\ x = (x \div m) * m + (x % m)
<1>1. x \div m \in Nat /\ x % m \in 0..(m - 1)
  OBVIOUS
<1>2. PICK q \in Nat : q = x \div m
  BY <1>1
<1>3. PICK r \in 0..(m - 1) : r = x % m
  BY <1>1
<1>4. x = m * q + r
  BY <1>2, <1>3
<1>5. x = q * m + r
  BY <1>4
<1> QED
  BY <1>1, <1>2, <1>3, <1>5

\* and there is one way to write it so.
LEMMA DividedOnce ==
    ASSUME NEW q \in Nat, NEW m \in Nat \ {0}, NEW r \in 0..(m - 1)
    PROVE  (q * m + r) \div m = q /\ (q * m + r) % m = r
<1>1. PICK x \in Nat : x = q * m + r
  OBVIOUS
<1>2. PICK a \in Nat : a = x \div m
  BY Divided
<1>3. PICK b \in 0..(m - 1) : b = x % m
  BY Divided
<1>4. x = a * m + b
  BY <1>2, <1>3, Divided
<1>5. (a - q) * m = r - b
  BY <1>1, <1>4
<1>6. a = q
  <2>1. ASSUME a > q PROVE FALSE
    <3>1. (a - q) * m >= m
      BY <2>1
    <3> QED
      BY <1>5, <3>1
  <2>2. ASSUME a < q PROVE FALSE
    <3>1. (a - q) * m <= 0 - m
      BY <2>2
    <3> QED
      BY <1>5, <3>1
  <2> QED
    BY <2>1, <2>2
<1>7. b = r
  BY <1>1, <1>4, <1>6
<1> QED
  BY <1>1, <1>2, <1>3, <1>6, <1>7

\* Below a multiple, a number in front of it counts as many as it has of them.
LEMMA Stacked ==
    ASSUME NEW low \in Nat, NEW high \in Nat, NEW m \in Nat \ {0}, NEW k \in Nat \ {0},
           low < m, high < k
    PROVE  low + high * m \in Nat /\ low + high * m < m * k
<1>1. high * m \in Nat
  OBVIOUS
<1>2. high + 1 <= k
  OBVIOUS
<1>3. (high + 1) * m <= k * m
  BY <1>2
<1>4. (high + 1) * m = high * m + m
  OBVIOUS
<1> QED
  BY <1>1, <1>3, <1>4

\* Dividing twice is dividing by the product, and so for the remainder.
LEMMA DividedTwice ==
    ASSUME NEW x \in Nat, NEW m \in Nat \ {0}, NEW k \in Nat \ {0}
    PROVE  /\ x \div (m * k) = (x \div m) \div k
           /\ x % (m * k) = (x % m) + ((x \div m) % k) * m
<1>1. PICK q \in Nat : q = x \div m
  BY Divided
<1>2. PICK r \in 0..(m - 1) : r = x % m
  BY Divided
<1>3. x = q * m + r
  BY <1>1, <1>2, Divided
<1>4. PICK a \in Nat : a = q \div k
  BY Divided
<1>5. PICK b \in 0..(k - 1) : b = q % k
  BY Divided
<1>6. q = a * k + b
  BY <1>4, <1>5, Divided
<1>7. PICK n \in Nat \ {0} : n = m * k
  OBVIOUS
<1>8. r + b * m \in Nat /\ r + b * m < m * k
  BY Stacked
<1>9. x = a * n + (r + b * m)
  <2>1. q * m = a * n + b * m
    BY <1>6, <1>7
  <2> QED
    BY <1>3, <2>1
<1>10. r + b * m \in 0..(n - 1)
  BY <1>7, <1>8
<1>11. x \div n = a /\ x % n = r + b * m
  BY <1>9, <1>10, DividedOnce
<1> QED
  BY <1>1, <1>2, <1>4, <1>5, <1>7, <1>11

\* The weight of a byte is that of the one before times ByteMod.
LEMMA Weights ==
    /\ ByteMod \in Nat /\ ByteMod > 1 /\ Weight(0) = 1
    /\ \A n \in Nat : Weight(n) \in Nat \ {0} /\ Weight(n + 1) = Weight(n) * ByteMod
<1>1. BitsPerByte \in Nat \ {0}
  BY ByteAssumption
<1>2. ByteMod > 1 /\ ByteMod \in Nat
  <2>1. PICK n \in Nat : BitsPerByte = n + 1
    <3>1. BitsPerByte - 1 \in Nat /\ BitsPerByte = (BitsPerByte - 1) + 1
      BY <1>1
    <3> QED
      BY <3>1
  <2>2. PowerOfTwo[n + 1] = 2 * PowerOfTwo[n] /\ PowerOfTwo[n] \in Nat \ {0}
    BY Powers
  <2> QED
    BY <2>1, <2>2 DEF ByteMod
<1>3. Weight(0) = 1
  BY <1>1, Powers DEF Weight
<1>4. ASSUME NEW n \in Nat
      PROVE  Weight(n) \in Nat \ {0} /\ Weight(n + 1) = Weight(n) * ByteMod
  <2>1. PICK i \in Nat : i = BitsPerByte * n
    BY <1>1
  <2>2. BitsPerByte * (n + 1) = i + BitsPerByte
    BY <1>1, <2>1
  <2>3. PowerOfTwo[i + BitsPerByte] = PowerOfTwo[i] * PowerOfTwo[BitsPerByte]
    BY <1>1, PowerOfSum
  <2>4. PowerOfTwo[i] \in Nat \ {0}
    BY Powers
  <2> QED
    BY <2>1, <2>2, <2>3, <2>4 DEF Weight, ByteMod
<1> QED
  BY <1>2, <1>3, <1>4

(***************************************************************************)
(* The number in a buffer                                                  *)
(***************************************************************************)

\* A buffer of n bytes has that length, and numbers below ByteMod in it.
LEMMA BufferLength ==
    ASSUME NEW n \in Nat, NEW b \in Bytes(n)
    PROVE  /\ Len(b) = n /\ DOMAIN b = 1..n
           /\ \A i \in 1..n : b[i] \in Nat /\ b[i] < ByteMod
<1>1. ByteMod \in Nat
  BY Weights
<1>2. b \in [1..n -> 0..(ByteMod - 1)]
  BY DEF Bytes
<1>3. PICK S : S = 0..(ByteMod - 1)
  OBVIOUS
<1>4. Len(b) \in Nat /\ DOMAIN b = 1..Len(b)
  <2>1. b \in [1..n -> S]
    BY <1>2, <1>3
  <2>2. b = [i \in 1..n |-> b[i]] /\ \A i \in 1..n : b[i] \in S
    BY <2>1
  <2>3. b \in Seq(S)
    BY <2>2
  <2> QED
    BY <2>3, LenProperties
<1>5. Len(b) = n
  BY <1>2, <1>4
<1> QED
  BY <1>1, <1>2, <1>5

\* v has the numbers of the first i bytes of b, up to n.
Sums(v, b, n) ==
    /\ v \in [0..n -> Nat] /\ v[0] = 0
    /\ \A i \in 1..n : v[i] = v[i - 1] + b[i] * Weight(i - 1)

\* The equation that defines ValueOf.
LEMMA ValueSummed ==
    ASSUME NEW n \in Nat, NEW b \in Bytes(n)
    PROVE  \E v : Sums(v, b, n) /\ ValueOf(b) = v[n]
<1>1. Len(b) = n /\ \A i \in 1..n : b[i] \in Nat
  BY BufferLength
<1>2. PICK w : w = [i \in 1..n |-> b[i] * Weight(i - 1)]
  OBVIOUS
<1>3. \A i \in 1..n : w[i] \in Nat /\ w[i] = b[i] * Weight(i - 1)
  <2>1. ASSUME NEW i \in 1..n PROVE b[i] * Weight(i - 1) \in Nat
    <3>1. i - 1 \in Nat
      OBVIOUS
    <3>2. Weight(i - 1) \in Nat
      BY <3>1, Weights
    <3> QED
      BY <1>1, <3>2
  <2> QED
    BY <1>2, <2>1
<1> DEFINE step == [i \in Nat |-> [x \in Nat |-> IF i \in 1..n THEN x + w[i] ELSE 0]]
<1>4. StepsIn(Nat, 0, step)
  <2>1. \A i \in Nat : \A x \in Nat : (IF i \in 1..n THEN x + w[i] ELSE 0) \in Nat
    BY <1>3
  <2> QED
    BY <2>1 DEF StepsIn
<1>5. \A i \in Nat : \A x \in Nat : i + 1 \in 1..n => step[i + 1][x] = x + w[i + 1]
  OBVIOUS
<1> HIDE DEF step
<1>6. PICK f \in [Nat -> Nat] : f[0] = 0 /\ \A i \in Nat : f[i + 1] = step[i + 1][f[i]]
  <2>1. \E f \in [Nat -> Nat] : Computes(f, 0, step)
    BY <1>4, Recursion
  <2> QED
    BY <2>1 DEF Computes
<1>7. PICK g : g = [i \in 0..n |-> f[i]]
  OBVIOUS
<1>8. g = [i \in 0..n |-> IF i = 0 THEN 0 ELSE g[i - 1] + b[i] * Weight(i - 1)]
  <2>1. ASSUME NEW i \in 0..n
        PROVE  f[i] = IF i = 0 THEN 0 ELSE g[i - 1] + b[i] * Weight(i - 1)
    <3>1. CASE i = 0
      BY <1>6, <3>1
    <3>2. CASE i # 0
      <4>1. PICK j \in Nat : i = j + 1
        <5>1. i - 1 \in Nat /\ i = (i - 1) + 1
          BY <3>2
        <5> QED
          BY <5>1
      <4>2. i \in 1..n /\ j \in 0..n /\ i - 1 = j
        BY <4>1
      <4>3. f[i] = f[j] + w[i]
        BY <1>5, <1>6, <4>1, <4>2
      <4>4. g[j] = f[j]
        BY <1>7, <4>2
      <4> QED
        BY <1>3, <3>2, <4>2, <4>3, <4>4
    <3> QED
      BY <3>1, <3>2
  <2> QED
    BY <1>7, <2>1
<1> DEFINE upTo == CHOOSE h : h = [i \in 0..n |-> IF i = 0 THEN 0
                                                  ELSE h[i - 1] + b[i] * Weight(i - 1)]
<1>9. upTo = [i \in 0..n |-> IF i = 0 THEN 0 ELSE upTo[i - 1] + b[i] * Weight(i - 1)]
  BY <1>8, Zenon
<1>10. ValueOf(b) = upTo[n]
  BY <1>1, Zenon DEF ValueOf
<1> HIDE DEF upTo
<1>11. /\ DOMAIN upTo = 0..n /\ upTo = [i \in 0..n |-> upTo[i]] /\ upTo[0] = 0
       /\ \A i \in 1..n : upTo[i] = upTo[i - 1] + b[i] * Weight(i - 1)
  <2>1. PICK u : u = upTo
    OBVIOUS
  <2>2. u = [i \in 0..n |-> IF i = 0 THEN 0 ELSE u[i - 1] + b[i] * Weight(i - 1)]
    BY <1>9, <2>1
  <2>3. DOMAIN u = 0..n /\ u = [i \in 0..n |-> u[i]]
    BY <2>2
  <2>4. u[0] = 0
    BY <2>2
  <2>5. ASSUME NEW i \in 1..n PROVE u[i] = u[i - 1] + b[i] * Weight(i - 1)
    <3>1. i \in 0..n /\ i # 0
      OBVIOUS
    <3> QED
      BY <2>2, <3>1
  <2> QED
    BY <2>1, <2>3, <2>4, <2>5
<1> DEFINE T == {i \in Nat : i <= n => upTo[i] \in Nat}
<1>12. 0 \in T
  BY <1>11
<1>13. ASSUME NEW i \in Nat, i \in T PROVE i + 1 \in T
  <2> SUFFICES ASSUME i + 1 <= n PROVE upTo[i + 1] \in Nat
    OBVIOUS
  <2>1. i + 1 \in 1..n /\ (i + 1) - 1 = i /\ upTo[i] \in Nat
    BY <1>13
  <2>2. upTo[i + 1] = upTo[i] + w[i + 1]
    BY <1>3, <1>11, <2>1
  <2> QED
    BY <1>3, <2>1, <2>2
<1> HIDE DEF T
<1>14. Nat \subseteq T
  BY <1>12, <1>13, Induction
<1>15. \A i \in 0..n : upTo[i] \in Nat
  BY <1>14 DEF T
<1>16. upTo \in [0..n -> Nat]
  BY <1>11, <1>15
<1>17. Sums(upTo, b, n)
  BY <1>11, <1>16 DEF Sums
<1> QED
  BY <1>10, <1>17

\* The first i bytes hold a number below the weight of the next.
LEMMA SumsBelow ==
    ASSUME NEW n \in Nat, NEW b \in Bytes(n), NEW v, Sums(v, b, n)
    PROVE  \A i \in 0..n : v[i] \in Nat /\ v[i] < Weight(i)
<1> DEFINE T == {i \in Nat : i <= n => v[i] \in Nat /\ v[i] < Weight(i)}
<1>1. 0 \in T
  BY Weights DEF Sums
<1>2. ASSUME NEW i \in Nat, i \in T PROVE i + 1 \in T
  <2> SUFFICES ASSUME i + 1 <= n PROVE v[i + 1] \in Nat /\ v[i + 1] < Weight(i + 1)
    OBVIOUS
  <2>1. i + 1 \in 1..n /\ (i + 1) - 1 = i /\ v[i] \in Nat /\ v[i] < Weight(i)
    BY <1>2
  <2>2. v[i + 1] = v[i] + b[i + 1] * Weight(i)
    BY <2>1 DEF Sums
  <2>3. b[i + 1] \in Nat /\ b[i + 1] < ByteMod
    BY <2>1, BufferLength
  <2>4. Weight(i) \in Nat \ {0} /\ Weight(i + 1) = Weight(i) * ByteMod /\ ByteMod \in Nat \ {0}
    BY Weights
  <2>5. v[i] + b[i + 1] * Weight(i) \in Nat /\ v[i] + b[i + 1] * Weight(i) < Weight(i) * ByteMod
    BY <2>1, <2>3, <2>4, Stacked
  <2> QED
    BY <2>2, <2>4, <2>5
<1> HIDE DEF T
<1>3. Nat \subseteq T
  BY <1>1, <1>2, Induction
<1> QED
  BY <1>3 DEF T

\* A buffer holds a number below the weight of a byte behind it.
LEMMA ValueBelow ==
    ASSUME NEW n \in Nat, NEW b \in Bytes(n)
    PROVE  ValueOf(b) \in Nat /\ ValueOf(b) < Weight(n)
<1>1. PICK v : Sums(v, b, n) /\ ValueOf(b) = v[n]
  BY ValueSummed
<1> QED
  BY <1>1, SumsBelow

(***************************************************************************)
(* Numbers taken apart into bytes, and added byte by byte                  *)
(***************************************************************************)

\* The bytes of a number hold what of it fits in them.
LEMMA BytesOfValue ==
    ASSUME NEW n \in Nat, NEW x \in Nat
    PROVE  BytesOf(x, n) \in Bytes(n) /\ ValueOf(BytesOf(x, n)) = x % Weight(n)
<1>1. ASSUME NEW i \in Nat
      PROVE  (x \div Weight(i)) \in Nat /\ ((x \div Weight(i)) % ByteMod) \in 0..(ByteMod - 1)
  <2>1. PICK w \in Nat \ {0} : w = Weight(i)
    BY Weights
  <2>2. PICK q \in Nat : q = x \div w
    BY Divided
  <2>3. PICK m \in Nat \ {0} : m = ByteMod
    BY Weights
  <2>4. q % m \in 0..(m - 1)
    BY Divided
  <2> QED
    BY <2>1, <2>2, <2>3, <2>4
<1>2. PICK b : b = BytesOf(x, n)
  OBVIOUS
<1>3. \A i \in 1..n : b[i] = (x \div Weight(i - 1)) % ByteMod
  BY <1>2 DEF BytesOf
<1>4. b \in Bytes(n)
  <2>1. ASSUME NEW i \in 1..n
        PROVE  ((x \div Weight(i - 1)) % ByteMod) \in 0..(ByteMod - 1)
    <3>1. i - 1 \in Nat
      OBVIOUS
    <3> QED
      BY <1>1, <3>1
  <2> QED
    BY <1>2, <2>1 DEF BytesOf, Bytes
<1>5. PICK v : Sums(v, b, n) /\ ValueOf(b) = v[n]
  BY <1>4, ValueSummed
<1> DEFINE T == {i \in Nat : i <= n => v[i] = x % Weight(i)}
<1>6. 0 \in T
  <2>1. x % 1 = 0
    OBVIOUS
  <2> QED
    BY <1>5, <2>1, Weights DEF Sums
<1>7. ASSUME NEW i \in Nat, i \in T PROVE i + 1 \in T
  <2> SUFFICES ASSUME i + 1 <= n PROVE v[i + 1] = x % Weight(i + 1)
    OBVIOUS
  <2>1. i + 1 \in 1..n /\ (i + 1) - 1 = i /\ v[i] = x % Weight(i)
    BY <1>7
  <2>2. v[i + 1] = v[i] + b[i + 1] * Weight(i)
    BY <1>5, <2>1 DEF Sums
  <2>3. b[i + 1] = (x \div Weight(i)) % ByteMod
    BY <1>3, <2>1
  <2>4. PICK w \in Nat \ {0} : w = Weight(i)
    BY Weights
  <2>5. PICK m \in Nat \ {0} : m = ByteMod
    BY Weights
  <2>6. x % (w * m) = (x % w) + ((x \div w) % m) * w
    BY DividedTwice
  <2>7. Weight(i + 1) = w * m
    BY <2>4, <2>5, Weights
  <2> QED
    BY <2>1, <2>2, <2>3, <2>4, <2>5, <2>6, <2>7
<1> HIDE DEF T
<1>8. Nat \subseteq T
  BY <1>6, <1>7, Induction
<1>9. v[n] = x % Weight(n)
  BY <1>8 DEF T
<1> QED
  BY <1>2, <1>4, <1>5, <1>9

\* c has the carry out of every byte of the sum of a and b.
Carries(c, a, b, n) ==
    /\ c \in [0..n -> Nat] /\ c[0] = 0
    /\ \A i \in 1..n : c[i] = (a[i] + b[i] + c[i - 1]) \div ByteMod

\* The equation that defines the carries of AddBytes.
LEMMA CarriesOfSum ==
    ASSUME NEW n \in Nat, NEW a \in Bytes(n), NEW b \in Bytes(n)
    PROVE  \E c : /\ Carries(c, a, b, n)
                  /\ AddBytes(a, b) = [i \in 1..n |-> (a[i] + b[i] + c[i - 1]) % ByteMod]
<1>1. /\ Len(a) = n /\ DOMAIN a = 1..n
      /\ \A i \in 1..n : a[i] \in Nat /\ b[i] \in Nat
  BY BufferLength
<1>2. PICK m \in Nat \ {0} : m = ByteMod
  BY Weights
<1>3. \A i \in 1..n : \A x \in Nat : (a[i] + b[i] + x) \div m \in Nat
  <2>1. ASSUME NEW i \in 1..n, NEW x \in Nat PROVE (a[i] + b[i] + x) \div m \in Nat
    <3>1. PICK y \in Nat : y = a[i] + b[i] + x
      BY <1>1
    <3> QED
      BY <3>1, Divided
  <2> QED
    BY <2>1
<1> DEFINE step == [i \in Nat |-> [x \in Nat |->
                       IF i \in 1..n THEN (a[i] + b[i] + x) \div m ELSE 0]]
<1>4. StepsIn(Nat, 0, step)
  <2>1. \A i \in Nat : \A x \in Nat :
            (IF i \in 1..n THEN (a[i] + b[i] + x) \div m ELSE 0) \in Nat
    BY <1>3
  <2> QED
    BY <2>1 DEF StepsIn
<1>5. \A i \in Nat : \A x \in Nat :
          i + 1 \in 1..n => step[i + 1][x] = (a[i + 1] + b[i + 1] + x) \div m
  OBVIOUS
<1> HIDE DEF step
<1>6. PICK f \in [Nat -> Nat] : f[0] = 0 /\ \A i \in Nat : f[i + 1] = step[i + 1][f[i]]
  <2>1. \E f \in [Nat -> Nat] : Computes(f, 0, step)
    BY <1>4, Recursion
  <2> QED
    BY <2>1 DEF Computes
<1>7. PICK g : g = [i \in 0..n |-> f[i]]
  OBVIOUS
<1>8. g = [i \in 0..n |-> IF i = 0 THEN 0 ELSE (a[i] + b[i] + g[i - 1]) \div ByteMod]
  <2>1. ASSUME NEW i \in 0..n
        PROVE  f[i] = IF i = 0 THEN 0 ELSE (a[i] + b[i] + g[i - 1]) \div ByteMod
    <3>1. CASE i = 0
      BY <1>6, <3>1
    <3>2. CASE i # 0
      <4>1. PICK j \in Nat : i = j + 1
        <5>1. i - 1 \in Nat /\ i = (i - 1) + 1
          BY <3>2
        <5> QED
          BY <5>1
      <4>2. i \in 1..n /\ j \in 0..n /\ i - 1 = j
        BY <4>1
      <4>3. f[i] = (a[i] + b[i] + f[j]) \div m
        BY <1>5, <1>6, <4>1, <4>2
      <4>4. g[j] = f[j]
        BY <1>7, <4>2
      <4> QED
        BY <1>2, <3>2, <4>2, <4>3, <4>4
    <3> QED
      BY <3>1, <3>2
  <2> QED
    BY <1>7, <2>1
<1> DEFINE carry == CHOOSE h : h = [i \in 0..n |-> IF i = 0 THEN 0
                                       ELSE (a[i] + b[i] + h[i - 1]) \div ByteMod]
<1>9. carry = [i \in 0..n |-> IF i = 0 THEN 0 ELSE (a[i] + b[i] + carry[i - 1]) \div ByteMod]
  BY <1>8, Zenon
<1>10. AddBytes(a, b) = [i \in 1..n |-> (a[i] + b[i] + carry[i - 1]) % ByteMod]
  <2> DEFINE d == CHOOSE h : h = [i \in 0..Len(a) |-> IF i = 0 THEN 0
                                      ELSE (a[i] + b[i] + h[i - 1]) \div ByteMod]
  <2>1. AddBytes(a, b) = [i \in DOMAIN a |-> (a[i] + b[i] + d[i - 1]) % ByteMod]
    BY DEF AddBytes
  <2>2. d = carry
    BY <1>1, Zenon
  <2> HIDE DEF carry, d
  <2> QED
    BY <1>1, <2>1, <2>2
<1> HIDE DEF carry
<1>11. PICK c : c = carry
  OBVIOUS
<1>12. c = [i \in 0..n |-> IF i = 0 THEN 0 ELSE (a[i] + b[i] + c[i - 1]) \div m]
  BY <1>2, <1>9, <1>11
<1>13. DOMAIN c = 0..n /\ c = [i \in 0..n |-> c[i]] /\ c[0] = 0
  BY <1>12
<1>14. ASSUME NEW i \in 1..n PROVE c[i] = (a[i] + b[i] + c[i - 1]) \div m
  <2>1. i \in 0..n /\ i # 0
    OBVIOUS
  <2> QED
    BY <1>12, <2>1
<1> DEFINE T == {i \in Nat : i <= n => c[i] \in Nat}
<1>15. 0 \in T
  BY <1>13
<1>16. ASSUME NEW i \in Nat, i \in T PROVE i + 1 \in T
  <2> SUFFICES ASSUME i + 1 <= n PROVE c[i + 1] \in Nat
    OBVIOUS
  <2>1. i + 1 \in 1..n /\ (i + 1) - 1 = i /\ c[i] \in Nat
    BY <1>16
  <2>2. c[i + 1] = (a[i + 1] + b[i + 1] + c[i]) \div m
    BY <1>14, <2>1
  <2> QED
    BY <1>3, <2>1, <2>2
<1> HIDE DEF T
<1>17. Nat \subseteq T
  BY <1>15, <1>16, Induction
<1>18. c \in [0..n -> Nat]
  <2>1. \A i \in 0..n : c[i] \in Nat
    BY <1>17 DEF T
  <2> QED
    BY <1>13, <2>1
<1>19. Carries(c, a, b, n)
  BY <1>2, <1>13, <1>14, <1>18 DEF Carries
<1> QED
  BY <1>10, <1>11, <1>19

\* Bytes added with carry hold the sum of the numbers, the last carry dropped.
LEMMA SumOfBytes ==
    ASSUME NEW n \in Nat, NEW a \in Bytes(n), NEW b \in Bytes(n)
    PROVE  /\ AddBytes(a, b) \in Bytes(n)
           /\ ValueOf(AddBytes(a, b)) = (ValueOf(a) + ValueOf(b)) % Weight(n)
<1>1. PICK c : /\ Carries(c, a, b, n)
               /\ AddBytes(a, b) = [i \in 1..n |-> (a[i] + b[i] + c[i - 1]) % ByteMod]
  BY CarriesOfSum
<1>2. PICK r : r = AddBytes(a, b)
  OBVIOUS
<1>3. PICK m \in Nat \ {0} : m = ByteMod
  BY Weights
<1>4. \A i \in 1..n : a[i] \in Nat /\ b[i] \in Nat
  BY BufferLength
<1>5. ASSUME NEW i \in 1..n
      PROVE  /\ c[i - 1] \in Nat /\ c[i] \in Nat
             /\ r[i] \in 0..(m - 1) /\ a[i] + b[i] + c[i - 1] = c[i] * m + r[i]
  <2>1. i - 1 \in 0..n /\ i \in 0..n
    OBVIOUS
  <2>2. c[i - 1] \in Nat /\ c[i] \in Nat
    BY <1>1, <2>1 DEF Carries
  <2>3. PICK x \in Nat : x = a[i] + b[i] + c[i - 1]
    BY <1>4, <2>2
  <2>4. c[i] = x \div m /\ r[i] = x % m
    BY <1>1, <1>2, <1>3, <2>3 DEF Carries
  <2>5. x % m \in 0..(m - 1) /\ x = (x \div m) * m + (x % m)
    BY Divided
  <2> QED
    BY <2>2, <2>3, <2>4, <2>5
<1>6. r \in Bytes(n)
  <2>1. r = [i \in 1..n |-> r[i]]
    BY <1>1, <1>2
  <2> QED
    BY <1>3, <1>5, <2>1 DEF Bytes
<1>7. PICK u : Sums(u, a, n) /\ ValueOf(a) = u[n]
  BY ValueSummed
<1>8. PICK v : Sums(v, b, n) /\ ValueOf(b) = v[n]
  BY ValueSummed
<1>9. PICK w : Sums(w, r, n) /\ ValueOf(r) = w[n]
  BY <1>6, ValueSummed
<1>10. \A i \in 0..n : u[i] \in Nat /\ v[i] \in Nat /\ w[i] \in Nat /\ c[i] \in Nat
  BY <1>1, <1>7, <1>8, <1>9 DEF Sums, Carries
<1> DEFINE T == {i \in Nat : i <= n => u[i] + v[i] = c[i] * Weight(i) + w[i]}
<1>11. 0 \in T
  BY <1>1, <1>7, <1>8, <1>9, Weights DEF Sums, Carries
<1>12. ASSUME NEW i \in Nat, i \in T PROVE i + 1 \in T
  <2> SUFFICES ASSUME i + 1 <= n
               PROVE  u[i + 1] + v[i + 1] = c[i + 1] * Weight(i + 1) + w[i + 1]
    OBVIOUS
  <2>1. /\ i + 1 \in 1..n /\ (i + 1) - 1 = i /\ i \in 0..n /\ i + 1 \in 0..n
        /\ u[i] + v[i] = c[i] * Weight(i) + w[i]
    BY <1>12
  <2>2. PICK p \in Nat \ {0} : p = Weight(i)
    BY Weights
  <2>3. Weight(i + 1) = p * m
    BY <1>3, <2>2, Weights
  <2>4. /\ u[i + 1] = u[i] + a[i + 1] * p /\ v[i + 1] = v[i] + b[i + 1] * p
        /\ w[i + 1] = w[i] + r[i + 1] * p
    BY <1>7, <1>8, <1>9, <2>1, <2>2 DEF Sums
  <2>5. a[i + 1] + b[i + 1] + c[i] = c[i + 1] * m + r[i + 1] /\ r[i + 1] \in Nat
    BY <1>5, <2>1
  <2>6. PICK x \in Nat : x = a[i + 1]
    BY <1>4, <2>1
  <2>7. PICK y \in Nat : y = b[i + 1]
    BY <1>4, <2>1
  <2>8. PICK z \in Nat : z = r[i + 1]
    BY <2>5
  <2>9. PICK d \in Nat : d = c[i]
    BY <1>10, <2>1
  <2>10. PICK e \in Nat : e = c[i + 1]
    BY <1>10, <2>1
  <2>11. (x + y + d) * p = (e * m + z) * p
    BY <2>5, <2>6, <2>7, <2>8, <2>9, <2>10
  <2>12. x * p + y * p + d * p = e * (p * m) + z * p
    BY <2>11
  <2>13. u[i + 1] + v[i + 1] = (u[i] + v[i]) + x * p + y * p
    BY <1>10, <2>1, <2>4, <2>6, <2>7
  <2>14. u[i] + v[i] = d * p + w[i]
    BY <2>1, <2>2, <2>9
  <2>15. u[i + 1] + v[i + 1] = (d * p + w[i]) + x * p + y * p
    BY <2>13, <2>14
  <2>16. u[i + 1] + v[i + 1] = e * (p * m) + (w[i] + z * p)
    BY <1>10, <2>1, <2>12, <2>15
  <2> QED
    BY <2>3, <2>4, <2>8, <2>10, <2>16
<1> HIDE DEF T
<1>13. Nat \subseteq T
  BY <1>11, <1>12, Induction
<1>14. u[n] + v[n] = c[n] * Weight(n) + w[n]
  BY <1>13 DEF T
<1>15. PICK p \in Nat \ {0} : p = Weight(n)
  BY Weights
<1>16. w[n] \in 0..(p - 1)
  <2>1. w[n] \in Nat /\ w[n] < Weight(n)
    BY <1>6, <1>9, ValueBelow
  <2> QED
    BY <1>15, <2>1
<1>17. PICK q \in Nat : q = c[n]
  BY <1>10
<1>18. (q * p + w[n]) % p = w[n]
  BY <1>16, DividedOnce
<1>19. (u[n] + v[n]) % p = w[n]
  BY <1>14, <1>15, <1>17, <1>18
<1> QED
  BY <1>2, <1>6, <1>7, <1>8, <1>9, <1>15, <1>19

(***************************************************************************)
(* Numbers bit by bit                                                      *)
(***************************************************************************)

\* A bit is 0 or 1, and a gate makes one of two.
LEMMA BitValue ==
    ASSUME NEW x \in Nat, NEW k \in Nat
    PROVE  Bit(x, k) \in 0..1
<1>1. PICK p \in Nat \ {0} : p = PowerOfTwo[k]
  BY Powers
<1>2. PICK q \in Nat : q = x \div p
  BY Divided
<1>3. q % 2 \in 0..1
  OBVIOUS
<1> QED
  BY <1>1, <1>2, <1>3 DEF Bit

\* v has the numbers of the first i bits that a gate makes of x and y, up to n.
BitSums(v, operator, x, y, n) ==
    /\ v \in [0..n -> Nat] /\ v[0] = 0
    /\ \A i \in 1..n :
          v[i] = v[i - 1] + Gate(operator, Bit(x, i - 1), Bit(y, i - 1)) * PowerOfTwo[i - 1]

\* A gate makes a bit.
LEMMA GateValue ==
    ASSUME NEW operator, NEW x \in Nat, NEW y \in Nat, NEW k \in Nat
    PROVE  Gate(operator, Bit(x, k), Bit(y, k)) \in 0..1
<1>1. PICK b \in 0..1 : b = Bit(x, k)
  BY BitValue
<1>2. PICK c \in 0..1 : c = Bit(y, k)
  BY BitValue
<1>3. b * c \in 0..1 /\ b + c - b * c \in 0..1
  <2>1. b = 0 \/ b = 1
    OBVIOUS
  <2> QED
    BY <2>1
<1>4. Gate(operator, b, c) \in 0..1
  BY <1>3 DEF Gate
<1> QED
  BY <1>1, <1>2, <1>4

\* The equation that defines OfBits.
LEMMA BitsSummed ==
    ASSUME NEW operator, NEW x \in Nat, NEW y \in Nat, NEW n \in Nat
    PROVE  \E v : BitSums(v, operator, x, y, n) /\ OfBits(operator, x, y, n) = v[n]
<1> DEFINE Bits(i) == Gate(operator, Bit(x, i - 1), Bit(y, i - 1)) * PowerOfTwo[i - 1]
<1>1. PICK w : w = [i \in 1..n |-> Bits(i)]
  OBVIOUS
<1>2. \A i \in 1..n : w[i] \in Nat /\ w[i] = Bits(i)
  <2>1. ASSUME NEW i \in 1..n PROVE Bits(i) \in Nat
    <3>1. PICK j \in Nat : j = i - 1
      OBVIOUS
    <3>2. PICK g \in 0..1 : g = Gate(operator, Bit(x, j), Bit(y, j))
      BY GateValue
    <3>3. PICK p \in Nat : p = PowerOfTwo[j]
      BY Powers
    <3>4. g * p \in Nat
      OBVIOUS
    <3> QED
      BY <3>1, <3>2, <3>3, <3>4
  <2> HIDE DEF Bits
  <2> QED
    BY <1>1, <2>1
<1> DEFINE step == [i \in Nat |-> [s \in Nat |-> IF i \in 1..n THEN s + w[i] ELSE 0]]
<1>4. StepsIn(Nat, 0, step)
  <2>1. \A i \in Nat : \A s \in Nat : (IF i \in 1..n THEN s + w[i] ELSE 0) \in Nat
    BY <1>2
  <2> QED
    BY <2>1 DEF StepsIn
<1>5. \A i \in Nat : \A s \in Nat : i + 1 \in 1..n => step[i + 1][s] = s + w[i + 1]
  OBVIOUS
<1> HIDE DEF step
<1>6. PICK f \in [Nat -> Nat] : f[0] = 0 /\ \A i \in Nat : f[i + 1] = step[i + 1][f[i]]
  <2>1. \E f \in [Nat -> Nat] : Computes(f, 0, step)
    BY <1>4, Recursion
  <2> QED
    BY <2>1 DEF Computes
<1>7. PICK g : g = [i \in 0..n |-> f[i]]
  OBVIOUS
<1>8. g = [i \in 0..n |-> IF i = 0 THEN 0 ELSE g[i - 1] + Bits(i)]
  <2> HIDE DEF Bits
  <2>1. ASSUME NEW i \in 0..n PROVE f[i] = IF i = 0 THEN 0 ELSE g[i - 1] + Bits(i)
    <3>1. CASE i = 0
      BY <1>6, <3>1
    <3>2. CASE i # 0
      <4>1. PICK j \in Nat : i = j + 1
        <5>1. i - 1 \in Nat /\ i = (i - 1) + 1
          BY <3>2
        <5> QED
          BY <5>1
      <4>2. i \in 1..n /\ j \in 0..n /\ i - 1 = j
        BY <4>1
      <4>3. f[i] = f[j] + w[i]
        BY <1>5, <1>6, <4>1, <4>2
      <4>4. g[j] = f[j]
        BY <1>7, <4>2
      <4> QED
        BY <1>2, <3>2, <4>2, <4>3, <4>4
    <3> QED
      BY <3>1, <3>2
  <2> QED
    BY <1>7, <2>1
<1> DEFINE upTo == CHOOSE h : h = [i \in 0..n |-> IF i = 0 THEN 0 ELSE h[i - 1] + Bits(i)]
<1>9. OfBits(operator, x, y, n) = upTo[n]
  BY DEF OfBits
<1> HIDE DEF Bits
<1>10. upTo = [i \in 0..n |-> IF i = 0 THEN 0 ELSE upTo[i - 1] + Bits(i)]
  BY <1>8, Zenon
<1> HIDE DEF upTo
<1>11. PICK u : u = upTo
  OBVIOUS
<1>12. u = [i \in 0..n |-> IF i = 0 THEN 0 ELSE u[i - 1] + Bits(i)]
  BY <1>10, <1>11
<1>13. DOMAIN u = 0..n /\ u = [i \in 0..n |-> u[i]] /\ u[0] = 0
  BY <1>12
<1>14. ASSUME NEW i \in 1..n PROVE u[i] = u[i - 1] + Bits(i)
  <2>1. i \in 0..n /\ i # 0
    OBVIOUS
  <2> QED
    BY <1>12, <2>1
<1> DEFINE T == {i \in Nat : i <= n => u[i] \in Nat}
<1>15. 0 \in T
  BY <1>13
<1>16. ASSUME NEW i \in Nat, i \in T PROVE i + 1 \in T
  <2> SUFFICES ASSUME i + 1 <= n PROVE u[i + 1] \in Nat
    OBVIOUS
  <2>1. i + 1 \in 1..n /\ (i + 1) - 1 = i /\ u[i] \in Nat
    BY <1>16
  <2>2. u[i + 1] = u[i] + w[i + 1]
    BY <1>2, <1>14, <2>1
  <2> QED
    BY <1>2, <2>1, <2>2
<1> HIDE DEF T
<1>17. Nat \subseteq T
  BY <1>15, <1>16, Induction
<1>18. u \in [0..n -> Nat]
  <2>1. \A i \in 0..n : u[i] \in Nat
    BY <1>17 DEF T
  <2> QED
    BY <1>13, <2>1
<1>19. BitSums(u, operator, x, y, n)
  BY <1>13, <1>14, <1>18 DEF BitSums, Bits
<1> QED
  BY <1>9, <1>11, <1>19

\* So many bits hold a number below the power of two.
LEMMA BitsBelow ==
    ASSUME NEW operator, NEW x \in Nat, NEW y \in Nat, NEW n \in Nat
    PROVE  OfBits(operator, x, y, n) \in Nat /\ OfBits(operator, x, y, n) < PowerOfTwo[n]
<1>1. PICK v : BitSums(v, operator, x, y, n) /\ OfBits(operator, x, y, n) = v[n]
  BY BitsSummed
<1> DEFINE T == {i \in Nat : i <= n => v[i] \in Nat /\ v[i] < PowerOfTwo[i]}
<1>2. 0 \in T
  <2>1. v[0] = 0
    BY <1>1 DEF BitSums
  <2>2. PowerOfTwo[0] = 1
    BY Powers
  <2> QED
    BY <2>1, <2>2
<1>3. ASSUME NEW i \in Nat, i \in T PROVE i + 1 \in T
  <2> SUFFICES ASSUME i + 1 <= n PROVE v[i + 1] \in Nat /\ v[i + 1] < PowerOfTwo[i + 1]
    OBVIOUS
  <2>1. i + 1 \in 1..n /\ (i + 1) - 1 = i /\ v[i] \in Nat /\ v[i] < PowerOfTwo[i]
    BY <1>3
  <2>2. PICK g \in 0..1 : g = Gate(operator, Bit(x, i), Bit(y, i))
    BY GateValue
  <2>3. PICK p \in Nat \ {0} : p = PowerOfTwo[i]
    BY Powers
  <2>4. v[i + 1] = v[i] + g * p
    BY <1>1, <2>1, <2>2, <2>3 DEF BitSums
  <2>5. PowerOfTwo[i + 1] = 2 * p
    BY <2>3, Powers
  <2>6. g * p \in Nat /\ g * p <= p
    <3>1. g = 0 \/ g = 1
      OBVIOUS
    <3> QED
      BY <3>1
  <2> QED
    BY <2>1, <2>3, <2>4, <2>5, <2>6
<1> HIDE DEF T
<1>4. Nat \subseteq T
  BY <1>2, <1>3, Induction
<1>5. v[n] \in Nat /\ v[n] < PowerOfTwo[n]
  BY <1>4 DEF T
<1> QED
  BY <1>1, <1>5

\* Parts of a number: b bits, those below, m bits, and those above.
InParts(low, digit, high, m, b) ==
    low \in Nat /\ digit \in Nat /\ high \in Nat /\ m \in Nat /\ b \in Nat /\ low < PowerOfTwo[m]

\* A bit of a number is that of the digit it lies in.
LEMMA BitOfDigit ==
    ASSUME NEW low, NEW digit, NEW high, NEW m, NEW b, InParts(low, digit, high, m, b),
           NEW k \in 0..(b - 1)
    PROVE  Bit((high * PowerOfTwo[b] + digit) * PowerOfTwo[m] + low, m + k) = Bit(digit, k)
<1> USE DEF InParts
<1>1. PICK j \in Nat : b = j + (k + 1)
  <2>1. b - (k + 1) \in Nat /\ b = (b - (k + 1)) + (k + 1)
    OBVIOUS
  <2> QED
    BY <2>1
<1>2. PICK p \in Nat \ {0} : p = PowerOfTwo[m]
  BY Powers
<1>3. PICK r \in Nat \ {0} : r = PowerOfTwo[k]
  BY Powers
<1>4. PICK s \in Nat \ {0} : s = PowerOfTwo[j]
  BY Powers
<1>5. PowerOfTwo[m + k] = p * r
  BY <1>2, <1>3, PowerOfSum
<1>6. PowerOfTwo[b] = s * (2 * r)
  <2>1. PowerOfTwo[k + 1] = 2 * r
    BY <1>3, Powers
  <2>2. PowerOfTwo[j + (k + 1)] = PowerOfTwo[j] * PowerOfTwo[k + 1]
    BY PowerOfSum
  <2> QED
    BY <1>1, <1>4, <2>1, <2>2
<1>7. PICK d \in Nat : d = high * PowerOfTwo[b] + digit
  <2>1. PICK t \in Nat : t = PowerOfTwo[b]
    BY Powers
  <2>2. high * t \in Nat
    OBVIOUS
  <2> QED
    BY <2>1, <2>2
<1>8. PICK x \in Nat : x = d * p + low
  OBVIOUS
<1>9. x \div p = d
  <2>1. low \in 0..(p - 1)
    BY <1>2
  <2> QED
    BY <1>8, <2>1, DividedOnce
<1>10. x \div (p * r) = d \div r
  BY <1>9, DividedTwice
<1>11. PICK q \in Nat : q = digit \div r
  BY Divided
<1>12. PICK rest \in 0..(r - 1) : rest = digit % r
  BY Divided
<1>13. digit = q * r + rest
  BY <1>11, <1>12, Divided
<1>14. PICK h \in Nat : h = high * s
  OBVIOUS
<1>15. d = (h * 2 + q) * r + rest
  <2>1. high * (s * (2 * r)) = (h * 2) * r
    BY <1>14
  <2> QED
    BY <1>6, <1>7, <1>13, <2>1
<1>16. d \div r = h * 2 + q
  <2>1. h * 2 + q \in Nat
    OBVIOUS
  <2> QED
    BY <1>15, <2>1, DividedOnce
<1>17. (h * 2 + q) % 2 = q % 2
  OBVIOUS
<1>18. Bit(x, m + k) = (x \div (p * r)) % 2
  BY <1>5 DEF Bit
<1>19. Bit(digit, k) = q % 2
  BY <1>3, <1>11 DEF Bit
<1>20. Bit(x, m + k) = Bit(digit, k)
  BY <1>10, <1>16, <1>17, <1>18, <1>19
<1> QED
  BY <1>2, <1>7, <1>8, <1>20

\* The bytes behind the first ones count multiples of what these can hold.
LEMMA BytesBehind ==
    ASSUME NEW n \in Nat, NEW b \in Bytes(n), NEW v, Sums(v, b, n), NEW i \in 0..n
    PROVE  \E high \in Nat : v[n] = high * Weight(i) + v[i]
<1> DEFINE T == {j \in Nat : i + j <= n => \E high \in Nat : v[i + j] = high * Weight(i) + v[i]}
<1>1. PICK p \in Nat \ {0} : p = Weight(i)
  BY Weights
<1>2. v[i] \in Nat
  BY DEF Sums
<1>3. 0 \in T
  <2>1. v[i + 0] = 0 * p + v[i]
    BY <1>2
  <2> QED
    BY <1>1, <2>1
<1>4. ASSUME NEW j \in Nat, j \in T PROVE j + 1 \in T
  <2> SUFFICES ASSUME i + (j + 1) <= n
               PROVE  \E high \in Nat : v[i + (j + 1)] = high * Weight(i) + v[i]
    OBVIOUS
  <2>1. PICK high \in Nat : v[i + j] = high * p + v[i]
    BY <1>1, <1>4
  <2>2. PICK k \in 1..n : k = i + (j + 1) /\ k - 1 = i + j
    OBVIOUS
  <2>3. v[k] = v[i + j] + b[k] * Weight(i + j)
    <3>1. v[k] = v[k - 1] + b[k] * Weight(k - 1)
      BY DEF Sums
    <3> QED
      BY <2>2, <3>1
  <2>4. PICK x \in Nat : x = b[k]
    BY BufferLength
  <2>5. PICK w \in Nat : w = Weight(j)
    BY Weights
  <2>6. Weight(i + j) = p * w
    <3>1. BitsPerByte * i \in Nat /\ BitsPerByte * j \in Nat
          /\ BitsPerByte * (i + j) = BitsPerByte * i + BitsPerByte * j
      BY ByteAssumption
    <3>2. PICK s \in Nat : s = BitsPerByte * i
      BY <3>1
    <3>3. PICK t \in Nat : t = BitsPerByte * j
      BY <3>1
    <3>4. PowerOfTwo[s + t] = PowerOfTwo[s] * PowerOfTwo[t]
      BY PowerOfSum
    <3> QED
      BY <1>1, <2>5, <3>1, <3>2, <3>3, <3>4 DEF Weight
  <2>7. v[k] = (high + x * w) * p + v[i]
    <3>1. v[k] = (high * p + v[i]) + x * (p * w)
      BY <2>1, <2>3, <2>4, <2>6
    <3> QED
      BY <1>2, <3>1
  <2>8. high + x * w \in Nat
    OBVIOUS
  <2> QED
    BY <1>1, <2>2, <2>7, <2>8
<1> HIDE DEF T
<1>5. Nat \subseteq T
  BY <1>3, <1>4, Induction
<1>6. n - i \in T /\ i + (n - i) = n
  BY <1>5
<1> QED
  BY <1>6 DEF T

\* A bit of the number in a buffer is that of the byte it lies in.
LEMMA BitOfBuffer ==
    ASSUME NEW n \in Nat, NEW b \in Bytes(n), NEW i \in 0..(n - 1), NEW k \in 0..(BitsPerByte - 1)
    PROVE  Bit(ValueOf(b), BitsPerByte * i + k) = Bit(b[i + 1], k)
<1>1. PICK v : Sums(v, b, n) /\ ValueOf(b) = v[n]
  BY ValueSummed
<1>2. i + 1 \in 1..n /\ i \in 0..n /\ i + 1 \in 0..n /\ (i + 1) - 1 = i
  OBVIOUS
<1>3. PICK high \in Nat : v[n] = high * Weight(i + 1) + v[i + 1]
  BY <1>1, <1>2, BytesBehind
<1>4. PICK low \in Nat : low = v[i] /\ low < Weight(i)
  BY <1>1, <1>2, SumsBelow
<1>5. PICK digit \in Nat : digit = b[i + 1]
  BY <1>2, BufferLength
<1>6. v[i + 1] = low + digit * Weight(i)
  BY <1>1, <1>2, <1>4, <1>5 DEF Sums
<1>7. PICK m \in Nat : m = BitsPerByte * i
  BY ByteAssumption
<1>8. PICK p \in Nat \ {0} : p = PowerOfTwo[m]
  BY Powers
<1>9. PICK q \in Nat \ {0} : q = PowerOfTwo[BitsPerByte]
  BY Powers, ByteAssumption
<1>10. Weight(i) = p /\ Weight(i + 1) = p * q
  <2>1. Weight(i) = p
    BY <1>7, <1>8 DEF Weight
  <2>2. Weight(i + 1) = Weight(i) * ByteMod
    BY Weights
  <2> QED
    BY <1>9, <2>1, <2>2 DEF ByteMod
<1>11. v[n] = (high * q + digit) * p + low
  <2>1. v[n] = high * (p * q) + (low + digit * p)
    BY <1>3, <1>6, <1>10
  <2> QED
    BY <2>1
<1>12. Bit((high * PowerOfTwo[BitsPerByte] + digit) * PowerOfTwo[m] + low, m + k) = Bit(digit, k)
  <2>1. InParts(low, digit, high, m, BitsPerByte)
    BY <1>4, <1>8, <1>10, ByteAssumption DEF InParts
  <2> QED
    BY <2>1, BitOfDigit
<1> QED
  BY <1>1, <1>5, <1>7, <1>8, <1>9, <1>11, <1>12

(***************************************************************************)
(* What an operation makes of a register                                   *)
(***************************************************************************)

GateBytes(operator, a, b, n) ==
    [i \in 1..n |-> OfBits(operator, a[i], b[i], BitsPerByte)]

\* Bytes put through a gate one by one hold what the gate makes of the numbers.
LEMMA GateOfBytes ==
    ASSUME NEW operator, NEW n \in Nat, NEW a \in Bytes(n), NEW b \in Bytes(n)
    PROVE  /\ GateBytes(operator, a, b, n) \in Bytes(n)
           /\ ValueOf(GateBytes(operator, a, b, n))
                  = OfBits(operator, ValueOf(a), ValueOf(b), BitsPerByte * n)
<1>1. PICK r : r = GateBytes(operator, a, b, n)
  OBVIOUS
<1>2. PICK bits \in Nat \ {0} : bits = BitsPerByte
  BY ByteAssumption
<1>3. \A i \in 1..n : /\ a[i] \in Nat /\ b[i] \in Nat
                      /\ r[i] = OfBits(operator, a[i], b[i], bits)
  BY <1>1, <1>2, BufferLength DEF GateBytes
<1>4. r \in Bytes(n)
  <2>1. ASSUME NEW i \in 1..n PROVE r[i] \in 0..(ByteMod - 1)
    <3>1. r[i] \in Nat /\ r[i] < PowerOfTwo[bits]
      BY <1>3, BitsBelow
    <3>2. ByteMod \in Nat
      BY Weights
    <3> QED
      BY <1>2, <3>1, <3>2 DEF ByteMod
  <2>2. r = [i \in 1..n |-> r[i]]
    BY <1>1 DEF GateBytes
  <2> QED
    BY <2>1, <2>2 DEF Bytes
<1>5. PICK x \in Nat : x = ValueOf(a)
  BY ValueBelow
<1>6. PICK y \in Nat : y = ValueOf(b)
  BY ValueBelow
<1>7. PICK all \in Nat : all = bits * n
  OBVIOUS
<1>8. PICK v : BitSums(v, operator, x, y, all) /\ OfBits(operator, x, y, all) = v[all]
  BY BitsSummed
<1>9. PICK w : Sums(w, r, n) /\ ValueOf(r) = w[n]
  BY <1>4, ValueSummed
<1> DEFINE T == {i \in Nat : i <= n => v[bits * i] = w[i]}
<1>10. 0 \in T
  <2>1. bits * 0 = 0
    OBVIOUS
  <2>2. v[0] = 0
    BY <1>8 DEF BitSums
  <2>3. w[0] = 0
    BY <1>9 DEF Sums
  <2> QED
    BY <2>1, <2>2, <2>3
<1>11. ASSUME NEW i \in Nat, i \in T PROVE i + 1 \in T
  <2> SUFFICES ASSUME i + 1 <= n PROVE v[bits * (i + 1)] = w[i + 1]
    OBVIOUS
  <2>1. i + 1 \in 1..n /\ (i + 1) - 1 = i /\ i \in 0..(n - 1)
    OBVIOUS
  <2>2. PICK m \in Nat : m = bits * i
    OBVIOUS
  <2>3. v[m] = w[i]
    BY <1>11, <2>1, <2>2
  <2>4. m + bits <= all /\ bits * (i + 1) = m + bits
    <3>1. n - (i + 1) \in Nat
      OBVIOUS
    <3>2. bits * (n - (i + 1)) >= 0
      BY <3>1
    <3>3. bits * (n - (i + 1)) = all - (m + bits)
      BY <1>7, <2>2
    <3> QED
      BY <2>2, <3>2, <3>3
  <2>5. PICK c \in Nat : c = a[i + 1]
    BY <1>3, <2>1
  <2>6. PICK d \in Nat : d = b[i + 1]
    BY <1>3, <2>1
  <2>7. PICK u : BitSums(u, operator, c, d, bits) /\ OfBits(operator, c, d, bits) = u[bits]
    BY BitsSummed
  <2>8. PICK p \in Nat : p = PowerOfTwo[m] /\ p = Weight(i)
    BY <1>2, <2>2, Powers DEF Weight
  <2> DEFINE U == {k \in Nat : k <= bits => v[m + k] = v[m] + u[k] * p}
  <2>9. 0 \in U
    <3>1. v[m] \in Nat
      <4>1. v \in [0..all -> Nat] /\ m \in 0..all
        BY <1>8, <2>4 DEF BitSums
      <4> QED
        BY <4>1
    <3>2. u[0] = 0
      BY <2>7 DEF BitSums
    <3>3. m + 0 = m /\ 0 * p = 0
      OBVIOUS
    <3> QED
      BY <3>1, <3>2, <3>3
  <2>10. ASSUME NEW k \in Nat, k \in U PROVE k + 1 \in U
    <3> SUFFICES ASSUME k + 1 <= bits PROVE v[m + (k + 1)] = v[m] + u[k + 1] * p
      OBVIOUS
    <3>1. v[m + k] = v[m] + u[k] * p
      BY <2>10
    <3>2. k \in 0..(bits - 1) /\ k + 1 \in 1..bits /\ (k + 1) - 1 = k
      OBVIOUS
    <3>3. Bit(x, m + k) = Bit(c, k) /\ Bit(y, m + k) = Bit(d, k)
      <4>1. k \in 0..(BitsPerByte - 1)
        BY <1>2, <3>2
      <4>2. Bit(ValueOf(a), BitsPerByte * i + k) = Bit(a[i + 1], k)
        BY <2>1, <4>1, BitOfBuffer
      <4>3. Bit(ValueOf(b), BitsPerByte * i + k) = Bit(b[i + 1], k)
        BY <2>1, <4>1, BitOfBuffer
      <4> QED
        BY <1>2, <1>5, <1>6, <2>2, <2>5, <2>6, <4>2, <4>3
    <3>4. PICK g \in 0..1 : g = Gate(operator, Bit(c, k), Bit(d, k))
      BY GateValue
    <3>5. PICK s \in Nat : s = PowerOfTwo[k]
      BY Powers
    <3>6. u[k + 1] = u[k] + g * s
      BY <2>7, <3>2, <3>4, <3>5 DEF BitSums
    <3>7. PICK j \in 1..all : j = m + (k + 1) /\ j - 1 = m + k
      BY <2>4
    <3>8. v[j] = v[m + k] + g * (p * s)
      <4>1. v[j] = v[j - 1] + Gate(operator, Bit(x, j - 1), Bit(y, j - 1)) * PowerOfTwo[j - 1]
        BY <1>8 DEF BitSums
      <4>2. PowerOfTwo[m + k] = p * s
        <5>1. PowerOfTwo[m + k] = PowerOfTwo[m] * PowerOfTwo[k]
          BY PowerOfSum
        <5> QED
          BY <2>8, <3>5, <5>1
      <4>3. Gate(operator, Bit(x, m + k), Bit(y, m + k)) = g
        BY <3>3, <3>4
      <4> QED
        BY <3>7, <4>1, <4>2, <4>3
    <3>9. v[m] \in Nat /\ u[k] \in Nat
      <4>1. v \in [0..all -> Nat] /\ m \in 0..all
        BY <1>8, <2>4 DEF BitSums
      <4>2. u \in [0..bits -> Nat] /\ k \in 0..bits
        BY <2>7, <3>2 DEF BitSums
      <4> QED
        BY <4>1, <4>2
    <3>10. PICK t \in Nat : t = u[k]
      BY <3>9
    <3>11. v[j] = (v[m] + t * p) + g * (p * s)
      BY <3>1, <3>8, <3>10
    <3>12. v[j] = v[m] + (t + g * s) * p
      BY <3>9, <3>11
    <3> QED
      BY <3>6, <3>7, <3>10, <3>12
  <2> HIDE DEF U
  <2>11. Nat \subseteq U
    BY <2>9, <2>10, Induction
  <2>12. v[m + bits] = v[m] + u[bits] * p
    BY <2>11 DEF U
  <2>13. w[i + 1] = w[i] + r[i + 1] * p
    BY <1>9, <2>1, <2>8 DEF Sums
  <2>14. r[i + 1] = u[bits]
    BY <1>3, <2>1, <2>5, <2>6, <2>7
  <2> QED
    BY <2>3, <2>4, <2>12, <2>13, <2>14
<1> HIDE DEF T
<1>12. Nat \subseteq T
  BY <1>10, <1>11, Induction
<1>13. v[bits * n] = w[n]
  BY <1>12 DEF T
<1> QED
  BY <1>1, <1>2, <1>4, <1>5, <1>6, <1>7, <1>8, <1>9, <1>13

\* The result of an operation on numbers, operation by operation.
LEMMA OnNumbersCases ==
    ASSUME NEW x, NEW y, NEW bits
    PROVE  /\ OnNumbers("set", x, y, bits) = y
           /\ OnNumbers("add", x, y, bits) = (x + y) % PowerOfTwo[bits]
           /\ OnNumbers("and", x, y, bits) = OfBits("and", x, y, bits)
           /\ OnNumbers("or", x, y, bits) = OfBits("or", x, y, bits)
BY DEF OnNumbers

\* Numbers of a width stay in it.
LEMMA OnNumbersBelow ==
    ASSUME NEW operator \in Operators, NEW x \in Nat, NEW y \in Nat, NEW bits \in Nat,
           y < PowerOfTwo[bits]
    PROVE  /\ OnNumbers(operator, x, y, bits) \in Nat
           /\ OnNumbers(operator, x, y, bits) < PowerOfTwo[bits]
<1>1. PICK p \in Nat \ {0} : p = PowerOfTwo[bits]
  BY Powers
<1>2. CASE operator = "set"
  BY <1>2, OnNumbersCases
<1>3. CASE operator = "add"
  <2>1. (x + y) % p \in 0..(p - 1)
    <3>1. PICK z \in Nat : z = x + y
      OBVIOUS
    <3> QED
      BY <3>1, Divided
  <2> QED
    BY <1>1, <1>3, <2>1, OnNumbersCases
<1>4. CASE operator = "and"
  BY <1>4, OnNumbersCases, BitsBelow
<1>5. CASE operator = "or"
  BY <1>5, OnNumbersCases, BitsBelow
<1> QED
  BY <1>2, <1>3, <1>4, <1>5 DEF Operators

\* Byte by byte or as one number, an operation does to a register what it does
\* to the number in it.
THEOREM OperationApplied ==
    ASSUME NEW operator \in Operators, NEW n \in Nat, NEW a \in Bytes(n), NEW b \in Bytes(n)
    PROVE  /\ Applied(operator, a, b) \in Bytes(n)
           /\ ValueOf(Applied(operator, a, b))
                  = OnNumbers(operator, ValueOf(a), ValueOf(b), BitsPerByte * n)
<1>1. Len(b) = n /\ DOMAIN a = 1..n
  BY BufferLength
<1>2. PICK x \in Nat : x = ValueOf(a)
  BY ValueBelow
<1>3. PICK y \in Nat : y = ValueOf(b) /\ y < Weight(n)
  BY ValueBelow
<1>4. PICK bits \in Nat : bits = BitsPerByte * n /\ PowerOfTwo[bits] = Weight(n)
  BY ByteAssumption DEF Weight
<1>5. CASE n \in NativeSizes
  <2>1. PICK z \in Nat : z = OnNumbers(operator, x, y, bits) /\ z < Weight(n)
    BY <1>3, <1>4, OnNumbersBelow
  <2>2. Applied(operator, a, b) = BytesOf(z, n)
    BY <1>1, <1>2, <1>3, <1>4, <1>5, <2>1 DEF Applied
  <2>3. z % Weight(n) = z
    <3>1. PICK p \in Nat \ {0} : p = Weight(n)
      BY Weights
    <3>2. z \in 0..(p - 1) /\ 0 * p + z = z
      BY <2>1, <3>1
    <3>3. (0 * p + z) % p = z
      BY <3>2, DividedOnce
    <3> QED
      BY <3>1, <3>2, <3>3
  <2>4. BytesOf(z, n) \in Bytes(n) /\ ValueOf(BytesOf(z, n)) = z % Weight(n)
    BY BytesOfValue
  <2> QED
    BY <1>2, <1>3, <1>4, <2>1, <2>2, <2>3, <2>4
<1>6. CASE n \notin NativeSizes
  <2>1. Applied(operator, a, b) = OnBytes(operator, a, b)
    BY <1>1, <1>6 DEF Applied
  <2>2. CASE operator = "add"
    <3>1. OnBytes(operator, a, b) = AddBytes(a, b)
      BY <2>2 DEF OnBytes
    <3>2. /\ AddBytes(a, b) \in Bytes(n)
          /\ ValueOf(AddBytes(a, b)) = (ValueOf(a) + ValueOf(b)) % Weight(n)
      BY SumOfBytes
    <3>3. OnNumbers(operator, ValueOf(a), ValueOf(b), bits)
              = (ValueOf(a) + ValueOf(b)) % PowerOfTwo[bits]
      BY <2>2, OnNumbersCases
    <3> QED
      BY <1>4, <2>1, <3>1, <3>2, <3>3
  <2>3. CASE operator = "set"
    <3>1. \A i \in 1..n : OnNumbers(operator, a[i], b[i], BitsPerByte) = b[i]
      BY <2>3, OnNumbersCases
    <3>2. OnBytes(operator, a, b) = [i \in 1..n |-> b[i]]
      <4>1. operator # "add"
        BY <2>3
      <4>2. OnBytes(operator, a, b) = [i \in 1..n |-> OnNumbers(operator, a[i], b[i], BitsPerByte)]
        BY <1>1, <4>1 DEF OnBytes
      <4> QED
        BY <3>1, <4>2
    <3>3. OnBytes(operator, a, b) = b
      BY <3>2 DEF Bytes
    <3>4. OnNumbers(operator, ValueOf(a), ValueOf(b), bits) = ValueOf(b)
      BY <2>3, OnNumbersCases
    <3> QED
      BY <1>4, <2>1, <3>3, <3>4
  <2>4. CASE operator \in {"and", "or"}
    <3>1. \A i \in 1..n : OnNumbers(operator, a[i], b[i], BitsPerByte)
                              = OfBits(operator, a[i], b[i], BitsPerByte)
      BY <2>4, OnNumbersCases
    <3>2. OnBytes(operator, a, b) = GateBytes(operator, a, b, n)
      <4>1. operator # "add"
        BY <2>4
      <4>2. OnBytes(operator, a, b) = [i \in 1..n |-> OnNumbers(operator, a[i], b[i], BitsPerByte)]
        BY <1>1, <4>1 DEF OnBytes
      <4> QED
        BY <3>1, <4>2 DEF GateBytes
    <3>3. /\ GateBytes(operator, a, b, n) \in Bytes(n)
          /\ ValueOf(GateBytes(operator, a, b, n))
                 = OfBits(operator, ValueOf(a), ValueOf(b), BitsPerByte * n)
      BY GateOfBytes
    <3>4. OnNumbers(operator, ValueOf(a), ValueOf(b), bits)
              = OfBits(operator, ValueOf(a), ValueOf(b), bits)
      BY <2>4, OnNumbersCases
    <3> QED
      BY <1>4, <2>1, <3>2, <3>3, <3>4
  <2> QED
    BY <2>2, <2>3, <2>4 DEF Operators
<1> QED
  BY <1>5, <1>6

(***************************************************************************)
(* The reference: numbers and memory after effects and events               *)
(***************************************************************************)
Numbers == [DOMAIN Register -> Nat]

\* An effect, as EventAssumption has it.
IsEffect(effect) ==
    \/ effect[1] = "memory" /\ effect[2] \in 0..(AddressMod - 1) /\ effect[3] \in Nat
    \/ /\ effect[1] = "register"
       /\ effect[2] \in DOMAIN Register => effect[3] \in Bytes(Register[effect[2]])

\* An event is a sequence of effects.
LEMMA EffectsOfEvent ==
    ASSUME NEW event \in Event
    PROVE  /\ Len(event) \in Nat /\ DOMAIN event = 1..Len(event)
           /\ event \in Seq({event[i] : i \in DOMAIN event})
           /\ \A i \in 1..Len(event) : IsEffect(event[i])
<1>1. /\ event \in Seq({event[i] : i \in DOMAIN event})
      /\ \A i \in DOMAIN event : IsEffect(event[i])
  BY EventAssumption DEF IsEffect
<1>2. Len(event) \in Nat /\ DOMAIN event = 1..Len(event)
  BY <1>1, LenProperties
<1> QED
  BY <1>1, <1>2

\* Registers have widths, and operations are as wide as the register they are for.
LEMMA Operations ==
    /\ \A id \in DOMAIN Register : Register[id] \in Nat
    /\ \A id \in DOMAIN Operation :
          /\ Operation[id].register \in DOMAIN Register
          /\ Operation[id].operator \in Operators
          /\ Operation[id].value \in Bytes(Register[Operation[id].register])
BY MachineAssumption

\* An effect takes numbers to numbers.
LEMMA NumbersTyped ==
    ASSUME NEW numbers \in Numbers, NEW effect, IsEffect(effect)
    PROVE  NumbersWith(numbers, effect) \in Numbers
<1> DEFINE id == effect[2]
           op == Operation[id]
<1>1. CASE effect[1] = "memory"
  BY <1>1 DEF NumbersWith
<1>2. CASE effect[1] # "memory" /\ IsOperation(id)
  <2>1. id \in DOMAIN Operation
    BY <1>2 DEF IsOperation
  <2>2. PICK dest \in DOMAIN Register : dest = op.register
    BY <2>1, Operations
  <2>3. PICK n \in Nat : n = Register[dest]
    BY Operations
  <2>4. PICK value : value = op.value
    OBVIOUS
  <2>5. value \in Bytes(n) /\ op.operator \in Operators
    BY <2>1, <2>2, <2>3, <2>4, Operations
  <2>6. PICK bits \in Nat : bits = BitsPerByte * n
    BY ByteAssumption
  <2>7. ValueOf(value) \in Nat /\ ValueOf(value) < PowerOfTwo[bits]
    BY <2>5, <2>6, ValueBelow DEF Weight
  <2>8. numbers[dest] \in Nat
    BY DEF Numbers
  <2>9. PICK x \in Nat : x = OnNumbers(op.operator, numbers[dest], ValueOf(value), bits)
    BY <2>5, <2>7, <2>8, OnNumbersBelow
  <2>10. NumbersWith(numbers, effect) = [numbers EXCEPT ![dest] = x]
    BY <1>2, <2>2, <2>3, <2>4, <2>6, <2>9 DEF NumbersWith
  <2> QED
    BY <2>10 DEF Numbers
<1>3. CASE effect[1] # "memory" /\ ~IsOperation(id)
  <2>1. NumbersWith(numbers, effect) = [numbers EXCEPT ![id] = ValueOf(effect[3])]
    BY <1>3 DEF NumbersWith
  <2>2. CASE id \in DOMAIN Register
    <3>1. effect[3] \in Bytes(Register[id])
      BY <1>3, <2>2 DEF IsEffect
    <3>2. PICK n \in Nat : n = Register[id]
      BY <2>2, Operations
    <3>3. ValueOf(effect[3]) \in Nat
      BY <3>1, <3>2, ValueBelow
    <3> QED
      BY <2>1, <3>3 DEF Numbers
  <2>3. CASE id \notin DOMAIN Register
    BY <2>1, <2>3 DEF Numbers
  <2> QED
    BY <2>2, <2>3
<1> QED
  BY <1>1, <1>2, <1>3

\* The equation that defines NumbersIn.
LEMMA NumbersInSteps ==
    ASSUME NEW event \in Event, NEW numbers \in Numbers
    PROVE  /\ NumbersIn(event, numbers, 0) = numbers
           /\ \A i \in 0..Len(event) : NumbersIn(event, numbers, i) \in Numbers
           /\ \A i \in 1..Len(event) :
                 NumbersIn(event, numbers, i)
                     = NumbersWith(NumbersIn(event, numbers, i - 1), event[i])
<1>1. PICK n \in Nat : n = Len(event)
  BY EffectsOfEvent
<1>2. \A i \in 1..n : \A x \in Numbers : NumbersWith(x, event[i]) \in Numbers
  BY <1>1, EffectsOfEvent, NumbersTyped
<1> DEFINE step == [i \in Nat |-> [x \in Numbers |->
                       IF i \in 1..n THEN NumbersWith(x, event[i]) ELSE x]]
<1>3. StepsIn(Numbers, numbers, step)
  <2>1. \A i \in Nat : \A x \in Numbers :
            (IF i \in 1..n THEN NumbersWith(x, event[i]) ELSE x) \in Numbers
    BY <1>2
  <2> HIDE DEF Numbers
  <2> QED
    BY <2>1 DEF StepsIn
<1>4. \A i \in Nat : \A x \in Numbers :
          i + 1 \in 1..n => step[i + 1][x] = NumbersWith(x, event[i + 1])
  OBVIOUS
<1> HIDE DEF step
<1>5. PICK f \in [Nat -> Numbers] :
          f[0] = numbers /\ \A i \in Nat : f[i + 1] = step[i + 1][f[i]]
  <2>1. \E f \in [Nat -> Numbers] : Computes(f, numbers, step)
    BY <1>3, Recursion
  <2> QED
    BY <2>1 DEF Computes
<1>6. PICK g : g = [i \in 0..n |-> f[i]]
  OBVIOUS
<1>7. g = [i \in 0..n |-> IF i = 0 THEN numbers ELSE NumbersWith(g[i - 1], event[i])]
  <2>1. ASSUME NEW i \in 0..n
        PROVE  f[i] = IF i = 0 THEN numbers ELSE NumbersWith(g[i - 1], event[i])
    <3>1. CASE i = 0
      BY <1>5, <3>1
    <3>2. CASE i # 0
      <4>1. PICK j \in Nat : i = j + 1
        <5>1. i - 1 \in Nat /\ i = (i - 1) + 1
          BY <3>2
        <5> QED
          BY <5>1
      <4>2. i \in 1..n /\ j \in 0..n /\ i - 1 = j
        BY <4>1
      <4>3. f[i] = NumbersWith(f[j], event[i])
        BY <1>4, <1>5, <4>1, <4>2
      <4>4. g[j] = f[j]
        BY <1>6, <4>2
      <4> QED
        BY <3>2, <4>2, <4>3, <4>4
    <3> QED
      BY <3>1, <3>2
  <2> QED
    BY <1>6, <2>1
<1> DEFINE after == CHOOSE h : h = [i \in 0..n |-> IF i = 0 THEN numbers
                                                   ELSE NumbersWith(h[i - 1], event[i])]
<1>8. after = [i \in 0..n |-> IF i = 0 THEN numbers ELSE NumbersWith(after[i - 1], event[i])]
  BY <1>7, Zenon
<1>9. \A i : NumbersIn(event, numbers, i) = after[i]
  BY <1>1, Zenon DEF NumbersIn
<1> HIDE DEF after
<1>10. PICK a : a = after
  OBVIOUS
<1>11. a = [i \in 0..n |-> IF i = 0 THEN numbers ELSE NumbersWith(a[i - 1], event[i])]
  BY <1>8, <1>10
<1>12. a[0] = numbers
  BY <1>11
<1>13. ASSUME NEW i \in 1..n PROVE a[i] = NumbersWith(a[i - 1], event[i])
  <2>1. i \in 0..n /\ i # 0
    OBVIOUS
  <2> QED
    BY <1>11, <2>1
<1> DEFINE T == {i \in Nat : i <= n => a[i] \in Numbers}
<1>14. 0 \in T
  BY <1>12
<1>15. ASSUME NEW i \in Nat, i \in T PROVE i + 1 \in T
  <2> SUFFICES ASSUME i + 1 <= n PROVE a[i + 1] \in Numbers
    OBVIOUS
  <2>1. i + 1 \in 1..n /\ (i + 1) - 1 = i /\ a[i] \in Numbers
    BY <1>15
  <2>2. a[i + 1] = NumbersWith(a[i], event[i + 1])
    BY <1>13, <2>1
  <2> QED
    BY <1>2, <2>1, <2>2
<1> HIDE DEF T
<1>16. Nat \subseteq T
  BY <1>14, <1>15, Induction
<1>17. \A i \in 0..n : a[i] \in Numbers
  BY <1>16 DEF T
<1> QED
  BY <1>1, <1>9, <1>10, <1>12, <1>13, <1>17

\* A machine starts with numbers.
LEMMA InitialTyped == InitialNumbers \in Numbers
<1>1. ASSUME NEW id \in DOMAIN Register
      PROVE  (IF id \in DOMAIN InitialValue THEN ValueOf(InitialValue[id]) ELSE 0) \in Nat
  <2>1. CASE id \in DOMAIN InitialValue
    <3>1. PICK n \in Nat : n = Register[id]
      BY Operations
    <3>2. InitialValue[id] \in Bytes(n)
      BY <2>1, <3>1, MachineAssumption
    <3>3. ValueOf(InitialValue[id]) \in Nat
      BY <3>2, ValueBelow
    <3> QED
      BY <2>1, <3>3
  <2> QED
    BY <2>1
<1> QED
  BY <1>1 DEF InitialNumbers, Numbers

\* The equation that defines NumbersAfter.
LEMMA NumbersAfterSteps ==
    ASSUME NEW t \in Seq(Event)
    PROVE  /\ NumbersAfter(t, 0) = InitialNumbers
           /\ \A i \in 0..Len(t) : NumbersAfter(t, i) \in Numbers
           /\ \A i \in 1..Len(t) :
                 NumbersAfter(t, i) = NumbersIn(t[i], NumbersAfter(t, i - 1), Len(t[i]))
<1>1. PICK n \in Nat : n = Len(t)
  BY LenProperties
<1>2. ASSUME NEW i \in 1..n, NEW x \in Numbers PROVE NumbersIn(t[i], x, Len(t[i])) \in Numbers
  <2>1. PICK event \in Event : event = t[i]
    BY <1>1, ElementOfSeq
  <2>2. Len(event) \in 0..Len(event)
    BY EffectsOfEvent
  <2>3. NumbersIn(event, x, Len(event)) \in Numbers
    BY <2>2, NumbersInSteps
  <2> QED
    BY <2>1, <2>3
<1> DEFINE step == [i \in Nat |-> [x \in Numbers |->
                       IF i \in 1..n THEN NumbersIn(t[i], x, Len(t[i])) ELSE x]]
<1>18. PICK numbers \in Numbers : numbers = InitialNumbers
  BY InitialTyped
<1>3. StepsIn(Numbers, numbers, step)
  <2>1. \A i \in Nat : \A x \in Numbers :
            (IF i \in 1..n THEN NumbersIn(t[i], x, Len(t[i])) ELSE x) \in Numbers
    BY <1>2
  <2> HIDE DEF Numbers
  <2> QED
    BY <2>1 DEF StepsIn
<1>4. \A i \in Nat : \A x \in Numbers :
          i + 1 \in 1..n => step[i + 1][x] = NumbersIn(t[i + 1], x, Len(t[i + 1]))
  OBVIOUS
<1> HIDE DEF step
<1>5. PICK f \in [Nat -> Numbers] :
          f[0] = numbers /\ \A i \in Nat : f[i + 1] = step[i + 1][f[i]]
  <2>1. \E f \in [Nat -> Numbers] : Computes(f, numbers, step)
    BY <1>3, Recursion
  <2> QED
    BY <2>1 DEF Computes
<1>6. PICK g : g = [i \in 0..n |-> f[i]]
  OBVIOUS
<1>7. g = [i \in 0..n |-> IF i = 0 THEN InitialNumbers
                          ELSE NumbersIn(t[i], g[i - 1], Len(t[i]))]
  <2>1. ASSUME NEW i \in 0..n
        PROVE  f[i] = IF i = 0 THEN InitialNumbers ELSE NumbersIn(t[i], g[i - 1], Len(t[i]))
    <3>1. CASE i = 0
      BY <1>18, <1>5, <3>1
    <3>2. CASE i # 0
      <4>1. PICK j \in Nat : i = j + 1
        <5>1. i - 1 \in Nat /\ i = (i - 1) + 1
          BY <3>2
        <5> QED
          BY <5>1
      <4>2. i \in 1..n /\ j \in 0..n /\ i - 1 = j
        BY <4>1
      <4>3. f[i] = NumbersIn(t[i], f[j], Len(t[i]))
        BY <1>4, <1>5, <4>1, <4>2
      <4>4. g[j] = f[j]
        BY <1>6, <4>2
      <4> QED
        BY <3>2, <4>2, <4>3, <4>4
    <3> QED
      BY <3>1, <3>2
  <2> QED
    BY <1>6, <2>1
<1> DEFINE after == CHOOSE h : h = [i \in 0..n |-> IF i = 0 THEN InitialNumbers
                                       ELSE NumbersIn(t[i], h[i - 1], Len(t[i]))]
<1>8. after = [i \in 0..n |-> IF i = 0 THEN InitialNumbers
                              ELSE NumbersIn(t[i], after[i - 1], Len(t[i]))]
  BY <1>7, Zenon
<1>9. \A i : NumbersAfter(t, i) = after[i]
  BY <1>1, Zenon DEF NumbersAfter
<1> HIDE DEF after
<1>10. PICK a : a = after
  OBVIOUS
<1>11. a = [i \in 0..n |-> IF i = 0 THEN InitialNumbers
                           ELSE NumbersIn(t[i], a[i - 1], Len(t[i]))]
  BY <1>8, <1>10
<1>12. a[0] = InitialNumbers
  BY <1>11
<1>13. ASSUME NEW i \in 1..n PROVE a[i] = NumbersIn(t[i], a[i - 1], Len(t[i]))
  <2>1. i \in 0..n /\ i # 0
    OBVIOUS
  <2> QED
    BY <1>11, <2>1
<1> DEFINE T == {i \in Nat : i <= n => a[i] \in Numbers}
<1>14. 0 \in T
  BY <1>12, InitialTyped
<1>15. ASSUME NEW i \in Nat, i \in T PROVE i + 1 \in T
  <2> SUFFICES ASSUME i + 1 <= n PROVE a[i + 1] \in Numbers
    OBVIOUS
  <2>1. i + 1 \in 1..n /\ (i + 1) - 1 = i /\ a[i] \in Numbers
    BY <1>15
  <2>2. a[i + 1] = NumbersIn(t[i + 1], a[i], Len(t[i + 1]))
    BY <1>13, <2>1
  <2> QED
    BY <1>2, <2>1, <2>2
<1> HIDE DEF T
<1>16. Nat \subseteq T
  BY <1>14, <1>15, Induction
<1>17. \A i \in 0..n : a[i] \in Numbers
  BY <1>16 DEF T
<1> QED
  BY <1>1, <1>9, <1>10, <1>12, <1>13, <1>17

\* Numbers after n events do not depend on the ones behind.
LEMMA NumbersOfPrefix ==
    ASSUME NEW t \in Seq(Event), NEW u \in Seq(Event), NEW n \in Nat,
           n <= Len(t), n <= Len(u), \A i \in 1..n : t[i] = u[i]
    PROVE  NumbersAfter(t, n) = NumbersAfter(u, n)
<1>1. Len(t) \in Nat /\ Len(u) \in Nat
  BY LenProperties
<1> DEFINE T == {i \in Nat : i <= n => NumbersAfter(t, i) = NumbersAfter(u, i)}
<1>2. 0 \in T
  BY NumbersAfterSteps
<1>3. ASSUME NEW i \in Nat, i \in T PROVE i + 1 \in T
  <2> SUFFICES ASSUME i + 1 <= n PROVE NumbersAfter(t, i + 1) = NumbersAfter(u, i + 1)
    OBVIOUS
  <2>1. /\ i + 1 \in 1..Len(t) /\ i + 1 \in 1..Len(u) /\ (i + 1) - 1 = i
        /\ NumbersAfter(t, i) = NumbersAfter(u, i) /\ t[i + 1] = u[i + 1]
    BY <1>1, <1>3
  <2>2. NumbersAfter(t, i + 1)
            = NumbersIn(t[i + 1], NumbersAfter(t, (i + 1) - 1), Len(t[i + 1]))
    BY <2>1, NumbersAfterSteps
  <2>3. NumbersAfter(u, i + 1)
            = NumbersIn(u[i + 1], NumbersAfter(u, (i + 1) - 1), Len(u[i + 1]))
    BY <2>1, NumbersAfterSteps
  <2> QED
    BY <2>1, <2>2, <2>3
<1> HIDE DEF T
<1>4. Nat \subseteq T
  BY <1>2, <1>3, Induction
<1> QED
  BY <1>4 DEF T

\* The bytes a write tells are addresses.
LEMMA BytesTyped ==
    ASSUME NEW effect, IsEffect(effect)
    PROVE  BytesWritten(effect) \in Seq(Nat)
<1>1. CASE effect[1] # "memory"
  BY <1>1 DEF BytesWritten
<1>2. CASE effect[1] = "memory"
  <2>1. PICK address \in Nat : address = effect[2]
    BY <1>2, BufferAssumption DEF IsEffect
  <2>2. PICK size \in Nat : size = effect[3]
    BY <1>2 DEF IsEffect
  <2>3. \A i \in 1..size : ((address + i - 1) % AddressMod) \in Nat
    <3>1. ASSUME NEW i \in 1..size PROVE ((address + i - 1) % AddressMod) \in Nat
      <4>1. PICK x \in Nat : x = address + i - 1
        OBVIOUS
      <4>2. PICK m \in Nat \ {0} : m = AddressMod
        BY BufferAssumption
      <4>3. x % m \in 0..(m - 1)
        BY Divided
      <4> QED
        BY <4>1, <4>2, <4>3
    <3> QED
      BY <3>1
  <2>4. PICK s : s = [i \in 1..size |-> (address + i - 1) % AddressMod]
    OBVIOUS
  <2>5. s \in [1..size -> Nat]
    BY <2>3, <2>4
  <2>6. s \in Seq(Nat)
    BY <2>5
  <2> QED
    BY <1>2, <2>1, <2>2, <2>4, <2>6 DEF BytesWritten
<1> QED
  BY <1>1, <1>2

\* The equation that defines MemoryWritten.
LEMMA MemorySteps ==
    ASSUME NEW event \in Event
    PROVE  /\ MemoryWritten(event, 0) = <<>>
           /\ \A i \in 0..Len(event) : MemoryWritten(event, i) \in Seq(Nat)
           /\ \A i \in 1..Len(event) :
                 MemoryWritten(event, i) = MemoryWritten(event, i - 1) \o BytesWritten(event[i])
<1>1. PICK n \in Nat : n = Len(event)
  BY EffectsOfEvent
<1>2. PICK S : S = Seq(Nat)
  OBVIOUS
<1>3. <<>> \in S
  BY <1>2
<1>4. ASSUME NEW i \in 1..n, NEW x \in S PROVE x \o BytesWritten(event[i]) \in S
  <2>1. BytesWritten(event[i]) \in Seq(Nat)
    BY <1>1, EffectsOfEvent, BytesTyped
  <2> QED
    BY <1>2, <2>1, ConcatProperties
<1> DEFINE step == [i \in Nat |-> [x \in S |->
                       IF i \in 1..n THEN x \o BytesWritten(event[i]) ELSE x]]
<1>5. StepsIn(S, <<>>, step)
  <2>1. \A i \in Nat : \A x \in S :
            (IF i \in 1..n THEN x \o BytesWritten(event[i]) ELSE x) \in S
    BY <1>4
  <2> QED
    BY <1>3, <2>1 DEF StepsIn
<1>6. \A i \in Nat : \A x \in S :
          i + 1 \in 1..n => step[i + 1][x] = x \o BytesWritten(event[i + 1])
  OBVIOUS
<1> HIDE DEF step
<1>7. PICK f \in [Nat -> S] : f[0] = <<>> /\ \A i \in Nat : f[i + 1] = step[i + 1][f[i]]
  <2>1. \E f \in [Nat -> S] : Computes(f, <<>>, step)
    BY <1>5, Recursion
  <2> QED
    BY <2>1 DEF Computes
<1>8. PICK g : g = [i \in 0..n |-> f[i]]
  OBVIOUS
<1>9. g = [i \in 0..n |-> IF i = 0 THEN <<>> ELSE g[i - 1] \o BytesWritten(event[i])]
  <2>1. ASSUME NEW i \in 0..n
        PROVE  f[i] = IF i = 0 THEN <<>> ELSE g[i - 1] \o BytesWritten(event[i])
    <3>1. CASE i = 0
      BY <1>7, <3>1
    <3>2. CASE i # 0
      <4>1. PICK j \in Nat : i = j + 1
        <5>1. i - 1 \in Nat /\ i = (i - 1) + 1
          BY <3>2
        <5> QED
          BY <5>1
      <4>2. i \in 1..n /\ j \in 0..n /\ i - 1 = j
        BY <4>1
      <4>3. f[i] = f[j] \o BytesWritten(event[i])
        BY <1>6, <1>7, <4>1, <4>2
      <4>4. g[j] = f[j]
        BY <1>8, <4>2
      <4> QED
        BY <3>2, <4>2, <4>3, <4>4
    <3> QED
      BY <3>1, <3>2
  <2> QED
    BY <1>8, <2>1
<1> DEFINE upTo == CHOOSE h : h = [i \in 0..n |-> IF i = 0 THEN <<>>
                                                  ELSE h[i - 1] \o BytesWritten(event[i])]
<1>10. upTo = [i \in 0..n |-> IF i = 0 THEN <<>> ELSE upTo[i - 1] \o BytesWritten(event[i])]
  BY <1>9, Zenon
<1>11. \A i : MemoryWritten(event, i) = upTo[i]
  BY <1>1, Zenon DEF MemoryWritten
<1> HIDE DEF upTo
<1>12. PICK a : a = upTo
  OBVIOUS
<1>13. a = [i \in 0..n |-> IF i = 0 THEN <<>> ELSE a[i - 1] \o BytesWritten(event[i])]
  BY <1>10, <1>12
<1>14. a[0] = <<>>
  BY <1>13
<1>15. ASSUME NEW i \in 1..n PROVE a[i] = a[i - 1] \o BytesWritten(event[i])
  <2>1. i \in 0..n /\ i # 0
    OBVIOUS
  <2> QED
    BY <1>13, <2>1
<1> DEFINE T == {i \in Nat : i <= n => a[i] \in S}
<1>16. 0 \in T
  BY <1>3, <1>14
<1>17. ASSUME NEW i \in Nat, i \in T PROVE i + 1 \in T
  <2> SUFFICES ASSUME i + 1 <= n PROVE a[i + 1] \in S
    OBVIOUS
  <2>1. i + 1 \in 1..n /\ (i + 1) - 1 = i /\ a[i] \in S
    BY <1>17
  <2>2. a[i + 1] = a[i] \o BytesWritten(event[i + 1])
    BY <1>15, <2>1
  <2> QED
    BY <1>4, <2>1, <2>2
<1> HIDE DEF T
<1>18. Nat \subseteq T
  BY <1>16, <1>17, Induction
<1>19. \A i \in 0..n : a[i] \in S
  BY <1>18 DEF T
<1> QED
  BY <1>1, <1>2, <1>11, <1>12, <1>14, <1>15, <1>19

(***************************************************************************)
(* Where the reader is in the effects of an event                          *)
(***************************************************************************)

\* What may be pending of an event: its effects, and the rests of its writes.
Pieces(event) == {event[i] : i \in DOMAIN event} \union ({"memory"} \X Nat \X Nat)

\* k effects have been consumed and d bytes of the next, which is a write then.
Stands(event, k, d, pend) ==
    /\ k \in 0..Len(event) /\ d \in Nat
    /\ pend \in Seq(Pieces(event)) /\ Len(pend) = Len(event) - k
    /\ \A i \in 2..Len(pend) : pend[i] = event[k + i]
    /\ d = 0 /\ k < Len(event) => pend[1] = event[k + 1]
    /\ d > 0 => /\ k < Len(event) /\ event[k + 1][1] = "memory" /\ d < event[k + 1][3]
                /\ pend[1] = <<"memory", (event[k + 1][2] + d) % AddressMod,
                               event[k + 1][3] - d>>

\* The addresses of c bytes that are written from an address on.
ChunkAt(address, c) == [i \in 1..c |-> (address + i - 1) % AddressMod]

\* The addresses of the first d bytes of a write.
Part(effect, d) == [i \in 1..d |-> (effect[2] + i - 1) % AddressMod]
Tells(event, k, d, s) == s = MemoryWritten(event, k) \o Part(event[k + 1], d)

\* A remainder in a sum may be the number itself.
LEMMA RemainderInSum ==
    ASSUME NEW x \in Nat, NEW y \in Nat, NEW m \in Nat \ {0}
    PROVE  ((x % m) + y) % m = (x + y) % m
<1>1. PICK q \in Nat : q = x \div m
  BY Divided
<1>2. PICK r \in 0..(m - 1) : r = x % m
  BY Divided
<1>3. x = q * m + r
  BY <1>1, <1>2, Divided
<1>4. PICK z \in Nat : z = r + y
  OBVIOUS
<1>5. PICK a \in Nat : a = z \div m
  BY Divided
<1>6. PICK b \in 0..(m - 1) : b = z % m
  BY Divided
<1>7. z = a * m + b
  BY <1>5, <1>6, Divided
<1>8. x + y = (q + a) * m + b /\ q + a \in Nat
  <2>1. x + y = q * m + (a * m + b)
    BY <1>3, <1>4, <1>7
  <2> QED
    BY <2>1
<1>9. ((q + a) * m + b) % m = b
  BY <1>8, DividedOnce
<1> QED
  BY <1>2, <1>4, <1>6, <1>8, <1>9

\* A chunk is of the write, and of something unless the write is of nothing.
LEMMA ChunkInside ==
    ASSUME NEW size \in Nat
    PROVE  Chunk(size) \in 0..size /\ (size > 0 => Chunk(size) > 0)
BY BufferAssumption DEF Chunk

\* c bytes at an address are the next ones of a write whose first d are written.
Adjoins(effect, d, c, address) ==
    /\ effect[2] \in Nat /\ d \in Nat /\ c \in Nat
    /\ address = (effect[2] + d) % AddressMod
Longer(effect, d, c, s) ==
    /\ Part(effect, d) \in Seq(Nat) /\ s \in Seq(Nat)
    /\ Part(effect, d) \o s = Part(effect, d + c)

\* The part of a write and a chunk behind it are a longer part.
LEMMA PartGrows ==
    ASSUME NEW effect, NEW d, NEW c, NEW address, Adjoins(effect, d, c, address)
    PROVE  Longer(effect, d, c, ChunkAt(address, c))
<1>0. /\ effect[2] \in Nat /\ d \in Nat /\ c \in Nat
      /\ address = (effect[2] + d) % AddressMod
  BY DEF Adjoins
<1>00. PICK s : s = ChunkAt(address, c)
  OBVIOUS
<1>1. PICK a \in Nat : a = effect[2]
  BY <1>0
<1>2. PICK m \in Nat \ {0} : m = AddressMod
  BY BufferAssumption
<1>3. \A x \in Nat : (x % m) \in Nat
  BY Divided
<1>4. \A n \in Nat : /\ Part(effect, n) \in Seq(Nat) /\ Len(Part(effect, n)) = n
                     /\ \A i \in 1..n : Part(effect, n)[i] = (a + i - 1) % m
  <2>1. ASSUME NEW n \in Nat
        PROVE  /\ Part(effect, n) \in Seq(Nat) /\ Len(Part(effect, n)) = n
               /\ \A i \in 1..n : Part(effect, n)[i] = (a + i - 1) % m
    <3>1. PICK p : p = [i \in 1..n |-> (a + i - 1) % m]
      OBVIOUS
    <3>2. \A i \in 1..n : ((a + i - 1) % m) \in Nat
      <4>1. ASSUME NEW i \in 1..n PROVE ((a + i - 1) % m) \in Nat
        <5>1. PICK x \in Nat : x = a + i - 1
          OBVIOUS
        <5> QED
          BY <1>3, <5>1
      <4> QED
        BY <4>1
    <3>3. p \in [1..n -> Nat]
      BY <3>1, <3>2
    <3>4. p \in Seq(Nat)
      BY <3>3
    <3>5. Len(p) = n
      <4>1. DOMAIN p = 1..Len(p) /\ Len(p) \in Nat
        BY <3>4, LenProperties
      <4> QED
        BY <3>3, <4>1
    <3>6. Part(effect, n) = p
      BY <1>1, <1>2, <3>1 DEF Part
    <3> QED
      BY <3>1, <3>4, <3>5, <3>6
  <2> QED
    BY <2>1
<1>5. PICK p \in Seq(Nat) : p = Part(effect, d) /\ Len(p) = d
  BY <1>0, <1>4
<1>6. address \in Nat /\ address = (a + d) % m
  BY <1>0, <1>1, <1>2, <1>3
<1>7. ASSUME NEW i \in 1..c PROVE s[i] \in Nat /\ s[i] = (a + (d + i) - 1) % m
  <2>1. PICK j \in Nat : i = j + 1
    <3>1. i - 1 \in Nat /\ i = (i - 1) + 1
      BY <1>0
    <3> QED
      BY <3>1
  <2>2. PICK y \in Nat : y = a + d
    BY <1>0
  <2>3. s[i] = (address + i - 1) % m
    BY <1>2, <1>00 DEF ChunkAt
  <2>4. address + i - 1 = (y % m) + j
    BY <1>6, <2>1, <2>2
  <2>5. ((y % m) + j) % m = (y + j) % m
    BY RemainderInSum
  <2>6. y + j = a + (d + i) - 1 /\ y + j \in Nat
    BY <1>0, <2>1, <2>2
  <2>7. (y + j) % m \in Nat
    BY <1>3, <2>6
  <2> QED
    BY <2>3, <2>4, <2>5, <2>6, <2>7
<1>8. s \in Seq(Nat) /\ Len(s) = c
  <2>1. s = [i \in 1..c |-> (address + i - 1) % AddressMod]
    BY <1>00 DEF ChunkAt
  <2>2. s \in [1..c -> Nat]
    BY <1>7, <2>1
  <2>3. s \in Seq(Nat)
    BY <1>0, <2>2
  <2>4. DOMAIN s = 1..Len(s) /\ Len(s) \in Nat
    BY <2>3, LenProperties
  <2> QED
    BY <1>0, <2>2, <2>3, <2>4
<1>9. PICK t \in Seq(Nat) : /\ t = p \o s /\ Len(t) = d + c
                            /\ \A i \in 1..(d + c) : t[i] = IF i <= d THEN p[i] ELSE s[i - d]
  <2>1. /\ p \o s \in Seq(Nat) /\ Len(p \o s) = Len(p) + Len(s)
        /\ \A i \in 1..(Len(p) + Len(s)) :
              (p \o s)[i] = IF i <= Len(p) THEN p[i] ELSE s[i - Len(p)]
    <3>1. p \in Seq(Nat) /\ s \in Seq(Nat)
      BY <1>5, <1>8
    <3> QED
      BY <3>1, ConcatProperties, Zenon
  <2>2. Len(p) = d /\ Len(s) = c
    BY <1>5, <1>8
  <2>3. /\ p \o s \in Seq(Nat) /\ Len(p \o s) = d + c
        /\ \A i \in 1..(d + c) : (p \o s)[i] = IF i <= d THEN p[i] ELSE s[i - d]
    BY <2>1, <2>2
  <2> QED
    BY <2>3
<1>10. d + c \in Nat
  BY <1>0
<1>11. PICK u \in Seq(Nat) : /\ u = Part(effect, d + c) /\ Len(u) = d + c
                             /\ \A i \in 1..(d + c) : u[i] = (a + i - 1) % m
  BY <1>4, <1>10
<1>12. ASSUME NEW i \in 1..(d + c) PROVE t[i] = u[i]
  <2>1. CASE i <= d
    <3>1. i \in 1..d
      BY <1>0, <2>1
    <3>2. t[i] = p[i]
      BY <1>9, <2>1
    <3>3. u[i] = (a + i - 1) % m
      BY <1>11
    <3>4. p[i] = (a + i - 1) % m
      BY <1>0, <1>4, <1>5, <3>1
    <3> QED
      BY <3>2, <3>3, <3>4
  <2>2. CASE ~(i <= d)
    <3>1. PICK j \in 1..c : j = i - d
      BY <1>0, <2>2
    <3>2. s[j] = (a + (d + j) - 1) % m
      BY <1>7, <3>1
    <3>3. d + j = i
      BY <1>0, <3>1
    <3>4. s[j] = (a + i - 1) % m
      BY <3>2, <3>3
    <3> QED
      BY <1>9, <1>11, <2>2, <3>1, <3>4
  <2> QED
    BY <2>1, <2>2
<1>13. t = u
  BY <1>9, <1>11, <1>12, SeqEqual
<1> QED
  BY <1>00, <1>5, <1>8, <1>9, <1>11, <1>13 DEF Longer

\* What a reader finds pending is the effect it is in.
LEMMA NextPending ==
    ASSUME NEW event \in Event, NEW k, NEW d, NEW pend, Stands(event, k, d, pend), pend # <<>>
    PROVE  /\ k + 1 \in 1..Len(event) /\ IsEffect(event[k + 1])
           /\ Head(pend)[1] = event[k + 1][1]
           /\ event[k + 1][1] = "memory" =>
                 /\ Head(pend)[2] = (event[k + 1][2] + d) % AddressMod
                 /\ Head(pend)[3] = event[k + 1][3] - d
                 /\ event[k + 1][2] \in Nat /\ event[k + 1][3] \in Nat
                 /\ d <= event[k + 1][3] /\ (d < event[k + 1][3] \/ d = 0)
           /\ event[k + 1][1] = "register" => d = 0 /\ Head(pend) = event[k + 1]
<1>1. /\ k \in 0..Len(event) /\ d \in Nat /\ pend \in Seq(Pieces(event))
      /\ Len(pend) = Len(event) - k
  BY DEF Stands
<1>2. Len(event) \in Nat /\ Len(pend) \in Nat
  BY <1>1, EffectsOfEvent, LenProperties
<1>3. Len(pend) # 0
  BY <1>1, EmptySeq
<1>4. k + 1 \in 1..Len(event) /\ k < Len(event)
  BY <1>1, <1>2, <1>3
<1>5. IsEffect(event[k + 1])
  BY <1>4, EffectsOfEvent
<1>6. Head(pend) = pend[1]
  BY <1>1
<1>7. PICK e : e = event[k + 1]
  OBVIOUS
<1>8. CASE d = 0
  <2>1. pend[1] = e
    BY <1>4, <1>7, <1>8 DEF Stands
  <2>2. ASSUME e[1] = "memory" PROVE e[2] = (e[2] + d) % AddressMod /\ e[2] \in Nat /\ e[3] \in Nat
    <3>1. e[2] \in 0..(AddressMod - 1) /\ e[3] \in Nat
      BY <1>5, <1>7, <2>2 DEF IsEffect
    <3>2. PICK m \in Nat \ {0} : m = AddressMod
      BY BufferAssumption
    <3>3. PICK a \in 0..(m - 1) : a = e[2]
      BY <3>1, <3>2
    <3>4. (0 * m + a) % m = a
      BY DividedOnce
    <3>5. 0 * m + a = a + d
      BY <1>8
    <3> QED
      BY <3>1, <3>2, <3>3, <3>4, <3>5
  <2>3. e[1] = "memory" => e[3] = e[3] - d /\ d <= e[3]
    BY <1>8, <2>2
  <2> QED
    BY <1>4, <1>5, <1>6, <1>7, <1>8, <2>1, <2>2, <2>3
<1>9. CASE d # 0
  <2>1. d > 0
    BY <1>1, <1>9
  <2>2. /\ e[1] = "memory" /\ d < e[3]
        /\ pend[1] = <<"memory", (e[2] + d) % AddressMod, e[3] - d>>
    BY <1>7, <2>1 DEF Stands
  <2>3. e[2] \in 0..(AddressMod - 1) /\ e[3] \in Nat
    BY <1>5, <1>7, <2>2 DEF IsEffect
  <2>4. /\ pend[1][1] = "memory" /\ pend[1][2] = (e[2] + d) % AddressMod
        /\ pend[1][3] = e[3] - d
    BY <2>2
  <2>5. e[2] \in Nat /\ d <= e[3]
    BY <1>1, <2>2, <2>3, BufferAssumption
  <2>6. e[1] # "register"
    BY <2>2
  <2> QED
    BY <1>4, <1>5, <1>6, <1>7, <2>2, <2>3, <2>4, <2>5, <2>6
<1> QED
  BY <1>8, <1>9

\* A part of no bytes is empty, and all bytes of a write are the last part of it.
LEMMA PartEnds ==
    /\ \A effect : Part(effect, 0) = <<>>
    /\ \A effect : effect[1] = "memory" => BytesWritten(effect) = Part(effect, effect[3])
<1>1. ASSUME NEW effect PROVE Part(effect, 0) = <<>>
  <2>1. PICK p : p = Part(effect, 0)
    OBVIOUS
  <2>2. p \in [1..0 -> Nat]
    BY <2>1 DEF Part
  <2>3. p \in Seq(Nat)
    BY <2>2
  <2>4. DOMAIN p = 1..Len(p) /\ Len(p) \in Nat
    BY <2>3, LenProperties
  <2>5. DOMAIN p = 1..0
    BY <2>2
  <2>6. Len(p) = 0
    BY <2>4, <2>5
  <2>7. p = <<>>
    BY <2>3, <2>6, EmptySeq
  <2> QED
    BY <2>1, <2>7
<1>2. ASSUME NEW effect, effect[1] = "memory"
      PROVE  BytesWritten(effect) = Part(effect, effect[3])
  BY <1>2 DEF BytesWritten, Part
<1> QED
  BY <1>1, <1>2

\* The effect in front done with, the next one is in front.
LEMMA EffectDone ==
    ASSUME NEW event \in Event, NEW k, NEW d, NEW pend, Stands(event, k, d, pend), pend # <<>>
    PROVE  Stands(event, k + 1, 0, Tail(pend))
<1>1. /\ k \in 0..Len(event) /\ pend \in Seq(Pieces(event)) /\ Len(pend) = Len(event) - k
      /\ \A i \in 2..Len(pend) : pend[i] = event[k + i]
  BY DEF Stands
<1>2. Len(event) \in Nat
  BY EffectsOfEvent
<1>3. k + 1 \in 1..Len(event)
  BY NextPending
<1>4. PICK t : t = Tail(pend)
  OBVIOUS
<1>5. /\ t \in Seq(Pieces(event)) /\ Len(t) = Len(pend) - 1
      /\ \A i \in 1..Len(t) : t[i] = pend[i + 1]
  BY <1>1, <1>4, HeadTailProperties
<1>6. Len(t) = Len(event) - (k + 1)
  BY <1>1, <1>2, <1>3, <1>5
<1>7. ASSUME NEW i \in 1..Len(t) PROVE t[i] = event[(k + 1) + i]
  <2>1. i + 1 \in 2..Len(pend)
    BY <1>1, <1>2, <1>3, <1>5
  <2>2. pend[i + 1] = event[k + (i + 1)]
    BY <1>1, <2>1
  <2>3. k + (i + 1) = (k + 1) + i
    BY <1>1, <1>2
  <2> QED
    BY <1>5, <2>2, <2>3
<1>8. k + 1 \in 0..Len(event)
  BY <1>3
<1>9. \A i \in 2..Len(t) : t[i] = event[(k + 1) + i]
  <2>1. ASSUME NEW i \in 2..Len(t) PROVE t[i] = event[(k + 1) + i]
    <3>1. i \in 1..Len(t)
      OBVIOUS
    <3> QED
      BY <1>7, <3>1
  <2> QED
    BY <2>1
<1>10. k + 1 < Len(event) => t[1] = event[(k + 1) + 1]
  <2>1. ASSUME k + 1 < Len(event) PROVE 1 \in 1..Len(t)
    BY <1>2, <1>3, <1>6, <2>1
  <2> QED
    BY <1>7, <2>1
<1>11. Stands(event, k + 1, 0, t)
  BY <1>5, <1>6, <1>8, <1>9, <1>10 DEF Stands
<1> QED
  BY <1>4, <1>11

\* A chunk of a write done with, its rest is in front.
LEMMA ChunkDone ==
    ASSUME NEW event \in Event, NEW k, NEW d, NEW pend, Stands(event, k, d, pend), pend # <<>>,
           event[k + 1][1] = "memory", NEW c \in Nat, c > 0, d + c < event[k + 1][3],
           NEW rest,
           rest = <<"memory", (event[k + 1][2] + (d + c)) % AddressMod, event[k + 1][3] - (d + c)>>
    PROVE  Stands(event, k, d + c, <<rest>> \o Tail(pend))
<1>1. /\ k \in 0..Len(event) /\ pend \in Seq(Pieces(event)) /\ Len(pend) = Len(event) - k
      /\ \A i \in 2..Len(pend) : pend[i] = event[k + i] /\ d \in Nat
  BY DEF Stands
<1>2. Len(event) \in Nat
  BY EffectsOfEvent
<1>3. /\ k + 1 \in 1..Len(event) /\ event[k + 1][2] \in Nat /\ event[k + 1][3] \in Nat
  BY NextPending
<1>4. d \in Nat
  BY DEF Stands
<1>5. rest \in Pieces(event)
  <2>1. PICK a \in Nat : a = event[k + 1][2]
    BY <1>3
  <2>2. PICK n \in Nat : n = event[k + 1][3]
    BY <1>3
  <2>3. PICK x \in Nat : x = a + (d + c)
    BY <1>4
  <2>4. PICK m \in Nat \ {0} : m = AddressMod
    BY BufferAssumption
  <2>5. PICK y \in 0..(m - 1) : y = x % m
    BY Divided
  <2>6. PICK z \in Nat : z = n - (d + c)
    BY <1>4, <2>2
  <2>7. rest = <<"memory", y, z>>
    BY <2>1, <2>2, <2>3, <2>4, <2>5, <2>6
  <2>8. rest \in {"memory"} \X Nat \X Nat
    BY <2>7
  <2> QED
    BY <2>8 DEF Pieces
<1>6. PICK S : S = Pieces(event)
  OBVIOUS
<1>7. PICK t : t = Tail(pend)
  OBVIOUS
<1>8. /\ t \in Seq(S) /\ Len(t) = Len(pend) - 1
      /\ \A i \in 1..Len(t) : t[i] = pend[i + 1]
  BY <1>1, <1>6, <1>7, HeadTailProperties
<1>9. PICK u : u = <<rest>>
  OBVIOUS
<1>10. u \in Seq(S) /\ Len(u) = 1 /\ u[1] = rest
  BY <1>5, <1>6, <1>9
<1>11. PICK p : p = u \o t
  OBVIOUS
<1>12. /\ u \o t \in Seq(S) /\ Len(u \o t) = Len(u) + Len(t)
       /\ \A i \in 1..(Len(u) + Len(t)) :
             (u \o t)[i] = IF i <= Len(u) THEN u[i] ELSE t[i - Len(u)]
  <2>1. u \in Seq(S) /\ t \in Seq(S)
    BY <1>8, <1>10
  <2> QED
    BY <2>1, ConcatProperties, Zenon
<1>13. Len(t) = Len(event) - (k + 1) /\ Len(t) \in Nat
  BY <1>1, <1>2, <1>3, <1>8
<1>14. /\ p \in Seq(S) /\ Len(p) = 1 + Len(t)
       /\ \A i \in 1..(1 + Len(t)) : p[i] = IF i <= 1 THEN u[i] ELSE t[i - 1]
  BY <1>10, <1>11, <1>12
<1>15. p[1] = rest
  BY <1>10, <1>13, <1>14
<1>16. ASSUME NEW i \in 2..Len(p) PROVE p[i] = event[k + i]
  <2>1. i \in 1..(1 + Len(t)) /\ ~(i <= 1) /\ i - 1 \in 1..Len(t) /\ (i - 1) + 1 = i
    BY <1>13, <1>14
  <2>2. p[i] = t[i - 1] /\ t[i - 1] = pend[i]
    BY <1>8, <1>14, <2>1
  <2>3. i \in 2..Len(pend)
    BY <1>1, <1>2, <1>3, <1>13, <1>14
  <2> QED
    BY <1>1, <2>2, <2>3
<1>17. Len(p) = Len(event) - k
  BY <1>1, <1>2, <1>13, <1>14
<1>18. PICK b \in Nat : b = d + c /\ b > 0 /\ b < event[k + 1][3]
  BY <1>4
<1>19. k < Len(event) /\ k \in 0..Len(event)
  BY <1>1, <1>2, <1>3
<1>20. p[1] = <<"memory", (event[k + 1][2] + b) % AddressMod, event[k + 1][3] - b>>
  BY <1>15, <1>18
<1>21. Stands(event, k, b, p)
  <2>1. ~(b = 0)
    BY <1>18
  <2> QED
    BY <1>6, <1>14, <1>16, <1>17, <1>18, <1>19, <1>20, <2>1 DEF Stands
<1> QED
  BY <1>7, <1>9, <1>11, <1>18, <1>21

\* A register write consumed: nothing more is told.
LEMMA RegisterPassed ==
    ASSUME NEW event \in Event, NEW k, NEW d, NEW pend, Stands(event, k, d, pend), pend # <<>>,
           Head(pend)[1] = "register", NEW s, Tells(event, k, d, s)
    PROVE  Tells(event, k + 1, 0, s)
<1>1. PICK e : e = event[k + 1]
  OBVIOUS
<1>2. k + 1 \in 1..Len(event) /\ IsEffect(e) /\ e[1] = "register" /\ d = 0
  BY <1>1, NextPending
<1>3. BytesWritten(e) = <<>> /\ Part(e, 0) = <<>> /\ Part(event[(k + 1) + 1], 0) = <<>>
  BY <1>2, PartEnds DEF BytesWritten
<1>4. (k + 1) - 1 = k /\ k \in 0..Len(event)
  BY <1>2 DEF Stands
<1>5. MemoryWritten(event, k + 1) = MemoryWritten(event, k) \o BytesWritten(e)
  BY <1>1, <1>2, <1>4, MemorySteps
<1>6. s = MemoryWritten(event, k) \o Part(e, 0)
  BY <1>1, <1>2 DEF Tells
<1>7. PICK m \in Seq(Nat) : m = MemoryWritten(event, k + 1)
  <2>1. k + 1 \in 0..Len(event)
    BY <1>2
  <2> QED
    BY <2>1, MemorySteps
<1>8. s = m /\ m \o <<>> = m
  BY <1>3, <1>5, <1>6, <1>7, ConcatEmptySeq
<1> QED
  BY <1>3, <1>7, <1>8 DEF Tells

Joins(a, b, c) == (a \o b) \o c = a \o (b \o c)

\* Three pieces make the same sequence whichever two are joined first.
LEMMA PiecesJoin ==
    ASSUME NEW a \in Seq(Nat), NEW b \in Seq(Nat), NEW c \in Seq(Nat)
    PROVE  Joins(a, b, c)
<1>1. (a \o b) \o c = a \o (b \o c)
  BY ConcatAssociative
<1> QED
  BY <1>1 DEF Joins

\* A chunk consumed: what is told grows by it.
LEMMA ChunkTold ==
    ASSUME NEW event \in Event, NEW k, NEW d, NEW pend, Stands(event, k, d, pend), pend # <<>>,
           Head(pend)[1] = "memory", NEW s, Tells(event, k, d, s),
           NEW c \in Nat, NEW address, address = Head(pend)[2],
           NEW t, t = ChunkAt(address, c)
    PROVE  /\ Tells(event, k, d + c, s \o t)
           /\ d + c = event[k + 1][3] => Tells(event, k + 1, 0, s \o t)
<1>1. PICK e : e = event[k + 1]
  OBVIOUS
<1>2. /\ k + 1 \in 1..Len(event) /\ e[1] = "memory" /\ e[2] \in Nat /\ e[3] \in Nat
      /\ address = (e[2] + d) % AddressMod
  BY <1>1, NextPending
<1>3. d \in Nat /\ k \in 0..Len(event)
  BY DEF Stands
<1>4. /\ Part(e, d) \in Seq(Nat) /\ t \in Seq(Nat)
      /\ Part(e, d) \o t = Part(e, d + c)
  <2>1. Adjoins(e, d, c, address)
    BY <1>2, <1>3 DEF Adjoins
  <2>2. Longer(e, d, c, t)
    BY <2>1, PartGrows
  <2> QED
    BY <2>2 DEF Longer
<1>5. PICK p \in Seq(Nat) : p = Part(e, d)
  BY <1>4
<1>6. PICK m \in Seq(Nat) : m = MemoryWritten(event, k)
  BY <1>3, MemorySteps
<1>7. s = m \o p
  BY <1>1, <1>5, <1>6 DEF Tells
<1>8. (m \o p) \o t = m \o (p \o t)
  <2>1. PICK u \in Seq(Nat) : u = t
    BY <1>4
  <2>2. Joins(m, p, u)
    BY PiecesJoin
  <2> QED
    BY <2>1, <2>2 DEF Joins
<1>9. s \o t = m \o Part(e, d + c)
  BY <1>4, <1>5, <1>7, <1>8
<1>10. Tells(event, k, d + c, s \o t)
  BY <1>1, <1>6, <1>9 DEF Tells
<1>11. ASSUME d + c = e[3] PROVE Tells(event, k + 1, 0, s \o t)
  <2>1. BytesWritten(e) = Part(e, d + c)
    BY <1>2, <1>11, PartEnds
  <2>2. (k + 1) - 1 = k /\ k + 1 \in 0..Len(event)
    BY <1>2, <1>3
  <2>3. MemoryWritten(event, k + 1) = m \o BytesWritten(e)
    BY <1>1, <1>2, <1>6, <2>2, MemorySteps
  <2>4. PICK n \in Seq(Nat) : n = MemoryWritten(event, k + 1)
    BY <2>2, MemorySteps
  <2>5. n \o <<>> = n
    BY ConcatEmptySeq
  <2>6. Part(event[(k + 1) + 1], 0) = <<>>
    BY PartEnds
  <2>7. s \o t = n
    BY <1>9, <2>1, <2>3, <2>4
  <2> QED
    BY <2>4, <2>5, <2>6, <2>7 DEF Tells
<1> QED
  BY <1>1, <1>10, <1>11

\* A round hands out the chunk t of the write in front, and `more' is pending then.
Round(pend, t, more) ==
    LET address == Head(pend)[2]
        size == Head(pend)[3]
        c == Chunk(size)
    IN  /\ t = ChunkAt(address, c)
        /\ more = (IF size = c THEN <<>> ELSE RestOfWrite(address, size, c)) \o Tail(pend)

\* The reader has passed over a write or a part of it, and s is told.
Advances(event, k, pend, s) ==
    \E k2, d2 : /\ Stands(event, k2, d2, pend) /\ Tells(event, k2, d2, s)
                /\ k2 = k \/ (k2 = k + 1 /\ event[k + 1][1] = "memory")

\* One round of process_memory_write: the reader stands behind the chunk, which is told.
LEMMA RoundOfWrite ==
    ASSUME NEW event \in Event, NEW k, NEW d, NEW pend, Stands(event, k, d, pend), pend # <<>>,
           Head(pend)[1] = "memory", NEW s, Tells(event, k, d, s),
           NEW t, NEW more, Round(pend, t, more)
    PROVE  Advances(event, k, more, s \o t)
<1>a. PICK address : address = Head(pend)[2]
  OBVIOUS
<1>b. PICK size : size = Head(pend)[3]
  OBVIOUS
<1>c. PICK c : c = Chunk(size)
  OBVIOUS
<1>d. /\ t = ChunkAt(address, c)
      /\ more = (IF size = c THEN <<>> ELSE RestOfWrite(address, size, c)) \o Tail(pend)
  BY <1>a, <1>b, <1>c DEF Round
<1>1. PICK e : e = event[k + 1]
  OBVIOUS
<1>2. /\ e[1] = "memory" /\ e[2] \in Nat /\ e[3] \in Nat
      /\ address = (e[2] + d) % AddressMod /\ size = e[3] - d
      /\ d <= e[3]
  BY <1>1, <1>a, <1>b, NextPending
<1>3. d \in Nat
  BY DEF Stands
<1>4. size \in Nat
  BY <1>2, <1>3
<1>5. c \in 0..size /\ (size > 0 => c > 0)
  BY <1>4, <1>c, ChunkInside
<1>6. c \in Nat
  BY <1>4, <1>5
<1>7. /\ Tells(event, k, d + c, s \o t)
      /\ d + c = event[k + 1][3] => Tells(event, k + 1, 0, s \o t)
  BY <1>6, <1>a, <1>d, ChunkTold
<1>8. CASE size = c
  <2>1. d + c = event[k + 1][3]
    BY <1>1, <1>2, <1>3, <1>8
  <2>2. PICK u \in Seq(Pieces(event)) : u = Tail(pend)
    BY HeadTailProperties DEF Stands
  <2>3. <<>> \o u = u
    BY ConcatEmptySeq
  <2>4. more = Tail(pend)
    BY <1>8, <1>d, <2>2, <2>3
  <2>5. Stands(event, k + 1, 0, more)
    BY <2>4, EffectDone
  <2> QED
    BY <1>1, <1>2, <1>7, <2>1, <2>5 DEF Advances
<1>9. CASE size # c
  <2>1. c > 0 /\ d + c < e[3]
    BY <1>2, <1>3, <1>4, <1>5, <1>9
  <2>2. PICK rest : rest = <<"memory", (address + c) % AddressMod, size - c>>
    OBVIOUS
  <2>3. PICK x \in Nat : x = e[2] + d
    BY <1>2, <1>3
  <2>4. PICK m \in Nat \ {0} : m = AddressMod
    BY BufferAssumption
  <2>5. ((x % m) + c) % m = (x + c) % m
    BY <1>6, RemainderInSum
  <2>6. x + c = e[2] + (d + c)
    BY <1>2, <1>3, <1>6, <2>3
  <2>7. (address + c) % AddressMod = (e[2] + (d + c)) % AddressMod
    BY <1>2, <2>3, <2>4, <2>5, <2>6
  <2>8. size - c = e[3] - (d + c)
    BY <1>2, <1>3, <1>6
  <2>9. rest = <<"memory", (event[k + 1][2] + (d + c)) % AddressMod, event[k + 1][3] - (d + c)>>
    BY <1>1, <2>2, <2>7, <2>8
  <2>10. Stands(event, k, d + c, <<rest>> \o Tail(pend))
    BY <1>1, <1>2, <1>6, <2>1, <2>9, ChunkDone
  <2>11. more = <<rest>> \o Tail(pend)
    BY <1>9, <1>d, <2>2 DEF RestOfWrite
  <2> QED
    BY <1>7, <2>10, <2>11 DEF Advances
<1> QED
  BY <1>8, <1>9

\* An event begun: nothing is consumed and nothing told.
LEMMA EventBegun ==
    ASSUME NEW event \in Event
    PROVE  Stands(event, 0, 0, event) /\ Tells(event, 0, 0, <<>>)
<1>1. Len(event) \in Nat /\ event \in Seq({event[i] : i \in DOMAIN event})
  BY EffectsOfEvent
<1>2. {event[i] : i \in DOMAIN event} \subseteq Pieces(event)
  BY DEF Pieces
<1>3. event \in Seq(Pieces(event))
  BY <1>1, <1>2, SeqMonotonic
<1>4. 0 \in 0..Len(event) /\ Len(event) = Len(event) - 0
  BY <1>1
<1>5. \A i \in 2..Len(event) : event[i] = event[0 + i]
  BY <1>1
<1>6. event[1] = event[0 + 1] /\ ~(0 > 0)
  OBVIOUS
<1>7. Stands(event, 0, 0, event)
  BY <1>3, <1>4, <1>5, <1>6 DEF Stands
<1>8. MemoryWritten(event, 0) = <<>> /\ Part(event[0 + 1], 0) = <<>>
  BY MemorySteps, PartEnds
<1>9. <<>> \o <<>> = <<>>
  <2>1. <<>> \in Seq(Nat)
    OBVIOUS
  <2> QED
    BY <2>1, ConcatEmptySeq
<1> QED
  BY <1>7, <1>8, <1>9 DEF Tells

\* An event ended: everything is consumed and told.
LEMMA EventEnded ==
    ASSUME NEW event \in Event, NEW k, NEW d, NEW s,
           Stands(event, k, d, <<>>), Tells(event, k, d, s)
    PROVE  k = Len(event) /\ s = MemoryWritten(event, Len(event))
<1>1. Len(event) \in Nat
  BY EffectsOfEvent
<1>2. k \in 0..Len(event) /\ d \in Nat /\ Len(<<>>) = Len(event) - k /\ (d > 0 => k < Len(event))
  BY DEF Stands
<1>3. Len(<<>>) = 0
  BY EmptySeq
<1>4. k = Len(event) /\ d = 0
  BY <1>1, <1>2, <1>3
<1>5. PICK m \in Seq(Nat) : m = MemoryWritten(event, k)
  BY <1>2, MemorySteps
<1>6. Part(event[k + 1], 0) = <<>> /\ m \o <<>> = m
  BY PartEnds, ConcatEmptySeq
<1> QED
  BY <1>4, <1>5, <1>6 DEF Tells

(***************************************************************************)
(* The inductive invariant                                                 *)
(***************************************************************************)

\* Every register has as many bytes as the machine description gives it.
Contexts(c) ==
    DOMAIN c = DOMAIN Register /\ \A id \in DOMAIN Register : c[id] \in Bytes(Register[id])
Holding(numbers, c) == \A id \in DOMAIN Register : ValueOf(c[id]) = numbers[id]

\* The registers written by the first k effects, and that they are shown, each once.
WrittenBy(event, k) == {Destination(event[i][2]) : i \in {j \in 1..k : event[j][1] = "register"}}
Showing(event, k, shown) ==
    /\ shown \in Seq(DOMAIN Register)
    /\ \A i \in 1..Len(shown) : \A j \in 1..Len(shown) : shown[i] = shown[j] => i = j
    /\ {shown[i] : i \in 1..Len(shown)} = WrittenBy(event, k)

\* Inside of an event: k of its effects and d bytes of the next are consumed.
Inside(event, k, d) ==
    /\ Stands(event, k, d, pending) /\ Tells(event, k, d, told)
    /\ Holding(NumbersIn(event, NumbersAfter(trace, current_event_id), k), context)
    /\ Showing(event, k, registers_to_show)

BetweenEvents ==
    /\ Len(trace) = current_event_id
    /\ told = <<>> /\ registers_to_show = <<>>
    /\ Holding(NumbersAfter(trace, current_event_id), context)
InAnEvent ==
    /\ Len(trace) = current_event_id + 1 /\ current_event_id < event_count
    /\ LET event == trace[current_event_id + 1]
       IN  \E k \in 0..Len(event) : \E d \in Nat : Inside(event, k, d)
Printed == lines \in Seq({lines[i] : i \in DOMAIN lines}) /\ Len(lines) = current_event_id

IInv ==
    /\ TypeOK
    /\ Printed
    /\ mode \in {"between", "ended"} => BetweenEvents
    /\ mode = "in" => InAnEvent
    /\ LinesTellRegisters
    /\ LinesTellMemory

(***************************************************************************)
(* Writes of registers                                                     *)
(***************************************************************************)

\* Registers of no value hold 0.
LEMMA InitialHolds ==
    ASSUME NEW c,
           c = [id \in DOMAIN Register |->
                   IF id \in DOMAIN InitialValue THEN InitialValue[id]
                   ELSE BytesOf(0, Register[id])]
    PROVE  Contexts(c) /\ Holding(InitialNumbers, c)
<1>1. ASSUME NEW id \in DOMAIN Register
      PROVE  c[id] \in Bytes(Register[id]) /\ ValueOf(c[id]) = InitialNumbers[id]
  <2>1. CASE id \in DOMAIN InitialValue
    <3>1. c[id] = InitialValue[id] /\ InitialNumbers[id] = ValueOf(InitialValue[id])
      BY <1>1, <2>1 DEF InitialNumbers
    <3> QED
      BY <2>1, <3>1, MachineAssumption
  <2>2. CASE id \notin DOMAIN InitialValue
    <3>1. c[id] = BytesOf(0, Register[id]) /\ InitialNumbers[id] = 0
      BY <1>1, <2>2 DEF InitialNumbers
    <3>2. PICK n \in Nat : n = Register[id]
      BY <1>1, Operations
    <3>3. BytesOf(0, n) \in Bytes(n) /\ ValueOf(BytesOf(0, n)) = 0 % Weight(n)
      BY BytesOfValue
    <3>4. PICK w \in Nat \ {0} : w = Weight(n)
      BY Weights
    <3>5. 0 % w = 0
      BY <3>4
    <3> QED
      BY <3>1, <3>2, <3>3, <3>4, <3>5
  <2> QED
    BY <2>1, <2>2
<1>2. DOMAIN c = DOMAIN Register
  OBVIOUS
<1> QED
  BY <1>1, <1>2 DEF Contexts, Holding

\* An id stands for a register.
LEMMA DestinationKnown ==
    ASSUME NEW id, IsOperation(id) \/ IsRegister(id)
    PROVE  Destination(id) \in DOMAIN Register
BY Operations DEF IsOperation, IsRegister, Destination

\* What a register holds after a write is the number it has after it.
LEMMA WriteApplied ==
    ASSUME NEW numbers \in Numbers, Contexts(context), Holding(numbers, context),
           NEW effect, IsEffect(effect), effect[1] = "register",
           IsOperation(effect[2]) \/ IsRegister(effect[2]),
           NEW c,
           c = [context EXCEPT ![Destination(effect[2])] = Content(effect[2], effect[3])]
    PROVE  Contexts(c) /\ Holding(NumbersWith(numbers, effect), c)
<1>1. PICK id : id = effect[2]
  OBVIOUS
<1>2. PICK r : r = Destination(id) /\ r \in DOMAIN Register
  BY <1>1, DestinationKnown
<1>3. PICK new : new = Content(id, effect[3])
  OBVIOUS
<1>4. PICK x : x = NumbersWith(numbers, effect)
  OBVIOUS
<1>5. numbers \in [DOMAIN Register -> Nat]
  BY DEF Numbers
<1>6. DOMAIN context = DOMAIN Register
  BY DEF Contexts
<1>7. c[r] = new /\ \A q \in DOMAIN Register : q # r => c[q] = context[q]
  BY <1>1, <1>2, <1>3, <1>6
<1>8. /\ new \in Bytes(Register[r]) /\ ValueOf(new) = x[r]
      /\ \A q \in DOMAIN Register : q # r => x[q] = numbers[q]
  <2>1. effect[1] # "memory"
    OBVIOUS
  <2>2. CASE IsOperation(id)
    <3>1. id \in DOMAIN Operation
      BY <2>2 DEF IsOperation
    <3>2. PICK op : op = Operation[id]
      OBVIOUS
    <3>3. r = op.register /\ op.operator \in Operators /\ op.value \in Bytes(Register[r])
      BY <1>2, <2>2, <3>1, <3>2, Operations DEF Destination
    <3>4. PICK n \in Nat : n = Register[r]
      BY <1>2, Operations
    <3>5. context[r] \in Bytes(n) /\ ValueOf(context[r]) = numbers[r]
      BY <1>2, <3>4 DEF Contexts, Holding
    <3>6. new = Applied(op.operator, context[r], op.value)
      BY <1>3, <2>2, <3>2, <3>3 DEF Content
    <3>7. PICK v : v = OnNumbers(op.operator, numbers[r], ValueOf(op.value), BitsPerByte * n)
      OBVIOUS
    <3>8. new \in Bytes(n) /\ ValueOf(new) = v
      BY <3>3, <3>4, <3>5, <3>6, <3>7, OperationApplied
    <3>9. x = [numbers EXCEPT ![r] =
                  OnNumbers(op.operator, @, ValueOf(op.value), BitsPerByte * Register[r])]
      BY <1>1, <1>4, <2>1, <2>2, <3>2, <3>3 DEF NumbersWith
    <3>10. x[r] = v /\ \A q \in DOMAIN Register : q # r => x[q] = numbers[q]
      BY <1>2, <1>5, <3>4, <3>7, <3>9
    <3> QED
      BY <3>4, <3>8, <3>10
  <2>3. CASE ~IsOperation(id)
    <3>1. r = id /\ new = effect[3]
      BY <1>2, <1>3, <2>3 DEF Destination, Content
    <3>2. new \in Bytes(Register[r])
      BY <1>1, <1>2, <3>1 DEF IsEffect
    <3>3. x = [numbers EXCEPT ![id] = ValueOf(effect[3])]
      BY <1>1, <1>4, <2>1, <2>3 DEF NumbersWith
    <3>4. x[r] = ValueOf(new) /\ \A q \in DOMAIN Register : q # r => x[q] = numbers[q]
      BY <1>2, <1>5, <3>1, <3>3
    <3> QED
      BY <3>2, <3>4
  <2> QED
    BY <2>2, <2>3
<1>9. ASSUME NEW q \in DOMAIN Register PROVE c[q] \in Bytes(Register[q]) /\ ValueOf(c[q]) = x[q]
  <2>1. CASE q = r
    BY <1>7, <1>8, <2>1
  <2>2. CASE q # r
    <3>1. context[q] \in Bytes(Register[q]) /\ ValueOf(context[q]) = numbers[q]
      BY <1>9 DEF Contexts, Holding
    <3> QED
      BY <1>7, <1>8, <1>9, <2>2, <3>1
  <2> QED
    BY <2>1, <2>2
<1>10. DOMAIN c = DOMAIN Register
  BY <1>6
<1> QED
  BY <1>4, <1>9, <1>10 DEF Contexts, Holding

\* One effect more is one register more, or none.
LEMMA WrittenGrows ==
    ASSUME NEW event, NEW k \in Nat
    PROVE  /\ event[k + 1][1] = "register" =>
                 WrittenBy(event, k + 1) = WrittenBy(event, k) \union {Destination(event[k + 1][2])}
           /\ event[k + 1][1] # "register" => WrittenBy(event, k + 1) = WrittenBy(event, k)
           /\ WrittenBy(event, 0) = {}
<1>1. \A j : j \in 1..(k + 1) <=> j \in 1..k \/ j = k + 1
  OBVIOUS
<1>2. 1..0 = {}
  OBVIOUS
<1>3. ASSUME event[k + 1][1] = "register"
      PROVE  WrittenBy(event, k + 1) = WrittenBy(event, k) \union {Destination(event[k + 1][2])}
  BY <1>1, <1>3 DEF WrittenBy
<1>4. ASSUME event[k + 1][1] # "register"
      PROVE  WrittenBy(event, k + 1) = WrittenBy(event, k)
  BY <1>1, <1>4 DEF WrittenBy
<1>5. WrittenBy(event, 0) = {}
  BY <1>2 DEF WrittenBy
<1> QED
  BY <1>3, <1>4, <1>5

\* A register written is shown, once.
LEMMA WriteShown ==
    ASSUME NEW event, NEW k \in Nat, Showing(event, k, registers_to_show),
           NEW id, event[k + 1][1] = "register", event[k + 1][2] = id,
           Destination(id) \in DOMAIN Register
    PROVE  Showing(event, k + 1, Shown(id))
<1>1. PICK r \in DOMAIN Register : r = Destination(id)
  OBVIOUS
<1>2. PICK s \in Seq(DOMAIN Register) : s = registers_to_show
  BY DEF Showing
<1>3. /\ \A i \in 1..Len(s) : \A j \in 1..Len(s) : s[i] = s[j] => i = j
      /\ {s[i] : i \in 1..Len(s)} = WrittenBy(event, k)
  BY <1>2 DEF Showing
<1>4. WrittenBy(event, k + 1) = WrittenBy(event, k) \union {r}
  BY <1>1, WrittenGrows
<1>5. Len(s) \in Nat
  BY LenProperties
<1>6. CASE \E i \in 1..Len(s) : s[i] = r
  <2>1. Contains(s, r)
    BY <1>6 DEF Contains
  <2>2. Shown(id) = s
    BY <1>1, <1>2, <2>1 DEF Shown
  <2>3. r \in WrittenBy(event, k)
    BY <1>3, <1>6
  <2>4. {s[i] : i \in 1..Len(s)} = WrittenBy(event, k + 1)
    BY <1>3, <1>4, <2>3
  <2> QED
    BY <1>3, <2>2, <2>4 DEF Showing
<1>7. CASE \A i \in 1..Len(s) : s[i] # r
  <2>1. ~Contains(s, r)
    BY <1>7 DEF Contains
  <2>2. PICK t : t = Append(s, r)
    OBVIOUS
  <2>3. Shown(id) = t
    BY <1>1, <1>2, <2>1, <2>2 DEF Shown
  <2>4. /\ t \in Seq(DOMAIN Register) /\ Len(t) = Len(s) + 1 /\ t[Len(s) + 1] = r
        /\ \A i \in 1..Len(s) : t[i] = s[i]
    BY <1>1, <1>2, <2>2
  <2>5. \A i : i \in 1..Len(t) <=> i \in 1..Len(s) \/ i = Len(s) + 1
    BY <1>5, <2>4
  <2>6. ASSUME NEW i \in 1..Len(t), NEW j \in 1..Len(t), t[i] = t[j] PROVE i = j
    BY <1>3, <1>7, <2>4, <2>5, <2>6
  <2>7. {t[i] : i \in 1..Len(t)} = {s[i] : i \in 1..Len(s)} \union {r}
    BY <2>4, <2>5
  <2>8. {t[i] : i \in 1..Len(t)} = WrittenBy(event, k + 1)
    BY <1>3, <1>4, <2>7
  <2> QED
    BY <2>3, <2>4, <2>6, <2>8 DEF Showing
<1> QED
  BY <1>6, <1>7

(***************************************************************************)
(* One lemma for each action                                               *)
(***************************************************************************)

\* The event being read is the last one begun.
LEMMA EventRead ==
    ASSUME IInv, mode = "in"
    PROVE  \E event \in Event : \E k \in 0..Len(event) : \E d \in Nat :
              event = trace[current_event_id + 1] /\ Inside(event, k, d)
<1>1. /\ trace \in Seq(Event) /\ current_event_id \in 0..event_count /\ event_count \in 0..MaxEvents
      /\ Len(trace) = current_event_id + 1
  BY DEF IInv, TypeOK, InAnEvent
<1>2. Len(trace) \in 1..Len(trace)
  <2>1. event_count \in Nat /\ current_event_id \in Nat
    BY <1>1, BufferAssumption
  <2> QED
    BY <1>1, <2>1
<1>3. PICK event \in Event : event = trace[current_event_id + 1]
  BY <1>1, <1>2, ElementOfSeq
<1> QED
  BY <1>3 DEF IInv, InAnEvent

\* A line, the n-th, tells the registers of an event that leaves these numbers.
TellsRegisters(line, n, event, numbers) ==
    LET shown == {line.registers[i][1] : i \in DOMAIN line.registers}
    IN  /\ line.event = n - 1
        /\ shown = Written(event)
        /\ Len(line.registers) = Cardinality(shown)
        /\ \A i \in DOMAIN line.registers :
              ValueOf(line.registers[i][2]) = numbers[line.registers[i][1]]

\* The property of all lines, line by line.
LEMMA LineByLine ==
    /\ LinesTellRegisters <=>
          \A n \in DOMAIN lines : TellsRegisters(lines[n], n, trace[n], NumbersAfter(trace, n))
    /\ LinesTellRegisters' <=>
          \A n \in DOMAIN lines' : TellsRegisters(lines'[n], n, trace'[n], NumbersAfter(trace', n))
<1>1. LinesTellRegisters <=>
          \A n \in DOMAIN lines : TellsRegisters(lines[n], n, trace[n], NumbersAfter(trace, n))
  BY Zenon DEF LinesTellRegisters, TellsRegisters
<1>2. LinesTellRegisters' <=>
          \A n \in DOMAIN lines' : TellsRegisters(lines'[n], n, trace'[n], NumbersAfter(trace', n))
  BY Zenon DEF LinesTellRegisters, TellsRegisters
<1> QED
  BY <1>1, <1>2

\* The lines stand while no line is added and no event begun.
LEMMA LinesStand ==
    ASSUME IInv, UNCHANGED <<trace, current_event_id, lines>>
    PROVE  Printed' /\ LinesTellRegisters' /\ LinesTellMemory'
<1>1. Printed'
  BY DEF IInv, Printed
<1>2. LinesTellRegisters'
  BY LineByLine DEF IInv
<1>3. LinesTellMemory'
  BY DEF IInv, LinesTellMemory
<1> QED
  BY <1>1, <1>2, <1>3

\* Nothing moves.
LEMMA Stutters ==
    ASSUME IInv, UNCHANGED vars
    PROVE  IInv'
<1>1. /\ event_count' = event_count /\ trace' = trace /\ current_event_id' = current_event_id
      /\ pending' = pending /\ context' = context /\ registers_to_show' = registers_to_show
      /\ told' = told /\ lines' = lines /\ mode' = mode
  BY DEF vars
<1>2. TypeOK'
  BY <1>1 DEF IInv, TypeOK
<1>3. Printed' /\ LinesTellRegisters' /\ LinesTellMemory'
  BY <1>1, LinesStand
<1>4. (mode \in {"between", "ended"} => BetweenEvents)'
  BY <1>1 DEF IInv, BetweenEvents
<1>5. (mode = "in" => InAnEvent)'
  BY <1>1 DEF IInv, InAnEvent, Inside
<1> QED
  BY <1>2, <1>3, <1>4, <1>5 DEF IInv

\* No event has been begun.
LEMMA Begins == Init => IInv
<1> SUFFICES ASSUME Init PROVE IInv
  OBVIOUS
<1>1. /\ event_count \in 0..MaxEvents /\ trace = <<>> /\ current_event_id = 0
      /\ registers_to_show = <<>> /\ told = <<>> /\ lines = <<>> /\ mode = "between"
  BY DEF Init
<1>2. Contexts(context) /\ Holding(InitialNumbers, context)
  <2>1. context = [id \in DOMAIN Register |->
                     IF id \in DOMAIN InitialValue THEN InitialValue[id]
                     ELSE BytesOf(0, Register[id])]
    BY DEF Init
  <2> QED
    BY <2>1, InitialHolds
<1>3. trace \in Seq(Event) /\ Len(trace) = 0 /\ NumbersAfter(trace, 0) = InitialNumbers
  <2>1. trace \in Seq(Event)
    BY <1>1
  <2> QED
    BY <1>1, <2>1, NumbersAfterSteps
<1>4. TypeOK
  <2>1. event_count \in Nat
    BY <1>1, BufferAssumption
  <2>2. Len(trace) \in current_event_id..(current_event_id + 1)
    BY <1>1, <1>3
  <2>3. DOMAIN registers_to_show = {}
    BY <1>1
  <2> QED
    BY <1>1, <1>2, <1>3, <2>1, <2>2, <2>3 DEF TypeOK, Contexts
<1>5. Printed
  BY <1>1 DEF Printed
<1>6. BetweenEvents
  BY <1>1, <1>2, <1>3 DEF BetweenEvents
<1>7. DOMAIN lines = {}
  BY <1>1
<1>8. LinesTellRegisters /\ LinesTellMemory
  BY <1>7 DEF LinesTellRegisters, LinesTellMemory
<1> QED
  BY <1>1, <1>4, <1>5, <1>6, <1>8 DEF IInv

\* What lines tell of the events before depends on these alone.
LEMMA EventAdded ==
    ASSUME IInv, Len(trace) = current_event_id, NEW event \in Event,
           trace' = Append(trace, event), UNCHANGED <<current_event_id, lines>>
    PROVE  /\ trace' \in Seq(Event) /\ Len(trace') = current_event_id + 1
           /\ trace'[current_event_id + 1] = event
           /\ NumbersAfter(trace', current_event_id) = NumbersAfter(trace, current_event_id)
           /\ Printed' /\ LinesTellRegisters' /\ LinesTellMemory'
<1>1. PICK t \in Seq(Event) : t = trace
  BY DEF IInv, TypeOK
<1>2. PICK u : u = trace'
  OBVIOUS
<1>3. PICK n \in Nat : n = Len(t) /\ n = current_event_id
  BY <1>1, LenProperties
<1>4. /\ u \in Seq(Event) /\ Len(u) = n + 1 /\ u[n + 1] = event
      /\ \A i \in 1..n : u[i] = t[i]
  BY <1>1, <1>2, <1>3
<1>5. ASSUME NEW i \in 0..n PROVE NumbersAfter(u, i) = NumbersAfter(t, i)
  <2>1. i \in Nat /\ i <= Len(t) /\ i <= Len(u) /\ \A j \in 1..i : t[j] = u[j]
    BY <1>3, <1>4
  <2> QED
    BY <1>4, <2>1, NumbersOfPrefix
<1>6. Printed'
  BY DEF IInv, Printed
<1>7. DOMAIN lines = 1..n
  <2>1. PICK S : lines \in Seq(S) /\ Len(lines) = n
    BY <1>3 DEF IInv, Printed
  <2> QED
    BY <2>1, LenProperties
<1>8. \A i \in 1..n : NumbersAfter(u, i) = NumbersAfter(t, i) /\ u[i] = t[i]
  BY <1>4, <1>5
<1>9. LinesTellRegisters'
  <2>1. \A i \in 1..n : TellsRegisters(lines[i], i, t[i], NumbersAfter(t, i))
    BY <1>1, <1>7, LineByLine DEF IInv
  <2>2. \A i \in 1..n : TellsRegisters(lines[i], i, u[i], NumbersAfter(u, i))
    BY <1>8, <2>1
  <2> QED
    BY <1>2, <1>7, <2>2, LineByLine
<1>10. LinesTellMemory'
  BY <1>1, <1>2, <1>7, <1>8 DEF IInv, LinesTellMemory
<1>11. NumbersAfter(u, n) = NumbersAfter(t, n)
  BY <1>5
<1> QED
  BY <1>1, <1>2, <1>3, <1>4, <1>6, <1>9, <1>10, <1>11

\* An event begun has shown nothing and told nothing.
LEMMA Starts ==
    ASSUME IInv, NEW event \in Event, StartEvent(event)
    PROVE  IInv'
<1>1. /\ mode = "between" /\ current_event_id < event_count /\ trace' = Append(trace, event)
      /\ pending' = event /\ mode' = "in" /\ event_count' = event_count
      /\ current_event_id' = current_event_id /\ context' = context
      /\ registers_to_show' = registers_to_show /\ told' = told /\ lines' = lines
  BY DEF StartEvent
<1>2. /\ Len(trace) = current_event_id /\ told = <<>> /\ registers_to_show = <<>>
      /\ Holding(NumbersAfter(trace, current_event_id), context)
  BY <1>1 DEF IInv, BetweenEvents
<1>3. /\ trace' \in Seq(Event) /\ Len(trace') = current_event_id + 1
      /\ trace'[current_event_id + 1] = event
      /\ NumbersAfter(trace', current_event_id) = NumbersAfter(trace, current_event_id)
      /\ Printed' /\ LinesTellRegisters' /\ LinesTellMemory'
  BY <1>1, <1>2, EventAdded
<1>4. current_event_id \in Nat
  BY BufferAssumption DEF IInv, TypeOK
<1>5. TypeOK'
  <2>1. Len(trace') \in current_event_id..(current_event_id + 1)
    BY <1>3, <1>4
  <2> QED
    BY <1>1, <1>3, <2>1 DEF IInv, TypeOK
<1>6. PICK numbers : numbers = NumbersAfter(trace', current_event_id)
  OBVIOUS
<1>7. numbers \in Numbers
  <2>1. current_event_id \in 0..Len(trace')
    BY <1>3, <1>4
  <2> QED
    BY <1>3, <1>6, <2>1, NumbersAfterSteps
<1>8. NumbersIn(event, numbers, 0) = numbers
  BY <1>7, NumbersInSteps
<1>9. Stands(event, 0, 0, event) /\ Tells(event, 0, 0, <<>>)
  BY EventBegun
<1>10. Showing(event, 0, <<>>)
  <2>1. WrittenBy(event, 0) = {}
    BY WrittenGrows
  <2>2. Len(<<>>) = 0 /\ <<>> \in Seq(DOMAIN Register) /\ 1..0 = {}
    OBVIOUS
  <2> QED
    BY <2>1, <2>2 DEF Showing
<1>11. Inside(event, 0, 0)'
  BY <1>1, <1>2, <1>3, <1>6, <1>8, <1>9, <1>10 DEF Inside
<1>12. Len(event) \in Nat
  BY EffectsOfEvent
<1>13. 0 \in 0..Len(event) /\ 0 \in Nat
  BY <1>12
<1>14. InAnEvent'
  BY <1>1, <1>3, <1>11, <1>13 DEF InAnEvent
<1> QED
  BY <1>1, <1>3, <1>5, <1>14 DEF IInv

\* A step inside of an event that leads to another place of it.
LEMMA Continues ==
    ASSUME IInv, mode = "in", mode' = "in",
           UNCHANGED <<event_count, trace, current_event_id, lines>>, Contexts(context)',
           NEW event, event = trace[current_event_id + 1],
           NEW k \in 0..Len(event), NEW d \in Nat, Inside(event, k, d)'
    PROVE  IInv'
<1>1. Printed' /\ LinesTellRegisters' /\ LinesTellMemory'
  BY LinesStand
<1>2. registers_to_show' \in Seq(DOMAIN Register)
  BY DEF Inside, Showing
<1>3. TypeOK'
  <2>1. \A i \in DOMAIN registers_to_show' : registers_to_show'[i] \in DOMAIN Register
    BY <1>2, ElementOfSeq, LenProperties
  <2> QED
    BY <2>1 DEF IInv, TypeOK, Contexts
<1>4. InAnEvent'
  BY DEF IInv, InAnEvent
<1> QED
  BY <1>1, <1>3, <1>4 DEF IInv

\* The numbers of an event begun are numbers, and so are those of all events before.
LEMMA NumbersRead ==
    ASSUME IInv, mode = "in"
    PROVE  NumbersAfter(trace, current_event_id) \in Numbers
<1>1. trace \in Seq(Event) /\ Len(trace) = current_event_id + 1
  BY DEF IInv, TypeOK, InAnEvent
<1>2. current_event_id \in Nat
  BY BufferAssumption DEF IInv, TypeOK
<1>3. current_event_id \in 0..Len(trace)
  BY <1>1, <1>2
<1> QED
  BY <1>1, <1>3, NumbersAfterSteps

\* A write of a register keeps the invariant.
LEMMA Registers ==
    ASSUME IInv, RegisterWrite
    PROVE  IInv'
<1>1. /\ mode = "in" /\ pending # <<>> /\ Head(pending)[1] = "register"
      /\ pending' = Tail(pending)
      /\ UNCHANGED <<event_count, trace, current_event_id, told, lines, mode>>
  BY DEF RegisterWrite, Reads
<1>e. PICK event \in Event : \E k \in 0..Len(event) : \E d \in Nat :
          event = trace[current_event_id + 1] /\ Inside(event, k, d)
  BY <1>1, EventRead
<1>k. PICK k \in 0..Len(event) : \E d \in Nat :
          event = trace[current_event_id + 1] /\ Inside(event, k, d)
  BY <1>e
<1>2. PICK d \in Nat : event = trace[current_event_id + 1] /\ Inside(event, k, d)
  BY <1>k
<1>3. /\ Stands(event, k, d, pending) /\ Tells(event, k, d, told)
      /\ Holding(NumbersIn(event, NumbersAfter(trace, current_event_id), k), context)
      /\ Showing(event, k, registers_to_show)
  BY <1>2 DEF Inside
<1>4. PICK e : e = event[k + 1]
  OBVIOUS
<1>5. k + 1 \in 1..Len(event) /\ IsEffect(e) /\ e[1] = "register" /\ Head(pending) = e
  BY <1>1, <1>3, <1>4, NextPending
<1>6. /\ IsOperation(e[2]) \/ IsRegister(e[2])
      /\ context' = [context EXCEPT ![Destination(e[2])] = Content(e[2], e[3])]
      /\ registers_to_show' = Shown(e[2])
  BY <1>5 DEF RegisterWrite
<1>7. PICK base \in Numbers : base = NumbersAfter(trace, current_event_id)
  BY <1>1, NumbersRead
<1>8. PICK numbers \in Numbers : numbers = NumbersIn(event, base, k)
  BY <1>7, NumbersInSteps
<1>9. NumbersIn(event, base, k + 1) = NumbersWith(numbers, e)
  <2>1. (k + 1) - 1 = k
    OBVIOUS
  <2> QED
    BY <1>4, <1>5, <1>7, <1>8, <2>1, NumbersInSteps
<1>10. Contexts(context) /\ Holding(numbers, context)
  BY <1>3, <1>7, <1>8 DEF IInv, TypeOK, Contexts
<1>11. Contexts(context') /\ Holding(NumbersWith(numbers, e), context')
  BY <1>5, <1>6, <1>8, <1>10, WriteApplied
<1>12. Showing(event, k + 1, registers_to_show')
  <2>1. Destination(e[2]) \in DOMAIN Register
    BY <1>6, DestinationKnown
  <2>2. k \in Nat
    OBVIOUS
  <2>3. Showing(event, k + 1, Shown(e[2]))
    BY <1>3, <1>4, <1>5, <2>1, <2>2, WriteShown
  <2> QED
    BY <1>6, <2>3
<1>13. Stands(event, k + 1, 0, pending') /\ Tells(event, k + 1, 0, told')
  BY <1>1, <1>3, EffectDone, RegisterPassed
<1>14. Inside(event, k + 1, 0)'
  BY <1>1, <1>7, <1>9, <1>11, <1>12, <1>13 DEF Inside
<1>15. k + 1 \in 0..Len(event) /\ 0 \in Nat
  BY <1>5
<1> QED
  BY <1>1, <1>2, <1>11, <1>14, <1>15, Continues

\* A chunk of a write of memory keeps the invariant.
LEMMA Memory ==
    ASSUME IInv, MemoryWrite
    PROVE  IInv'
<1>1. /\ mode = "in" /\ pending # <<>> /\ Head(pending)[1] = "memory"
      /\ UNCHANGED <<event_count, trace, current_event_id, context, registers_to_show, lines, mode>>
  BY DEF MemoryWrite, Reads
<1>e. PICK event \in Event : \E k \in 0..Len(event) : \E d \in Nat :
          event = trace[current_event_id + 1] /\ Inside(event, k, d)
  BY <1>1, EventRead
<1>k. PICK k \in 0..Len(event) : \E d \in Nat :
          event = trace[current_event_id + 1] /\ Inside(event, k, d)
  BY <1>e
<1>2. PICK d \in Nat : event = trace[current_event_id + 1] /\ Inside(event, k, d)
  BY <1>k
<1>3. /\ Stands(event, k, d, pending) /\ Tells(event, k, d, told)
      /\ Holding(NumbersIn(event, NumbersAfter(trace, current_event_id), k), context)
      /\ Showing(event, k, registers_to_show)
  BY <1>2 DEF Inside
<1>4. PICK t : t = ChunkAt(Head(pending)[2], Chunk(Head(pending)[3]))
  OBVIOUS
<1>5. told' = told \o t /\ Round(pending, t, pending')
  BY <1>4 DEF MemoryWrite, Round, ChunkAt
<1>6. Advances(event, k, pending', told \o t)
  BY <1>1, <1>3, <1>5, RoundOfWrite
<1>7. PICK k2, d2 : /\ Stands(event, k2, d2, pending') /\ Tells(event, k2, d2, told \o t)
                    /\ k2 = k \/ (k2 = k + 1 /\ event[k + 1][1] = "memory")
  BY <1>6 DEF Advances
<1>8. k2 \in 0..Len(event) /\ d2 \in Nat
  BY <1>7 DEF Stands
<1>9. PICK base \in Numbers : base = NumbersAfter(trace, current_event_id)
  BY <1>1, NumbersRead
<1>10. /\ NumbersIn(event, base, k2) = NumbersIn(event, base, k)
       /\ WrittenBy(event, k2) = WrittenBy(event, k)
  <2>1. CASE k2 = k
    BY <2>1
  <2>2. CASE k2 = k + 1 /\ event[k + 1][1] = "memory"
    <3>1. k + 1 \in 1..Len(event) /\ (k + 1) - 1 = k
      BY <1>8, <2>2
    <3>2. NumbersIn(event, base, k + 1) = NumbersWith(NumbersIn(event, base, k), event[k + 1])
      BY <3>1, NumbersInSteps
    <3>3. NumbersIn(event, base, k + 1) = NumbersIn(event, base, k)
      BY <2>2, <3>2 DEF NumbersWith
    <3>4. event[k + 1][1] # "register" /\ k \in Nat
      BY <2>2
    <3>5. WrittenBy(event, k + 1) = WrittenBy(event, k)
      BY <3>4, WrittenGrows
    <3> QED
      BY <2>2, <3>3, <3>5
  <2> QED
    BY <1>7, <2>1, <2>2
<1>11. Showing(event, k2, registers_to_show)
  BY <1>3, <1>10 DEF Showing
<1>12. Inside(event, k2, d2)'
  BY <1>1, <1>3, <1>5, <1>7, <1>9, <1>10, <1>11 DEF Inside
<1>13. Contexts(context)'
  BY <1>1 DEF IInv, TypeOK, Contexts
<1> QED
  BY <1>1, <1>2, <1>8, <1>12, <1>13, Continues

\* Nothing more is read after the last event, and nothing after an error.
LEMMA Stops ==
    ASSUME IInv, End \/ RegisterUnknown \/ Throw
    PROVE  IInv'
<1>1. UNCHANGED <<event_count, trace, current_event_id, pending, context,
                  registers_to_show, told, lines>>
  BY DEF End, RegisterUnknown, Throw
<1>2. Printed' /\ LinesTellRegisters' /\ LinesTellMemory'
  BY <1>1, LinesStand
<1>3. mode' = "error" \/ (mode = "between" /\ mode' = "ended")
  BY DEF End, RegisterUnknown, Throw
<1>4. TypeOK'
  BY <1>1, <1>3 DEF IInv, TypeOK
<1>5. (mode \in {"between", "ended"} => BetweenEvents)'
  BY <1>1, <1>3 DEF IInv, BetweenEvents
<1>6. mode' # "in"
  BY <1>3
<1> QED
  BY <1>2, <1>4, <1>5, <1>6 DEF IInv

\* A sequence without repetition is as long as it has elements.
LEMMA ElementsCounted ==
    ASSUME NEW S, NEW s \in Seq(S), \A i \in 1..Len(s) : \A j \in 1..Len(s) : s[i] = s[j] => i = j
    PROVE  Len(s) = Cardinality({s[i] : i \in 1..Len(s)})
<1>1. PICK n \in Nat : n = Len(s)
  BY LenProperties
<1>2. PICK R : R = {s[i] : i \in 1..n}
  OBVIOUS
<1>3. s \in [1..n -> R]
  BY <1>1, <1>2, LenProperties
<1>4. s \in Injection(1..n, R)
  <2>1. IsInjective(s)
    BY <1>1, <1>3 DEF IsInjective
  <2> QED
    BY <1>3, <2>1 DEF Injection
<1>5. s \in Surjection(1..n, R)
  BY <1>2, <1>3 DEF Surjection
<1>6. ExistsBijection(1..n, R)
  BY <1>4, <1>5 DEF ExistsBijection, Bijection
<1>7. Cardinality(R) = n
  BY <1>6, FS_CountingElements
<1> QED
  BY <1>1, <1>2, <1>7

\* The line of an event that has been read tells its registers.
LEMMA LineEnded ==
    ASSUME NEW event \in Event, NEW n, Showing(event, Len(event), registers_to_show),
           NEW numbers, Holding(numbers, context), NEW line,
           line.event = n - 1, line.registers = ShownRegisters
    PROVE  TellsRegisters(line, n, event, numbers)
<1>1. PICK s \in Seq(DOMAIN Register) : s = registers_to_show
  BY DEF Showing
<1>2. /\ \A i \in 1..Len(s) : \A j \in 1..Len(s) : s[i] = s[j] => i = j
      /\ {s[i] : i \in 1..Len(s)} = WrittenBy(event, Len(event))
  BY <1>1 DEF Showing
<1>3. DOMAIN event = 1..Len(event)
  BY EffectsOfEvent
<1>4. WrittenBy(event, Len(event)) = Written(event)
  BY <1>3 DEF WrittenBy, Written
<1>5. PICK m \in Nat : m = Len(s) /\ DOMAIN s = 1..m
  BY LenProperties
<1>6. PICK r : r = ShownRegisters /\ r = line.registers
  OBVIOUS
<1>7. r = [i \in 1..m |-> <<s[i], context[s[i]]>>]
  BY <1>1, <1>5, <1>6 DEF ShownRegisters
<1>8. DOMAIN r = 1..m /\ \A i \in 1..m : r[i][1] = s[i] /\ r[i][2] = context[s[i]]
  BY <1>7
<1>9. Len(r) = m
  <2>1. PICK T : T = {<<s[i], context[s[i]]>> : i \in 1..m}
    OBVIOUS
  <2>2. r \in [1..m -> T]
    BY <1>7, <2>1
  <2>3. r \in Seq(T)
    BY <2>2
  <2>4. DOMAIN r = 1..Len(r) /\ Len(r) \in Nat
    BY <2>3, LenProperties
  <2> QED
    BY <1>8, <2>4
<1>10. PICK shown : shown = {r[i][1] : i \in DOMAIN r}
  OBVIOUS
<1>11. shown = {s[i] : i \in 1..m}
  BY <1>8, <1>10
<1>12. shown = Written(event) /\ Len(r) = Cardinality(shown)
  <2>1. Len(s) = Cardinality({s[i] : i \in 1..Len(s)})
    BY <1>2, ElementsCounted
  <2> QED
    BY <1>2, <1>4, <1>5, <1>9, <1>11, <2>1
<1>13. \A i \in DOMAIN r : ValueOf(r[i][2]) = numbers[r[i][1]]
  <2>1. ASSUME NEW i \in 1..m PROVE ValueOf(r[i][2]) = numbers[r[i][1]]
    <3>1. s[i] \in DOMAIN Register
      BY <1>5, ElementOfSeq
    <3> QED
      BY <1>8, <3>1 DEF Holding
  <2> QED
    BY <1>8, <2>1
<1>14. {line.registers[i][1] : i \in DOMAIN line.registers} = shown
  BY <1>6, <1>10
<1>15. Len(line.registers) = Cardinality(shown)
  BY <1>6, <1>12
<1>16. \A i \in DOMAIN line.registers :
          ValueOf(line.registers[i][2]) = numbers[line.registers[i][1]]
  BY <1>6, <1>13
<1> QED
  BY <1>12, <1>14, <1>15, <1>16 DEF TellsRegisters

\* An event is ended with a line that tells its memory and its registers.
LEMMA Finishes ==
    ASSUME IInv, FinishEvent
    PROVE  IInv'
<1>1. /\ mode = "in" /\ pending = <<>> /\ current_event_id' = current_event_id + 1
      /\ registers_to_show' = <<>> /\ told' = <<>> /\ mode' = "between"
      /\ UNCHANGED <<event_count, trace, context>>
  BY DEF FinishEvent
<1>e. PICK event \in Event : \E k \in 0..Len(event) : \E d \in Nat :
          event = trace[current_event_id + 1] /\ Inside(event, k, d)
  BY <1>1, EventRead
<1>k. PICK k \in 0..Len(event) : \E d \in Nat :
          event = trace[current_event_id + 1] /\ Inside(event, k, d)
  BY <1>e
<1>2. PICK d \in Nat : event = trace[current_event_id + 1] /\ Inside(event, k, d)
  BY <1>k
<1>3. /\ Stands(event, k, d, <<>>) /\ Tells(event, k, d, told)
      /\ Holding(NumbersIn(event, NumbersAfter(trace, current_event_id), k), context)
      /\ Showing(event, k, registers_to_show)
  BY <1>1, <1>2 DEF Inside
<1>4. k = Len(event) /\ told = MemoryWritten(event, Len(event))
  BY <1>3, EventEnded
<1>5. PICK n \in Nat \ {0} : n = current_event_id + 1 /\ current_event_id = n - 1
  <2>1. current_event_id \in Nat
    BY BufferAssumption DEF IInv, TypeOK
  <2> QED
    BY <2>1
<1>6. trace \in Seq(Event) /\ Len(trace) = n /\ event = trace[n] /\ n \in 1..Len(trace)
  BY <1>1, <1>2, <1>5 DEF IInv, TypeOK, InAnEvent
<1>7. PICK numbers : numbers = NumbersAfter(trace, n)
  OBVIOUS
<1>8. Holding(numbers, context)
  <2>1. NumbersAfter(trace, n) = NumbersIn(event, NumbersAfter(trace, n - 1), Len(event))
    BY <1>6, NumbersAfterSteps
  <2> QED
    BY <1>3, <1>4, <1>5, <1>7, <2>1
<1>9. PICK line : line = [event |-> current_event_id, memory |-> told,
                          registers |-> ShownRegisters]
  OBVIOUS
<1>10. TellsRegisters(line, n, event, numbers) /\ line.memory = MemoryWritten(event, Len(event))
  <2>1. line.event = n - 1 /\ line.registers = ShownRegisters /\ line.memory = told
    BY <1>5, <1>9
  <2>2. Showing(event, Len(event), registers_to_show)
    BY <1>3, <1>4
  <2>3. TellsRegisters(line, n, event, numbers)
    BY <1>8, <2>1, <2>2, LineEnded
  <2> QED
    BY <1>4, <2>1, <2>3
<1>11. lines' = Append(lines, line)
  BY <1>9 DEF FinishEvent
<1>12. PICK S : lines \in Seq(S) /\ Len(lines) = n - 1
  BY <1>5 DEF IInv, Printed
<1>13. PICK l : l = lines'
  OBVIOUS
<1>14. /\ l \in Seq(S \union {line}) /\ Len(l) = n /\ l[n] = line
       /\ \A i \in 1..(n - 1) : l[i] = lines[i]
  <2>1. lines \in Seq(S \union {line})
    BY <1>12, SeqMonotonic
  <2> QED
    BY <1>11, <1>12, <1>13, <2>1
<1>15. DOMAIN l = 1..n /\ DOMAIN lines = 1..(n - 1)
  BY <1>12, <1>14, LenProperties
<1>16. \A i : i \in 1..n <=> i \in 1..(n - 1) \/ i = n
  BY <1>5
<1>17. Printed'
  <2>1. PICK T : T = {l[i] : i \in DOMAIN l}
    OBVIOUS
  <2>2. l \in [1..n -> T]
    BY <1>14, <1>15, <2>1, LenProperties
  <2>3. l \in Seq(T)
    BY <2>2
  <2> QED
    BY <1>1, <1>5, <1>13, <1>14, <2>1, <2>3 DEF Printed
<1>18. LinesTellRegisters'
  <2>1. \A i \in 1..(n - 1) : TellsRegisters(lines[i], i, trace[i], NumbersAfter(trace, i))
    BY <1>15, LineByLine DEF IInv
  <2>2. TellsRegisters(l[n], n, trace[n], NumbersAfter(trace, n))
    BY <1>6, <1>7, <1>10, <1>14
  <2>3. \A i \in 1..n : TellsRegisters(l[i], i, trace[i], NumbersAfter(trace, i))
    BY <1>14, <1>16, <2>1, <2>2
  <2> QED
    BY <1>1, <1>13, <1>15, <2>3, LineByLine
<1>19. LinesTellMemory'
  <2>1. \A i \in 1..(n - 1) : lines[i].memory = MemoryWritten(trace[i], Len(trace[i]))
    BY <1>15 DEF IInv, LinesTellMemory
  <2>2. l[n].memory = MemoryWritten(trace[n], Len(trace[n]))
    BY <1>6, <1>10, <1>14
  <2>3. \A i \in 1..n : l[i].memory = MemoryWritten(trace[i], Len(trace[i]))
    BY <1>14, <1>16, <2>1, <2>2
  <2> QED
    BY <1>1, <1>13, <1>15, <2>3 DEF LinesTellMemory
<1>20. TypeOK'
  <2>1. current_event_id \in 0..event_count /\ current_event_id < event_count
    BY <1>1 DEF IInv, TypeOK, InAnEvent
  <2>2. event_count \in 0..MaxEvents /\ MaxEvents \in Nat
    BY BufferAssumption DEF IInv, TypeOK
  <2>3. n \in 0..event_count /\ Len(trace) \in n..(n + 1)
    BY <1>5, <1>6, <2>1, <2>2
  <2>4. DOMAIN registers_to_show' = {}
    BY <1>1
  <2> QED
    BY <1>1, <1>5, <2>3, <2>4 DEF IInv, TypeOK
<1>21. BetweenEvents'
  BY <1>1, <1>5, <1>6, <1>7, <1>8 DEF BetweenEvents
<1> QED
  BY <1>1, <1>17, <1>18, <1>19, <1>20, <1>21 DEF IInv

(***************************************************************************)
(* The theorems                                                            *)
(***************************************************************************)

\* What is told between two callbacks is right, whichever comes next.
LEMMA Inductive ==
    IInv /\ [Next]_vars => IInv'
<1> SUFFICES ASSUME IInv, [Next]_vars PROVE IInv'
  OBVIOUS
<1>1. CASE \E event \in Event : StartEvent(event)
  BY <1>1, Starts
<1>2. CASE RegisterWrite
  BY <1>2, Registers
<1>3. CASE MemoryWrite
  BY <1>3, Memory
<1>4. CASE FinishEvent
  BY <1>4, Finishes
<1>5. CASE RegisterUnknown \/ End \/ Throw
  BY <1>5, Stops
<1>6. CASE UNCHANGED vars
  BY <1>6, Stutters
<1> QED
  BY <1>1, <1>2, <1>3, <1>4, <1>5, <1>6 DEF Next, Read

\* The registers are numbers at every step: while an event is read those of the
\* effects consumed so far, between events those of the events read.
LEMMA HeldAsNumbers == IInv => RegistersAsNumbers
<1> SUFFICES ASSUME IInv PROVE RegistersAsNumbers
  OBVIOUS
<1>1. CASE mode = "in"
  <2>e. PICK event \in Event : \E k \in 0..Len(event) : \E d \in Nat :
            event = trace[current_event_id + 1] /\ Inside(event, k, d)
    BY <1>1, EventRead
  <2>k. PICK k \in 0..Len(event) : \E d \in Nat :
            event = trace[current_event_id + 1] /\ Inside(event, k, d)
    BY <2>e
  <2>1. event = trace[current_event_id + 1] /\ \E d \in Nat : Inside(event, k, d)
    BY <2>k
  <2>2. Holding(NumbersIn(event, NumbersAfter(trace, current_event_id), k), context)
    BY <2>1 DEF Inside
  <2>3. Len(pending) = Len(event) - k
    BY <2>1 DEF Inside, Stands
  <2>4. Len(event) \in Nat
    BY EffectsOfEvent
  <2>5. Len(event) - Len(pending) = k
    BY <2>3, <2>4
  <2> QED
    BY <1>1, <2>1, <2>2, <2>5 DEF RegistersAsNumbers, Holding
<1>2. CASE mode \in {"between", "ended"}
  <2>1. Holding(NumbersAfter(trace, current_event_id), context)
    BY <1>2 DEF IInv, BetweenEvents
  <2> QED
    BY <1>2, <2>1 DEF RegistersAsNumbers, Holding
<1>3. CASE mode = "error"
  BY <1>3 DEF RegistersAsNumbers
<1>4. mode \in {"between", "in", "ended", "error"}
  BY DEF IInv, TypeOK
<1> QED
  BY <1>1, <1>2, <1>3, <1>4

\* The inductive invariant: the reader's place in the effects of the event it
\* reads, what it has told and shown of them, the numbers that the registers
\* hold, and that the lines are right.
THEOREM Invariance == Spec => []IInv
<1>1. Init => IInv
  BY Begins
<1>2. IInv /\ [Next]_vars => IInv'
  BY Inductive
<1> QED
  BY <1>1, <1>2, PTL DEF Spec

\* The registers keep their widths and only known ones are to be shown: a
\* process_register_write writes no more bytes than the register has.
THEOREM TypeCorrect == Spec => []TypeOK
<1>1. IInv => TypeOK
  BY DEF IInv
<1> QED
  BY <1>1, Invariance, PTL

\* Writes and operations of registers, of native widths as one number and of
\* others byte by byte with carries, do what they do to unsigned integers.
THEOREM NumbersHeld == Spec => []RegistersAsNumbers
BY HeldAsNumbers, Invariance, PTL

\* Every line shows the registers its event wrote, each once, with their
\* contents after the event.
THEOREM RegistersTold == Spec => []LinesTellRegisters
<1>1. IInv => LinesTellRegisters
  BY DEF IInv
<1> QED
  BY <1>1, Invariance, PTL

\* Every line tells each byte that its event wrote at its address, in order,
\* whatever the size of the buffer that the writes are handed over in.
THEOREM MemoryTold == Spec => []LinesTellMemory
<1>1. IInv => LinesTellMemory
  BY DEF IInv
<1> QED
  BY <1>1, Invariance, PTL

=============================================================================
