---------------------- MODULE MachineDescription_proofs ----------------------
(***************************************************************************)
(* Proofs about the machine description, for every description and every   *)
(* section: what the writer accepts comes back as it was given, and what    *)
(* either end returns can be worked with.                                   *)
(*                                                                          *)
(* The first part is about Elements: every key of every map has its element *)
(* once, registers before operations.  The second is the invariant: what    *)
(* has been read so far is the part of the description written so far.      *)
(***************************************************************************)
EXTENDS MachineDescription, FiniteSetTheorems, SequenceTheorems, WellFoundedInduction, TLAPS

(***************************************************************************)
(* Enumerations of finite sets                                             *)
(***************************************************************************)

\* A non-empty set of numbers has a smallest one.
LEMMA SmallestExists ==
    ASSUME NEW T \in SUBSET Nat, T # {}
    PROVE  \E k \in T : \A y \in T : k <= y
<1>1. PICK rel : rel = OpToRel(<, Nat)
  OBVIOUS
<1>2. IsWellFoundedOn(rel, Nat)
  BY <1>1, NatLessThanWellFounded
<1>3. PICK k \in T : \A y \in T : ~(<<y, k>> \in rel)
  BY <1>2, WFMin
<1>4. \A y \in T : ~(y < k)
  BY <1>1, <1>3 DEF OpToRel
<1> QED
  BY <1>4

\* A set of numbers that has 0 and with every number the next one has all.
LEMMA Induction ==
    ASSUME NEW T, 0 \in T, \A n \in Nat : n \in T => n + 1 \in T
    PROVE  Nat \subseteq T
<1>1. SUFFICES ASSUME Nat \ T # {} PROVE FALSE
  OBVIOUS
<1>2. PICK k \in Nat \ T : \A y \in Nat \ T : k <= y
  BY <1>1, SmallestExists
<1>3. k # 0 /\ k - 1 \in Nat
  BY <1>2
<1>4. k - 1 \in T
  BY <1>2, <1>3
<1> QED
  BY <1>2, <1>3, <1>4

IsAscending(s, n) == \A i, j \in 1..n : i < j => s[i] < s[j]

\* Every finite set of numbers has an ascending enumeration.
LEMMA AscendingExists ==
    \A n \in Nat : \A S \in SUBSET Nat :
        IsFiniteSet(S) /\ Cardinality(S) = n => \E s \in [1..n -> S] : IsAscending(s, n)
<1> DEFINE T == {n \in Nat : \A S \in SUBSET Nat :
                     IsFiniteSet(S) /\ Cardinality(S) = n =>
                         \E s \in [1..n -> S] : IsAscending(s, n)}
<1>1. 0 \in T
  <2>1. \A S \in SUBSET Nat : \E s \in [1..0 -> S] : IsAscending(s, 0)
    <3> TAKE S \in SUBSET Nat
    <3>1. 1..0 = {}
      OBVIOUS
    <3>2. [i \in 1..0 |-> i] \in [1..0 -> S]
      BY <3>1
    <3> QED
      BY <3>1, <3>2 DEF IsAscending
  <2> QED
    BY <2>1
<1>2. ASSUME NEW n \in Nat, n \in T PROVE n + 1 \in T
  <2> SUFFICES ASSUME NEW S \in SUBSET Nat, IsFiniteSet(S), Cardinality(S) = n + 1
               PROVE  \E s \in [1..(n + 1) -> S] : IsAscending(s, n + 1)
    OBVIOUS
  <2>1. S # {}
    BY FS_EmptySet
  <2>2. PICK k \in S : \A y \in S : k <= y
    BY <2>1, SmallestExists
  <2>3. IsFiniteSet(S \ {k}) /\ Cardinality(S \ {k}) = n
    BY <2>2, FS_RemoveElement
  <2>4. PICK t \in [1..n -> S \ {k}] : IsAscending(t, n)
    BY <1>2, <2>3
  <2>5. PICK s : s = [i \in 1..(n + 1) |-> IF i = 1 THEN k ELSE t[i - 1]]
    OBVIOUS
  <2>6. \A i \in 1..n : t[i] \in S /\ t[i] \in Nat /\ t[i] # k /\ k <= t[i]
    BY <2>2
  <2>7. \A i \in 1..(n + 1) : i # 1 => i - 1 \in 1..n /\ s[i] = t[i - 1]
    BY <2>5
  <2>8. 1 \in 1..(n + 1) /\ s[1] = k
    BY <2>5
  <2>9. s \in [1..(n + 1) -> S]
    BY <2>5, <2>6, <2>7, <2>8
  <2>10. ASSUME NEW i \in 1..(n + 1), NEW j \in 1..(n + 1), i < j PROVE s[i] < s[j]
    <3>1. j # 1 /\ j - 1 \in 1..n /\ s[j] = t[j - 1]
      BY <2>7, <2>10
    <3>2. CASE i = 1
      <4>1. k # t[j - 1] /\ k <= t[j - 1] /\ t[j - 1] \in Nat /\ k \in Nat
        BY <2>6, <3>1
      <4> QED
        BY <3>1, <3>2, <2>8, <4>1
    <3>3. CASE i # 1
      <4>1. i - 1 \in 1..n /\ s[i] = t[i - 1] /\ i - 1 < j - 1
        BY <2>7, <2>10, <3>3
      <4> QED
        BY <2>4, <3>1, <4>1 DEF IsAscending
    <3> QED
      BY <3>2, <3>3
  <2> QED
    BY <2>9, <2>10 DEF IsAscending
<1> HIDE DEF T
<1>3. Nat \subseteq T
  BY <1>1, <1>2, Induction
<1> QED
  BY <1>3 DEF T

\* A sequence that names each element of a set once.
Enumerates(s, S) ==
    /\ s \in Seq(S)
    /\ \A i, j \in 1..Len(s) : s[i] = s[j] => i = j
    /\ \A x \in S : \E i \in 1..Len(s) : s[i] = x

\* A function on 1..n without repetitions into a set of n elements is one.
LEMMA InjectionEnumerates ==
    ASSUME NEW S, IsFiniteSet(S), NEW s \in [1..Cardinality(S) -> S],
           \A i, j \in 1..Cardinality(S) : s[i] = s[j] => i = j
    PROVE  Enumerates(s, S)
<1> DEFINE n == Cardinality(S)
           R == {s[i] : i \in 1..n}
<1>1. n \in Nat
  BY FS_CardinalityType
<1>2. s \in Seq(S) /\ Len(s) = n
  BY <1>1
<1>3. R \subseteq S
  OBVIOUS
<1>4. s \in Bijection(1..n, R)
  <2>1. s \in [1..n -> R]
    BY <1>1
  <2>2. IsInjective(s)
    BY DEF IsInjective
  <2>3. s \in Injection(1..n, R)
    BY <2>1, <2>2 DEF Injection
  <2>4. s \in Surjection(1..n, R)
    BY <2>1 DEF Surjection
  <2> QED
    BY <2>3, <2>4 DEF Bijection
<1>5. ExistsBijection(1..n, R)
  BY <1>4 DEF ExistsBijection
<1>6. IsFiniteSet(R) /\ Cardinality(R) = n
  BY <1>1, <1>5, FS_CountingElements, FS_NatBijection
<1>7. R = S
  BY <1>3, <1>6, FS_Subset
<1> QED
  BY <1>2, <1>7 DEF Enumerates

\* The iteration of a std::map by number meets each key once.
LEMMA AscendingEnumerates ==
    ASSUME NEW S \in SUBSET Nat, IsFiniteSet(S)
    PROVE  Enumerates(Ascending(S), S)
<1> DEFINE n == Cardinality(S)
           P(s) == \A i, j \in 1..n : i < j => s[i] < s[j]
<1>1. n \in Nat
  BY FS_CardinalityType
<1>2. \E s \in [1..n -> S] : P(s)
  BY <1>1, AscendingExists DEF IsAscending
<1>3. Ascending(S) = CHOOSE s \in [1..n -> S] : P(s)
  BY DEF Ascending
<1>4. PICK s \in [1..n -> S] : s = Ascending(S) /\ P(s)
  BY <1>2, <1>3
<1>5. \A i, j \in 1..n : s[i] = s[j] => i = j
  <2> TAKE i, j \in 1..n
  <2>1. s[i] \in Nat /\ s[j] \in Nat
    BY <1>4
  <2>2. i < j \/ j < i \/ i = j
    BY <1>1
  <2> QED
    BY <1>4, <2>1, <2>2
<1>6. Enumerates(s, S)
  BY <1>4, <1>5, InjectionEnumerates
<1> QED
  BY <1>4, <1>6

\* So does that of a std::map by name, whatever the order of names is.
LEMMA NamesEnumerated ==
    ASSUME NEW S, IsFiniteSet(S)
    PROVE  Enumerates(SetToSeq(S), S)
<1> DEFINE n == Cardinality(S)
<1>1. n \in Nat /\ ExistsBijection(1..n, S)
  BY FS_CardinalityType
<1>2. PICK f \in Bijection(1..n, S) : TRUE
  BY <1>1 DEF ExistsBijection
<1>3. f \in [1..n -> S] /\ IsInjective(f)
  BY <1>2 DEF Bijection, Injection
<1>4. SetToSeq(S) = CHOOSE s \in [1..n -> S] : IsInjective(s)
  BY DEF SetToSeq
<1>5. PICK s \in [1..n -> S] : s = SetToSeq(S) /\ IsInjective(s)
  BY <1>3, <1>4
<1>6. \A i, j \in 1..n : s[i] = s[j] => i = j
  BY <1>5 DEF IsInjective
<1>7. Enumerates(s, S)
  BY <1>5, <1>6, InjectionEnumerates
<1> QED
  BY <1>5, <1>7

-----------------------------------------------------------------------------
(***************************************************************************)
(* The elements of a description                                           *)
(***************************************************************************)

\* Where the elements of a concatenation are.
LEMMA Concatenation ==
    ASSUME NEW X, NEW s \in Seq(X), NEW t \in Seq(X), NEW u, u = s \o t
    PROVE  /\ u \in Seq(X)
           /\ Len(u) = Len(s) + Len(t)
           /\ \A i \in 1..Len(s) : u[i] = s[i]
           /\ \A i \in 1..Len(t) : u[Len(s) + i] = t[i]
  OBVIOUS

Parts(X, s1, s2, s3, s4, s5, E) ==
    /\ s1 \in Seq(X) /\ s2 \in Seq(X) /\ s3 \in Seq(X) /\ s4 \in Seq(X) /\ s5 \in Seq(X)
    /\ E = s1 \o s2 \o s3 \o s4 \o s5
Places(X, s1, s2, s3, s4, s5, E) ==
    /\ E \in Seq(X)
    /\ Len(E) = Len(s1) + Len(s2) + Len(s3) + Len(s4) + Len(s5)
    /\ \A i \in 1..Len(s1) : E[i] = s1[i]
    /\ \A i \in 1..Len(s2) : E[Len(s1) + i] = s2[i]
    /\ \A i \in 1..Len(s3) : E[Len(s1) + Len(s2) + i] = s3[i]
    /\ \A i \in 1..Len(s4) : E[Len(s1) + Len(s2) + Len(s3) + i] = s4[i]
    /\ \A i \in 1..Len(s5) : E[Len(s1) + Len(s2) + Len(s3) + Len(s4) + i] = s5[i]

\* The same for the five parts of a section.
LEMMA ConcatenationOfFive ==
    ASSUME NEW X, NEW s1, NEW s2, NEW s3, NEW s4, NEW s5, NEW E,
           Parts(X, s1, s2, s3, s4, s5, E)
    PROVE  Places(X, s1, s2, s3, s4, s5, E)
<1> USE DEF Parts
<1>1. PICK t2 : t2 = s1 \o s2
  OBVIOUS
<1>2. PICK t3 : t3 = t2 \o s3
  OBVIOUS
<1>3. PICK t4 : t4 = t3 \o s4
  OBVIOUS
<1>4. E = t4 \o s5
  BY <1>1, <1>2, <1>3
<1>5. /\ t2 \in Seq(X)
      /\ Len(t2) = Len(s1) + Len(s2)
      /\ \A i \in 1..Len(s1) : t2[i] = s1[i]
      /\ \A i \in 1..Len(s2) : t2[Len(s1) + i] = s2[i]
  <2>1. s1 \in Seq(X) /\ s2 \in Seq(X) /\ t2 = s1 \o s2
    BY <1>1
  <2> QED
    BY <2>1, Concatenation
<1>6. /\ t3 \in Seq(X)
      /\ Len(t3) = Len(t2) + Len(s3)
      /\ \A i \in 1..Len(t2) : t3[i] = t2[i]
      /\ \A i \in 1..Len(s3) : t3[Len(t2) + i] = s3[i]
  <2>1. t2 \in Seq(X) /\ s3 \in Seq(X) /\ t3 = t2 \o s3
    BY <1>2, <1>5
  <2> QED
    BY <2>1, Concatenation
<1>7. /\ t4 \in Seq(X)
      /\ Len(t4) = Len(t3) + Len(s4)
      /\ \A i \in 1..Len(t3) : t4[i] = t3[i]
      /\ \A i \in 1..Len(s4) : t4[Len(t3) + i] = s4[i]
  <2>1. t3 \in Seq(X) /\ s4 \in Seq(X) /\ t4 = t3 \o s4
    BY <1>3, <1>6
  <2> QED
    BY <2>1, Concatenation
<1>8. /\ E \in Seq(X)
      /\ Len(E) = Len(t4) + Len(s5)
      /\ \A i \in 1..Len(t4) : E[i] = t4[i]
      /\ \A i \in 1..Len(s5) : E[Len(t4) + i] = s5[i]
  <2>1. t4 \in Seq(X) /\ s5 \in Seq(X) /\ E = t4 \o s5
    BY <1>4, <1>7
  <2> QED
    BY <2>1, Concatenation
<1>9. /\ Len(s1) \in Nat /\ Len(s2) \in Nat /\ Len(s3) \in Nat
      /\ Len(s4) \in Nat /\ Len(s5) \in Nat
  OBVIOUS
<1>10. \A i \in 1..Len(s1) : E[i] = s1[i]
  BY <1>5, <1>6, <1>7, <1>8, <1>9
<1>11. \A i \in 1..Len(s2) : E[Len(s1) + i] = s2[i]
  BY <1>5, <1>6, <1>7, <1>8, <1>9
<1>12. \A i \in 1..Len(s3) : E[Len(s1) + Len(s2) + i] = s3[i]
  BY <1>5, <1>6, <1>7, <1>8, <1>9
<1>13. \A i \in 1..Len(s4) : E[Len(s1) + Len(s2) + Len(s3) + i] = s4[i]
  BY <1>5, <1>6, <1>7, <1>8, <1>9
<1>14. \A i \in 1..Len(s5) : E[Len(s1) + Len(s2) + Len(s3) + Len(s4) + i] = s5[i]
  BY <1>5, <1>6, <1>7, <1>8, <1>9
<1>15. Len(E) = Len(s1) + Len(s2) + Len(s3) + Len(s4) + Len(s5)
  BY <1>5, <1>6, <1>7, <1>8, <1>9
<1> QED
  BY <1>8, <1>10, <1>11, <1>12, <1>13, <1>14, <1>15, Zenon DEF Places

\* The elements of one kind are the keys and values of a map, each once.
Lists(s, kind, map) ==
    /\ \A i \in 1..Len(s) :
          s[i][1] = kind => s[i][2] \in DOMAIN map /\ s[i][3] = map[s[i][2]]
    /\ \A i, j \in 1..Len(s) :
          s[i][1] = kind /\ s[j][1] = kind /\ s[i][2] = s[j][2] => i = j
    /\ \A k \in DOMAIN map : \E i \in 1..Len(s) : s[i][1] = kind /\ s[i][2] = k

\* The type of an enumeration.
LEMMA EnumerationType ==
    ASSUME NEW S, NEW s, Enumerates(s, S)
    PROVE  Len(s) \in Nat /\ DOMAIN s = 1..Len(s) /\ \A i \in 1..Len(s) : s[i] \in S
  BY DEF Enumerates

\* A group somewhere in a sequence lists its map if its kind is nowhere else.
LEMMA GroupLists ==
    ASSUME NEW s, NEW a \in Nat, NEW kind, NEW keys, NEW map,
           Enumerates(keys, DOMAIN map), Len(s) \in Nat, a + Len(keys) <= Len(s),
           \A i \in 1..Len(keys) : s[a + i] = <<kind, keys[i], map[keys[i]]>>,
           \A i \in 1..Len(s) : i <= a \/ i > a + Len(keys) => s[i][1] # kind
    PROVE  Lists(s, kind, map)
<1>1. Len(keys) \in Nat /\ \A i \in 1..Len(keys) : keys[i] \in DOMAIN map
  BY EnumerationType
<1>2. ASSUME NEW i \in 1..Len(s), s[i][1] = kind
      PROVE  /\ i - a \in 1..Len(keys)
             /\ s[i] = <<kind, keys[i - a], map[keys[i - a]]>>
  <2>1. i > a /\ i <= a + Len(keys)
    BY <1>1, <1>2
  <2>2. i - a \in 1..Len(keys) /\ a + (i - a) = i
    BY <1>1, <2>1
  <2> QED
    BY <2>2
<1>3. \A i \in 1..Len(s) :
         s[i][1] = kind => s[i][2] \in DOMAIN map /\ s[i][3] = map[s[i][2]]
  BY <1>1, <1>2
<1>4. ASSUME NEW i \in 1..Len(s), NEW j \in 1..Len(s),
             s[i][1] = kind, s[j][1] = kind, s[i][2] = s[j][2]
      PROVE  i = j
  <2>1. i - a \in 1..Len(keys) /\ s[i][2] = keys[i - a]
    BY <1>2, <1>4
  <2>2. j - a \in 1..Len(keys) /\ s[j][2] = keys[j - a]
    BY <1>2, <1>4
  <2>3. i - a = j - a
    BY <1>4, <2>1, <2>2 DEF Enumerates
  <2> QED
    BY <2>3
<1>5. ASSUME NEW k \in DOMAIN map
      PROVE  \E i \in 1..Len(s) : s[i][1] = kind /\ s[i][2] = k
  <2>1. PICK i \in 1..Len(keys) : keys[i] = k
    BY DEF Enumerates
  <2>2. a + i \in 1..Len(s) /\ s[a + i] = <<kind, keys[i], map[keys[i]]>>
    BY <1>1
  <2> QED
    BY <2>1, <2>2
<1> QED
  BY <1>3, <1>4, <1>5 DEF Lists

GroupKinds == {"region", "register", "operation", "static"}

\* What the proofs use of the elements of a description.
ElementsOf(E, d) ==
    /\ E \in Seq({E[i] : i \in 1..Len(E)}) /\ Len(E) \in Nat /\ 2 + Len(d.memory_regions) <= Len(E)
    /\ E[1] = <<"architecture", 0, d.architecture>>
    /\ E[2] = <<"size", 0, d.physical_address_size>>
    /\ \A i \in 1..Len(E) : i > 2 => E[i][1] \in GroupKinds
    /\ \A i \in 1..Len(d.memory_regions) : E[2 + i] = <<"region", i, d.memory_regions[i]>>
    /\ \A i \in 1..Len(E) : E[i][1] = "region" => i - 2 \in 1..Len(d.memory_regions)
    /\ Lists(E, "register", d.registers)
    /\ Lists(E, "operation", d.register_operations)
    /\ Lists(E, "static", d.static_registers)
    /\ \A i, j \in 1..Len(E) : E[i][1] = "operation" /\ E[j][1] = "register" => j < i

\* The elements the writer writes are those of the description.
LEMMA ElementsLaidOut ==
    ASSUME NEW d \in Description
    PROVE  ElementsOf(Elements(d), d)
<1> DEFINE Keys == Nat \union DOMAIN d.static_registers
           Values == {d.architecture, d.physical_address_size}
                     \union {d.memory_regions[i] : i \in DOMAIN d.memory_regions}
                     \union {d.registers[i] : i \in DOMAIN d.registers}
                     \union {d.register_operations[i] : i \in DOMAIN d.register_operations}
                     \union {d.static_registers[i] : i \in DOMAIN d.static_registers}
           X == (GroupKinds \union {"architecture", "size"}) \X Keys \X Values
           H == <<<<"architecture", 0, d.architecture>>, <<"size", 0, d.physical_address_size>>>>
           regions == [i \in DOMAIN d.memory_regions |-> i]
           R == Group("region", regions, d.memory_regions)
           G == Group("register", Ascending(DOMAIN d.registers), d.registers)
           O == Group("operation", Ascending(DOMAIN d.register_operations), d.register_operations)
           S == Group("static", SetToSeq(DOMAIN d.static_registers), d.static_registers)
<1>1. /\ d.memory_regions \in Seq([start : Nat, size : Nat])
      /\ IsFiniteSet(DOMAIN d.registers) /\ DOMAIN d.registers \subseteq Nat
      /\ IsFiniteSet(DOMAIN d.register_operations) /\ DOMAIN d.register_operations \subseteq Nat
      /\ IsFiniteSet(DOMAIN d.static_registers)
  BY DescriptionAssumption
<1>2. PICK E : E = Elements(d)
  OBVIOUS
<1>3. E = H \o R \o G \o O \o S
  BY <1>2, Zenon DEF Elements
<1>4. PICK kg : kg = Ascending(DOMAIN d.registers)
  OBVIOUS
<1>5. PICK ko : ko = Ascending(DOMAIN d.register_operations)
  OBVIOUS
<1>6. PICK ks : ks = SetToSeq(DOMAIN d.static_registers)
  OBVIOUS
<1>7. Enumerates(kg, DOMAIN d.registers)
  BY <1>1, <1>4, AscendingEnumerates
<1>8. Enumerates(ko, DOMAIN d.register_operations)
  BY <1>1, <1>5, AscendingEnumerates
<1>9. Enumerates(ks, DOMAIN d.static_registers)
  BY <1>1, <1>6, NamesEnumerated
<1>10. PICK r \in Nat : r = Len(d.memory_regions) /\ DOMAIN d.memory_regions = 1..r
  BY <1>1
<1>11. H \in Seq(X) /\ Len(H) = 2 /\ H[1] = <<"architecture", 0, d.architecture>>
       /\ H[2] = <<"size", 0, d.physical_address_size>>
  <2>1. /\ <<"architecture", 0, d.architecture>> \in X
        /\ <<"size", 0, d.physical_address_size>> \in X
    OBVIOUS
  <2> HIDE DEF X
  <2> QED
    BY <2>1
<1>12. R \in Seq(X) /\ Len(R) = r
       /\ \A i \in 1..r : R[i] = <<"region", i, d.memory_regions[i]>>
  <2>1. \A i \in 1..r : <<"region", i, d.memory_regions[i]>> \in X
    BY <1>10 DEF GroupKinds
  <2>2. R = [i \in 1..r |-> <<"region", i, d.memory_regions[i]>>]
    BY <1>10 DEF Group
  <2> HIDE DEF X, R
  <2> QED
    BY <2>1, <2>2
<1>13. G \in Seq(X) /\ Len(G) = Len(kg)
       /\ \A i \in 1..Len(kg) : G[i] = <<"register", kg[i], d.registers[kg[i]]>>
  <2>1. /\ Len(kg) \in Nat /\ DOMAIN kg = 1..Len(kg)
        /\ \A i \in 1..Len(kg) : kg[i] \in DOMAIN d.registers
    BY <1>7, EnumerationType
  <2>2. \A i \in 1..Len(kg) : <<"register", kg[i], d.registers[kg[i]]>> \in X
    BY <1>1, <2>1 DEF GroupKinds
  <2>3. G = [i \in 1..Len(kg) |-> <<"register", kg[i], d.registers[kg[i]]>>]
    BY <1>4, <2>1 DEF Group
  <2> HIDE DEF X, G
  <2> QED
    BY <2>1, <2>2, <2>3
<1>14. O \in Seq(X) /\ Len(O) = Len(ko)
       /\ \A i \in 1..Len(ko) : O[i] = <<"operation", ko[i], d.register_operations[ko[i]]>>
  <2>1. Len(ko) \in Nat /\ DOMAIN ko = 1..Len(ko)
        /\ \A i \in 1..Len(ko) : ko[i] \in DOMAIN d.register_operations
    BY <1>8, EnumerationType
  <2>2. \A i \in 1..Len(ko) : <<"operation", ko[i], d.register_operations[ko[i]]>> \in X
    BY <1>1, <2>1 DEF GroupKinds
  <2>3. O = [i \in 1..Len(ko) |-> <<"operation", ko[i], d.register_operations[ko[i]]>>]
    BY <1>5, <2>1 DEF Group
  <2> HIDE DEF X, O
  <2> QED
    BY <2>1, <2>2, <2>3
<1>15. S \in Seq(X) /\ Len(S) = Len(ks)
       /\ \A i \in 1..Len(ks) : S[i] = <<"static", ks[i], d.static_registers[ks[i]]>>
  <2>1. Len(ks) \in Nat /\ DOMAIN ks = 1..Len(ks)
        /\ \A i \in 1..Len(ks) : ks[i] \in DOMAIN d.static_registers
    BY <1>9, EnumerationType
  <2>2. \A i \in 1..Len(ks) : <<"static", ks[i], d.static_registers[ks[i]]>> \in X
    BY <1>1, <2>1 DEF GroupKinds
  <2>3. S = [i \in 1..Len(ks) |-> <<"static", ks[i], d.static_registers[ks[i]]>>]
    BY <1>6, <2>1 DEF Group
  <2> HIDE DEF X, S
  <2> QED
    BY <2>1, <2>2, <2>3
<1> HIDE DEF X, H, R, G, O, S
<1>16. /\ E \in Seq(X)
       /\ Len(E) = Len(H) + Len(R) + Len(G) + Len(O) + Len(S)
       /\ \A i \in 1..Len(H) : E[i] = H[i]
       /\ \A i \in 1..Len(R) : E[Len(H) + i] = R[i]
       /\ \A i \in 1..Len(G) : E[Len(H) + Len(R) + i] = G[i]
       /\ \A i \in 1..Len(O) : E[Len(H) + Len(R) + Len(G) + i] = O[i]
       /\ \A i \in 1..Len(S) : E[Len(H) + Len(R) + Len(G) + Len(O) + i] = S[i]
  <2>1. H \in Seq(X) /\ R \in Seq(X) /\ G \in Seq(X) /\ O \in Seq(X) /\ S \in Seq(X)
    BY <1>11, <1>12, <1>13, <1>14, <1>15
  <2>2. Parts(X, H, R, G, O, S, E)
    BY <1>3, <2>1, Zenon DEF Parts
  <2>3. Places(X, H, R, G, O, S, E)
    BY <2>2, ConcatenationOfFive, Zenon
  <2> QED
    BY <2>3, Zenon DEF Places
<1>17. PICK g \in Nat : g = Len(kg)
  BY <1>7 DEF Enumerates
<1>18. PICK o \in Nat : o = Len(ko)
  BY <1>8 DEF Enumerates
<1>19. PICK t \in Nat : t = Len(ks)
  BY <1>9 DEF Enumerates
<1>20. Len(H) = 2 /\ Len(R) = r /\ Len(G) = g /\ Len(O) = o /\ Len(S) = t
  BY <1>11, <1>12, <1>13, <1>14, <1>15, <1>17, <1>18, <1>19
<1>21. Len(E) = 2 + r + g + o + t
  BY <1>16, <1>20
<1>22. /\ E[1] = <<"architecture", 0, d.architecture>>
       /\ E[2] = <<"size", 0, d.physical_address_size>>
  BY <1>11, <1>16, <1>20
<1>23. \A i \in 1..r : E[2 + i] = <<"region", i, d.memory_regions[i]>>
  BY <1>12, <1>16, <1>20
<1>24. \A i \in 1..g : E[2 + r + i] = <<"register", kg[i], d.registers[kg[i]]>>
  BY <1>13, <1>16, <1>17, <1>20
<1>25. \A i \in 1..o : E[2 + r + g + i] = <<"operation", ko[i], d.register_operations[ko[i]]>>
  BY <1>14, <1>16, <1>18, <1>20
<1>26. \A i \in 1..t : E[2 + r + g + o + i] = <<"static", ks[i], d.static_registers[ks[i]]>>
  <2>1. \A i \in 1..t : S[i] = <<"static", ks[i], d.static_registers[ks[i]]>>
    BY <1>15, <1>19
  <2>2. \A i \in 1..t : E[2 + r + g + o + i] = S[i]
    BY <1>16, <1>20
  <2> QED
    BY <2>1, <2>2
<1>27. ASSUME NEW i \in 1..Len(E), i <= 2 PROVE E[i][1] \in {"architecture", "size"}
  BY <1>21, <1>22, <1>27
<1>28. ASSUME NEW i \in 1..Len(E), 2 < i, i <= 2 + r PROVE E[i][1] = "region"
  <2>1. PICK j \in 1..r : i = 2 + j
    <3>1. i - 2 \in 1..r /\ i = 2 + (i - 2)
      BY <1>28, <1>21
    <3> QED
      BY <3>1
  <2>2. E[2 + j] = <<"region", j, d.memory_regions[j]>>
    BY <1>23
  <2> QED
    BY <2>1, <2>2
<1>29. ASSUME NEW i \in 1..Len(E), 2 + r < i, i <= 2 + r + g PROVE E[i][1] = "register"
  <2>1. PICK j \in 1..g : i = 2 + r + j
    <3>1. i - (2 + r) \in 1..g /\ i = 2 + r + (i - (2 + r))
      BY <1>29, <1>21
    <3> QED
      BY <3>1
  <2>2. E[2 + r + j] = <<"register", kg[j], d.registers[kg[j]]>>
    BY <1>24
  <2> QED
    BY <2>1, <2>2
<1>30. ASSUME NEW i \in 1..Len(E), 2 + r + g < i, i <= 2 + r + g + o
       PROVE  E[i][1] = "operation"
  <2>1. PICK j \in 1..o : i = 2 + r + g + j
    <3>1. i - (2 + r + g) \in 1..o /\ i = 2 + r + g + (i - (2 + r + g))
      BY <1>30, <1>21
    <3> QED
      BY <3>1
  <2>2. E[2 + r + g + j] = <<"operation", ko[j], d.register_operations[ko[j]]>>
    BY <1>25
  <2> QED
    BY <2>1, <2>2
<1>31. ASSUME NEW i \in 1..Len(E), 2 + r + g + o < i PROVE E[i][1] = "static"
  <2>1. PICK j \in 1..t : i = 2 + r + g + o + j
    <3>1. i - (2 + r + g + o) \in 1..t /\ i = 2 + r + g + o + (i - (2 + r + g + o))
      BY <1>31, <1>21
    <3> QED
      BY <3>1
  <2>2. E[2 + r + g + o + j] = <<"static", ks[j], d.static_registers[ks[j]]>>
    BY <1>26
  <2> QED
    BY <2>1, <2>2
<1>32. Len(E) \in Nat
  BY <1>21
<1>33. Lists(E, "register", d.registers)
  <2>1. 2 + r \in Nat /\ 2 + r + Len(kg) <= Len(E)
    BY <1>17, <1>21
  <2>2. \A i \in 1..Len(kg) : E[2 + r + i] = <<"register", kg[i], d.registers[kg[i]]>>
    BY <1>17, <1>24
  <2>3. \A i \in 1..Len(E) : i <= 2 + r \/ i > 2 + r + Len(kg) => E[i][1] # "register"
    BY <1>17, <1>21, <1>27, <1>28, <1>30, <1>31
  <2> QED
    BY <1>7, <1>32, <2>1, <2>2, <2>3, GroupLists
<1>34. Lists(E, "operation", d.register_operations)
  <2>1. 2 + r + g \in Nat /\ 2 + r + g + Len(ko) <= Len(E)
    BY <1>18, <1>21
  <2>2. \A i \in 1..Len(ko) :
           E[2 + r + g + i] = <<"operation", ko[i], d.register_operations[ko[i]]>>
    BY <1>18, <1>25
  <2>3. \A i \in 1..Len(E) : i <= 2 + r + g \/ i > 2 + r + g + Len(ko) => E[i][1] # "operation"
    BY <1>18, <1>21, <1>27, <1>28, <1>29, <1>31
  <2> QED
    BY <1>8, <1>32, <2>1, <2>2, <2>3, GroupLists
<1>35. Lists(E, "static", d.static_registers)
  <2>1. 2 + r + g + o \in Nat /\ 2 + r + g + o + Len(ks) <= Len(E)
    BY <1>19, <1>21
  <2>2. \A i \in 1..Len(ks) :
           E[2 + r + g + o + i] = <<"static", ks[i], d.static_registers[ks[i]]>>
    BY <1>19, <1>26
  <2>3. \A i \in 1..Len(E) :
           i <= 2 + r + g + o \/ i > 2 + r + g + o + Len(ks) => E[i][1] # "static"
    BY <1>19, <1>21, <1>27, <1>28, <1>29, <1>30
  <2> QED
    BY <1>9, <1>32, <2>1, <2>2, <2>3, GroupLists
<1>36. \A i \in 1..Len(E) : i > 2 => E[i][1] \in GroupKinds
  BY <1>21, <1>28, <1>29, <1>30, <1>31 DEF GroupKinds
<1>37. \A i \in 1..Len(E) : E[i][1] = "region" => i - 2 \in 1..r
  <2> TAKE i \in 1..Len(E)
  <2> HAVE E[i][1] = "region"
  <2>1. ~(i <= 2) /\ ~(2 + r < i /\ i <= 2 + r + g)
    BY <1>27, <1>29
  <2>2. ~(2 + r + g < i /\ i <= 2 + r + g + o) /\ ~(2 + r + g + o < i)
    BY <1>30, <1>31
  <2> QED
    BY <1>21, <2>1, <2>2
<1>38. \A i, j \in 1..Len(E) : E[i][1] = "operation" /\ E[j][1] = "register" => j < i
  <2> TAKE i, j \in 1..Len(E)
  <2> HAVE E[i][1] = "operation" /\ E[j][1] = "register"
  <2>1. 2 + r + g < i
    <3>1. ~(i <= 2) /\ ~(2 < i /\ i <= 2 + r) /\ ~(2 + r < i /\ i <= 2 + r + g)
      BY <1>27, <1>28, <1>29
    <3> QED
      BY <1>21, <3>1
  <2>2. j <= 2 + r + g
    BY <1>21, <1>30, <1>31
  <2> QED
    BY <1>21, <2>1, <2>2
<1>39. E \in Seq({E[i] : i \in 1..Len(E)})
  BY <1>16, <1>32
<1>40. 2 + Len(d.memory_regions) <= Len(E)
  BY <1>10, <1>21
<1> QED
  BY <1>2, <1>10, <1>22, <1>23, <1>32, <1>33, <1>34, <1>35, <1>36, <1>37, <1>38, <1>39, <1>40
     DEF ElementsOf

-----------------------------------------------------------------------------
(***************************************************************************)
(* The inductive invariant                                                 *)
(***************************************************************************)

\* What of a sequence is left behind its first n elements.
Rest(s, n) == [i \in 1..(Len(s) - n) |-> s[n + i]]

IsSequence(s) == s \in Seq({s[i] : i \in 1..Len(s)}) /\ Len(s) \in Nat

\* Taking the next element of what is left.
LEMMA RestSteps ==
    ASSUME NEW s, IsSequence(s), NEW n \in 0..Len(s)
    PROVE  /\ Rest(s, 0) = s
           /\ Rest(s, n) = <<>> <=> n = Len(s)
           /\ n < Len(s) => /\ Head(Rest(s, n)) = s[n + 1]
                            /\ Tail(Rest(s, n)) = Rest(s, n + 1)
<1> DEFINE X == {s[i] : i \in 1..Len(s)}
<1>1. Len(s) \in Nat /\ Len(s) - n \in Nat /\ s \in Seq(X)
  BY DEF IsSequence
<1> HIDE DEF X
<1>2. Rest(s, 0) = s
  BY <1>1 DEF Rest
<1>3. Rest(s, n) \in Seq(X) /\ Len(Rest(s, n)) = Len(s) - n
  <2>1. \A i \in 1..(Len(s) - n) : s[n + i] \in X
    BY <1>1
  <2> QED
    BY <1>1, <2>1 DEF Rest
<1>4. Rest(s, n) = <<>> <=> n = Len(s)
  BY <1>1, <1>3
<1>5. ASSUME n < Len(s)
      PROVE  Head(Rest(s, n)) = s[n + 1] /\ Tail(Rest(s, n)) = Rest(s, n + 1)
  <2>1. Rest(s, n) # <<>>
    BY <1>4, <1>5
  <2>2. Head(Rest(s, n)) = Rest(s, n)[1] /\ 1 \in 1..(Len(s) - n)
    BY <1>1, <1>3, <1>5, <2>1
  <2>3. Head(Rest(s, n)) = s[n + 1]
    BY <2>2 DEF Rest
  <2>4. Tail(Rest(s, n)) = [i \in 1..(Len(Rest(s, n)) - 1) |-> Rest(s, n)[i + 1]]
    <3>1. PICK r \in Seq(X) : r = Rest(s, n)
      BY <1>3
    <3>2. Tail(r) \in Seq(X) /\ Len(Tail(r)) = Len(r) - 1
          /\ \A i \in 1..Len(Tail(r)) : Tail(r)[i] = r[i + 1]
      <4>1. r # <<>>
        BY <2>1, <3>1
      <4> QED
        BY <3>1, <4>1, HeadTailProperties, Zenon
    <3>3. PICK t : t = Tail(r)
      OBVIOUS
    <3>4. t \in Seq(X) /\ Len(t) = Len(r) - 1 /\ \A i \in 1..Len(t) : t[i] = r[i + 1]
      BY <3>2, <3>3, Zenon
    <3>5. t = [i \in 1..(Len(r) - 1) |-> r[i + 1]]
      BY <3>4
    <3> QED
      BY <3>1, <3>3, <3>5
  <2>5. \A i \in 1..(Len(s) - n - 1) : Rest(s, n)[i + 1] = s[(n + 1) + i]
    <3> TAKE i \in 1..(Len(s) - n - 1)
    <3>1. i + 1 \in 1..(Len(s) - n) /\ n + (i + 1) = (n + 1) + i
      BY <1>1
    <3> QED
      BY <3>1 DEF Rest
  <2>6. Len(s) - (n + 1) = Len(s) - n - 1
    BY <1>1
  <2>7. Rest(s, n + 1) = [i \in 1..(Len(s) - n - 1) |-> s[(n + 1) + i]]
    BY <2>6 DEF Rest
  <2> QED
    BY <1>3, <2>3, <2>4, <2>5, <2>7
<1> QED
  BY <1>2, <1>4, <1>5

IsAccepted(e) == Accepted(e[1], e[2], e[3])
Image(s, n) == [i \in 1..n |-> Written(s[i][1], s[i][2], s[i][3])]

\* The section holds the elements written so far, each of them accepted.
WrittenUpTo(n) ==
    /\ to_write = Rest(Elements(data), n)
    /\ elements = Image(Elements(data), n)
    /\ \A i \in 1..n : IsAccepted(Elements(data)[i])
    /\ writer = "done" => n = Len(Elements(data))

WriterInv ==
    /\ writer \in {"writing", "done", "refused", "foreign"}
    /\ writer # "foreign" =>
          data \in Description /\ \E n \in 0..Len(Elements(data)) : WrittenUpTo(n)
    /\ writer = "foreign" => IsSection(elements)

\* Elements(d) as a sequence.
LEMMA ElementsType ==
    ASSUME NEW d \in Description
    PROVE  IsSequence(Elements(d)) /\ Len(Elements(d)) \in Nat
  BY ElementsLaidOut DEF ElementsOf, IsSequence

\* The members of an element.
LEMMA Members ==
    ASSUME NEW a, NEW b, NEW c, NEW e, e = <<a, b, c>>
    PROVE  e[1] = a /\ e[2] = b /\ e[3] = c
  OBVIOUS

\* Written changes the value of an element only.
LEMMA WrittenKeeps ==
    ASSUME NEW kind, NEW key, NEW value
    PROVE  /\ Written(kind, key, value)[1] = kind
           /\ Written(kind, key, value)[2] = key
           /\ kind \notin {"architecture", "operation"} => Written(kind, key, value)[3] = value
           /\ kind = "architecture" /\ value \in Archi => Written(kind, key, value)[3] = value
           /\ kind = "architecture" /\ value \notin Archi =>
                 Written(kind, key, value)[3] \notin Archi
           /\ kind = "operation" =>
                 Written(kind, key, value)[3] = [value EXCEPT !.operation = @ % ByteMod]
<1>1. CASE kind = "architecture" /\ value \notin Archi
  <2>1. PICK m : m = "magic 0"
    OBVIOUS
  <2>2. Written(kind, key, value) = <<kind, key, m>>
    BY <1>1, <2>1 DEF Written
  <2>3. /\ Written(kind, key, value)[1] = kind /\ Written(kind, key, value)[2] = key
        /\ Written(kind, key, value)[3] = m
    BY <2>2, Members
  <2>4. m \notin Archi
    BY <2>1 DEF Archi
  <2>5. kind # "operation"
    BY <1>1
  <2> QED
    BY <1>1, <2>3, <2>4, <2>5
<1>2. CASE kind = "operation"
  <2>1. Written(kind, key, value) = <<kind, key, [value EXCEPT !.operation = @ % ByteMod]>>
    BY <1>2 DEF Written
  <2> QED
    BY <1>2, <2>1
<1>3. CASE kind # "operation" /\ ~(kind = "architecture" /\ value \notin Archi)
  <2>1. Written(kind, key, value) = <<kind, key, value>>
    BY <1>3 DEF Written
  <2> QED
    BY <1>3, <2>1
<1> QED
  BY <1>1, <1>2, <1>3

\* The writer's invariant is inductive.
LEMMA WriterInitially ==
    Init => WriterInv
<1> SUFFICES ASSUME Init PROVE WriterInv
  OBVIOUS
<1>1. CASE /\ data \in Description /\ to_write = Elements(data)
           /\ elements = <<>> /\ writer = "writing"
  <2>1. 0 \in 0..Len(Elements(data)) /\ Rest(Elements(data), 0) = Elements(data)
    BY <1>1, ElementsType, RestSteps
  <2>2. Image(Elements(data), 0) = <<>>
    BY DEF Image
  <2>3. WrittenUpTo(0)
    BY <1>1, <2>1, <2>2 DEF WrittenUpTo
  <2> QED
    BY <1>1, <2>1, <2>3 DEF WriterInv
<1>2. CASE elements \in ForeignSection /\ writer = "foreign"
  BY <1>2, ForeignAssumption DEF WriterInv
<1> QED
  BY <1>1, <1>2 DEF Init

\* A step of the writer keeps its invariant and leaves the reader be.
LEMMA WriterSteps ==
    WriterInv /\ [Next]_vars => WriterInv'
<1> SUFFICES ASSUME WriterInv, [Next]_vars PROVE WriterInv'
  OBVIOUS
<1>1. CASE UNCHANGED writerVars
  BY <1>1 DEF WriterInv, WrittenUpTo, writerVars, IsSection, IsAccepted, Accepted, OperationAccepted
<1>2. CASE WriteElement
  <2>1. writer = "writing" /\ data \in Description /\ UNCHANGED <<data, writer>>
    BY <1>2 DEF WriteElement, WriterInv
  <2>2. PICK E : E = Elements(data)
    OBVIOUS
  <2>3. IsSequence(E) /\ Len(E) \in Nat
    BY <2>1, <2>2, ElementsType
  <2>4. PICK n \in 0..Len(E) :
           /\ to_write = Rest(E, n) /\ elements = Image(E, n)
           /\ \A i \in 1..n : IsAccepted(E[i])
    BY <2>1, <2>2 DEF WriterInv, WrittenUpTo
  <2>5. n < Len(E) /\ Head(to_write) = E[n + 1] /\ Tail(to_write) = Rest(E, n + 1)
    BY <1>2, <2>3, <2>4, RestSteps DEF WriteElement
  <2>6. IsAccepted(E[n + 1])
    BY <1>2, <2>5 DEF WriteElement, IsAccepted
  <2>7. elements' = Append(elements, Written(E[n + 1][1], E[n + 1][2], E[n + 1][3]))
    BY <1>2, <2>5 DEF WriteElement
  <2>8. elements' = Image(E, n + 1)
    <3>1. PICK f : f = [i \in 1..Len(E) |-> Written(E[i][1], E[i][2], E[i][3])]
      OBVIOUS
    <3>2. elements = [i \in 1..n |-> f[i]] /\ Image(E, n + 1) = [i \in 1..(n + 1) |-> f[i]]
      BY <2>3, <2>4, <2>5, <3>1 DEF Image
    <3>3. elements' = Append(elements, f[n + 1])
      BY <2>3, <2>5, <2>7, <3>1
    <3>4. Append([i \in 1..n |-> f[i]], f[n + 1]) = [i \in 1..(n + 1) |-> f[i]]
      BY <2>3
    <3> QED
      BY <3>2, <3>3, <3>4
  <2>9. \A i \in 1..(n + 1) : IsAccepted(E[i])
    BY <2>3, <2>4, <2>6
  <2>10. \A e : IsAccepted(e)' <=> IsAccepted(e)
    BY <2>1 DEF IsAccepted, Accepted, OperationAccepted
  <2>11. WrittenUpTo(n + 1)'
    BY <1>2, <2>1, <2>2, <2>5, <2>8, <2>9, <2>10 DEF WrittenUpTo, WriteElement
  <2> QED
    BY <2>1, <2>2, <2>3, <2>5, <2>11 DEF WriterInv
<1>3. CASE Refuse
  BY <1>3 DEF WriterInv, WrittenUpTo, Refuse, IsAccepted, Accepted, OperationAccepted
<1>4. CASE Finalize
  <2>1. writer = "writing" /\ data \in Description /\ UNCHANGED <<data, to_write, elements>>
        /\ writer' = "done" /\ to_write = <<>>
    BY <1>4 DEF Finalize, WriterInv
  <2>2. PICK n \in 0..Len(Elements(data)) : WrittenUpTo(n)
    BY <2>1 DEF WriterInv
  <2>3. n = Len(Elements(data))
    BY <2>1, <2>2, ElementsType, RestSteps DEF WrittenUpTo
  <2>4. \A e : IsAccepted(e)' <=> IsAccepted(e)
    BY <2>1 DEF IsAccepted, Accepted, OperationAccepted
  <2>5. WrittenUpTo(n)'
    BY <2>1, <2>2, <2>3, <2>4 DEF WrittenUpTo
  <2> QED
    BY <2>1, <2>2, <2>5 DEF WriterInv
<1>5. ASSUME Open \/ ReadArchitecture \/ ReadPhysicalAddressSize \/ ReadRegion
             \/ ReadRegister \/ ReadOperation \/ ReadStatic \/ SeekToEnd
      PROVE  UNCHANGED writerVars
  BY <1>5 DEF Open, ReadArchitecture, ReadPhysicalAddressSize, ReadRegion, ReadRegister,
              ReadOperation, ReadStatic, SeekToEnd, Take, writerVars
<1>6. CASE UNCHANGED vars
  BY <1>1, <1>6 DEF vars, writerVars
<1> QED
  BY <1>1, <1>2, <1>3, <1>4, <1>5, <1>6 DEF Next

-----------------------------------------------------------------------------
(***************************************************************************)
(* What has been read of a description after some of its elements          *)
(***************************************************************************)

KeysRead(E, kind, p) == {E[i][2] : i \in {j \in 1..p : E[j][1] = kind}}
RegionsRead(d, p) ==
    IF p <= 2 THEN 0 ELSE IF p - 2 <= Len(d.memory_regions) THEN p - 2 ELSE Len(d.memory_regions)

PartArchitecture(d, p) == IF p > 0 THEN d.architecture ELSE "none"
PartSize(d, p) == IF p > 1 THEN d.physical_address_size ELSE 0
PartRegions(d, p) == [i \in 1..RegionsRead(d, p) |-> d.memory_regions[i]]
PartRegisters(d, E, p) == [k \in KeysRead(E, "register", p) |-> d.registers[k]]
AsByte(operation) == [operation EXCEPT !.operation = @ % ByteMod]
PartOperations(d, E, p) ==
    [k \in KeysRead(E, "operation", p) |-> AsByte(d.register_operations[k])]
PartStatics(d, E, p) == [k \in KeysRead(E, "static", p) |-> d.static_registers[k]]

Part(d, E, p) ==
    [architecture |-> PartArchitecture(d, p),
     physical_address_size |-> PartSize(d, p),
     memory_regions |-> PartRegions(d, p),
     registers |-> PartRegisters(d, E, p),
     register_operations |-> PartOperations(d, E, p),
     static_registers |-> PartStatics(d, E, p)]

\* The keys read after one more element.
LEMMA KeysStep ==
    ASSUME NEW E, NEW p \in Nat, NEW kind
    PROVE  KeysRead(E, kind, p + 1) =
               IF E[p + 1][1] = kind THEN KeysRead(E, kind, p) \union {E[p + 1][2]}
               ELSE KeysRead(E, kind, p)
<1>1. 1..(p + 1) = 1..p \union {p + 1}
  OBVIOUS
<1> QED
  BY <1>1 DEF KeysRead

\* A key that is listed has not been read before its element, and all are in
\* the end.
LEMMA KeysListed ==
    ASSUME NEW E, NEW kind, NEW map, Lists(E, kind, map), Len(E) \in Nat,
           NEW p \in 0..Len(E)
    PROVE  /\ KeysRead(E, kind, p) \subseteq DOMAIN map
           /\ p < Len(E) /\ E[p + 1][1] = kind =>
                 /\ E[p + 1][2] \in DOMAIN map \ KeysRead(E, kind, p)
                 /\ E[p + 1][3] = map[E[p + 1][2]]
           /\ (\A i \in 1..Len(E) : E[i][1] = kind => i <= p) =>
                 KeysRead(E, kind, p) = DOMAIN map
<1>1. \A i \in 1..p : i \in 1..Len(E)
  OBVIOUS
<1>2. KeysRead(E, kind, p) \subseteq DOMAIN map
  BY <1>1 DEF KeysRead, Lists
<1>3. ASSUME p < Len(E), E[p + 1][1] = kind
      PROVE  /\ E[p + 1][2] \in DOMAIN map \ KeysRead(E, kind, p)
             /\ E[p + 1][3] = map[E[p + 1][2]]
  <2>1. p + 1 \in 1..Len(E)
    BY <1>3
  <2>2. E[p + 1][2] \in DOMAIN map /\ E[p + 1][3] = map[E[p + 1][2]]
    BY <1>3, <2>1 DEF Lists
  <2>3. ASSUME NEW i \in 1..p, E[i][1] = kind, E[i][2] = E[p + 1][2] PROVE FALSE
    <3>1. i = p + 1
      BY <1>1, <1>3, <2>1, <2>3 DEF Lists
    <3> QED
      BY <3>1
  <2> QED
    BY <2>2, <2>3 DEF KeysRead
<1>4. ASSUME \A i \in 1..Len(E) : E[i][1] = kind => i <= p
      PROVE  DOMAIN map \subseteq KeysRead(E, kind, p)
  <2> SUFFICES ASSUME NEW k \in DOMAIN map PROVE k \in KeysRead(E, kind, p)
    OBVIOUS
  <2>1. PICK i \in 1..Len(E) : E[i][1] = kind /\ E[i][2] = k
    BY DEF Lists
  <2>2. i \in 1..p
    BY <1>4, <2>1
  <2> QED
    BY <2>1, <2>2 DEF KeysRead
<1> QED
  BY <1>2, <1>3, <1>4

\* Nothing is read of any description before its first element.
LEMMA PartOfNothing ==
    ASSUME NEW d, NEW E
    PROVE  Part(d, E, 0) = Blank
<1>1. \A kind : KeysRead(E, kind, 0) = {}
  BY DEF KeysRead
<1>2. \A f : [x \in {} |-> f[x]] = <<>>
  OBVIOUS
<1>3. PartRegions(d, 0) = <<>>
  BY DEF PartRegions, RegionsRead
<1>4. PartRegisters(d, E, 0) = <<>>
  BY <1>1 DEF PartRegisters
<1>5. PartOperations(d, E, 0) = <<>>
  BY <1>1 DEF PartOperations
<1>6. PartStatics(d, E, 0) = <<>>
  BY <1>1 DEF PartStatics
<1>7. PartArchitecture(d, 0) = "none" /\ PartSize(d, 0) = 0
  BY DEF PartArchitecture, PartSize
<1> QED
  BY <1>3, <1>4, <1>5, <1>6, <1>7, Zenon DEF Part, Blank

\* A part that is not read keeps; the numbers of elements read.
LEMMA PartKeeps ==
    ASSUME NEW d, NEW E, ElementsOf(E, d), NEW p \in Nat, p < Len(E)
    PROVE  /\ p > 0 => PartArchitecture(d, p + 1) = PartArchitecture(d, p)
           /\ p # 1 => PartSize(d, p + 1) = PartSize(d, p)
           /\ E[p + 1][1] # "region" => PartRegions(d, p + 1) = PartRegions(d, p)
           /\ E[p + 1][1] # "register" => PartRegisters(d, E, p + 1) = PartRegisters(d, E, p)
           /\ E[p + 1][1] # "operation" => PartOperations(d, E, p + 1) = PartOperations(d, E, p)
           /\ E[p + 1][1] # "static" => PartStatics(d, E, p + 1) = PartStatics(d, E, p)
<1>1. p > 0 => PartArchitecture(d, p + 1) = PartArchitecture(d, p)
  BY DEF PartArchitecture
<1>2. p # 1 => PartSize(d, p + 1) = PartSize(d, p)
  BY DEF PartSize
<1>3. ASSUME E[p + 1][1] # "region" PROVE PartRegions(d, p + 1) = PartRegions(d, p)
  <2>1. PICK r : r = Len(d.memory_regions)
    OBVIOUS
  <2>2. \A i \in 1..Len(d.memory_regions) : E[2 + i] = <<"region", i, d.memory_regions[i]>>
    BY Zenon DEF ElementsOf
  <2>3. p - 1 \notin 1..r
    <3> SUFFICES ASSUME p - 1 \in 1..r PROVE FALSE
      OBVIOUS
    <3>1. PICK i \in 1..r : p + 1 = 2 + i
      OBVIOUS
    <3>2. E[2 + i] = <<"region", i, d.memory_regions[i]>>
      BY <2>1, <2>2, Zenon
    <3>3. E[2 + i][1] = "region"
      BY <3>2
    <3> QED
      BY <1>3, <3>1, <3>3
  <2>4. RegionsRead(d, p + 1) = RegionsRead(d, p)
    BY <2>1, <2>3 DEF RegionsRead
  <2> QED
    BY <2>4 DEF PartRegions
<1>4. E[p + 1][1] # "register" => PartRegisters(d, E, p + 1) = PartRegisters(d, E, p)
  BY KeysStep DEF PartRegisters
<1>5. E[p + 1][1] # "operation" => PartOperations(d, E, p + 1) = PartOperations(d, E, p)
  BY KeysStep DEF PartOperations
<1>6. E[p + 1][1] # "static" => PartStatics(d, E, p + 1) = PartStatics(d, E, p)
  BY KeysStep DEF PartStatics
<1> QED
  BY <1>1, <1>2, <1>3, <1>4, <1>5, <1>6

\* The positions of the first two elements are those of their kinds.
LEMMA KindsPlaced ==
    ASSUME NEW d, NEW E, ElementsOf(E, d), NEW p \in Nat, p < Len(E)
    PROVE  /\ p = 0 <=> E[p + 1][1] = "architecture"
           /\ p = 1 <=> E[p + 1][1] = "size"
           /\ p > 1 <=> E[p + 1][1] \in GroupKinds
<1>1. CASE p = 0
  <2>1. E[p + 1][1] = "architecture"
    BY <1>1 DEF ElementsOf
  <2> QED
    BY <1>1, <2>1 DEF GroupKinds
<1>2. CASE p = 1
  <2>1. E[p + 1][1] = "size"
    BY <1>2 DEF ElementsOf
  <2> QED
    BY <1>2, <2>1 DEF GroupKinds
<1>3. CASE p > 1
  <2>1. E[p + 1][1] \in GroupKinds
    BY <1>3 DEF ElementsOf
  <2> QED
    BY <1>3, <2>1 DEF GroupKinds
<1> QED
  BY <1>1, <1>2, <1>3

\* The part read so far with one more element of each kind.
LEMMA PartArchitectureRead ==
    ASSUME NEW d, NEW E, ElementsOf(E, d), NEW p \in Nat, p < Len(E),
           E[p + 1][1] = "architecture"
    PROVE  /\ E[p + 1][3] = d.architecture
           /\ [Part(d, E, p) EXCEPT !.architecture = d.architecture] = Part(d, E, p + 1)
<1>1. p = 0
  BY KindsPlaced
<1>2. E[p + 1][3] = d.architecture
  BY <1>1 DEF ElementsOf
<1>3. PartArchitecture(d, p + 1) = d.architecture
  BY DEF PartArchitecture
<1>4. /\ PartSize(d, p + 1) = PartSize(d, p) /\ PartRegions(d, p + 1) = PartRegions(d, p)
      /\ PartRegisters(d, E, p + 1) = PartRegisters(d, E, p)
      /\ PartOperations(d, E, p + 1) = PartOperations(d, E, p)
      /\ PartStatics(d, E, p + 1) = PartStatics(d, E, p)
  BY <1>1, PartKeeps
<1> QED
  BY <1>2, <1>3, <1>4 DEF Part

\* Read as the size of an address, an element makes the part one element longer.
LEMMA PartSizeRead ==
    ASSUME NEW d, NEW E, ElementsOf(E, d), NEW p \in Nat, p < Len(E),
           E[p + 1][1] = "size"
    PROVE  /\ E[p + 1][3] = d.physical_address_size
           /\ [Part(d, E, p) EXCEPT !.physical_address_size = d.physical_address_size]
                  = Part(d, E, p + 1)
<1>1. p = 1
  BY KindsPlaced
<1>2. E[p + 1][3] = d.physical_address_size
  BY <1>1 DEF ElementsOf
<1>3. PartSize(d, p + 1) = d.physical_address_size
  BY <1>1 DEF PartSize
<1>4. /\ PartArchitecture(d, p + 1) = PartArchitecture(d, p)
      /\ PartRegions(d, p + 1) = PartRegions(d, p)
      /\ PartRegisters(d, E, p + 1) = PartRegisters(d, E, p)
      /\ PartOperations(d, E, p + 1) = PartOperations(d, E, p)
      /\ PartStatics(d, E, p + 1) = PartStatics(d, E, p)
  BY <1>1, PartKeeps
<1> QED
  BY <1>2, <1>3, <1>4 DEF Part

\* So it does as a memory region,
LEMMA PartRegionRead ==
    ASSUME NEW d, NEW E, ElementsOf(E, d), NEW p \in Nat, p < Len(E),
           E[p + 1][1] = "region", Len(d.memory_regions) \in Nat
    PROVE  [Part(d, E, p) EXCEPT !.memory_regions = Append(@, E[p + 1][3])] = Part(d, E, p + 1)
<1>1. p > 1
  BY KindsPlaced DEF GroupKinds
<1>2. PICK f : f = d.memory_regions
  OBVIOUS
<1>3. PICK r \in Nat : r = Len(f)
  BY <1>2
<1>4. p - 1 \in 1..r
  <2>1. p + 1 \in 1..Len(E)
    BY DEF ElementsOf
  <2>2. (p + 1) - 2 \in 1..r
    BY <1>2, <1>3, <2>1 DEF ElementsOf
  <2> QED
    BY <2>2
<1>5. E[p + 1][3] = f[p - 1]
  <2>1. PICK i \in 1..r : p + 1 = 2 + i /\ i = p - 1
    BY <1>4
  <2>2. E[2 + i] = <<"region", i, f[i]>>
    BY <1>2, <1>3 DEF ElementsOf
  <2> QED
    BY <2>1, <2>2
<1>6. RegionsRead(d, p + 1) = p - 1 /\ RegionsRead(d, p) = p - 2
  BY <1>1, <1>2, <1>3, <1>4 DEF RegionsRead
<1>7. PartRegions(d, p) = [i \in 1..(p - 2) |-> f[i]]
      /\ PartRegions(d, p + 1) = [i \in 1..(p - 1) |-> f[i]]
  BY <1>2, <1>6 DEF PartRegions
<1>8. Append([i \in 1..(p - 2) |-> f[i]], f[p - 1]) = [i \in 1..(p - 1) |-> f[i]]
  <2>1. PICK n \in Nat : n = p - 2 /\ n + 1 = p - 1
    BY <1>1
  <2>2. Append([i \in 1..n |-> f[i]], f[n + 1]) = [i \in 1..(n + 1) |-> f[i]]
    OBVIOUS
  <2> QED
    BY <2>1, <2>2
<1>9. Append(PartRegions(d, p), E[p + 1][3]) = PartRegions(d, p + 1)
  BY <1>5, <1>7, <1>8
<1>10. /\ PartArchitecture(d, p + 1) = PartArchitecture(d, p)
       /\ PartSize(d, p + 1) = PartSize(d, p)
       /\ PartRegisters(d, E, p + 1) = PartRegisters(d, E, p)
       /\ PartOperations(d, E, p + 1) = PartOperations(d, E, p)
       /\ PartStatics(d, E, p + 1) = PartStatics(d, E, p)
  BY <1>1, PartKeeps
<1>11. PICK m : m = PartRegions(d, p + 1)
  OBVIOUS
<1>12. [Part(d, E, p) EXCEPT !.memory_regions = Append(@, E[p + 1][3])]
           = [Part(d, E, p) EXCEPT !.memory_regions = m]
  <2>1. Part(d, E, p).memory_regions = PartRegions(d, p)
    BY DEF Part
  <2>2. Append(Part(d, E, p).memory_regions, E[p + 1][3]) = m
    BY <1>9, <1>11, <2>1
  <2> QED
    BY <2>2
<1> QED
  BY <1>10, <1>11, <1>12 DEF Part

\* as a register, whose id is new,
LEMMA PartRegisterRead ==
    ASSUME NEW d, NEW E, ElementsOf(E, d), NEW p \in Nat, p < Len(E),
           E[p + 1][1] = "register"
    PROVE  /\ E[p + 1][2] \in DOMAIN d.registers
           /\ E[p + 1][2] \notin DOMAIN PartRegisters(d, E, p)
           /\ E[p + 1][3] = d.registers[E[p + 1][2]]
           /\ [Part(d, E, p) EXCEPT !.registers = With(@, E[p + 1][2], E[p + 1][3])]
                  = Part(d, E, p + 1)
<1>1. p > 1
  BY KindsPlaced DEF GroupKinds
<1>2. Lists(E, "register", d.registers) /\ Len(E) \in Nat /\ p \in 0..Len(E)
  BY DEF ElementsOf
<1>3. /\ E[p + 1][2] \in DOMAIN d.registers
      /\ E[p + 1][2] \notin KeysRead(E, "register", p)
      /\ E[p + 1][3] = d.registers[E[p + 1][2]]
  BY <1>2, KeysListed
<1>4. KeysRead(E, "register", p + 1) = KeysRead(E, "register", p) \union {E[p + 1][2]}
  BY KeysStep
<1>5. With(PartRegisters(d, E, p), E[p + 1][2], E[p + 1][3]) = PartRegisters(d, E, p + 1)
  BY <1>3, <1>4 DEF With, PartRegisters
<1>6. /\ PartArchitecture(d, p + 1) = PartArchitecture(d, p)
      /\ PartSize(d, p + 1) = PartSize(d, p)
      /\ PartRegions(d, p + 1) = PartRegions(d, p)
      /\ PartOperations(d, E, p + 1) = PartOperations(d, E, p)
      /\ PartStatics(d, E, p + 1) = PartStatics(d, E, p)
  BY <1>1, PartKeeps
<1>7. DOMAIN PartRegisters(d, E, p) = KeysRead(E, "register", p)
  BY DEF PartRegisters
<1>8. [Part(d, E, p) EXCEPT !.registers = With(@, E[p + 1][2], E[p + 1][3])] = Part(d, E, p + 1)
  BY <1>5, <1>6 DEF Part
<1> QED
  BY <1>3, <1>7, <1>8

\* as an operation, which finds every register read and whose id is new,
LEMMA PartOperationRead ==
    ASSUME NEW d, NEW E, ElementsOf(E, d), NEW p \in Nat, p < Len(E),
           E[p + 1][1] = "operation"
    PROVE  /\ E[p + 1][2] \in DOMAIN d.register_operations
           /\ E[p + 1][2] \notin DOMAIN PartOperations(d, E, p)
           /\ E[p + 1][3] = d.register_operations[E[p + 1][2]]
           /\ PartRegisters(d, E, p) = [k \in DOMAIN d.registers |-> d.registers[k]]
           /\ [Part(d, E, p) EXCEPT !.register_operations =
                  With(@, E[p + 1][2], AsByte(E[p + 1][3]))] = Part(d, E, p + 1)
<1>1. p > 1
  BY KindsPlaced DEF GroupKinds
<1>2. Len(E) \in Nat /\ p \in 0..Len(E)
      /\ Lists(E, "operation", d.register_operations) /\ Lists(E, "register", d.registers)
  BY DEF ElementsOf
<1>3. /\ E[p + 1][2] \in DOMAIN d.register_operations
      /\ E[p + 1][2] \notin KeysRead(E, "operation", p)
      /\ E[p + 1][3] = d.register_operations[E[p + 1][2]]
  BY <1>2, KeysListed
<1>4. KeysRead(E, "operation", p + 1) = KeysRead(E, "operation", p) \union {E[p + 1][2]}
  BY KeysStep
<1>5. With(PartOperations(d, E, p), E[p + 1][2], AsByte(E[p + 1][3])) = PartOperations(d, E, p + 1)
  BY <1>3, <1>4 DEF With, PartOperations
<1>6. /\ PartArchitecture(d, p + 1) = PartArchitecture(d, p)
      /\ PartSize(d, p + 1) = PartSize(d, p)
      /\ PartRegions(d, p + 1) = PartRegions(d, p)
      /\ PartRegisters(d, E, p + 1) = PartRegisters(d, E, p)
      /\ PartStatics(d, E, p + 1) = PartStatics(d, E, p)
  BY <1>1, PartKeeps
<1>7. DOMAIN PartOperations(d, E, p) = KeysRead(E, "operation", p)
  BY DEF PartOperations
<1>8. [Part(d, E, p) EXCEPT !.register_operations = With(@, E[p + 1][2], AsByte(E[p + 1][3]))]
          = Part(d, E, p + 1)
  BY <1>5, <1>6 DEF Part
<1>9. \A i \in 1..Len(E) : E[i][1] = "register" => i <= p
  <2>1. p + 1 \in 1..Len(E)
    BY <1>2
  <2>2. \A i \in 1..Len(E) : E[i][1] = "register" => i < p + 1
    BY <2>1 DEF ElementsOf
  <2> QED
    BY <2>2
<1>10. KeysRead(E, "register", p) = DOMAIN d.registers
  BY <1>2, <1>9, KeysListed
<1>11. PartRegisters(d, E, p) = [k \in DOMAIN d.registers |-> d.registers[k]]
  BY <1>10 DEF PartRegisters
<1> QED
  BY <1>3, <1>7, <1>8, <1>11

\* and as a static register, whose name is new.
LEMMA PartStaticRead ==
    ASSUME NEW d, NEW E, ElementsOf(E, d), NEW p \in Nat, p < Len(E),
           E[p + 1][1] = "static"
    PROVE  /\ E[p + 1][2] \notin DOMAIN PartStatics(d, E, p)
           /\ [Part(d, E, p) EXCEPT !.static_registers = With(@, E[p + 1][2], E[p + 1][3])]
                  = Part(d, E, p + 1)
<1>1. p > 1
  BY KindsPlaced DEF GroupKinds
<1>2. Lists(E, "static", d.static_registers) /\ Len(E) \in Nat /\ p \in 0..Len(E)
  BY DEF ElementsOf
<1>3. /\ E[p + 1][2] \in DOMAIN d.static_registers
      /\ E[p + 1][2] \notin KeysRead(E, "static", p)
      /\ E[p + 1][3] = d.static_registers[E[p + 1][2]]
  BY <1>2, KeysListed
<1>4. KeysRead(E, "static", p + 1) = KeysRead(E, "static", p) \union {E[p + 1][2]}
  BY KeysStep
<1>5. With(PartStatics(d, E, p), E[p + 1][2], E[p + 1][3]) = PartStatics(d, E, p + 1)
  BY <1>3, <1>4 DEF With, PartStatics
<1>6. /\ PartArchitecture(d, p + 1) = PartArchitecture(d, p)
      /\ PartSize(d, p + 1) = PartSize(d, p)
      /\ PartRegions(d, p + 1) = PartRegions(d, p)
      /\ PartRegisters(d, E, p + 1) = PartRegisters(d, E, p)
      /\ PartOperations(d, E, p + 1) = PartOperations(d, E, p)
  BY <1>1, PartKeeps
<1>7. DOMAIN PartStatics(d, E, p) = KeysRead(E, "static", p)
  BY DEF PartStatics
<1>8. [Part(d, E, p) EXCEPT !.static_registers = With(@, E[p + 1][2], E[p + 1][3])]
          = Part(d, E, p + 1)
  BY <1>5, <1>6 DEF Part
<1> QED
  BY <1>3, <1>7, <1>8

\* All elements give all registers, whatever the operators are.
LEMMA PartOfAllGiven ==
    ASSUME NEW d \in Description, NEW E, ElementsOf(E, d)
    PROVE  /\ PartRegisters(d, E, Len(E)) = d.registers
           /\ PartArchitecture(d, Len(E)) = d.architecture /\ Len(E) > 0
<1>1. /\ Len(E) \in Nat /\ 2 + Len(d.memory_regions) <= Len(E)
      /\ Lists(E, "register", d.registers)
  BY DEF ElementsOf
<1>2. /\ d.memory_regions \in Seq([start : Nat, size : Nat])
      /\ d.registers = [k \in DOMAIN d.registers |-> d.registers[k]]
  BY DescriptionAssumption
<1>3. Len(d.memory_regions) \in Nat
  BY <1>2
<1>4. Len(E) > 0 /\ Len(E) \in 0..Len(E) /\ \A i \in 1..Len(E) : i <= Len(E)
  BY <1>1, <1>3
<1>5. KeysRead(E, "register", Len(E)) = DOMAIN d.registers
  BY <1>1, <1>4, KeysListed
<1>6. PartRegisters(d, E, Len(E)) = d.registers
  BY <1>2, <1>5 DEF PartRegisters
<1> QED
  BY <1>4, <1>6 DEF PartArchitecture

OperationsAreBytes(d) ==
    \A id \in DOMAIN d.register_operations :
        AsByte(d.register_operations[id]) = d.register_operations[id]

\* All elements make the description, if its operators fit a byte.
LEMMA PartOfAll ==
    ASSUME NEW d \in Description, NEW E, ElementsOf(E, d), OperationsAreBytes(d)
    PROVE  Part(d, E, Len(E)) = d
<1>1. Len(E) \in Nat /\ 2 + Len(d.memory_regions) <= Len(E)
      /\ Lists(E, "register", d.registers)
      /\ Lists(E, "operation", d.register_operations) /\ Lists(E, "static", d.static_registers)
  BY DEF ElementsOf
<1>2. /\ d.memory_regions \in Seq([start : Nat, size : Nat])
      /\ d.registers = [k \in DOMAIN d.registers |-> d.registers[k]]
      /\ d.register_operations = [k \in DOMAIN d.register_operations |-> d.register_operations[k]]
      /\ d.static_registers = [k \in DOMAIN d.static_registers |-> d.static_registers[k]]
      /\ d = [architecture |-> d.architecture,
              physical_address_size |-> d.physical_address_size,
              memory_regions |-> d.memory_regions, registers |-> d.registers,
              register_operations |-> d.register_operations,
              static_registers |-> d.static_registers]
  BY DescriptionAssumption
<1>3. /\ KeysRead(E, "register", Len(E)) = DOMAIN d.registers
      /\ KeysRead(E, "operation", Len(E)) = DOMAIN d.register_operations
      /\ KeysRead(E, "static", Len(E)) = DOMAIN d.static_registers
  <2>1. Len(E) \in 0..Len(E) /\ \A i \in 1..Len(E) : i <= Len(E)
    BY <1>1
  <2> QED
    BY <1>1, <2>1, KeysListed
<1>4. PartRegisters(d, E, Len(E)) = d.registers
  BY PartOfAllGiven
<1>5. PartOperations(d, E, Len(E)) = d.register_operations
  BY <1>2, <1>3 DEF PartOperations, OperationsAreBytes
<1>6. PartStatics(d, E, Len(E)) = d.static_registers
  BY <1>2, <1>3 DEF PartStatics
<1>7. Len(d.memory_regions) \in Nat
  BY <1>2
<1>8. RegionsRead(d, Len(E)) = Len(d.memory_regions)
  BY <1>1, <1>7 DEF RegionsRead
<1>9. PartRegions(d, Len(E)) = d.memory_regions
  BY <1>2, <1>8 DEF PartRegions
<1>10. /\ PartArchitecture(d, Len(E)) = d.architecture
       /\ PartSize(d, Len(E)) = d.physical_address_size
  BY <1>1, <1>7 DEF PartArchitecture, PartSize
<1> QED
  BY <1>2, <1>4, <1>5, <1>6, <1>9, <1>10, Zenon DEF Part

-----------------------------------------------------------------------------
(***************************************************************************)
(* The reader                                                              *)
(***************************************************************************)

\* The operations of a result have their registers, and ids of their own.
OperationsSound(r) ==
    \A id \in DOMAIN r.register_operations :
        /\ id \in 0..(Escape - 1) /\ id \notin DOMAIN r.registers
        /\ r.register_operations[id].register_id \in DOMAIN r.registers
        /\ r.register_operations[id].size
               = r.registers[r.register_operations[id].register_id].size

IsDescription(r) ==
    r = [architecture |-> r.architecture, physical_address_size |-> r.physical_address_size,
         memory_regions |-> r.memory_regions, registers |-> r.registers,
         register_operations |-> r.register_operations, static_registers |-> r.static_registers]

\* What holds of the result of reading p elements of whatever section: once
\* an operation has been read there are no more registers to come.
Sound(r, s, p) ==
    /\ IsDescription(r)
    /\ p > 0 => r.architecture \in Archi
    /\ p > 1 => r.physical_address_size \in 1..PhyMax
    /\ NamesDistinct(r) /\ OperatorsKnown(r) /\ OperationsSound(r)
    /\ DOMAIN r.register_operations # {} => \E i \in 1..p : s[i][1] = "operation"

ReadUpTo(p) ==
    /\ to_read = Rest(elements, p)
    /\ Sound(result, elements, p)
    /\ writer = "done" => result = Part(data, Elements(data), p)
    /\ reader = "done" => p = Len(elements)

ReaderInv ==
    /\ reader \in {"closed", "reading", "done", "malformed", "misread"}
    /\ writer = "writing" => reader = "closed"
    /\ writer = "refused" => reader \in {"closed", "malformed"}
    /\ reader = "closed" => result = Blank
    /\ reader \in {"reading", "done"} => \E p \in 0..Len(elements) : ReadUpTo(p)
    /\ writer = "done" => reader # "misread"
    /\ writer = "done" /\ NamesDistinct(data) /\ OperatorsKnown(data) /\ data.architecture \in Archi
           => reader # "malformed"

\* Nothing read is sound.
LEMMA BlankSound ==
    ASSUME NEW s
    PROVE  Sound(Blank, s, 0)
<1>1. DOMAIN Blank.registers = {} /\ DOMAIN Blank.register_operations = {}
  BY DEF Blank
<1>2. NamesDistinct(Blank) /\ OperatorsKnown(Blank) /\ OperationsSound(Blank)
  BY <1>1 DEF NamesDistinct, OperatorsKnown, OperationsSound
<1>3. IsDescription(Blank)
  BY DEF Blank, IsDescription
<1> QED
  BY <1>1, <1>2, <1>3 DEF Sound

\* Each element taken keeps the result sound.
LEMMA ArchitectureSound ==
    ASSUME NEW r, NEW s, NEW p \in Nat, p # 1, NEW v \in Archi, Sound(r, s, p)
    PROVE  Sound([r EXCEPT !.architecture = v], s, p + 1)
<1>1. PICK q : q = [r EXCEPT !.architecture = v]
  OBVIOUS
<1>2. IsDescription(r)
  BY DEF Sound
<1>3. /\ IsDescription(q) /\ q.physical_address_size = r.physical_address_size
      /\ q.architecture = v
      /\ q.registers = r.registers /\ q.register_operations = r.register_operations
  BY <1>1, <1>2 DEF IsDescription
<1>4. NamesDistinct(q) /\ OperatorsKnown(q) /\ OperationsSound(q)
  BY <1>3 DEF Sound, NamesDistinct, OperatorsKnown, OperationsSound
<1>5. DOMAIN q.register_operations # {} => \E i \in 1..(p + 1) : s[i][1] = "operation"
  BY <1>3 DEF Sound
<1>6. Sound(q, s, p + 1)
  BY <1>3, <1>4, <1>5 DEF Sound
<1> QED
  BY <1>1, <1>6

\* What has been read stays sound when a size that is checked is put in,
LEMMA SizeSound ==
    ASSUME NEW r, NEW s, NEW p \in Nat \ {0}, NEW v \in 1..PhyMax, Sound(r, s, p)
    PROVE  Sound([r EXCEPT !.physical_address_size = v], s, p + 1)
<1>1. PICK q : q = [r EXCEPT !.physical_address_size = v]
  OBVIOUS
<1>2. IsDescription(r)
  BY DEF Sound
<1>3. /\ IsDescription(q) /\ q.physical_address_size = v
      /\ q.architecture = r.architecture
      /\ q.registers = r.registers /\ q.register_operations = r.register_operations
  BY <1>1, <1>2 DEF IsDescription
<1>4. NamesDistinct(q) /\ OperatorsKnown(q) /\ OperationsSound(q)
  BY <1>3 DEF Sound, NamesDistinct, OperatorsKnown, OperationsSound
<1>5. DOMAIN q.register_operations # {} => \E i \in 1..(p + 1) : s[i][1] = "operation"
  BY <1>3 DEF Sound
<1>6. Sound(q, s, p + 1)
  BY <1>3, <1>4, <1>5 DEF Sound
<1> QED
  BY <1>1, <1>6

\* Regions and static registers are nothing Sound is about.
LEMMA RegionSound ==
    ASSUME NEW r, NEW s, NEW p \in Nat, p > 1, NEW v, Sound(r, s, p)
    PROVE  /\ Sound([r EXCEPT !.memory_regions = v], s, p + 1)
           /\ Sound([r EXCEPT !.static_registers = v], s, p + 1)
<1>1. ASSUME NEW q, q = [r EXCEPT !.memory_regions = v] \/ q = [r EXCEPT !.static_registers = v]
      PROVE  Sound(q, s, p + 1)
  <2>1. IsDescription(r)
    BY DEF Sound
  <2>2. /\ IsDescription(q) /\ q.physical_address_size = r.physical_address_size
        /\ q.architecture = r.architecture
        /\ q.registers = r.registers /\ q.register_operations = r.register_operations
    BY <1>1, <2>1 DEF IsDescription
  <2>3. NamesDistinct(q) /\ OperatorsKnown(q) /\ OperationsSound(q)
    BY <2>2 DEF Sound, NamesDistinct, OperatorsKnown, OperationsSound
  <2>4. DOMAIN q.register_operations # {} => \E i \in 1..(p + 1) : s[i][1] = "operation"
    BY <2>2 DEF Sound
  <2> QED
    BY <2>2, <2>3, <2>4 DEF Sound
<1> QED
  BY <1>1

\* a register of a new id and a new name, no operation being read,
LEMMA RegisterSound ==
    ASSUME NEW r, NEW s, NEW p \in Nat, p > 1, NEW k, NEW v, Sound(r, s, p),
           \A i \in 1..p : s[i][1] # "operation",
           k \notin DOMAIN r.registers,
           \A id \in DOMAIN r.registers : r.registers[id].name # v.name
    PROVE  Sound([r EXCEPT !.registers = With(@, k, v)], s, p + 1)
<1>1. PICK w : w = With(r.registers, k, v)
  OBVIOUS
<1>2. PICK q : q = [r EXCEPT !.registers = w]
  OBVIOUS
<1>3. IsDescription(r)
  BY DEF Sound
<1>4. /\ IsDescription(q) /\ q.physical_address_size = r.physical_address_size
      /\ q.architecture = r.architecture
      /\ q.registers = w /\ q.register_operations = r.register_operations
  BY <1>2, <1>3 DEF IsDescription
<1>5. DOMAIN r.register_operations = {}
  BY DEF Sound
<1>6. OperatorsKnown(q) /\ OperationsSound(q)
  BY <1>4, <1>5 DEF OperatorsKnown, OperationsSound
<1>7. DOMAIN w = DOMAIN r.registers \union {k} /\ w[k] = v
      /\ \A i \in DOMAIN r.registers : i # k => w[i] = r.registers[i]
  BY <1>1 DEF With
<1>8. ASSUME NEW i \in DOMAIN w, NEW j \in DOMAIN w, w[i].name = w[j].name PROVE i = j
  <2>1. CASE i \in DOMAIN r.registers /\ j \in DOMAIN r.registers
    BY <1>7, <1>8, <2>1 DEF Sound, NamesDistinct
  <2>2. CASE i = k /\ j \in DOMAIN r.registers
    BY <1>7, <1>8, <2>2
  <2>3. CASE j = k /\ i \in DOMAIN r.registers
    BY <1>7, <1>8, <2>3
  <2> QED
    BY <1>7, <2>1, <2>2, <2>3
<1>9. NamesDistinct(q)
  BY <1>4, <1>8 DEF NamesDistinct
<1>10. Sound(q, s, p + 1)
  BY <1>4, <1>5, <1>6, <1>9 DEF Sound
<1> QED
  BY <1>1, <1>2, <1>10

\* and an operation of a new id on a register of its size.
LEMMA OperationSound ==
    ASSUME NEW r, NEW s, NEW p \in Nat, p > 1, NEW k \in 0..(Escape - 1), NEW v, Sound(r, s, p),
           s[p + 1][1] = "operation",
           k \notin DOMAIN r.register_operations, k \notin DOMAIN r.registers,
           v.register_id \in DOMAIN r.registers, v.operation < RegisterOperatorMax,
           v.size = r.registers[v.register_id].size
    PROVE  Sound([r EXCEPT !.register_operations = With(@, k, v)], s, p + 1)
<1>1. PICK w : w = With(r.register_operations, k, v)
  OBVIOUS
<1>2. PICK q : q = [r EXCEPT !.register_operations = w]
  OBVIOUS
<1>3. IsDescription(r)
  BY DEF Sound
<1>4. /\ IsDescription(q) /\ q.physical_address_size = r.physical_address_size
      /\ q.architecture = r.architecture
      /\ q.registers = r.registers /\ q.register_operations = w
  BY <1>2, <1>3 DEF IsDescription
<1>5. DOMAIN w = DOMAIN r.register_operations \union {k} /\ w[k] = v
      /\ \A i \in DOMAIN r.register_operations : i # k => w[i] = r.register_operations[i]
  BY <1>1 DEF With
<1>6. NamesDistinct(q)
  BY <1>4 DEF Sound, NamesDistinct
<1>7. OperatorsKnown(q)
  BY <1>4, <1>5 DEF Sound, OperatorsKnown
<1>8. OperationsSound(q)
  BY <1>4, <1>5 DEF Sound, OperationsSound
<1>9. \E i \in 1..(p + 1) : s[i][1] = "operation"
  <2>1. p + 1 \in 1..(p + 1)
    OBVIOUS
  <2> QED
    BY <2>1
<1>10. Sound(q, s, p + 1)
  BY <1>4, <1>6, <1>7, <1>8, <1>9 DEF Sound
<1> QED
  BY <1>1, <1>2, <1>10

\* Written keeps the kind and the key of an element.
LEMMA WrittenNamed ==
    \A e : /\ Written(e[1], e[2], e[3])[1] = e[1]
          /\ Written(e[1], e[2], e[3])[2] = e[2]
<1> TAKE e
<1>1. PICK kind, key, value : kind = e[1] /\ key = e[2] /\ value = e[3]
  OBVIOUS
<1>2. \E w : Written(kind, key, value) = <<kind, key, w>>
  <2>1. CASE kind = "architecture" /\ value \notin Archi
    BY <2>1 DEF Written
  <2>2. CASE kind = "operation"
    BY <2>2 DEF Written
  <2>3. CASE kind # "operation" /\ ~(kind = "architecture" /\ value \notin Archi)
    BY <2>3 DEF Written
  <2> QED
    BY <2>1, <2>2, <2>3
<1>3. PICK w : Written(kind, key, value) = <<kind, key, w>>
  BY <1>2
<1>4. Written(kind, key, value)[1] = kind /\ Written(kind, key, value)[2] = key
  BY <1>3, Members
<1> QED
  BY <1>1, <1>4

\* A section the reader opens has the elements of a section in their order.
LEMMA OpenedIsSection ==
    ASSUME WriterInv, writer \in {"done", "foreign"}
    PROVE  /\ IsSection(elements) /\ IsSequence(elements)
           /\ writer = "done" =>
                 /\ data \in Description
                 /\ Len(elements) = Len(Elements(data))
                 /\ elements = Image(Elements(data), Len(Elements(data)))
                 /\ \A i \in 1..Len(Elements(data)) : IsAccepted(Elements(data)[i])
<1>1. CASE writer = "foreign"
  <2>1. IsSection(elements)
    BY <1>1 DEF WriterInv
  <2>2. IsSequence(elements)
    <3>1. PICK X : X = {elements[i] : i \in DOMAIN elements}
      OBVIOUS
    <3>2. elements \in Seq(X)
      BY <2>1, <3>1 DEF IsSection
    <3>3. DOMAIN elements = 1..Len(elements) /\ Len(elements) \in Nat
      BY <3>2
    <3>4. elements \in Seq({elements[i] : i \in 1..Len(elements)})
      BY <3>1, <3>2, <3>3
    <3> QED
      BY <3>3, <3>4 DEF IsSequence
  <2> QED
    BY <1>1, <2>1, <2>2
<1>2. CASE writer = "done"
  <2>1. data \in Description
    BY <1>2 DEF WriterInv
  <2>2. PICK E : E = Elements(data)
    OBVIOUS
  <2>3. ElementsOf(E, data) /\ Len(E) \in Nat /\ Len(E) > 1
    <3>1. Len(data.memory_regions) \in Nat
      BY <2>1, DescriptionAssumption
    <3>2. ElementsOf(E, data)
      BY <2>1, <2>2, ElementsLaidOut
    <3>3. 2 + Len(data.memory_regions) <= Len(E) /\ Len(E) \in Nat
      BY <3>2, Zenon DEF ElementsOf
    <3> QED
      BY <3>1, <3>2, <3>3
  <2>4. elements = Image(E, Len(E)) /\ \A i \in 1..Len(E) : IsAccepted(E[i])
    BY <1>2, <2>2 DEF WriterInv, WrittenUpTo
  <2>5. PICK n \in Nat : n = Len(E)
    BY <2>3
  <2>6. \A i \in 1..n : elements[i] = Written(E[i][1], E[i][2], E[i][3])
    BY <2>4, <2>5 DEF Image
  <2>7. DOMAIN elements = 1..n /\ Len(elements) = n
        /\ elements \in Seq({elements[i] : i \in 1..n})
    BY <2>4, <2>5 DEF Image
  <2>8. \A i \in 1..n : elements[i][1] = E[i][1] /\ elements[i][2] = E[i][2]
    BY <2>6, WrittenNamed
  <2>9. elements[1][1] = "architecture" /\ elements[2][1] = "size"
    BY <2>3, <2>5, <2>8 DEF ElementsOf
  <2>10. ASSUME NEW i \in 1..n, elements[i][1] = "operation"
         PROVE  /\ elements[i][2] \in 0..Escape
                /\ \A j \in 1..n : elements[j][1] = "register" => j < i
    <3>1. IsAccepted(E[i]) /\ E[i][1] = "operation"
      BY <2>4, <2>5, <2>8, <2>10
    <3>2. E[i][2] < Escape
      BY <3>1 DEF IsAccepted, Accepted, OperationAccepted
    <3>3. E[i][2] \in DOMAIN data.register_operations
      BY <2>3, <2>5, <3>1 DEF ElementsOf, Lists
    <3>4. E[i][2] \in Nat
      BY <2>1, <3>3, DescriptionAssumption
    <3>5. Escape \in Int
      BY WidthAssumption DEF Escape
    <3>6. \A j \in 1..n : E[j][1] = "register" => j < i
      BY <2>3, <2>5, <3>1 DEF ElementsOf
    <3> QED
      BY <2>8, <3>2, <3>4, <3>5, <3>6
  <2>11. IsSection(elements)
    BY <2>3, <2>5, <2>7, <2>9, <2>10 DEF IsSection
  <2>12. IsSequence(elements)
    BY <2>5, <2>7 DEF IsSequence
  <2> QED
    BY <1>2, <2>1, <2>2, <2>4, <2>5, <2>7, <2>11, <2>12
<1> QED
  BY <1>1, <1>2

\* Where a reader stands that has an element to read.
Standing(p) ==
    /\ p \in Nat /\ p < Len(elements) /\ Len(elements) \in Nat
    /\ to_read # <<>> /\ Head(to_read) = elements[p + 1]
    /\ Tail(to_read) = Rest(elements, p + 1)
    /\ writer \in {"done", "foreign"} /\ reader = "reading"
    /\ Sound(result, elements, p)
    /\ writer = "done" => result = Part(data, Elements(data), p)

\* A reader that reads an element stands before it, having read all before.
LEMMA ReaderStands ==
    ASSUME WriterInv, ReaderInv, NEW kind, Reads(kind)
    PROVE  \E p \in Nat : Standing(p) /\ elements[p + 1][1] = kind
<1>1. reader = "reading" /\ to_read # <<>> /\ Head(to_read)[1] = kind
  BY DEF Reads
<1>2. writer \in {"done", "foreign"}
  BY <1>1 DEF ReaderInv, WriterInv
<1>3. IsSequence(elements)
  BY <1>2, OpenedIsSection
<1>4. PICK p \in 0..Len(elements) : ReadUpTo(p)
  BY <1>1 DEF ReaderInv
<1>5. p < Len(elements) /\ Head(to_read) = elements[p + 1] /\ Tail(to_read) = Rest(elements, p + 1)
  <2>1. to_read = Rest(elements, p) /\ Len(elements) \in Nat
    BY <1>3, <1>4 DEF ReadUpTo, IsSequence
  <2>2. Rest(elements, p) = <<>> <=> p = Len(elements)
    BY <1>3, RestSteps
  <2>3. p < Len(elements) => /\ Head(Rest(elements, p)) = elements[p + 1]
                             /\ Tail(Rest(elements, p)) = Rest(elements, p + 1)
    BY <1>3, RestSteps
  <2> QED
    BY <1>1, <2>1, <2>2, <2>3
<1>6. p \in Nat /\ Len(elements) \in Nat
  BY <1>3, <1>4 DEF IsSequence
<1> QED
  BY <1>1, <1>2, <1>4, <1>5, <1>6 DEF Standing, ReadUpTo

\* An element of a written section, where a reader stands.
LEMMA StandingAtWritten ==
    ASSUME WriterInv, NEW p \in Nat, Standing(p), writer = "done"
    PROVE  /\ data \in Description
           /\ ElementsOf(Elements(data), data)
           /\ p < Len(Elements(data)) /\ Len(Elements(data)) \in Nat
           /\ IsAccepted(Elements(data)[p + 1])
           /\ elements[p + 1] = Written(Elements(data)[p + 1][1], Elements(data)[p + 1][2],
                                        Elements(data)[p + 1][3])
           /\ elements[p + 1][1] = Elements(data)[p + 1][1]
           /\ elements[p + 1][2] = Elements(data)[p + 1][2]
<1>1. /\ data \in Description /\ Len(elements) = Len(Elements(data))
      /\ elements = Image(Elements(data), Len(Elements(data)))
      /\ \A i \in 1..Len(Elements(data)) : IsAccepted(Elements(data)[i])
  BY OpenedIsSection
<1>2. PICK E : E = Elements(data)
  OBVIOUS
<1>3. ElementsOf(E, data)
  BY <1>1, <1>2, ElementsLaidOut
<1>4. p + 1 \in 1..Len(E) /\ p < Len(E) /\ Len(E) \in Nat
  BY <1>1, <1>2 DEF Standing
<1>5. elements[p + 1] = Written(E[p + 1][1], E[p + 1][2], E[p + 1][3])
  BY <1>1, <1>2, <1>4 DEF Image
<1>6. elements[p + 1][1] = E[p + 1][1] /\ elements[p + 1][2] = E[p + 1][2]
  BY <1>5, WrittenNamed
<1> QED
  BY <1>1, <1>2, <1>3, <1>4, <1>5, <1>6

\* The reader goes on.
LEMMA TakenKeeps ==
    ASSUME WriterInv, ReaderInv, NEW p \in Nat, Standing(p), NEW taken, Take(TRUE, taken),
           Sound(taken, elements, p + 1),
           writer = "done" => taken = Part(data, Elements(data), p + 1)
    PROVE  ReaderInv'
<1>1. /\ result' = taken /\ reader' = "reading" /\ to_read' = Rest(elements, p + 1)
      /\ UNCHANGED <<data, to_write, elements, writer>>
  BY DEF Take, Standing, writerVars
<1>2. p + 1 \in 0..Len(elements)
  BY DEF Standing
<1>3. ReadUpTo(p + 1)'
  BY <1>1 DEF ReadUpTo
<1> QED
  BY <1>1, <1>2, <1>3 DEF ReaderInv, Standing

\* The reader throws: not at a section of a description without faults.
LEMMA RefusedKeeps ==
    ASSUME WriterInv, ReaderInv, NEW p \in Nat, Standing(p), NEW taken, Take(FALSE, taken),
           ~(writer = "done" /\ NamesDistinct(data) /\ OperatorsKnown(data)
             /\ data.architecture \in Archi)
    PROVE  ReaderInv'
<1>1. reader' = "malformed" /\ UNCHANGED <<data, to_write, elements, writer>>
  BY DEF Take, writerVars
<1> QED
  BY <1>1 DEF ReaderInv, Standing

\* The value an element is written with.
LEMMA WrittenValue ==
    ASSUME NEW e
    PROVE  /\ e[1] \notin {"architecture", "operation"} =>
                 Written(e[1], e[2], e[3])[3] = e[3]
           /\ e[1] = "architecture" /\ e[3] \in Archi => Written(e[1], e[2], e[3])[3] = e[3]
           /\ e[1] = "architecture" /\ e[3] \notin Archi =>
                 Written(e[1], e[2], e[3])[3] \notin Archi
           /\ e[1] = "operation" => Written(e[1], e[2], e[3])[3] = AsByte(e[3])
<1>1. PICK kind, key, value : kind = e[1] /\ key = e[2] /\ value = e[3]
  OBVIOUS
<1>2. /\ kind \notin {"architecture", "operation"} => Written(kind, key, value)[3] = value
      /\ kind = "architecture" /\ value \in Archi => Written(kind, key, value)[3] = value
      /\ kind = "architecture" /\ value \notin Archi => Written(kind, key, value)[3] \notin Archi
      /\ kind = "operation" =>
            Written(kind, key, value)[3] = [value EXCEPT !.operation = @ % ByteMod]
  BY WrittenKeeps
<1> QED
  BY <1>1, <1>2 DEF AsByte

\* Each of the reader's actions keeps its invariant.
LEMMA OpenKeeps ==
    ASSUME WriterInv, ReaderInv, Open PROVE ReaderInv'
<1>1. /\ reader = "closed" /\ writer \in {"done", "refused", "foreign"} /\ result' = Blank
      /\ UNCHANGED <<data, to_write, elements, writer>>
  BY DEF Open, ReaderInv, WriterInv, writerVars
<1>2. CASE writer = "refused"
  BY <1>1, <1>2 DEF Open, ReaderInv
<1>3. CASE writer # "refused"
  <2>1. reader' = "reading" /\ to_read' = elements
    BY <1>3 DEF Open
  <2>2. IsSequence(elements)
    BY <1>1, <1>3, OpenedIsSection
  <2>3. 0 \in 0..Len(elements) /\ Rest(elements, 0) = elements
    <3>1. 0 \in 0..Len(elements)
      BY <2>2 DEF IsSequence
    <3> QED
      BY <2>2, <3>1, RestSteps
  <2>4. Sound(Blank, elements, 0) /\ Part(data, Elements(data), 0) = Blank
    BY BlankSound, PartOfNothing
  <2>5. ReadUpTo(0)'
    BY <1>1, <2>1, <2>3, <2>4 DEF ReadUpTo
  <2> QED
    BY <1>1, <1>3, <2>1, <2>3, <2>5 DEF ReaderInv
<1> QED
  BY <1>2, <1>3

\* read_trace_machine_description keeps the invariant: the magic and architecture,
LEMMA ArchitectureKeeps ==
    ASSUME WriterInv, ReaderInv, ReadArchitecture PROVE ReaderInv'
<1>1. PICK p \in Nat : Standing(p) /\ elements[p + 1][1] = "architecture"
  BY ReaderStands DEF ReadArchitecture
<1>2. PICK v : v = elements[p + 1][3]
  OBVIOUS
<1>3. PICK taken : taken = [result EXCEPT !.architecture = v]
  OBVIOUS
<1>4. Read = v /\ Take(v \in Archi, taken)
  BY <1>1, <1>2, <1>3 DEF ReadArchitecture, Read, Standing
<1>5. p # 1
  BY <1>1, OpenedIsSection DEF Standing, IsSection
<1>6. v \in Archi => Sound(taken, elements, p + 1)
  BY <1>1, <1>3, <1>5, ArchitectureSound DEF Standing
<1>7. ASSUME writer = "done"
      PROVE  /\ data.architecture \in Archi => v \in Archi
             /\ v \in Archi => taken = Part(data, Elements(data), p + 1)
  <2>1. PICK E : E = Elements(data)
    OBVIOUS
  <2>2. /\ ElementsOf(E, data) /\ p < Len(E) /\ E[p + 1][1] = "architecture"
        /\ elements[p + 1] = Written(E[p + 1][1], E[p + 1][2], E[p + 1][3])
    BY <1>1, <1>7, <2>1, StandingAtWritten
  <2>3. PICK e : e = E[p + 1]
    OBVIOUS
  <2>4. e[3] = data.architecture
        /\ [Part(data, E, p) EXCEPT !.architecture = data.architecture] = Part(data, E, p + 1)
    BY <2>2, <2>3, PartArchitectureRead
  <2>5. v = Written(e[1], e[2], e[3])[3] /\ e[1] = "architecture"
    BY <1>2, <2>2, <2>3
  <2>6. /\ e[3] \in Archi => v = e[3]
        /\ e[3] \notin Archi => v \notin Archi
    BY <2>5, WrittenValue
  <2>7. result = Part(data, E, p)
    BY <1>1, <1>7, <2>1 DEF Standing
  <2> QED
    BY <1>3, <2>1, <2>4, <2>6, <2>7
<1>8. CASE v \in Archi
  <2>1. Take(TRUE, taken)
    BY <1>4, <1>8 DEF Take
  <2> QED
    BY <1>1, <1>6, <1>7, <1>8, <2>1, TakenKeeps
<1>9. CASE v \notin Archi
  <2>1. Take(FALSE, taken)
    BY <1>4, <1>9 DEF Take
  <2> QED
    BY <1>1, <1>7, <1>9, <2>1, RefusedKeeps
<1> QED
  BY <1>8, <1>9

\* the size of an address,
LEMMA SizeKeeps ==
    ASSUME WriterInv, ReaderInv, ReadPhysicalAddressSize PROVE ReaderInv'
<1>1. PICK p \in Nat : Standing(p) /\ elements[p + 1][1] = "size"
  BY ReaderStands DEF ReadPhysicalAddressSize
<1>2. PICK v : v = elements[p + 1][3]
  OBVIOUS
<1>3. PICK taken : taken = [result EXCEPT !.physical_address_size = v]
  OBVIOUS
<1>4. Take(v \in 1..PhyMax, taken)
  BY <1>1, <1>2, <1>3 DEF ReadPhysicalAddressSize, Read, Standing
<1>5. v \in 1..PhyMax => Sound(taken, elements, p + 1)
  <2>1. p # 0
    BY <1>1, OpenedIsSection DEF Standing, IsSection
  <2> QED
    BY <1>1, <1>3, <2>1, SizeSound DEF Standing
<1>6. ASSUME writer = "done"
      PROVE  v \in 1..PhyMax /\ taken = Part(data, Elements(data), p + 1)
  <2>1. PICK E : E = Elements(data)
    OBVIOUS
  <2>2. /\ ElementsOf(E, data) /\ p < Len(E) /\ E[p + 1][1] = "size" /\ IsAccepted(E[p + 1])
        /\ elements[p + 1] = Written(E[p + 1][1], E[p + 1][2], E[p + 1][3])
    BY <1>1, <1>6, <2>1, StandingAtWritten
  <2>3. PICK e : e = E[p + 1]
    OBVIOUS
  <2>4. e[3] = data.physical_address_size
        /\ [Part(data, E, p) EXCEPT !.physical_address_size = data.physical_address_size]
               = Part(data, E, p + 1)
    BY <2>2, <2>3, PartSizeRead
  <2>5. v = Written(e[1], e[2], e[3])[3] /\ e[1] = "size"
    BY <1>2, <2>2, <2>3
  <2>6. v = e[3]
    BY <2>5, WrittenValue
  <2>7. e[3] \in 1..PhyMax
    BY <2>2, <2>3, <2>5 DEF IsAccepted, Accepted
  <2>8. result = Part(data, E, p)
    BY <1>1, <1>6, <2>1 DEF Standing
  <2> QED
    BY <1>3, <2>1, <2>4, <2>6, <2>7, <2>8
<1>7. CASE v \in 1..PhyMax
  <2>1. Take(TRUE, taken)
    BY <1>4, <1>7 DEF Take
  <2> QED
    BY <1>1, <1>5, <1>6, <1>7, <2>1, TakenKeeps
<1>8. CASE v \notin 1..PhyMax
  <2>1. Take(FALSE, taken)
    BY <1>4, <1>8 DEF Take
  <2> QED
    BY <1>1, <1>6, <1>8, <2>1, RefusedKeeps
<1> QED
  BY <1>7, <1>8

\* a memory region,
LEMMA RegionKeeps ==
    ASSUME WriterInv, ReaderInv, ReadRegion PROVE ReaderInv'
<1>1. PICK p \in Nat : Standing(p) /\ elements[p + 1][1] = "region"
  BY ReaderStands DEF ReadRegion
<1>2. PICK v : v = elements[p + 1][3]
  OBVIOUS
<1>3. PICK regions : regions = Append(result.memory_regions, v)
  OBVIOUS
<1>4. PICK taken : taken = [result EXCEPT !.memory_regions = regions]
  OBVIOUS
<1>5. Take(TRUE, taken)
  BY <1>1, <1>2, <1>3, <1>4 DEF ReadRegion, Read, Standing
<1>6. p > 1
  BY <1>1, OpenedIsSection DEF Standing, IsSection
<1>7. Sound(taken, elements, p + 1)
  BY <1>1, <1>4, <1>6, RegionSound DEF Standing
<1>8. ASSUME writer = "done" PROVE taken = Part(data, Elements(data), p + 1)
  <2>1. PICK E : E = Elements(data)
    OBVIOUS
  <2>2. /\ data \in Description
        /\ ElementsOf(E, data) /\ p < Len(E) /\ E[p + 1][1] = "region"
        /\ elements[p + 1] = Written(E[p + 1][1], E[p + 1][2], E[p + 1][3])
    BY <1>1, <1>8, <2>1, StandingAtWritten
  <2>3. PICK e : e = E[p + 1]
    OBVIOUS
  <2>4. Len(data.memory_regions) \in Nat
    BY <2>2, DescriptionAssumption
  <2>5. [Part(data, E, p) EXCEPT !.memory_regions = Append(@, e[3])] = Part(data, E, p + 1)
    BY <2>2, <2>3, <2>4, PartRegionRead
  <2>6. v = Written(e[1], e[2], e[3])[3] /\ e[1] = "region"
    BY <1>2, <2>2, <2>3
  <2>7. v = e[3]
    BY <2>6, WrittenValue
  <2>8. result = Part(data, E, p)
    BY <1>1, <1>8, <2>1 DEF Standing
  <2> QED
    BY <1>3, <1>4, <2>1, <2>5, <2>7, <2>8
<1> QED
  BY <1>1, <1>5, <1>7, <1>8, TakenKeeps

\* a register,
LEMMA RegisterKeeps ==
    ASSUME WriterInv, ReaderInv, ReadRegister PROVE ReaderInv'
<1>1. PICK p \in Nat : Standing(p) /\ elements[p + 1][1] = "register"
  BY ReaderStands DEF ReadRegister
<1>2. PICK k, v : k = elements[p + 1][2] /\ v = elements[p + 1][3]
  OBVIOUS
<1>3. PICK registers : registers = With(result.registers, k, v)
  OBVIOUS
<1>4. PICK taken : taken = [result EXCEPT !.registers = registers]
  OBVIOUS
<1> DEFINE ok == /\ k \notin DOMAIN result.registers
                 /\ \A id \in DOMAIN result.registers : result.registers[id].name # v.name
<1>5. Take(ok, taken)
  BY <1>1, <1>2, <1>3, <1>4 DEF ReadRegister, Key, Read, Standing
<1>6. p > 1 /\ \A i \in 1..p : elements[i][1] # "operation"
  <2>1. IsSection(elements) /\ p + 1 \in 1..Len(elements)
    BY <1>1, OpenedIsSection DEF Standing
  <2>2. DOMAIN elements = 1..Len(elements)
    BY <2>1 DEF IsSection
  <2>3. p > 1
    BY <1>1, <2>1 DEF IsSection
  <2>4. \A i \in 1..p : i \in 1..Len(elements) /\ ~(p + 1 < i)
    BY <2>1
  <2> QED
    BY <1>1, <2>1, <2>2, <2>3, <2>4 DEF IsSection
<1>7. ok => Sound(taken, elements, p + 1)
  BY <1>1, <1>3, <1>4, <1>6, RegisterSound DEF Standing
<1>8. ASSUME writer = "done"
      PROVE  /\ NamesDistinct(data) => ok
             /\ taken = Part(data, Elements(data), p + 1)
  <2>1. PICK E : E = Elements(data)
    OBVIOUS
  <2>2. /\ ElementsOf(E, data) /\ p < Len(E) /\ E[p + 1][1] = "register"
        /\ elements[p + 1] = Written(E[p + 1][1], E[p + 1][2], E[p + 1][3])
        /\ elements[p + 1][2] = E[p + 1][2] /\ Len(E) \in Nat
    BY <1>1, <1>8, <2>1, StandingAtWritten
  <2>3. PICK e : e = E[p + 1]
    OBVIOUS
  <2>4. v = Written(e[1], e[2], e[3])[3] /\ e[1] = "register" /\ k = e[2]
    BY <1>2, <2>2, <2>3
  <2>5. v = e[3]
    BY <2>4, WrittenValue
  <2>6. /\ e[2] \in DOMAIN data.registers /\ e[2] \notin DOMAIN PartRegisters(data, E, p)
        /\ e[3] = data.registers[e[2]]
        /\ [Part(data, E, p) EXCEPT !.registers = With(@, e[2], e[3])] = Part(data, E, p + 1)
    BY <2>2, <2>3, PartRegisterRead
  <2>7. result = Part(data, E, p)
    BY <1>1, <1>8, <2>1 DEF Standing
  <2>8. result.registers = PartRegisters(data, E, p)
    BY <2>7 DEF Part
  <2>9. \A id \in DOMAIN result.registers :
           id \in DOMAIN data.registers /\ result.registers[id] = data.registers[id]
    <3>1. KeysRead(E, "register", p) \subseteq DOMAIN data.registers
      <4>1. Lists(E, "register", data.registers) /\ p \in 0..Len(E)
        BY <2>2 DEF ElementsOf
      <4> QED
        BY <2>2, <4>1, KeysListed
    <3> QED
      BY <2>8, <3>1 DEF PartRegisters
  <2>10. NamesDistinct(data) => ok
    BY <2>4, <2>5, <2>6, <2>8, <2>9 DEF NamesDistinct
  <2>11. taken = Part(data, E, p + 1)
    BY <1>3, <1>4, <2>4, <2>5, <2>6, <2>7
  <2> QED
    BY <2>1, <2>10, <2>11
<1> HIDE DEF ok
<1>9. CASE ok
  <2>1. Take(TRUE, taken)
    BY <1>5, <1>9 DEF Take
  <2> QED
    BY <1>1, <1>7, <1>8, <1>9, <2>1, TakenKeeps
<1>10. CASE ~ok
  <2>1. Take(FALSE, taken)
    BY <1>5, <1>10 DEF Take
  <2> QED
    BY <1>1, <1>8, <1>10, <2>1, RefusedKeeps
<1> QED
  BY <1>9, <1>10

\* a register operation,
LEMMA OperationKeeps ==
    ASSUME WriterInv, ReaderInv, ReadOperation PROVE ReaderInv'
<1>1. PICK p \in Nat : Standing(p) /\ elements[p + 1][1] = "operation"
  BY ReaderStands DEF ReadOperation
<1>2. PICK k, v : k = elements[p + 1][2] /\ v = elements[p + 1][3]
  OBVIOUS
<1>3. PICK operations : operations = With(result.register_operations, k, v)
  OBVIOUS
<1>4. PICK taken : taken = [result EXCEPT !.register_operations = operations]
  OBVIOUS
<1> DEFINE ok == OperationUsable(k, v)
           fits == v.size = result.registers[v.register_id].size
<1>5. Key = k /\ Read = v
  BY <1>1, <1>2 DEF Key, Read, Standing
<1>6. IF ok /\ ~fits THEN reader' = "misread" /\ UNCHANGED <<writerVars, to_read, result>>
      ELSE Take(ok, taken)
  BY <1>3, <1>4, <1>5 DEF ReadOperation
<1>7. p > 1 /\ k \in 0..Escape
  <2>1. IsSection(elements) /\ p + 1 \in 1..Len(elements)
    BY <1>1, OpenedIsSection DEF Standing
  <2>2. DOMAIN elements = 1..Len(elements)
    BY <2>1 DEF IsSection
  <2>3. p > 1
    BY <1>1, <2>1 DEF IsSection
  <2> QED
    BY <1>1, <1>2, <2>1, <2>2, <2>3 DEF IsSection
<1>8. ok /\ fits => Sound(taken, elements, p + 1)
  <2> SUFFICES ASSUME ok, fits PROVE Sound(taken, elements, p + 1)
    OBVIOUS
  <2>1. /\ k \notin DOMAIN result.register_operations /\ k \notin DOMAIN result.registers
        /\ k # Escape /\ v.register_id \in DOMAIN result.registers
        /\ v.operation < RegisterOperatorMax
    BY DEF OperationUsable
  <2>2. k \in 0..(Escape - 1)
    BY <1>7, <2>1, WidthAssumption DEF Escape
  <2>3. Sound(result, elements, p)
    BY <1>1 DEF Standing
  <2>4. Sound([result EXCEPT !.register_operations = With(@, k, v)], elements, p + 1)
    BY <1>1, <1>7, <2>1, <2>2, <2>3, OperationSound
  <2> QED
    BY <1>3, <1>4, <2>4
<1>9. ASSUME writer = "done"
      PROVE  /\ ok => fits
             /\ OperatorsKnown(data) => ok
             /\ taken = Part(data, Elements(data), p + 1)
  <2>1. PICK E : E = Elements(data)
    OBVIOUS
  <2>2. /\ data \in Description
        /\ ElementsOf(E, data) /\ p < Len(E) /\ E[p + 1][1] = "operation" /\ IsAccepted(E[p + 1])
        /\ elements[p + 1] = Written(E[p + 1][1], E[p + 1][2], E[p + 1][3])
        /\ elements[p + 1][2] = E[p + 1][2]
    BY <1>1, <1>9, <2>1, StandingAtWritten
  <2>3. PICK e : e = E[p + 1]
    OBVIOUS
  <2>4. v = Written(e[1], e[2], e[3])[3] /\ e[1] = "operation" /\ k = e[2]
    BY <1>2, <2>2, <2>3
  <2>5. v = AsByte(e[3])
    BY <2>4, WrittenValue
  <2>6. /\ e[2] \in DOMAIN data.register_operations
        /\ e[2] \notin DOMAIN PartOperations(data, E, p)
        /\ e[3] = data.register_operations[e[2]]
        /\ PartRegisters(data, E, p) = [i \in DOMAIN data.registers |-> data.registers[i]]
        /\ [Part(data, E, p) EXCEPT !.register_operations = With(@, e[2], AsByte(e[3]))]
               = Part(data, E, p + 1)
    BY <2>2, <2>3, PartOperationRead
  <2>7. result = Part(data, E, p)
    BY <1>1, <1>9, <2>1 DEF Standing
  <2>8. /\ result.registers = [i \in DOMAIN data.registers |-> data.registers[i]]
        /\ result.register_operations = PartOperations(data, E, p)
    BY <2>6, <2>7 DEF Part
  <2>9. /\ e[2] < Escape /\ e[2] \notin DOMAIN data.registers
        /\ e[3].register_id \in DOMAIN data.registers
        /\ e[3].size = data.registers[e[3].register_id].size
    BY <2>2, <2>3, <2>4 DEF IsAccepted, Accepted, OperationAccepted
  <2>10. e[3] \in [register_id : Nat, operation : Nat, size : Nat] /\ e[2] \in Nat
    BY <2>2, <2>6, DescriptionAssumption
  <2>11. /\ v.register_id = e[3].register_id /\ v.size = e[3].size
         /\ v.operation = e[3].operation % ByteMod
    BY <2>5, <2>10 DEF AsByte
  <2>12. fits
    BY <2>8, <2>9, <2>11
  <2>13. e[3].operation < RegisterOperatorMax => v.operation = e[3].operation
    BY <2>10, <2>11, WidthAssumption
  <2>14. OperatorsKnown(data) => ok
    <3>1. OperatorsKnown(data) => e[3].operation < RegisterOperatorMax
      BY <2>6 DEF OperatorsKnown
    <3>2. e[2] # Escape
      BY <2>9, <2>10, WidthAssumption DEF Escape
    <3> QED
      BY <2>4, <2>6, <2>8, <2>9, <2>11, <2>13, <3>1, <3>2 DEF OperationUsable
  <2>15. taken = Part(data, E, p + 1)
    BY <1>3, <1>4, <2>4, <2>5, <2>6, <2>7
  <2> QED
    BY <2>1, <2>12, <2>14, <2>15
<1> HIDE DEF ok, fits
<1>10. CASE ok /\ fits
  <2>1. Take(TRUE, taken)
    BY <1>6, <1>10 DEF Take
  <2> QED
    BY <1>1, <1>8, <1>9, <1>10, <2>1, TakenKeeps
<1>11. CASE ~ok
  <2>1. Take(FALSE, taken)
    BY <1>6, <1>11 DEF Take
  <2> QED
    BY <1>1, <1>9, <1>11, <2>1, RefusedKeeps
<1>12. CASE ok /\ ~fits
  <2>1. /\ reader' = "misread" /\ writer # "done" /\ writer \in {"done", "foreign"}
        /\ UNCHANGED <<data, to_write, elements, writer>>
    BY <1>1, <1>6, <1>9, <1>12 DEF Standing, writerVars
  <2> QED
    BY <2>1 DEF ReaderInv
<1> QED
  BY <1>10, <1>11, <1>12

\* a static register,
LEMMA StaticKeeps ==
    ASSUME WriterInv, ReaderInv, ReadStatic PROVE ReaderInv'
<1>1. PICK p \in Nat : Standing(p) /\ elements[p + 1][1] = "static"
  BY ReaderStands DEF ReadStatic
<1>2. PICK k, v : k = elements[p + 1][2] /\ v = elements[p + 1][3]
  OBVIOUS
<1>3. PICK statics : statics = With(result.static_registers, k, v)
  OBVIOUS
<1>4. PICK taken : taken = [result EXCEPT !.static_registers = statics]
  OBVIOUS
<1>5. Take(k \notin DOMAIN result.static_registers, taken)
  BY <1>1, <1>2, <1>3, <1>4 DEF ReadStatic, Key, Read, Standing
<1>6. p > 1
  BY <1>1, OpenedIsSection DEF Standing, IsSection
<1>7. Sound(taken, elements, p + 1)
  BY <1>1, <1>4, <1>6, RegionSound DEF Standing
<1>8. ASSUME writer = "done"
      PROVE  /\ k \notin DOMAIN result.static_registers
             /\ taken = Part(data, Elements(data), p + 1)
  <2>1. PICK E : E = Elements(data)
    OBVIOUS
  <2>2. /\ ElementsOf(E, data) /\ p < Len(E) /\ E[p + 1][1] = "static"
        /\ elements[p + 1] = Written(E[p + 1][1], E[p + 1][2], E[p + 1][3])
        /\ elements[p + 1][2] = E[p + 1][2]
    BY <1>1, <1>8, <2>1, StandingAtWritten
  <2>3. PICK e : e = E[p + 1]
    OBVIOUS
  <2>4. v = Written(e[1], e[2], e[3])[3] /\ e[1] = "static" /\ k = e[2]
    BY <1>2, <2>2, <2>3
  <2>5. v = e[3]
    BY <2>4, WrittenValue
  <2>6. /\ e[2] \notin DOMAIN PartStatics(data, E, p)
        /\ [Part(data, E, p) EXCEPT !.static_registers = With(@, e[2], e[3])] = Part(data, E, p + 1)
    BY <2>2, <2>3, PartStaticRead
  <2>7. result = Part(data, E, p)
    BY <1>1, <1>8, <2>1 DEF Standing
  <2>8. result.static_registers = PartStatics(data, E, p)
    BY <2>7 DEF Part
  <2> QED
    BY <1>3, <1>4, <2>1, <2>4, <2>5, <2>6, <2>7, <2>8
<1>9. CASE k \notin DOMAIN result.static_registers
  <2>1. Take(TRUE, taken)
    BY <1>5, <1>9 DEF Take
  <2> QED
    BY <1>1, <1>7, <1>8, <1>9, <2>1, TakenKeeps
<1>10. CASE k \in DOMAIN result.static_registers
  <2>1. Take(FALSE, taken)
    BY <1>5, <1>10 DEF Take
  <2> QED
    BY <1>1, <1>8, <1>10, <2>1, RefusedKeeps
<1> QED
  BY <1>9, <1>10

\* and the jump to the end of the section.
LEMMA SeekKeeps ==
    ASSUME WriterInv, ReaderInv, SeekToEnd PROVE ReaderInv'
<1>1. /\ reader = "reading" /\ to_read = <<>> /\ reader' = "done"
      /\ UNCHANGED <<data, to_write, elements, writer, to_read, result>>
  BY DEF SeekToEnd, writerVars
<1>2. writer \in {"done", "foreign"}
  BY <1>1 DEF ReaderInv, WriterInv
<1>3. IsSequence(elements)
  BY <1>2, OpenedIsSection
<1>4. PICK p \in 0..Len(elements) : ReadUpTo(p)
  BY <1>1 DEF ReaderInv
<1>5. Rest(elements, p) = <<>> <=> p = Len(elements)
  BY <1>3, RestSteps
<1>6. p = Len(elements)
  BY <1>1, <1>4, <1>5 DEF ReadUpTo
<1>7. ReadUpTo(p)'
  BY <1>1, <1>4, <1>6 DEF ReadUpTo
<1> QED
  BY <1>1, <1>2, <1>7 DEF ReaderInv

\* Every step of the reader keeps the invariant.
LEMMA ReaderSteps ==
    WriterInv /\ ReaderInv /\ [Next]_vars => ReaderInv'
<1> SUFFICES ASSUME WriterInv, ReaderInv, [Next]_vars PROVE ReaderInv'
  OBVIOUS
<1>1. CASE WriteElement \/ Refuse \/ Finalize
  <2>1. /\ reader = "closed" /\ result = Blank /\ reader' = reader /\ result' = result
    BY <1>1 DEF WriteElement, Refuse, Finalize, ReaderInv, readerVars
  <2> QED
    BY <2>1 DEF ReaderInv
<1>2. CASE UNCHANGED vars
  BY <1>2 DEF vars, writerVars, readerVars, ReaderInv, ReadUpTo
<1> QED
  BY <1>1, <1>2, OpenKeeps, ArchitectureKeeps, SizeKeeps, RegionKeeps, RegisterKeeps,
     OperationKeeps, StaticKeeps, SeekKeeps DEF Next

-----------------------------------------------------------------------------
(***************************************************************************)
(* The theorems                                                            *)
(***************************************************************************)

\* The invariant holds of every behaviour.
THEOREM Invariance ==
    Spec => [](WriterInv /\ ReaderInv)
<1>1. Init => WriterInv /\ ReaderInv
  BY WriterInitially DEF Init, ReaderInv
<1>2. (WriterInv /\ ReaderInv) /\ [Next]_vars => (WriterInv /\ ReaderInv)'
  BY WriterSteps, ReaderSteps
<1> QED
  BY <1>1, <1>2, PTL DEF Spec

\* A description the writer accepts comes back as it was given or not at all
\* (write_trace_machine_description, read_trace_machine_description): it is
\* never misread, refused for a name used twice, an unknown operator or an
\* unknown architecture only, and with such a name or architecture always.
THEOREM RoundTrip ==
    Spec => []DescriptionRoundTrips
<1>1. WriterInv /\ ReaderInv => DescriptionRoundTrips
  <2> SUFFICES ASSUME WriterInv, ReaderInv, writer = "done"
               PROVE  /\ reader # "misread"
                      /\ NamesDistinct(data) /\ OperatorsKnown(data)
                         /\ data.architecture \in Archi => reader # "malformed"
                      /\ reader = "done" =>
                            /\ NamesDistinct(data) /\ data.architecture \in Archi
                            /\ OperatorsKnown(data) => result = data
    BY DEF DescriptionRoundTrips
  <2>1. reader # "misread"
        /\ (NamesDistinct(data) /\ OperatorsKnown(data) /\ data.architecture \in Archi
            => reader # "malformed")
    BY DEF ReaderInv
  <2>2. ASSUME OperatorsKnown(data), reader = "done" PROVE result = data
    <3>1. PICK p \in 0..Len(elements) : ReadUpTo(p)
      BY <2>2 DEF ReaderInv
    <3>2. p = Len(elements) /\ result = Part(data, Elements(data), p)
      BY <2>2, <3>1 DEF ReadUpTo
    <3>3. data \in Description /\ Len(elements) = Len(Elements(data))
      BY OpenedIsSection
    <3>4. ElementsOf(Elements(data), data)
      BY <3>3, ElementsLaidOut
    <3>5. OperationsAreBytes(data)
      <4> SUFFICES ASSUME NEW id \in DOMAIN data.register_operations
                   PROVE  AsByte(data.register_operations[id]) = data.register_operations[id]
        BY DEF OperationsAreBytes
      <4>1. PICK o : o = data.register_operations[id]
        OBVIOUS
      <4>2. o \in [register_id : Nat, operation : Nat, size : Nat]
        BY <3>3, <4>1, DescriptionAssumption
      <4>3. o.operation < RegisterOperatorMax
        BY <2>2, <4>1 DEF OperatorsKnown
      <4>4. o.operation % ByteMod = o.operation
        BY <4>2, <4>3, WidthAssumption
      <4> QED
        BY <4>1, <4>2, <4>4 DEF AsByte
    <3>6. Part(data, Elements(data), Len(Elements(data))) = data
      BY <3>3, <3>4, <3>5, PartOfAll
    <3> QED
      BY <3>2, <3>3, <3>6
  <2>3. ASSUME reader = "done" PROVE NamesDistinct(data) /\ data.architecture \in Archi
    <3>1. PICK p \in 0..Len(elements) : ReadUpTo(p)
      BY <2>3 DEF ReaderInv
    <3>2. PICK E : E = Elements(data)
      OBVIOUS
    <3>3. /\ p = Len(elements) /\ result = Part(data, E, p)
          /\ Sound(result, elements, p)
      BY <2>3, <3>1, <3>2 DEF ReadUpTo
    <3>4. data \in Description /\ Len(elements) = Len(E) /\ ElementsOf(E, data)
      BY <3>2, OpenedIsSection, ElementsLaidOut
    <3>5. /\ PartRegisters(data, E, Len(E)) = data.registers
          /\ PartArchitecture(data, Len(E)) = data.architecture /\ Len(E) > 0
      BY <3>4, PartOfAllGiven
    <3>6. result.registers = data.registers /\ result.architecture = data.architecture
      BY <3>3, <3>4, <3>5 DEF Part
    <3> QED
      BY <3>3, <3>4, <3>5, <3>6 DEF Sound, NamesDistinct
  <2> QED
    BY <2>1, <2>2, <2>3
<1> QED
  BY <1>1, Invariance, PTL

\* A description that the writer accepts, or that the reader returns from
\* whatever section, is one the rest of the library can work with.
THEOREM EitherEndUsable ==
    Spec => []UsableOrRefused
<1>1. WriterInv /\ ReaderInv => UsableOrRefused
  <2> SUFFICES ASSUME WriterInv, ReaderInv PROVE UsableOrRefused
    OBVIOUS
  <2>1. ASSUME writer = "done" PROVE Usable(data)
    <3>1. PICK E : E = Elements(data)
      OBVIOUS
    <3>2. data \in Description /\ \A i \in 1..Len(E) : IsAccepted(E[i])
      BY <2>1, <3>1, OpenedIsSection
    <3>3. ElementsOf(E, data)
      BY <3>1, <3>2, ElementsLaidOut
    <3>4. Len(data.memory_regions) \in Nat /\ DOMAIN data.register_operations \subseteq Nat
      BY <3>2, DescriptionAssumption
    <3>5. 2 \in 1..Len(E)
      <4>1. 2 + Len(data.memory_regions) <= Len(E) /\ Len(E) \in Nat
        BY <3>3, Zenon DEF ElementsOf
      <4> QED
        BY <3>4, <4>1
    <3>6. data.physical_address_size \in 1..PhyMax
      <4>1. E[2] = <<"size", 0, data.physical_address_size>>
        BY <3>3, Zenon DEF ElementsOf
      <4>2. IsAccepted(E[2])
        BY <3>2, <3>5
      <4> QED
        BY <4>1, <4>2 DEF IsAccepted, Accepted
    <3>7. ASSUME NEW id \in DOMAIN data.register_operations
          PROVE  OperationAccepted(id, data.register_operations[id])
      <4>1. Lists(E, "operation", data.register_operations)
        BY <3>3, Zenon DEF ElementsOf
      <4>2. PICK i \in 1..Len(E) : E[i][1] = "operation" /\ E[i][2] = id
        BY <4>1 DEF Lists
      <4>3. E[i][3] = data.register_operations[id]
        BY <4>1, <4>2 DEF Lists
      <4>4. IsAccepted(E[i])
        BY <3>2
      <4> QED
        BY <4>2, <4>3, <4>4 DEF IsAccepted, Accepted
    <3>8. ASSUME NEW id \in DOMAIN data.register_operations
          PROVE  /\ id \in 0..(Escape - 1) /\ id \notin DOMAIN data.registers
                 /\ data.register_operations[id].register_id \in DOMAIN data.registers
                 /\ data.register_operations[id].size
                        = data.registers[data.register_operations[id].register_id].size
      <4>1. id < Escape /\ id \in Nat
        BY <3>4, <3>7 DEF OperationAccepted
      <4>2. id \in 0..(Escape - 1)
        BY <4>1, WidthAssumption DEF Escape
      <4> QED
        BY <3>7, <4>2 DEF OperationAccepted
    <3> QED
      BY <3>6, <3>8 DEF Usable
  <2>2. ASSUME reader = "done"
        PROVE  /\ writer # "refused"
               /\ Usable(result) /\ NamesDistinct(result) /\ OperatorsKnown(result)
    <3>1. writer \in {"done", "foreign"}
      BY <2>2 DEF ReaderInv, WriterInv
    <3>2. Len(elements) > 1
      BY <3>1, OpenedIsSection DEF IsSection
    <3>3. PICK p \in 0..Len(elements) : ReadUpTo(p)
      BY <2>2 DEF ReaderInv
    <3>4. p = Len(elements) /\ Sound(result, elements, p)
      BY <2>2, <3>3 DEF ReadUpTo
    <3>5. Usable(result)
      BY <3>2, <3>4 DEF Sound, OperationsSound, Usable
    <3> QED
      BY <3>1, <3>4, <3>5 DEF Sound
  <2> QED
    BY <2>1, <2>2 DEF UsableOrRefused
<1> QED
  BY <1>1, Invariance, PTL

=============================================================================
