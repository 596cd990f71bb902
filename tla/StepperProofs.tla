---------------------------- MODULE StepperProofs ----------------------------
(***************************************************************************)
(* What holds of the monitor and of the instant tape for every program,    *)
(* script and set of options, and every size of a byte.                    *)
(***************************************************************************)
EXTENDS StepperProps, SequenceTheorems, FiniteSetTheorems, WellFoundedInduction, TLAPS

-----------------------------------------------------------------------------
(***************************************************************************)
(* Induction and recursion over the naturals, in a form without operator   *)
(* parameters: a property is the set of the numbers that have it, and the  *)
(* step of a recursive function is a function.                             *)
(***************************************************************************)

\* A set of naturals has a least member.
LEMMA LeastOf ==
  ASSUME NEW T, T \subseteq Nat, T # {}
  PROVE  \E m \in T : \A k \in T : m <= k
<1>1. PICK m \in T : \A k \in T : <<k, m>> \notin OpToRel(<, Nat)
  BY WFMin, NatLessThanWellFounded, Zenon
<1>2. \A k \in T : ~(k < m)
  BY <1>1, Zenon DEF OpToRel
<1> QED BY <1>2

\* A set with 0 that is closed under + 1 is all of Nat.
LEMMA Induct ==
  ASSUME NEW S, S \subseteq Nat, 0 \in S, \A n \in Nat : n \in S => n + 1 \in S
  PROVE  S = Nat
<1>1. SUFFICES ASSUME Nat \ S # {} PROVE FALSE
  OBVIOUS
<1> DEFINE T == Nat \ S
<1>2. T \subseteq Nat /\ T # {}
  BY <1>1
<1>3. PICK m \in T : \A k \in T : m <= k
  <2> HIDE DEF T
  <2> QED BY <1>2, LeastOf
<1>4. m \in Nat \ S /\ m # 0 /\ m - 1 \in Nat
  BY <1>3
<1>5. m - 1 \in S
  BY <1>3, <1>4
<1>6. (m - 1) + 1 \in S
  BY <1>4, <1>5
<1> QED BY <1>4, <1>6

\* Up to a bound: what holds of 0 and goes from each number to the next.
LEMMA InductTo ==
  ASSUME NEW n \in Nat, NEW S, 0 \in S, \A k \in 1 .. n : k - 1 \in S => k \in S
  PROVE  0 .. n \subseteq S
<1> DEFINE T == {k \in Nat : k <= n => k \in S}
<1>1. 0 \in T
  OBVIOUS
<1>2. ASSUME NEW k \in Nat, k \in T PROVE k + 1 \in T
  <2>1. CASE k + 1 <= n
    <3>1. k + 1 \in 1 .. n /\ (k + 1) - 1 = k /\ k \in S
      BY <1>2, <2>1
    <3> QED BY <3>1
  <2>2. CASE ~(k + 1 <= n)
    BY <2>2
  <2> QED BY <2>1, <2>2
<1>3. T = Nat
  <2>1. T \subseteq Nat
    OBVIOUS
  <2> HIDE DEF T
  <2> QED BY <1>1, <1>2, <2>1, Induct
<1> QED BY <1>3

\* The functions with values in V that begin with a and go on by g.
Recursions(n, V, a, g) == {f \in [0 .. n -> V] : f[0] = a /\ \A k \in 1 .. n : f[k] = g[k][f[k - 1]]}

\* A function is defined by its value at 0 and a step from each value to the next.
LEMMA Recursive ==
  ASSUME NEW n \in Nat, NEW V, NEW a \in V, NEW g \in [1 .. n -> [V -> V]]
  PROVE  Recursions(n, V, a, g) # {}
<1> DEFINE Upto(m) == \E f \in [0 .. m -> V] : f[0] = a /\ \A k \in 1 .. m : f[k] = g[k][f[k - 1]]
           T == {m \in Nat : m <= n => Upto(m)}
<1>1. Upto(0)
  <2> DEFINE h == [k \in 0 .. 0 |-> a]
  <2>1. h \in [0 .. 0 -> V] /\ h[0] = a /\ \A k \in 1 .. 0 : h[k] = g[k][h[k - 1]]
    OBVIOUS
  <2> HIDE DEF h
  <2> QED BY <2>1
<1>2. ASSUME NEW m \in Nat, m + 1 <= n, Upto(m) PROVE Upto(m + 1)
  <2>1. PICK f \in [0 .. m -> V] : f[0] = a /\ \A k \in 1 .. m : f[k] = g[k][f[k - 1]]
    BY <1>2
  <2>2. m + 1 \in 1 .. n /\ f[m] \in V /\ g[m + 1] \in [V -> V]
    BY <1>2
  <2>3. g[m + 1][f[m]] \in V
    BY <2>2
  <2> DEFINE h == [k \in 0 .. m + 1 |-> IF k = m + 1 THEN g[m + 1][f[m]] ELSE f[k]]
  <2>4. h \in [0 .. m + 1 -> V] /\ h[0] = a
    BY <2>1, <2>3
  <2>5. ASSUME NEW k \in 1 .. m + 1 PROVE h[k] = g[k][h[k - 1]]
    <3>1. CASE k = m + 1
      <4>1. k - 1 = m /\ m \in 0 .. m + 1 /\ m # m + 1
        BY <3>1
      <4> QED BY <3>1, <4>1
    <3>2. CASE k # m + 1
      <4>1. k \in 1 .. m /\ k \in 0 .. m + 1 /\ k - 1 \in 0 .. m + 1 /\ k - 1 # m + 1
        BY <3>2
      <4> QED BY <2>1, <3>2, <4>1
    <3> QED BY <3>1, <3>2
  <2> QED BY <2>4, <2>5
<1>3. T = Nat
  <2>1. T \subseteq Nat /\ 0 \in T
    BY <1>1
  <2>2. ASSUME NEW m \in Nat, m \in T PROVE m + 1 \in T
    <3>1. CASE m + 1 <= n
      <4>1. m <= n /\ Upto(m)
        BY <2>2, <3>1
      <4>2. Upto(m + 1)
        BY <1>2, <3>1, <4>1
      <4> HIDE DEF Upto
      <4> QED BY <4>2
    <3>2. CASE ~(m + 1 <= n)
      BY <3>2
    <3> QED BY <3>1, <3>2
  <2> HIDE DEF T
  <2> QED BY <2>1, <2>2, Induct
<1>4. Upto(n)
  BY <1>3
<1> QED BY <1>4 DEF Recursions

-----------------------------------------------------------------------------
(* Bytes, words and addresses. *)

LEMMA Powers ==
  /\ Power[0] = 1 /\ \A i \in 1 .. BITS : Power[i] = 2 * Power[i - 1]
  /\ \A i \in 0 .. BITS : Power[i] \in Nat \ {0}
<1>1. BITS \in Nat /\ BITS > 0
  BY TrapAssumption
<1> DEFINE V == Nat \ {0}
           g == [k \in 1 .. BITS |-> [v \in V |-> 2 * v]]
<1>2. Recursions(BITS, V, 1, g) # {}
  <2>1. g \in [1 .. BITS -> [V -> V]] /\ 1 \in V
    OBVIOUS
  <2> HIDE DEF V, g
  <2> QED BY <1>1, <2>1, Recursive
<1>3. PICK f \in [0 .. BITS -> V] : f[0] = 1 /\ \A k \in 1 .. BITS : f[k] = g[k][f[k - 1]]
  BY <1>2 DEF Recursions
<1>4. f = [i \in 0 .. BITS |-> IF i = 0 THEN 1 ELSE 2 * f[i - 1]]
  <2>1. \A i \in 0 .. BITS : i # 0 => i \in 1 .. BITS /\ i - 1 \in 0 .. BITS
    BY <1>1
  <2>2. \A i \in 0 .. BITS : f[i] = IF i = 0 THEN 1 ELSE 2 * f[i - 1]
    BY <1>3, <2>1
  <2> QED BY <1>3, <2>2
<1>5. Power = [i \in 0 .. BITS |-> IF i = 0 THEN 1 ELSE 2 * Power[i - 1]]
  BY <1>4, Zenon DEF Power
<1>6. Power[0] = 1 /\ \A i \in 1 .. BITS : Power[i] = 2 * Power[i - 1]
  BY <1>1, <1>5
<1>7. 0 .. BITS \subseteq {i \in 0 .. BITS : Power[i] \in Nat \ {0}}
  <2> DEFINE S == {i \in 0 .. BITS : Power[i] \in Nat \ {0}}
  <2>1. 0 \in S /\ \A k \in 1 .. BITS : k - 1 \in S => k \in S
    BY <1>1, <1>6
  <2> HIDE DEF S
  <2>2. 0 .. BITS \subseteq S
    BY <1>1, <2>1, InductTo
  <2> QED BY <2>2 DEF S
<1> QED BY <1>6, <1>7

LEMMA Sizes ==
  /\ BASE \in Nat /\ BASE >= 2 /\ SIZE \in Nat /\ SIZE = BASE * BASE /\ SIZE >= 4
  /\ 0 \in Byte /\ 0 \in Address
<1>1. BITS \in 1 .. BITS /\ BITS - 1 \in 0 .. BITS /\ BITS \in 0 .. BITS
  BY TrapAssumption
<1>2. BASE \in Nat /\ BASE >= 2
  BY <1>1, Powers DEF BASE
<1>3. \A b \in Nat : b >= 2 => b * b \in Nat /\ b * b >= 4
  BY SMT
<1>4. SIZE = BASE * BASE
  BY DEF SIZE
<1>5. SIZE \in Nat /\ SIZE >= 4
  BY <1>2, <1>3, <1>4
<1> QED BY <1>2, <1>4, <1>5 DEF Byte, Address

LEMMA AddressNat == \A a \in Address : a \in Nat
BY Sizes DEF Address

LEMMA Wraps == \A x \in Int : Wrapped(x) \in Address
<1>1. \A x \in Int, n \in Nat : n > 0 => x % n \in 0 .. n - 1
  BY SMT
<1> QED BY <1>1, Sizes DEF Wrapped, Address

LEMMA Words == \A lo, hi \in Byte : Word(lo, hi) \in Address
<1> SUFFICES ASSUME NEW lo \in Byte, NEW hi \in Byte PROVE Word(lo, hi) \in Address
  OBVIOUS
<1>1. BASE \in Nat /\ BASE > 0 /\ lo \in Nat /\ hi \in Nat /\ lo <= BASE - 1 /\ hi <= BASE - 1
  BY Sizes DEF Byte
<1>2. BASE * hi \in Nat /\ BASE * hi <= BASE * (BASE - 1)
  BY <1>1, SMT
<1>3. BASE * (BASE - 1) = BASE * BASE - BASE
  BY <1>1, SMT
<1> QED BY <1>1, <1>2, <1>3, Sizes DEF Word, Address

LEMMA Halves == \A p \in Address : p % BASE \in Byte /\ p \div BASE \in Byte
<1> SUFFICES ASSUME NEW p \in Address PROVE p % BASE \in Byte /\ p \div BASE \in Byte
  OBVIOUS
<1>1. BASE \in Nat /\ BASE > 0 /\ p \in Nat /\ p < BASE * BASE
  BY Sizes DEF Address
<1>2. \A n, k \in Nat : k > 0 => n % k \in 0 .. k - 1
  BY SMT
<1>3. \A n, k \in Nat : k > 0 => n \div k \in Nat
  BY SMT
<1>4. \A n, k \in Nat : k > 0 /\ n < k * k => n \div k < k
  BY SMT
<1>5. p \div BASE \in Nat /\ p \div BASE < BASE
  BY <1>1, <1>3, <1>4
<1> QED BY <1>1, <1>2, <1>5 DEF Byte

LEMMA Bits == \A v \in Nat, i \in 0 .. BITS : Bit(v, i) \in 0 .. 1
<1> SUFFICES ASSUME NEW v \in Nat, NEW i \in 0 .. BITS PROVE Bit(v, i) \in 0 .. 1
  OBVIOUS
<1>1. Power[i] \in Nat /\ Power[i] > 0
  BY Powers
<1>2. \A n, k \in Nat : k > 0 => n \div k \in Nat
  BY SMT
<1>3. v \div Power[i] \in Nat
  BY <1>1, <1>2
<1> QED BY <1>3, SMT DEF Bit

\* The exclusive or of two bytes is a byte.
LEMMA Xors == \A v, w \in Byte : Xor(v, w) \in Byte
<1> SUFFICES ASSUME NEW v \in Byte, NEW w \in Byte PROVE Xor(v, w) \in Byte
  OBVIOUS
<1>1. BITS \in Nat /\ v \in Nat /\ w \in Nat
  BY TrapAssumption, Sizes DEF Byte
<1> DEFINE bit(i) == (Bit(v, i - 1) + Bit(w, i - 1)) % 2
           D == 0 .. BITS
           g == [k \in 1 .. BITS |-> [n \in Nat |-> n + Power[k - 1] * bit(k)]]
           x == CHOOSE x : x = [i \in D |-> IF i = 0 THEN 0 ELSE x[i - 1] + Power[i - 1] * bit(i)]
<1>2. \A k \in 1 .. BITS : bit(k) \in 0 .. 1 /\ k - 1 \in D /\ Power[k - 1] \in Nat
  <2> SUFFICES ASSUME NEW k \in 1 .. BITS PROVE bit(k) \in 0 .. 1 /\ k - 1 \in D /\ Power[k - 1] \in Nat
    OBVIOUS
  <2>1. k - 1 \in 0 .. BITS
    BY <1>1
  <2>2. Bit(v, k - 1) \in 0 .. 1 /\ Bit(w, k - 1) \in 0 .. 1
    BY <1>1, <2>1, Bits
  <2> QED BY <2>1, <2>2, Powers, SMT
<1>3. \A n \in Nat, k \in 1 .. BITS : n + Power[k - 1] * bit(k) \in Nat
  <2>1. \A n, p \in Nat, b \in 0 .. 1 : n + p * b \in Nat
    BY SMT
  <2> HIDE DEF bit
  <2> QED BY <1>2, <2>1
<1>4. \E f : f = [i \in D |-> IF i = 0 THEN 0 ELSE f[i - 1] + Power[i - 1] * bit(i)]
  <2>1. g \in [1 .. BITS -> [Nat -> Nat]]
    <3> HIDE DEF bit
    <3> QED BY <1>3
  <2>2. Recursions(BITS, Nat, 0, g) # {}
    <3> HIDE DEF g
    <3>1. 0 \in Nat
      OBVIOUS
    <3> QED BY <1>1, <2>1, <3>1, Recursive
  <2>3. PICK f \in [0 .. BITS -> Nat] : f[0] = 0 /\ \A k \in 1 .. BITS : f[k] = g[k][f[k - 1]]
    BY <2>2 DEF Recursions
  <2>4. \A i \in D : f[i] = IF i = 0 THEN 0 ELSE f[i - 1] + Power[i - 1] * bit(i)
    <3> HIDE DEF bit
    <3>1. \A i \in D : i # 0 => i \in 1 .. BITS /\ i - 1 \in D
      BY <1>1
    <3> QED BY <2>3, <3>1
  <2> HIDE DEF bit
  <2>5. f = [i \in D |-> IF i = 0 THEN 0 ELSE f[i - 1] + Power[i - 1] * bit(i)]
    BY <2>3, <2>4
  <2> QED BY <2>5, Zenon
<1>5. x = [i \in D |-> IF i = 0 THEN 0 ELSE x[i - 1] + Power[i - 1] * bit(i)]
  BY <1>4, Zenon
<1>6. Xor(v, w) = x[BITS]
  BY DEF Xor
<1> HIDE DEF x, bit
<1>7. x[0] = 0 /\ \A k \in 1 .. BITS : x[k] = x[k - 1] + Power[k - 1] * bit(k)
  BY <1>1, <1>5
<1>8. D \subseteq {k \in D : x[k] \in 0 .. Power[k] - 1}
  <2> DEFINE S == {k \in D : x[k] \in 0 .. Power[k] - 1}
  <2>1. 0 \in S
    BY <1>1, <1>7, Powers
  <2>2. ASSUME NEW k \in 1 .. BITS, k - 1 \in S PROVE k \in S
    <3>1. \A n, p \in Nat, b \in 0 .. 1 : n < p => n + p * b \in Nat /\ n + p * b < 2 * p
      BY SMT
    <3>2. Power[k] = 2 * Power[k - 1] /\ Power[k - 1] \in Nat /\ x[k - 1] \in Nat /\ x[k - 1] < Power[k - 1] /\ k \in D
      BY <1>2, <2>2, Powers
    <3>3. x[k] \in Nat /\ x[k] < 2 * Power[k - 1]
      BY <1>2, <1>7, <3>1, <3>2
    <3> QED BY <3>2, <3>3
  <2> HIDE DEF S, D
  <2>3. 0 .. BITS \subseteq S
    BY <1>1, <2>1, <2>2, InductTo
  <2> QED BY <2>3 DEF S, D
<1> QED BY <1>1, <1>6, <1>8 DEF Byte, BASE

LEMMA Parities == \A flag \in Byte, bytes \in Seq(Byte) : Parity(flag, bytes) \in Byte
<1> SUFFICES ASSUME NEW flag \in Byte, NEW bytes \in Seq(Byte) PROVE Parity(flag, bytes) \in Byte
  OBVIOUS
<1> DEFINE n == Len(bytes)
           g == [k \in 1 .. n |-> [v \in Byte |-> Xor(v, bytes[k])]]
           x == CHOOSE x : x = [k \in 0 .. n |-> IF k = 0 THEN flag ELSE Xor(x[k - 1], bytes[k])]
<1>1. n \in Nat /\ \A k \in 1 .. n : bytes[k] \in Byte
  BY ElementOfSeq, LenProperties
<1>2. \E f : f = [k \in 0 .. n |-> IF k = 0 THEN flag ELSE Xor(f[k - 1], bytes[k])]
  <2>1. g \in [1 .. n -> [Byte -> Byte]]
    BY <1>1, Xors
  <2>2. Recursions(n, Byte, flag, g) # {}
    <3> HIDE DEF n, g
    <3> QED BY <1>1, <2>1, Recursive
  <2>3. PICK f \in [0 .. n -> Byte] : f[0] = flag /\ \A k \in 1 .. n : f[k] = g[k][f[k - 1]]
    BY <2>2 DEF Recursions
  <2>4. \A k \in 0 .. n : k # 0 => k \in 1 .. n /\ k - 1 \in 0 .. n
    BY <1>1
  <2>5. \A k \in 0 .. n : f[k] = IF k = 0 THEN flag ELSE Xor(f[k - 1], bytes[k])
    BY <2>3, <2>4
  <2>6. f = [k \in 0 .. n |-> IF k = 0 THEN flag ELSE Xor(f[k - 1], bytes[k])]
    BY <2>3, <2>5
  <2> QED BY <2>6, Zenon
<1>3. x = [k \in 0 .. n |-> IF k = 0 THEN flag ELSE Xor(x[k - 1], bytes[k])]
  BY <1>2, Zenon
<1>4. Parity(flag, bytes) = x[n]
  BY DEF Parity
<1> HIDE DEF x
<1>5. x[0] = flag /\ \A k \in 1 .. n : x[k] = Xor(x[k - 1], bytes[k])
  BY <1>1, <1>3
<1> DEFINE S == {k \in 0 .. n : x[k] \in Byte}
<1>6. 0 \in S /\ \A k \in 1 .. n : k - 1 \in S => k \in S
  BY <1>1, <1>5, Xors
<1>7. 0 .. n \subseteq S
  <2> HIDE DEF S, n
  <2> QED BY <1>1, <1>6, InductTo
<1> QED BY <1>1, <1>4, <1>7

\* A .tap file is read block by block: one more block, if a whole one is left.
BlockLen(bytes, o) == Word(bytes[o], bytes[o + 1])
Whole(bytes, o) == o + 1 <= Len(bytes) /\ o + 1 + BlockLen(bytes, o) <= Len(bytes)
OneMore(bytes, r) ==
  IF ~Whole(bytes, r.at) THEN r
  ELSE [at |-> r.at + 2 + BlockLen(bytes, r.at),
        blocks |-> Append(r.blocks, SubSeq(bytes, r.at + 2, r.at + 1 + BlockLen(bytes, r.at)))]
Progress == [at : Nat \ {0}, blocks : Seq(Seq(Byte))]

LEMMA OneMoreTyped == \A bytes \in Seq(Byte), r \in Progress : OneMore(bytes, r) \in Progress
<1> SUFFICES ASSUME NEW bytes \in Seq(Byte), NEW r \in Progress PROVE OneMore(bytes, r) \in Progress
  OBVIOUS
<1> SUFFICES ASSUME Whole(bytes, r.at) PROVE OneMore(bytes, r) \in Progress
  <2>1. ~Whole(bytes, r.at) => OneMore(bytes, r) = r
    BY DEF OneMore
  <2> QED BY <2>1
<1>1. r.at \in Nat \ {0} /\ r.blocks \in Seq(Seq(Byte)) /\ Len(bytes) \in Nat
  BY LenProperties DEF Progress
<1>2. bytes[r.at] \in Byte /\ bytes[r.at + 1] \in Byte
  <2>1. r.at \in 1 .. Len(bytes) /\ r.at + 1 \in 1 .. Len(bytes)
    BY <1>1 DEF Whole
  <2> QED BY <2>1, ElementOfSeq
<1>3. BlockLen(bytes, r.at) \in Nat
  <2>1. Word(bytes[r.at], bytes[r.at + 1]) \in Address
    BY <1>2, Words
  <2> QED BY <2>1, AddressNat DEF BlockLen
<1> DEFINE b == SubSeq(bytes, r.at + 2, r.at + 1 + BlockLen(bytes, r.at))
<1>4. b \in Seq(Byte)
  <2>1. r.at + 2 \in 1 .. Len(bytes) + 1 /\ r.at + 1 + BlockLen(bytes, r.at) \in r.at + 1 .. Len(bytes)
    BY <1>1, <1>3 DEF Whole
  <2>2. \A i \in r.at + 2 .. r.at + 1 + BlockLen(bytes, r.at) : i \in 1 .. Len(bytes)
    BY <1>1, <1>3, <2>1
  <2>3. \A i \in r.at + 2 .. r.at + 1 + BlockLen(bytes, r.at) : bytes[i] \in Byte
    BY <2>2, ElementOfSeq
  <2> QED BY <1>1, <1>3, <2>3, SubSeqProperties
<1>5. Append(r.blocks, b) \in Seq(Seq(Byte))
  BY <1>1, <1>4, AppendProperties
<1> QED BY <1>1, <1>3, <1>5 DEF OneMore, Progress

LEMMA Parsing ==
  ASSUME NEW bytes \in Seq(Byte)
  PROVE  \E read \in [0 .. Len(bytes) -> Progress] :
           /\ read[0] = [at |-> 1, blocks |-> <<>>]
           /\ \A k \in 1 .. Len(bytes) : read[k] = OneMore(bytes, read[k - 1])
           /\ ParsedFrom(bytes) = read[Len(bytes)].blocks
<1> DEFINE n == Len(bytes)
           start == [at |-> 1, blocks |-> <<>>]
           g == [k \in 1 .. n |-> [r \in Progress |-> OneMore(bytes, r)]]
           x == CHOOSE x : x = [k \in 0 .. n |-> IF k = 0 THEN start ELSE OneMore(bytes, x[k - 1])]
<1>1. n \in Nat /\ start \in Progress
  BY LenProperties, EmptySeq DEF Progress
<1>2. \E f : f = [k \in 0 .. n |-> IF k = 0 THEN start ELSE OneMore(bytes, f[k - 1])]
  <2>1. g \in [1 .. n -> [Progress -> Progress]]
    BY OneMoreTyped
  <2>2. Recursions(n, Progress, start, g) # {}
    <3> HIDE DEF n, g, start
    <3> QED BY <1>1, <2>1, Recursive
  <2>3. PICK f \in [0 .. n -> Progress] : f[0] = start /\ \A k \in 1 .. n : f[k] = g[k][f[k - 1]]
    BY <2>2 DEF Recursions
  <2>4. \A k \in 0 .. n : k # 0 => k \in 1 .. n /\ k - 1 \in 0 .. n
    BY <1>1
  <2>5. \A k \in 0 .. n : f[k] = IF k = 0 THEN start ELSE OneMore(bytes, f[k - 1])
    <3> HIDE DEF start
    <3> QED BY <2>3, <2>4
  <2>6. f = [k \in 0 .. n |-> IF k = 0 THEN start ELSE OneMore(bytes, f[k - 1])]
    BY <2>3, <2>5
  <2> QED BY <2>6, Zenon
<1>3. x = [k \in 0 .. n |-> IF k = 0 THEN start ELSE OneMore(bytes, x[k - 1])]
  BY <1>2, Zenon
<1>4. ParsedFrom(bytes) = x[n].blocks
  BY DEF ParsedFrom, OneMore, Whole, BlockLen
<1> HIDE DEF x, start
<1>5. x[0] = start /\ \A k \in 1 .. n : x[k] = OneMore(bytes, x[k - 1])
  BY <1>1, <1>3
<1> DEFINE S == {k \in 0 .. n : x[k] \in Progress}
<1>6. 0 \in S /\ \A k \in 1 .. n : k - 1 \in S => k \in S
  BY <1>1, <1>5, OneMoreTyped
<1>7. 0 .. n \subseteq S
  <2> HIDE DEF S, n
  <2> QED BY <1>1, <1>6, InductTo
<1>8. x \in [0 .. n -> Progress]
  BY <1>3, <1>7
<1>9. x[0] = [at |-> 1, blocks |-> <<>>]
  BY <1>5 DEF start
<1> QED BY <1>4, <1>5, <1>8, <1>9

LEMMA ParsedTyped == ASSUME NEW bytes \in Seq(Byte) PROVE ParsedFrom(bytes) \in Seq(Seq(Byte))
<1>1. Len(bytes) \in Nat
  BY LenProperties
<1>2. PICK read \in [0 .. Len(bytes) -> Progress] : ParsedFrom(bytes) = read[Len(bytes)].blocks
  BY Parsing
<1>3. read[Len(bytes)] \in Progress
  BY <1>1, <1>2
<1> QED BY <1>2, <1>3 DEF Progress

-----------------------------------------------------------------------------
(* Types. *)

Kept == [flag : Byte, bytes : Seq(Byte)]

LoopTypes ==
  /\ at \in {"hook", "repl", "load", "save", "step", "exit", "gone"}
  /\ attachedDbg \in BOOLEAN /\ runs \in Nat
CpuTypes == pc \in Address /\ sp \in Address /\ halted \in BOOLEAN /\ iff \in BOOLEAN /\ ei \in BOOLEAN
MemTypes == mem \in [Address -> Byte] /\ af \in Byte /\ ix \in Address /\ de \in Address /\ carry \in BOOLEAN
TapeTypes ==
  /\ file \in Seq(Byte) /\ blocks \in Seq(Seq(Byte)) /\ pos \in Nat /\ attached \in BOOLEAN /\ saving \in BOOLEAN
  /\ saved \in Seq(Kept) /\ taped \in Seq(Kept)
ListTypes ==
  /\ lists \in [Kinds -> Seq(Nat)]
  /\ script \in Seq(Lines) /\ last \in Lines /\ stopNow \in BOOLEAN /\ tracing \in BOOLEAN
CountTypes == step \in Nat /\ left \in Nat \cup {-1}
BusTypes == pending \in Access \cup {NoHit} /\ seen \in Seq(Access)

TypeOK == LoopTypes /\ CpuTypes /\ MemTypes /\ TapeTypes /\ ListTypes /\ CountTypes /\ BusTypes

LEMMA StoredTyped ==
  ASSUME mem \in [Address -> Byte], NEW a \in Int, NEW bytes \in Seq(Byte)
  PROVE  Stored(a, bytes) \in [Address -> Byte]
<1>1. ASSUME NEW c \in Address, Wrapped(c - a) < Len(bytes) PROVE bytes[Wrapped(c - a) + 1] \in Byte
  <2>1. Wrapped(c - a) \in Nat /\ Len(bytes) \in Nat
    <3>1. c - a \in Int
      BY AddressNat
    <3> QED BY <3>1, Wraps, AddressNat, LenProperties
  <2>2. Wrapped(c - a) + 1 \in 1 .. Len(bytes)
    BY <1>1, <2>1
  <2> QED BY <2>2, ElementOfSeq
<1> QED BY <1>1 DEF Stored

LEMMA FunctionSeq ==
  ASSUME NEW S, NEW n \in Nat, NEW f \in [1 .. n -> S]
  PROVE  f \in Seq(S) /\ Len(f) = n
<1>1. f \in Seq(S)
  BY SeqDef
<1>2. Len(f) \in Nat /\ 1 .. Len(f) = 1 .. n
  BY <1>1, LenProperties
<1>3. \A k \in Nat : 1 .. k = 1 .. n => k = n
  <2> SUFFICES ASSUME NEW k \in Nat, 1 .. k = 1 .. n PROVE k = n
    OBVIOUS
  <2>1. k <= n /\ n <= k
    <3>1. k > 0 => k \in 1 .. n
      OBVIOUS
    <3>2. n > 0 => n \in 1 .. k
      OBVIOUS
    <3> QED BY <3>1, <3>2
  <2> QED BY <2>1
<1> QED BY <1>1, <1>2, <1>3

LEMMA MemoryTyped ==
  ASSUME mem \in [Address -> Byte], NEW a \in Nat, NEW n \in Nat
  PROVE  MemoryAt(a, n) \in Seq(Byte) /\ Len(MemoryAt(a, n)) = n
<1>1. \A i \in 1 .. n : mem[Wrapped(a + i - 1)] \in Byte
  <2>1. \A i \in 1 .. n : a + i - 1 \in Int
    OBVIOUS
  <2> QED BY <2>1, Wraps
<1>2. MemoryAt(a, n) = [i \in 1 .. n |-> mem[Wrapped(a + i - 1)]]
  BY DEF MemoryAt
<1> HIDE DEF MemoryAt
<1>3. MemoryAt(a, n) \in [1 .. n -> Byte]
  BY <1>1, <1>2
<1> QED BY <1>3, FunctionSeq

LEMMA WordsTyped ==
  ASSUME NEW m \in [Address -> Byte], sp \in Address
  PROVE  Popped(m) \in Address
<1>1. Wrapped(sp + 1) \in Address
  BY Wraps, AddressNat
<1> QED BY <1>1, Words DEF Popped

LEMMA PushedTyped ==
  ASSUME mem \in [Address -> Byte], sp \in Address, NEW a \in Address
  PROVE  Pushed(a) \in [Address -> Byte] /\ Wrapped(sp - 2) \in Address
<1>1. sp - 2 \in Int
  BY AddressNat
<1>2. Wrapped(sp - 2) \in Address /\ Wrapped(sp - 2) \in Int
  BY <1>1, Wraps, AddressNat
<1>3. <<a % BASE, a \div BASE>> \in Seq(Byte)
  BY Halves
<1> QED BY <1>2, <1>3, StoredTyped DEF Pushed

\* What happens on the bus is a sequence of accesses.
LEMMA AccessTyped == \A k \in Kinds \ {"b"}, x \in Int : [kind |-> k, addr |-> Wrapped(x)] \in Access
BY Wraps, AddressNat DEF Access

LEMMA TrafficTyped ==
  ASSUME CpuTypes, MemTypes
  PROVE  /\ PushWrites \in Seq(Access) /\ Fetch \in Seq(Access) /\ RetReads(sp) \in Seq(Access)
         /\ SaveReads \in Seq(Access)
<1>1. sp \in Nat /\ pc \in Nat /\ ix \in Nat /\ de \in Nat /\ sp + 1 \in Int /\ sp - 1 \in Int /\ sp - 2 \in Int
  BY AddressNat DEF CpuTypes, MemTypes
<1>2. "r" \in Kinds \ {"b"} /\ "w" \in Kinds \ {"b"}
  BY DEF Kinds
<1>3. [kind |-> "r", addr |-> sp] \in Access /\ [kind |-> "r", addr |-> pc] \in Access
  BY <1>1, <1>2 DEF Access
<1>4. PushWrites \in Seq(Access)
  <2>1. [kind |-> "w", addr |-> Wrapped(sp - 1)] \in Access /\ [kind |-> "w", addr |-> Wrapped(sp - 2)] \in Access
    BY <1>1, <1>2, AccessTyped
  <2> QED BY <2>1 DEF PushWrites
<1>5. Fetch \in Seq(Access)
  BY <1>3 DEF Fetch
<1>6. RetReads(sp) \in Seq(Access)
  <2>1. [kind |-> "r", addr |-> Wrapped(sp + 1)] \in Access
    BY <1>1, <1>2, AccessTyped
  <2> QED BY <1>3, <2>1 DEF RetReads
<1>7. SaveReads \in Seq(Access)
  <2>1. \A i \in 1 .. de : [kind |-> "r", addr |-> Wrapped(ix + i - 1)] \in Access
    BY <1>1, <1>2, AccessTyped
  <2>2. SaveReads \in [1 .. de -> Access]
    BY <2>1 DEF SaveReads
  <2> QED BY <1>1, <2>2, FunctionSeq
<1> QED BY <1>4, <1>5, <1>6, <1>7

-----------------------------------------------------------------------------
(* The bus and the monitor's pending hit. *)

\* The least of a set of naturals.
LEMMA MinIn ==
  ASSUME NEW S, S \subseteq Nat, S # {}
  PROVE  Min(S) \in S /\ \A k \in S : Min(S) <= k
<1>1. PICK m \in S : \A k \in S : m <= k
  BY LeastOf
<1> QED BY <1>1 DEF Min

LEMMA MinIs ==
  ASSUME NEW S, S \subseteq Nat, NEW m \in S, \A k \in S : m <= k
  PROVE  Min(S) = m
<1>1. Min(S) \in S /\ \A k \in S : Min(S) <= k
  BY MinIn
<1>2. Min(S) <= m /\ m <= Min(S) /\ m \in Nat /\ Min(S) \in Nat
  BY <1>1
<1> QED BY <1>2

\* An address is asked for as often as it is in its list.
ListsAsked == asked = [k \in Kinds |-> ToBag(lists[k])]

\* The pending hit is the first of all that was heard since the last hook.
FirstHeard == pending = IF Heard = {} THEN NoHit ELSE seen[Min(Heard)]

HeardIn(xs) == {i \in DOMAIN xs : AskedWatch(xs[i])}

LEMMA ListsInBag ==
  ASSUME ListsAsked, NEW k \in Kinds, NEW a
  PROVE  InList(k, a) <=> BagIn(a, asked[k])
BY DEF ListsAsked, InList, BagIn, BagToSet, ToBag

LEMMA WatchedIsAsked ==
  ASSUME ListsAsked, NEW x \in Access
  PROVE  Watched(x) <=> AskedWatch(x)
<1>1. x.kind \in Kinds /\ "p" \in Kinds
  BY DEF Access, Kinds
<1>2. \A a : InList(x.kind, a) <=> BagIn(a, asked[x.kind])
  BY <1>1, ListsInBag
<1>3. \A a : InList("p", a) <=> BagIn(a, asked["p"])
  BY <1>1, ListsInBag
<1> QED BY <1>2, <1>3 DEF Watched, AskedWatch

LEMMA BusKeeps ==
  ASSUME BusTypes, attachedDbg \in BOOLEAN, ListsAsked, attachedDbg => FirstHeard,
         NEW xs \in Seq(Access), Bus(xs), UNCHANGED <<asked, attachedDbg>>
  PROVE  /\ BusTypes' /\ (attachedDbg' => FirstHeard')
         /\ ~attachedDbg => UNCHANGED <<pending, seen>>
<1>1. CASE ~attachedDbg
  BY <1>1 DEF Bus, BusTypes
<1>2. CASE attachedDbg
  <2>1. pending' = Noted(xs) /\ seen' = seen \o xs /\ FirstHeard
    BY <1>2 DEF Bus
  <2> DEFINE n == Len(seen)
             all == seen \o xs
  <2>2. /\ n \in Nat /\ Len(xs) \in Nat /\ seen \in Seq(Access)
        /\ all \in Seq(Access) /\ Len(all) = n + Len(xs)
        /\ \A i \in 1 .. n + Len(xs) : all[i] = IF i <= n THEN seen[i] ELSE xs[i - n]
    BY ConcatProperties, LenProperties DEF BusTypes
  <2>3. DOMAIN seen = 1 .. n /\ DOMAIN xs = 1 .. Len(xs) /\ DOMAIN all = 1 .. n + Len(xs)
    <3> HIDE DEF all
    <3> QED BY <2>2, LenProperties
  <2>4. \A i \in 1 .. n : seen[i] \in Access
    BY <2>2, ElementOfSeq
  <2>5. \A i \in 1 .. Len(xs) : xs[i] \in Access
    BY ElementOfSeq
  <2>6. Hits(xs) = HeardIn(xs)
    BY <2>3, <2>5, WatchedIsAsked DEF Hits, HeardIn
  <2>7. Heard = HeardIn(seen) /\ Heard' = HeardIn(all)
    BY <2>1 DEF Heard, HeardIn, AskedWatch
  <2>8. HeardIn(all) = HeardIn(seen) \cup {n + j : j \in HeardIn(xs)}
    <3> HIDE DEF all
    <3>1. \A i \in 1 .. n : all[i] = seen[i] /\ i \in 1 .. n + Len(xs)
      BY <2>2
    <3>2. \A j \in 1 .. Len(xs) : all[n + j] = xs[j] /\ n + j \in 1 .. n + Len(xs)
      BY <2>2
    <3>3. \A i \in 1 .. n + Len(xs) : i \in 1 .. n \/ \E j \in 1 .. Len(xs) : i = n + j
      <4> SUFFICES ASSUME NEW i \in 1 .. n + Len(xs), i \notin 1 .. n PROVE \E j \in 1 .. Len(xs) : i = n + j
        OBVIOUS
      <4>1. i - n \in 1 .. Len(xs) /\ i = n + (i - n)
        BY <2>2
      <4> QED BY <4>1
    <3>4. ASSUME NEW i \in HeardIn(all) PROVE i \in HeardIn(seen) \/ \E j \in HeardIn(xs) : i = n + j
      <4>1. i \in 1 .. n + Len(xs) /\ AskedWatch(all[i])
        BY <2>3, <3>4 DEF HeardIn
      <4>2. CASE i \in 1 .. n
        <5>1. all[i] = seen[i]
          BY <3>1, <4>2
        <5> QED BY <2>3, <4>1, <4>2, <5>1 DEF HeardIn
      <4>3. CASE i \notin 1 .. n
        <5>1. PICK j \in 1 .. Len(xs) : i = n + j
          BY <3>3, <4>1, <4>3
        <5>2. AskedWatch(xs[j])
          BY <3>2, <4>1, <5>1
        <5> QED BY <2>3, <5>1, <5>2 DEF HeardIn
      <4> QED BY <4>2, <4>3
    <3>5. ASSUME NEW i \in HeardIn(seen) PROVE i \in HeardIn(all)
      <4>1. i \in 1 .. n /\ AskedWatch(seen[i])
        BY <2>3 DEF HeardIn
      <4>2. all[i] = seen[i] /\ i \in DOMAIN all
        BY <2>3, <3>1, <4>1
      <4> QED BY <4>1, <4>2 DEF HeardIn
    <3>6. ASSUME NEW j \in HeardIn(xs) PROVE n + j \in HeardIn(all)
      <4>1. j \in 1 .. Len(xs) /\ AskedWatch(xs[j])
        BY <2>3 DEF HeardIn
      <4>2. all[n + j] = xs[j] /\ n + j \in DOMAIN all
        BY <2>3, <3>2, <4>1
      <4> QED BY <4>1, <4>2 DEF HeardIn
    <3> HIDE DEF n
    <3> QED BY <3>4, <3>5, <3>6
  <2>9. HeardIn(seen) \subseteq 1 .. n /\ HeardIn(xs) \subseteq 1 .. Len(xs) /\ HeardIn(all) \subseteq 1 .. n + Len(xs)
    BY <2>3 DEF HeardIn
  <2>10. \A x \in Access : x # NoHit
    BY DEF Access, NoHit, Kinds
  <2> HIDE DEF all, n
  <2>11. CASE HeardIn(seen) # {}
    <3>1. /\ Min(HeardIn(seen)) \in HeardIn(seen)
          /\ \A k \in HeardIn(seen) : Min(HeardIn(seen)) <= k
      <4>1. HeardIn(seen) \subseteq Nat
        BY <2>2, <2>9
      <4> QED BY <2>11, <4>1, MinIn
    <3> DEFINE m == Min(HeardIn(seen))
    <3>2. m \in 1 .. n /\ m \in HeardIn(all) /\ \A k \in HeardIn(all) : m <= k
      BY <2>2, <2>8, <2>9, <3>1
    <3>3. Min(HeardIn(all)) = m
      <4>1. HeardIn(all) \subseteq Nat
        BY <2>2, <2>9
      <4> HIDE DEF m
      <4> QED BY <3>2, <4>1, MinIs
    <3>4. pending = seen[m] /\ seen[m] \in Access
      BY <2>1, <2>4, <2>7, <2>11, <3>2 DEF FirstHeard
    <3>5. pending' = pending /\ all[m] = seen[m]
      <4>1. all[m] = seen[m]
        BY <2>2, <3>2 DEF n
      <4> QED BY <2>1, <2>10, <3>4, <4>1 DEF Noted
    <3>6. Heard' # {} /\ Min(Heard') = m /\ seen'[m] = seen[m]
      BY <2>1, <2>7, <3>2, <3>3, <3>5 DEF all
    <3> HIDE DEF m
    <3>7. FirstHeard'
      BY <3>4, <3>5, <3>6 DEF FirstHeard
    <3>8. BusTypes'
      BY <2>1, <2>2, <3>4, <3>5 DEF BusTypes, all
    <3> QED BY <1>2, <3>7, <3>8
  <2>12. CASE HeardIn(seen) = {} /\ HeardIn(xs) = {}
    <3>1. Heard' = {} /\ pending = NoHit /\ pending' = NoHit
      BY <2>1, <2>6, <2>7, <2>8, <2>12 DEF Noted, FirstHeard
    <3>2. FirstHeard'
      BY <3>1 DEF FirstHeard
    <3>3. BusTypes'
      BY <2>1, <2>2, <3>1 DEF BusTypes, all
    <3> QED BY <1>2, <3>2, <3>3
  <2>13. CASE HeardIn(seen) = {} /\ HeardIn(xs) # {}
    <3>1. /\ Min(HeardIn(xs)) \in HeardIn(xs)
          /\ \A k \in HeardIn(xs) : Min(HeardIn(xs)) <= k
      BY <2>2, <2>9, <2>13, MinIn
    <3> DEFINE m == Min(HeardIn(xs))
    <3>2. m \in 1 .. Len(xs) /\ n + m \in HeardIn(all) /\ \A k \in HeardIn(all) : n + m <= k
      BY <2>2, <2>8, <2>9, <2>13, <3>1
    <3>3. Min(HeardIn(all)) = n + m
      <4>1. HeardIn(all) \subseteq Nat
        BY <2>2, <2>9
      <4> HIDE DEF m
      <4> QED BY <3>2, <4>1, MinIs
    <3>4. pending' = xs[m] /\ xs[m] \in Access
      BY <2>1, <2>5, <2>6, <2>7, <2>13, <3>2 DEF FirstHeard, Noted
    <3>5. all[n + m] = xs[m]
      BY <2>2, <3>2
    <3>6. Heard' # {} /\ Min(Heard') = n + m /\ seen'[n + m] = xs[m]
      BY <2>1, <2>7, <3>2, <3>3, <3>5 DEF all
    <3> HIDE DEF m
    <3>7. FirstHeard'
      BY <3>4, <3>6 DEF FirstHeard
    <3>8. BusTypes'
      BY <2>1, <2>2, <3>4 DEF BusTypes, all
    <3> QED BY <1>2, <3>7, <3>8
  <2> QED BY <2>11, <2>12, <2>13
<1> QED BY <1>1, <1>2

-----------------------------------------------------------------------------
(* Types: what the traps and the commands leave behind. *)

LEMMA BlockTyped == \A flag \in Byte, bytes \in Seq(Byte) : BlockOf(flag, bytes) \in Seq(Byte)
<1> SUFFICES ASSUME NEW flag \in Byte, NEW bytes \in Seq(Byte) PROVE BlockOf(flag, bytes) \in Seq(Byte)
  OBVIOUS
<1> DEFINE n == Len(bytes) + 2
<1>1. n \in Nat
  BY LenProperties
<1>2. \A x \in Nat : x % BASE \in Byte
  <2>1. \A x, b \in Nat : b > 0 => x % b \in 0 .. b - 1
    BY SMT
  <2> QED BY <2>1, Sizes DEF Byte
<1>3. n \div BASE \in Nat
  <2>1. \A x, b \in Nat : b > 0 => x \div b \in Nat
    BY SMT
  <2> QED BY <1>1, <2>1, Sizes
<1> HIDE DEF n
<1>4. <<n % BASE, (n \div BASE) % BASE, flag>> \in Seq(Byte)
  BY <1>1, <1>2, <1>3
<1>5. <<Parity(flag, bytes)>> \in Seq(Byte)
  BY Parities
<1> QED BY <1>4, <1>5, ConcatProperties DEF BlockOf, n

LEMMA SaveTyped ==
  ASSUME MemTypes, TapeTypes, NEW opened \in BOOLEAN, SaveTrap(opened)
  PROVE  MemTypes' /\ TapeTypes'
<1>1. CASE ~opened
  BY <1>1 DEF SaveTrap, MemTypes, TapeTypes
<1>2. CASE opened
  <2> DEFINE bytes == MemoryAt(ix, de)
  <2>1. ix \in Nat /\ de \in Nat /\ ix + de \in Int
    BY AddressNat DEF MemTypes
  <2>2. bytes \in Seq(Byte)
    BY <2>1, MemoryTyped DEF MemTypes
  <2>3. /\ file' = file \o BlockOf(af, bytes)
        /\ saved' = Append(saved, [flag |-> af, bytes |-> bytes])
        /\ ix' = Wrapped(ix + de) /\ de' = 0 /\ carry' \in BOOLEAN
        /\ UNCHANGED <<mem, af, blocks, pos, attached, saving, taped>>
    BY <1>2 DEF SaveTrap
  <2> HIDE DEF bytes
  <2>4. file' \in Seq(Byte)
    BY <2>2, <2>3, BlockTyped, ConcatProperties DEF MemTypes, TapeTypes
  <2>5. saved' \in Seq(Kept)
    <3>1. [flag |-> af, bytes |-> bytes] \in Kept
      BY <2>2 DEF MemTypes, Kept
    <3> QED BY <2>3, <3>1, AppendProperties DEF TapeTypes
  <2>6. ix' \in Address /\ de' \in Address
    BY <2>1, <2>3, Wraps, Sizes
  <2>7. MemTypes'
    BY <2>3, <2>6 DEF MemTypes
  <2> QED BY <2>3, <2>4, <2>5, <2>7 DEF TapeTypes
<1> QED BY <1>1, <1>2

LEMMA LoadTyped ==
  ASSUME MemTypes, TapeTypes, LoadTrap
  PROVE  MemTypes' /\ TapeTypes' /\ LoadWrites \in Seq(Access)
<1>1. CASE pos >= Len(blocks)
  <2>1. UNCHANGED <<mem, af, ix, de, pos, file, blocks, attached, saving, saved, taped>> /\ carry' \in BOOLEAN
    BY <1>1 DEF LoadTrap, Failed
  <2>2. LoadWrites = <<>>
    <3>1. pos \in Nat /\ Len(blocks) \in Nat
      BY LenProperties DEF TapeTypes
    <3>2. ~(pos < Len(blocks))
      BY <1>1, <3>1
    <3> QED BY <3>2 DEF LoadWrites
  <2> QED BY <2>1, <2>2, EmptySeq DEF MemTypes, TapeTypes
<1>2. CASE ~(pos >= Len(blocks))
  <2> DEFINE b == blocks[pos + 1]
  <2>1. pos \in Nat /\ pos < Len(blocks) /\ b \in Seq(Byte)
    <3>1. pos \in Nat /\ Len(blocks) \in Nat
      BY LenProperties DEF TapeTypes
    <3>2. pos + 1 \in 1 .. Len(blocks)
      BY <1>2, <3>1
    <3> QED BY <1>2, <3>1, <3>2, ElementOfSeq DEF TapeTypes
  <2>2. pos' = pos + 1 /\ ((Matches(b) /\ Copy(b)) \/ (~Matches(b) /\ Failed))
    BY <1>2 DEF LoadTrap
  <2>3. UNCHANGED <<file, blocks, attached, saving, saved, taped>>
    BY DEF LoadTrap
  <2>4. TapeTypes'
    BY <2>1, <2>2, <2>3 DEF TapeTypes
  <2>5. LoadWrites =
          IF Matches(b) THEN [i \in 1 .. Taken(b) |-> [kind |-> "w", addr |-> Wrapped(ix + i - 1)]] ELSE <<>>
    BY <2>1 DEF LoadWrites
  <2>6. ix \in Nat /\ de \in Nat /\ Len(b) \in Nat
    BY <2>1, AddressNat, LenProperties DEF MemTypes
  <2> HIDE DEF b
  <2>7. Taken(b) \in Nat /\ Taken(b) <= de
    BY <2>6 DEF Taken, Avail
  <2>8. LoadWrites \in Seq(Access)
    <3>1. \A i \in 1 .. Taken(b) : [kind |-> "w", addr |-> Wrapped(ix + i - 1)] \in Access
      <4>1. "w" \in Kinds \ {"b"}
        BY DEF Kinds
      <4>2. \A i \in 1 .. Taken(b) : ix + i - 1 \in Int
        BY <2>6, <2>7
      <4> QED BY <4>1, <4>2, AccessTyped
    <3> DEFINE writes == [i \in 1 .. Taken(b) |-> [kind |-> "w", addr |-> Wrapped(ix + i - 1)]]
    <3>2. writes \in [1 .. Taken(b) -> Access]
      BY <3>1
    <3> HIDE DEF writes
    <3>3. writes \in Seq(Access)
      BY <2>7, <3>2, FunctionSeq
    <3> QED BY <2>5, <3>3, EmptySeq DEF writes
  <2>9. CASE ~Matches(b)
    <3>1. UNCHANGED <<mem, af, ix, de>> /\ carry' \in BOOLEAN
      BY <2>2, <2>9 DEF Failed
    <3>2. MemTypes'
      BY <3>1 DEF MemTypes
    <3> QED BY <2>4, <2>8, <3>2
  <2>10. CASE Matches(b)
    <3>1. /\ mem' = Stored(ix, SubSeq(b, 2, Taken(b) + 1)) /\ af' = 0 /\ carry' \in BOOLEAN
          /\ ix' = Wrapped(ix + Taken(b)) /\ de' = de - Taken(b)
      BY <2>2, <2>10 DEF Copy
    <3>2. SubSeq(b, 2, Taken(b) + 1) \in Seq(Byte)
      <4>1. Taken(b) + 1 <= Len(b) \/ Taken(b) = 0
        BY <2>6 DEF Taken, Avail
      <4>2. \A i \in 2 .. Taken(b) + 1 : i \in 1 .. Len(b)
        BY <2>6, <2>7, <4>1
      <4>3. \A i \in 2 .. Taken(b) + 1 : b[i] \in Byte
        BY <2>1, <4>2, ElementOfSeq
      <4>4. 2 \in Nat /\ Taken(b) + 1 \in Nat
        BY <2>7
      <4> QED BY <4>3, <4>4, SubSeqProperties
    <3>3. mem' \in [Address -> Byte]
      <4> DEFINE bytes == SubSeq(b, 2, Taken(b) + 1)
      <4>1. mem \in [Address -> Byte] /\ ix \in Int /\ bytes \in Seq(Byte) /\ mem' = Stored(ix, bytes)
        BY <2>6, <3>1, <3>2 DEF MemTypes
      <4> HIDE DEF bytes
      <4> QED BY <4>1, StoredTyped
    <3>4. ix' \in Address
      <4>1. ix + Taken(b) \in Int
        BY <2>6, <2>7
      <4> QED BY <3>1, <4>1, Wraps
    <3>5. de' \in Address
      <4>1. de <= SIZE - 1 /\ SIZE \in Nat
        BY Sizes DEF MemTypes, Address
      <4> QED BY <2>6, <2>7, <3>1, <4>1 DEF Address
    <3> QED BY <2>4, <2>8, <3>1, <3>3, <3>4, <3>5, Sizes DEF MemTypes
  <2> QED BY <2>9, <2>10
<1> QED BY <1>1, <1>2

LEMMA LineTyped ==
  \A c \in Lines :
    /\ c.op = "step" => c.n \in Int
    /\ c.op = "toggle" => c.list \in Kinds /\ c.addr \in Nat
    /\ c.op = "trace" => c.on \in BOOLEAN
BY DEF Lines

LEMMA Prefixed ==
  ASSUME NEW S, NEW e, NEW m \in Nat, \A k \in 1 .. m : e[k] \in S
  PROVE  /\ SubSeq(e, 1, m) \in Seq(S) /\ Len(SubSeq(e, 1, m)) = m
         /\ \A k \in 1 .. m : SubSeq(e, 1, m)[k] = e[k]
BY SubSeqProperties

\* Where an entry stands in a list, and how often.
PlacesOf(l, v) == {i \in 1 .. Len(l) : l[i] = v}
Count(l, v) == Cardinality(PlacesOf(l, v))

LEMMA Counts ==
  ASSUME NEW l \in Seq(Nat), NEW v
  PROVE  /\ IsFiniteSet(PlacesOf(l, v)) /\ Count(l, v) \in Nat
         /\ v \in Range(l) <=> Count(l, v) # 0
<1>1. Len(l) \in Nat /\ DOMAIN l = 1 .. Len(l)
  BY LenProperties
<1>2. IsFiniteSet(1 .. Len(l))
  BY <1>1, FS_Interval
<1>3. IsFiniteSet(PlacesOf(l, v))
  BY <1>2, FS_Subset DEF PlacesOf
<1>4. Count(l, v) \in Nat /\ (Count(l, v) = 0 <=> PlacesOf(l, v) = {})
  BY <1>3, FS_CardinalityType, FS_EmptySet DEF Count
<1>5. v \in Range(l) <=> PlacesOf(l, v) # {}
  BY <1>1 DEF Range, PlacesOf
<1> QED BY <1>3, <1>4, <1>5

LEMMA BagOf ==
  ASSUME NEW l \in Seq(Nat)
  PROVE  /\ ToBag(l) = [v \in Range(l) |-> Count(l, v)]
         /\ \A v : BagIn(v, ToBag(l)) <=> v \in Range(l)
BY LenProperties DEF ToBag, Count, PlacesOf, BagIn, BagToSet

\* A list without one of its entries, whose place the last one takes.
LEMMA RemovedCount ==
  ASSUME NEW l \in Seq(Nat), NEW r \in Seq(Nat), NEW i \in 1 .. Len(l), NEW a, l[i] = a,
         Len(r) = Len(l) - 1,
         \A k \in 1 .. Len(l) - 1 : r[k] = IF k = i THEN l[Len(l)] ELSE l[k], NEW v
  PROVE  Count(r, v) = IF v = a THEN Count(l, v) - 1 ELSE Count(l, v)
<1> DEFINE n == Len(l)
<1>1. n \in Nat /\ i \in Nat /\ i <= n /\ i >= 1
  BY LenProperties
<1>2. IsFiniteSet(PlacesOf(l, v)) /\ Count(l, v) \in Nat
  BY Counts
<1>3. \A k : k \in PlacesOf(r, v) <=> k \in 1 .. n - 1 /\ (IF k = i THEN l[n] = v ELSE l[k] = v)
  BY DEF PlacesOf
<1>4. \A k : k \in PlacesOf(l, v) <=> k \in 1 .. n /\ l[k] = v
  BY DEF PlacesOf
<1>5. \A k : k \in 1 .. n <=> k \in 1 .. n - 1 \/ k = n
  BY <1>1
<1>6. n \notin 1 .. n - 1
  BY <1>1
<1> HIDE DEF n
<1>7. CASE v = a /\ l[n] = a
  <2>1. PlacesOf(r, v) = PlacesOf(l, v) \ {n} /\ n \in PlacesOf(l, v)
    BY <1>3, <1>4, <1>5, <1>6, <1>7
  <2> QED BY <1>2, <1>7, <2>1, FS_RemoveElement DEF Count
<1>8. CASE v = a /\ l[n] # a
  <2>1. PlacesOf(r, v) = PlacesOf(l, v) \ {i} /\ i \in PlacesOf(l, v)
    <3>1. i \in 1 .. n /\ l[i] = a
      BY DEF n
    <3>2. \A k : k \in PlacesOf(r, v) <=> k \in PlacesOf(l, v) /\ k # i
      BY <1>3, <1>4, <1>5, <1>6, <1>8, <3>1
    <3>3. i \in PlacesOf(l, v)
      BY <1>4, <1>8, <3>1
    <3> QED BY <3>2, <3>3
  <2> QED BY <1>2, <1>8, <2>1, FS_RemoveElement DEF Count
<1>9. CASE v # a /\ l[n] = v
  <2> DEFINE S == PlacesOf(l, v) \ {n}
  <2>1. PlacesOf(r, v) = S \cup {i} /\ n \in PlacesOf(l, v) /\ i \notin S
    BY <1>3, <1>4, <1>5, <1>6, <1>9 DEF n
  <2>2. IsFiniteSet(S) /\ Cardinality(S) = Count(l, v) - 1
    BY <1>2, <2>1, FS_RemoveElement DEF Count
  <2> HIDE DEF S
  <2>3. Cardinality(S \cup {i}) = Cardinality(S) + 1
    BY <2>1, <2>2, FS_AddElement
  <2> QED BY <1>2, <1>9, <2>1, <2>2, <2>3 DEF Count
<1>10. CASE v # a /\ l[n] # v
  <2>1. PlacesOf(r, v) = PlacesOf(l, v)
    BY <1>3, <1>4, <1>5, <1>6, <1>10
  <2> QED BY <1>10, <2>1 DEF Count
<1> QED BY <1>7, <1>8, <1>9, <1>10

LEMMA AppendedCount ==
  ASSUME NEW l \in Seq(Nat), NEW a \in Nat, NEW v
  PROVE  Count(Append(l, a), v) = IF v = a THEN Count(l, v) + 1 ELSE Count(l, v)
<1> DEFINE r == Append(l, a)
           n == Len(l)
<1>1. n \in Nat /\ Len(r) = n + 1 /\ r[n + 1] = a /\ \A k \in 1 .. n : r[k] = l[k]
  BY AppendProperties, LenProperties
<1>2. IsFiniteSet(PlacesOf(l, v)) /\ Count(l, v) \in Nat
  BY Counts
<1> HIDE DEF r
<1>3. n + 1 \notin 1 .. n /\ \A k : k \in 1 .. n + 1 <=> k \in 1 .. n \/ k = n + 1
  BY <1>1
<1>4. PlacesOf(r, v) = IF v = a THEN PlacesOf(l, v) \cup {n + 1} ELSE PlacesOf(l, v)
  BY <1>1, <1>3 DEF PlacesOf
<1>5. n + 1 \notin PlacesOf(l, v)
  BY <1>3 DEF PlacesOf
<1> QED BY <1>2, <1>4, <1>5, FS_AddElement DEF Count, r

\* A list that is toggled loses one of an address it holds, and gains one it does not.
LEMMA Toggling ==
  ASSUME NEW l \in Seq(Nat), NEW a \in Nat
  PROVE  /\ Toggled(l, a) \in Seq(Nat)
         /\ ToBag(Toggled(l, a)) =
              IF BagIn(a, ToBag(l)) THEN ToBag(l) (-) SetToBag({a})
              ELSE IF Len(l) >= MaxBp THEN ToBag(l) ELSE ToBag(l) (+) SetToBag({a})
<1>1. Len(l) \in Nat /\ DOMAIN l = 1 .. Len(l) /\ MaxBp \in Nat
  BY LenProperties, MonitorAssumption
<1>2. \A s \in Seq(Nat) : \A x : x \in Range(s) <=> \E i \in 1 .. Len(s) : s[i] = x
  BY LenProperties DEF Range
<1>3. /\ BagIn(a, ToBag(l)) <=> a \in Range(l)
      /\ ToBag(l) = [v \in Range(l) |-> Count(l, v)] /\ DOMAIN ToBag(l) = Range(l)
      /\ \A v : Count(l, v) \in Nat /\ (v \in Range(l) <=> Count(l, v) # 0)
  BY BagOf, Counts
<1>4. CASE a \in Range(l)
  <2> DEFINE n == Len(l)
             P(i) == l[i] = a /\ \A j \in 1 .. i - 1 : l[j] # a
             i == CHOOSE i \in 1 .. n : P(i)
             r == SubSeq([l EXCEPT ![i] = l[n]], 1, n - 1)
  <2>1. \E k \in 1 .. n : P(k)
    <3>1. PlacesOf(l, a) # {} /\ PlacesOf(l, a) \subseteq Nat
      BY <1>2, <1>4 DEF PlacesOf
    <3>2. PICK k \in PlacesOf(l, a) : \A j \in PlacesOf(l, a) : k <= j
      BY <3>1, LeastOf
    <3>3. \A j \in 1 .. k - 1 : l[j] # a
      <4>1. \A j \in 1 .. k - 1 : j \in 1 .. n /\ j < k
        BY <1>1, <3>2 DEF PlacesOf
      <4> QED BY <3>1, <3>2, <4>1 DEF PlacesOf
    <3> QED BY <3>2, <3>3 DEF PlacesOf
  <2>2. i \in 1 .. n /\ l[i] = a
    BY <2>1
  <2>3. Toggled(l, a) = r
    BY <1>4 DEF Toggled
  <2> HIDE DEF P, i
  <2>4. [l EXCEPT ![i] = l[n]] \in Seq(Nat) /\ Len([l EXCEPT ![i] = l[n]]) = n
    <3>1. l[n] \in Nat
      BY <1>1, <2>2, ElementOfSeq
    <3> QED BY <2>2, <3>1, ExceptSeq
  <2>5. /\ r \in Seq(Nat) /\ Len(r) = n - 1
        /\ \A k \in 1 .. n - 1 : r[k] = IF k = i THEN l[n] ELSE l[k]
    <3> DEFINE e == [l EXCEPT ![i] = l[n]]
    <3>1. \A k \in 1 .. n : e[k] = IF k = i THEN l[n] ELSE l[k]
      BY <1>1
    <3> HIDE DEF e
    <3>2. n - 1 \in Nat /\ \A k \in 1 .. n - 1 : k \in 1 .. n
      BY <1>1, <2>2
    <3>3. \A k \in 1 .. n - 1 : e[k] \in Nat
      BY <2>4, <3>2, ElementOfSeq DEF e
    <3>4. /\ SubSeq(e, 1, n - 1) \in Seq(Nat) /\ Len(SubSeq(e, 1, n - 1)) = n - 1
          /\ \A k \in 1 .. n - 1 : SubSeq(e, 1, n - 1)[k] = e[k]
      <4> DEFINE m == n - 1
      <4>1. m \in Nat /\ \A k \in 1 .. m : e[k] \in Nat
        BY <3>2, <3>3
      <4> HIDE DEF m
      <4>2. /\ SubSeq(e, 1, m) \in Seq(Nat) /\ Len(SubSeq(e, 1, m)) = m
            /\ \A k \in 1 .. m : SubSeq(e, 1, m)[k] = e[k]
        BY <4>1, Prefixed
      <4> QED BY <4>2 DEF m
    <3> QED BY <3>1, <3>2, <3>4 DEF e
  <2> HIDE DEF r
  <2>6. \A v : Count(r, v) = IF v = a THEN Count(l, v) - 1 ELSE Count(l, v)
    BY <2>2, <2>5, RemovedCount
  <2> HIDE DEF n
  <2>7. /\ ToBag(r) = [v \in Range(r) |-> Count(r, v)]
        /\ \A v : v \in Range(r) <=> Count(r, v) # 0
    BY <2>5, BagOf, Counts
  <2>8. ToBag(r) = ToBag(l) (-) SetToBag({a})
    <3> DEFINE B == [v \in Range(l) |-> IF v = a THEN Count(l, v) - 1 ELSE Count(l, v)]
    <3>1. ToBag(l) (-) SetToBag({a}) = [v \in {w \in Range(l) : B[w] > 0} |-> B[v]]
      BY <1>3 DEF (-), SetToBag
    <3>2. \A v \in Range(l) : B[v] = Count(r, v)
      BY <2>6
    <3> HIDE DEF B
    <3>3. \A v : v \in {w \in Range(l) : B[w] > 0} <=> v \in Range(r)
      <4>1. \A v : Count(r, v) \in Nat
        BY <2>5, Counts
      <4>2. \A v \in Range(r) : v \in Range(l)
        BY <1>3, <1>4, <2>6, <2>7
      <4> QED BY <2>7, <3>2, <4>1, <4>2
    <3>4. Range(r) = {w \in Range(l) : B[w] > 0}
      BY <3>3
    <3> QED BY <2>7, <3>1, <3>2, <3>4
  <2> QED BY <1>3, <1>4, <2>3, <2>5, <2>8
<1>5. CASE a \notin Range(l) /\ Len(l) >= MaxBp
  <2>1. Toggled(l, a) = l
    BY <1>5 DEF Toggled
  <2> QED BY <1>3, <1>5, <2>1
<1>6. CASE a \notin Range(l) /\ ~(Len(l) >= MaxBp)
  <2> DEFINE r == Append(l, a)
  <2>1. Toggled(l, a) = r
    BY <1>6 DEF Toggled
  <2>2. r \in Seq(Nat)
    BY AppendProperties
  <2>3. \A v : Count(r, v) = IF v = a THEN Count(l, v) + 1 ELSE Count(l, v)
    BY AppendedCount
  <2> HIDE DEF r
  <2>4. /\ ToBag(r) = [v \in Range(r) |-> Count(r, v)]
        /\ \A v : v \in Range(r) <=> Count(r, v) # 0
    BY <2>2, BagOf, Counts
  <2>5. Count(l, a) = 0
    BY <1>3, <1>6
  <2>6. Range(r) = Range(l) \cup {a}
    BY <1>3, <2>3, <2>4, <2>5
  <2>7. ToBag(l) (+) SetToBag({a}) = [v \in Range(l) \cup {a} |-> IF v = a THEN 1 ELSE ToBag(l)[v]]
    <3>1. \A v \in Range(l) : ToBag(l)[v] \in Nat /\ v # a
      BY <1>3, <1>6
    <3> QED BY <1>3, <1>6, <3>1 DEF (+), SetToBag
  <2>8. \A v \in Range(l) \cup {a} : Count(r, v) = IF v = a THEN 1 ELSE ToBag(l)[v]
    BY <1>3, <2>3, <2>5
  <2>9. ToBag(r) = ToBag(l) (+) SetToBag({a})
    BY <2>4, <2>6, <2>7, <2>8
  <2> QED BY <1>3, <1>6, <2>1, <2>2, <2>9
<1> QED BY <1>4, <1>5, <1>6

-----------------------------------------------------------------------------
(* What is true between any two steps. *)

\* The count is one ahead of the instructions left at the hook, where the last of them is
\* still to be taken off.
CountsLeft ==
  \/ step = 0 /\ left = -1
  \/ step > 0 /\ left = IF at = "hook" THEN step - 1 ELSE step

\* The prompt comes right after a hook; without a monitor nothing is counted and nothing heard.
Quiet == at \in {"repl", "exit", "gone"} => seen = <<>> /\ pending = NoHit
Detached ==
  /\ ~attachedDbg => step = 0 /\ left = -1 /\ seen = <<>> /\ at \notin {"repl", "exit"}
  /\ at = "gone" => ~attachedDbg

MonitorInv ==
  /\ TypeOK
  /\ ListsAsked
  /\ CountsLeft
  /\ attachedDbg => FirstHeard
  /\ Quiet
  /\ Detached

\* A step that leaves the lists, the script and the count alone.
LEMMA ListsStay ==
  ASSUME ListTypes, ListsAsked, UNCHANGED <<lists, asked, script, last, stopNow, tracing>>
  PROVE  ListTypes' /\ ListsAsked'
BY DEF ListTypes, ListsAsked

LEMMA HookKeeps == ASSUME MonitorInv, Hook PROVE MonitorInv'
<1>1. /\ UNCHANGED <<mem, regs, tapes, cpu, session, asked>>
      /\ at = "hook" /\ at' \in {"load", "repl"} /\ (~attachedDbg => at' = "load")
      /\ UNCHANGED <<lists, script, last, tracing>> /\ (stopNow' = stopNow \/ stopNow' = FALSE)
  BY DEF Hook, StepHook, monitor
<1>2. LoopTypes' /\ CpuTypes' /\ MemTypes' /\ TapeTypes'
  BY <1>1 DEF MonitorInv, TypeOK, LoopTypes, CpuTypes, MemTypes, TapeTypes, cpu, session, regs, tapes
<1>3. ListTypes' /\ ListsAsked'
  BY <1>1 DEF MonitorInv, TypeOK, ListTypes, ListsAsked
<1>4. CASE ~attachedDbg
  <2>1. UNCHANGED <<step, pending, seen, left, attachedDbg>> /\ at' = "load"
    BY <1>4 DEF Hook, monitor, session
  <2>2. step = 0 /\ left = -1 /\ seen = <<>>
    BY <1>4 DEF MonitorInv, Detached
  <2>3. CountTypes' /\ BusTypes' /\ CountsLeft' /\ Quiet' /\ Detached'
    BY <2>1, <2>2 DEF MonitorInv, TypeOK, CountTypes, BusTypes, CountsLeft, Quiet, Detached
  <2> QED BY <1>2, <1>3, <1>4, <2>1, <2>3 DEF MonitorInv, TypeOK
<1>5. CASE attachedDbg
  <2>1. /\ step' = Counted(pc, halted) /\ pending' = NoHit /\ seen' = <<>>
        /\ left' = (IF left = 0 THEN -1 ELSE left) /\ attachedDbg'
    BY <1>5 DEF Hook, StepHook, session
  <2>2. CountTypes' /\ CountsLeft'
    BY <1>1, <2>1 DEF MonitorInv, TypeOK, CountTypes, CountsLeft, Counted
  <2>3. BusTypes' /\ Quiet' /\ Detached'
    BY <1>1, <2>1, EmptySeq DEF BusTypes, Quiet, Detached
  <2>4. FirstHeard'
    <3>1. Heard' = {}
      BY <2>1 DEF Heard
    <3> QED BY <2>1, <3>1 DEF FirstHeard
  <2> QED BY <1>2, <1>3, <2>2, <2>3, <2>4 DEF MonitorInv, TypeOK
<1> QED BY <1>4, <1>5

\* A command at the prompt.
LEMMA ToggleKeeps ==
  ASSUME ListTypes, ListsAsked, NEW c \in Lines, c.op = "toggle",
         lists' = [lists EXCEPT ![c.list] = Toggled(@, c.addr)],
         asked' = AskedAfter(c)
  PROVE  lists' \in [Kinds -> Seq(Nat)] /\ ListsAsked'
<1> DEFINE k == c.list
           a == c.addr
           l == lists[k]
<1>1. k \in Kinds /\ a \in Nat /\ l \in Seq(Nat) /\ asked[k] = ToBag(l)
  BY LineTyped DEF ListTypes, ListsAsked
<1>2. /\ Toggled(l, a) \in Seq(Nat)
      /\ ToBag(Toggled(l, a)) =
           IF BagIn(a, ToBag(l)) THEN ToBag(l) (-) SetToBag({a})
           ELSE IF Len(l) >= MaxBp THEN ToBag(l) ELSE ToBag(l) (+) SetToBag({a})
  <2> HIDE DEF l, k, a
  <2> QED BY <1>1, Toggling
<1>3. lists' = [lists EXCEPT ![k] = Toggled(l, a)]
  OBVIOUS
<1>4. asked' = [asked EXCEPT ![k] = ToBag(Toggled(l, a))]
  <2>1. asked' = [asked EXCEPT ![k] =
                    IF BagIn(a, asked[k]) THEN asked[k] (-) SetToBag({a})
                    ELSE IF Len(l) >= MaxBp THEN asked[k] ELSE asked[k] (+) SetToBag({a})]
    BY DEF AskedAfter
  <2> HIDE DEF l, k, a
  <2> QED BY <1>1, <1>2, <2>1
<1> HIDE DEF l, k, a
<1>5. lists' \in [Kinds -> Seq(Nat)]
  BY <1>1, <1>2, <1>3 DEF ListTypes
<1>6. \A j \in Kinds : asked'[j] = ToBag(lists'[j])
  <2> SUFFICES ASSUME NEW j \in Kinds PROVE asked'[j] = ToBag(lists'[j])
    OBVIOUS
  <2>1. CASE j = k
    <3>1. lists'[j] = Toggled(l, a) /\ asked'[j] = ToBag(Toggled(l, a))
      BY <1>1, <1>3, <1>4, <2>1 DEF ListTypes, ListsAsked
    <3> QED BY <3>1
  <2>2. CASE j # k
    <3>1. lists'[j] = lists[j] /\ asked'[j] = asked[j]
      BY <1>1, <1>3, <1>4, <2>2 DEF ListTypes, ListsAsked
    <3> QED BY <3>1 DEF ListsAsked
  <2> QED BY <2>1, <2>2
<1>7. asked' = [j \in Kinds |-> asked'[j]]
  BY <1>1, <1>4 DEF ListsAsked
<1> QED BY <1>5, <1>6, <1>7 DEF ListsAsked

LEMMA ReplKeeps == ASSUME MonitorInv, Repl PROVE MonitorInv'
<1>1. /\ at = "repl" /\ UNCHANGED <<mem, regs, tapes, cpu, session, seen>>
      /\ attachedDbg /\ attachedDbg' = attachedDbg
  BY DEF Repl, MonitorInv, Detached, session
<1>2. at' \in {"load", "repl", "exit"}
  BY DEF Repl
<1>3. LoopTypes' /\ CpuTypes' /\ MemTypes' /\ TapeTypes'
  BY <1>1, <1>2 DEF MonitorInv, TypeOK, LoopTypes, CpuTypes, MemTypes, TapeTypes, cpu, session, regs, tapes
<1>4. seen' = <<>> /\ pending = NoHit
  BY <1>1 DEF MonitorInv, Quiet
<1>5. SUFFICES ASSUME pending' = pending, stopNow' = stopNow
               PROVE  ListTypes' /\ ListsAsked' /\ CountTypes' /\ CountsLeft'
  <2>1. pending' = pending /\ stopNow' = stopNow
    BY DEF Repl, Prompt, Command, Exhausted, monitor
  <2>2. BusTypes' /\ Quiet' /\ Detached'
    BY <1>1, <1>2, <1>4, <2>1, EmptySeq DEF BusTypes, Quiet, Detached
  <2>3. FirstHeard'
    <3>1. Heard' = {}
      BY <1>4 DEF Heard
    <3> QED BY <1>4, <2>1, <3>1 DEF FirstHeard
  <2> QED BY <1>3, <1>5, <2>1, <2>2, <2>3 DEF MonitorInv, TypeOK
<1>6. CASE UNCHANGED <<lists, asked, script, last, tracing, step, left>>
  BY <1>1, <1>2, <1>5, <1>6 DEF MonitorInv, TypeOK, ListTypes, ListsAsked, CountTypes, CountsLeft
<1>7. CASE Exhausted /\ UNCHANGED <<asked, left>>
  BY <1>6, <1>7 DEF Exhausted, monitor
<1>8. ASSUME NEW next \in {"repl", "run", "gone"}, Prompt(next),
             asked' = AskedAfter(Meant(Head(script))),
             left' = IF Meant(Head(script)).op = "step"
                     THEN (IF Meant(Head(script)).n < 1 THEN 1 ELSE Meant(Head(script)).n) ELSE left
      PROVE  ListTypes' /\ ListsAsked' /\ CountTypes' /\ CountsLeft'
  <2>1. script \in Seq(Lines) /\ last \in Lines /\ Blank \in Lines
    BY DEF MonitorInv, TypeOK, ListTypes, Blank, Lines
  <2>2. Range(script) \cup {last} \subseteq Lines
    BY <2>1, ElementOfSeq, LenProperties DEF Range
  <2>3. PICK c \in Lines :
          /\ Command(c)
          /\ \/ Show
             \/ c.op = "toggle" /\ list_toggle(c)
             \/ c.op = "trace" /\ Trace(c)
             \/ c.op = "step" /\ Step(c)
             \/ Trace([on |-> FALSE])
          /\ c.op # "toggle" => UNCHANGED lists
          /\ c.op # "step" => UNCHANGED step
          /\ c.op = "step" => Step(c)
          /\ c.op = "toggle" => list_toggle(c)
    <3>1. CASE Command(Blank) /\ Show
      BY <2>1, <3>1 DEF Blank, Show
    <3>2. CASE \E k \in Range(script) \cup {last} :
                 /\ Command(k)
                 /\ \/ k.op = "print" /\ Show
                    \/ k.op = "toggle" /\ list_toggle(k)
                    \/ k.op = "trace" /\ Trace(k)
                    \/ k.op = "cont" /\ Cont
                    \/ k.op = "step" /\ Step(k)
                    \/ k.op = "quit" /\ Trace([on |-> FALSE])
      BY <2>2, <3>2 DEF Show, Cont, list_toggle, Trace, Step
    <3> QED BY <1>8, <3>1, <3>2 DEF Prompt
  <2>4. script # <<>> /\ Meant(Head(script)) = c /\ script' = Tail(script) /\ last' = c
    BY <2>3 DEF Command, NextCmd
  <2>5. script' \in Seq(Lines) /\ last' \in Lines
    BY <2>1, <2>4, HeadTailProperties
  <2>6. tracing' \in BOOLEAN
    <3>1. tracing \in BOOLEAN
      BY DEF MonitorInv, TypeOK, ListTypes
    <3> QED BY <2>3, <3>1, LineTyped DEF Show, list_toggle, Trace, Step
  <2>7. /\ lists' \in [Kinds -> Seq(Nat)] /\ ListsAsked'
    <3>1. CASE c.op = "toggle"
      BY <1>8, <2>3, <2>4, <3>1, ToggleKeeps DEF list_toggle, MonitorInv, TypeOK
    <3>2. CASE c.op # "toggle"
      <4>1. lists' = lists /\ asked' = asked
        BY <1>8, <2>3, <2>4, <3>2 DEF AskedAfter
      <4> QED BY <4>1 DEF MonitorInv, TypeOK, ListTypes, ListsAsked
    <3> QED BY <3>1, <3>2
  <2>8. ListTypes'
    BY <1>5, <2>5, <2>6, <2>7 DEF MonitorInv, TypeOK, ListTypes
  <2>9. CountTypes' /\ CountsLeft'
    <3>1. CASE c.op = "step"
      <4>1. c.n \in Int /\ step' = (IF c.n < 1 THEN 1 ELSE c.n) /\ left' = step'
        BY <1>8, <2>3, <2>4, <3>1, LineTyped DEF Step, StepBy
      <4> QED BY <1>2, <4>1 DEF CountTypes, CountsLeft
    <3>2. CASE c.op # "step"
      <4>1. step' = step /\ left' = left
        BY <1>8, <2>3, <2>4, <3>2
      <4> QED BY <1>1, <1>2, <4>1 DEF MonitorInv, TypeOK, CountTypes, CountsLeft
    <3> QED BY <3>1, <3>2
  <2> QED BY <2>7, <2>8, <2>9
<1> QED BY <1>7, <1>8 DEF Repl

\* A step of the machine that leaves the monitor but for the pending hit alone.
LEMMA MachineKeeps ==
  ASSUME MonitorInv, NEW xs \in Seq(Access), Bus(xs) \/ UNCHANGED <<pending, seen>>,
         UNCHANGED <<lists, step, stopNow, script, last, tracing, session, asked>>,
         at \in {"hook", "load", "save", "step"}, at' \in {"hook", "load", "save", "step"}
  PROVE  /\ BusTypes' /\ (attachedDbg' => FirstHeard') /\ Quiet'
         /\ ListTypes' /\ ListsAsked'
         /\ ~attachedDbg => UNCHANGED <<pending, seen>>
<1>1. UNCHANGED <<asked, attachedDbg>>
  BY DEF session
<1>2. BusTypes' /\ (attachedDbg' => FirstHeard') /\ (~attachedDbg => UNCHANGED <<pending, seen>>)
  <2>1. BusTypes /\ attachedDbg \in BOOLEAN /\ ListsAsked /\ (attachedDbg => FirstHeard)
    BY DEF MonitorInv, TypeOK, LoopTypes
  <2>2. CASE Bus(xs)
    BY <1>1, <2>1, <2>2, BusKeeps
  <2>3. CASE UNCHANGED <<pending, seen>>
    BY <1>1, <2>1, <2>3 DEF BusTypes, FirstHeard, Heard, AskedWatch
  <2> QED BY <2>2, <2>3
<1>3. Quiet'
  BY DEF Quiet
<1>4. ListTypes' /\ ListsAsked'
  BY ListsStay DEF MonitorInv, TypeOK
<1> QED BY <1>2, <1>3, <1>4

\* What is left over when the machine goes from one stage to the next with its count.
LEMMA StageKeeps ==
  ASSUME MonitorInv, NEW xs \in Seq(Access), Bus(xs) \/ UNCHANGED <<pending, seen>>,
         UNCHANGED <<lists, step, stopNow, script, last, tracing, session, asked, left>>,
         \/ at \in {"load", "save"} /\ at' \in {"save", "step"}
         \/ at = "hook" /\ at' = "hook",
         CpuTypes', MemTypes', TapeTypes'
  PROVE  MonitorInv'
<1>1. at \in {"hook", "load", "save", "step"} /\ at' \in {"hook", "load", "save", "step"}
  OBVIOUS
<1>2. /\ BusTypes' /\ (attachedDbg' => FirstHeard') /\ Quiet' /\ ListTypes' /\ ListsAsked'
      /\ ~attachedDbg => UNCHANGED <<pending, seen>>
  BY <1>1, MachineKeeps
<1>3. UNCHANGED <<attachedDbg, runs, step, left>>
  BY DEF session
<1>4. LoopTypes' /\ CountTypes'
  BY <1>1, <1>3 DEF MonitorInv, TypeOK, LoopTypes, CountTypes
<1>5. CountsLeft' /\ Detached'
  BY <1>1, <1>2, <1>3 DEF MonitorInv, CountsLeft, Detached
<1> QED BY <1>2, <1>4, <1>5 DEF MonitorInv, TypeOK

LEMMA ProgramTyped ==
  ASSUME NEW a \in Address, NEW e \in Program[a]
  PROVE  e.next \in Address /\ e.acc \in Seq(Access)
BY ProgramAssumption

LEMMA InterruptTyped == ASSUME CpuTypes, MemTypes, TapeTypes, Interrupt PROVE CpuTypes' /\ MemTypes' /\ TapeTypes'
<1>1. /\ halted' = FALSE /\ iff' = FALSE /\ ei' = ei
      /\ mem' = Pushed(pc) /\ sp' = Wrapped(sp - 2) /\ pc' = IntAt /\ UNCHANGED <<regs, tapes>>
  BY DEF Interrupt
<1>2. Pushed(pc) \in [Address -> Byte] /\ Wrapped(sp - 2) \in Address
  BY PushedTyped DEF CpuTypes, MemTypes
<1>3. CpuTypes'
  BY <1>1, <1>2, ProgramAssumption DEF CpuTypes
<1>4. MemTypes' /\ TapeTypes'
  BY <1>1, <1>2 DEF MemTypes, TapeTypes, regs, tapes
<1> QED BY <1>3, <1>4

LEMMA InterruptKeeps == ASSUME MonitorInv, Interrupt PROVE MonitorInv'
<1>1. /\ at = "hook" /\ at' = at /\ Bus(PushWrites)
      /\ UNCHANGED <<lists, step, stopNow, script, last, tracing, regs, tapes, session, asked, left>>
  BY DEF Interrupt
<1>2. CpuTypes /\ MemTypes /\ TapeTypes
  BY DEF MonitorInv, TypeOK
<1>3. CpuTypes' /\ MemTypes' /\ TapeTypes'
  BY <1>2, InterruptTyped
<1>4. PushWrites \in Seq(Access)
  BY <1>2, TrafficTyped
<1> QED BY <1>1, <1>3, <1>4, StageKeeps

LEMMA RetTyped ==
  ASSUME CpuTypes, MemTypes', Ret
  PROVE  pc' \in Address /\ sp' \in Address
<1>1. mem' \in [Address -> Byte] /\ sp \in Address
  BY DEF MemTypes, CpuTypes
<1>2. Popped(mem') \in Address
  BY <1>1, WordsTyped
<1>3. Wrapped(sp + 2) \in Address
  <2>1. sp + 2 \in Int
    BY <1>1, AddressNat
  <2> QED BY <2>1, Wraps
<1> QED BY <1>2, <1>3 DEF Ret

LEMMA LoadStageTyped ==
  ASSUME CpuTypes, MemTypes, TapeTypes, LoadStage
  PROVE  /\ CpuTypes' /\ MemTypes' /\ TapeTypes'
         /\ \E xs \in Seq(Access) : Bus(xs) \/ UNCHANGED <<pending, seen>>
<1>1. UNCHANGED <<halted, iff, ei>>
  BY DEF LoadStage
<1>2. CASE attached /\ pc = LdBytes
  <2>1. LoadTrap /\ Ret /\ Bus(LoadWrites \o RetReads(sp))
    BY <1>2 DEF LoadStage
  <2>2. MemTypes' /\ TapeTypes' /\ LoadWrites \in Seq(Access)
    BY <2>1, LoadTyped
  <2>3. CpuTypes'
    <3>1. pc' \in Address /\ sp' \in Address
      BY <2>1, <2>2, RetTyped
    <3> QED BY <1>1, <3>1 DEF CpuTypes
  <2>4. LoadWrites \o RetReads(sp) \in Seq(Access)
    BY <2>2, TrafficTyped, ConcatProperties
  <2> QED BY <2>1, <2>2, <2>3, <2>4
<1>3. CASE ~(attached /\ pc = LdBytes)
  <2>1. UNCHANGED <<mem, regs, tapes, pc, sp, pending, seen>>
    BY <1>3 DEF LoadStage
  <2>2. CpuTypes' /\ MemTypes' /\ TapeTypes'
    BY <1>1, <2>1 DEF CpuTypes, MemTypes, TapeTypes, regs, tapes
  <2>3. <<>> \in Seq(Access)
    BY EmptySeq
  <2> QED BY <2>1, <2>2, <2>3
<1> QED BY <1>2, <1>3

LEMMA LoadKeeps == ASSUME MonitorInv, LoadStage PROVE MonitorInv'
<1>1. /\ at = "load" /\ at' = "save"
      /\ UNCHANGED <<lists, step, stopNow, script, last, tracing, session, asked, left>>
  BY DEF LoadStage
<1>2. CpuTypes /\ MemTypes /\ TapeTypes
  BY DEF MonitorInv, TypeOK
<1>3. CpuTypes' /\ MemTypes' /\ TapeTypes'
  BY <1>2, LoadStageTyped
<1>4. PICK xs \in Seq(Access) : Bus(xs) \/ UNCHANGED <<pending, seen>>
  BY <1>2, LoadStageTyped
<1> QED BY <1>1, <1>3, <1>4, StageKeeps

LEMMA SaveStageTyped ==
  ASSUME CpuTypes, MemTypes, TapeTypes, SaveStage
  PROVE  /\ CpuTypes' /\ MemTypes' /\ TapeTypes'
         /\ \E xs \in Seq(Access) : Bus(xs) \/ UNCHANGED <<pending, seen>>
<1>1. UNCHANGED <<halted, iff, ei>>
  BY DEF SaveStage
<1>2. CASE saving /\ pc = SaBytes
  <2>1. PICK opened \in BOOLEAN :
          /\ SaveTrap(opened) /\ Ret
          /\ Bus((IF opened THEN SaveReads ELSE <<>>) \o RetReads(sp))
    BY <1>2 DEF SaveStage
  <2>2. MemTypes' /\ TapeTypes'
    BY <2>1, SaveTyped
  <2>3. CpuTypes'
    <3>1. pc' \in Address /\ sp' \in Address
      BY <2>1, <2>2, RetTyped
    <3> QED BY <1>1, <3>1 DEF CpuTypes
  <2>4. (IF opened THEN SaveReads ELSE <<>>) \o RetReads(sp) \in Seq(Access)
    <3>1. (IF opened THEN SaveReads ELSE <<>>) \in Seq(Access)
      BY TrafficTyped, EmptySeq
    <3> QED BY <3>1, TrafficTyped, ConcatProperties
  <2> QED BY <2>1, <2>2, <2>3, <2>4
<1>3. CASE ~(saving /\ pc = SaBytes)
  <2>1. UNCHANGED <<mem, regs, tapes, pc, sp, pending, seen>>
    BY <1>3 DEF SaveStage
  <2>2. CpuTypes' /\ MemTypes' /\ TapeTypes'
    BY <1>1, <2>1 DEF CpuTypes, MemTypes, TapeTypes, regs, tapes
  <2>3. <<>> \in Seq(Access)
    BY EmptySeq
  <2> QED BY <2>1, <2>2, <2>3
<1> QED BY <1>2, <1>3

LEMMA SaveKeeps == ASSUME MonitorInv, SaveStage PROVE MonitorInv'
<1>1. /\ at = "save" /\ at' = "step"
      /\ UNCHANGED <<lists, step, stopNow, script, last, tracing, session, asked, left>>
  BY DEF SaveStage
<1>2. CpuTypes /\ MemTypes /\ TapeTypes
  BY DEF MonitorInv, TypeOK
<1>3. CpuTypes' /\ MemTypes' /\ TapeTypes'
  BY <1>2, SaveStageTyped
<1>4. PICK xs \in Seq(Access) : Bus(xs) \/ UNCHANGED <<pending, seen>>
  BY <1>2, SaveStageTyped
<1> QED BY <1>1, <1>3, <1>4, StageKeeps

\* One instruction: what it leaves behind, and its traffic on the bus.
LEMMA StepTyped ==
  ASSUME CpuTypes, MemTypes, StepStage
  PROVE  /\ CpuTypes' /\ MemTypes'
         /\ \E xs \in Seq(Access) : Bus(xs) \/ UNCHANGED <<pending, seen>>
<1>1. CASE Idle /\ ei' = FALSE
  <2>1. CpuTypes' /\ MemTypes'
    BY <1>1 DEF Idle, CpuTypes, MemTypes, regs
  <2>2. <<>> \in Seq(Access) /\ UNCHANGED <<pending, seen>>
    BY <1>1, EmptySeq DEF Idle
  <2> QED BY <2>1, <2>2
<1>2. ASSUME NEW e \in Program[pc], ei' = (e.kind = "ei"),
             Plain(e) \/ Halt(e) \/ EnableInts(e) \/ Call(e) \/ Return(e)
      PROVE  /\ CpuTypes' /\ MemTypes'
             /\ \E xs \in Seq(Access) : Bus(xs)
  <2>1. /\ pc \in Address /\ sp \in Address /\ halted \in BOOLEAN /\ iff \in BOOLEAN
        /\ mem \in [Address -> Byte] /\ af \in Byte /\ ix \in Address /\ de \in Address /\ carry \in BOOLEAN
    BY DEF CpuTypes, MemTypes
  <2>2. e.next \in Address /\ e.acc \in Seq(Access) /\ ei' \in BOOLEAN
    BY <1>2, <2>1, ProgramTyped
  <2>3. Fetch \in Seq(Access) /\ PushWrites \in Seq(Access) /\ RetReads(sp) \in Seq(Access)
    BY TrafficTyped
  <2>4. \A xs \in Seq(Access) : Fetch \o xs \in Seq(Access)
    BY <2>3, ConcatProperties
  <2>5. \A p \in Address : Wrapped(p - 2) \in Address /\ Wrapped(p + 1) \in Address /\ Wrapped(p + 2) \in Address
    <3>1. \A p \in Address : p - 2 \in Int /\ p + 1 \in Int /\ p + 2 \in Int
      BY AddressNat
    <3> QED BY <3>1, Wraps
  <2>6. CASE Plain(e)
    <3> DEFINE writes == {e.acc[i].addr : i \in {j \in 1 .. Len(e.acc) : e.acc[j].kind = "w"}}
    <3>1. /\ pc' = e.next /\ UNCHANGED <<regs, sp, halted, iff>> /\ Bus(Fetch \o e.acc)
          /\ UNCHANGED mem \/ \E a \in writes, v \in Stores : mem' = Stored(a, <<v>>)
      BY <2>6 DEF Plain
    <3>2. ASSUME NEW a \in writes PROVE a \in Int
      <4>1. PICK i \in 1 .. Len(e.acc) : a = e.acc[i].addr
        OBVIOUS
      <4>2. e.acc[i] \in Access
        BY <2>2, ElementOfSeq
      <4> QED BY <4>1, <4>2 DEF Access
    <3>3. mem' \in [Address -> Byte]
      <4>1. CASE UNCHANGED mem
        BY <2>1, <4>1
      <4>2. ASSUME NEW a \in writes, NEW v \in Stores, mem' = Stored(a, <<v>>) PROVE mem' \in [Address -> Byte]
        <5>1. <<v>> \in Seq(Byte)
          BY ProgramAssumption
        <5> HIDE DEF writes
        <5>2. a \in Int
          BY <3>2
        <5> QED BY <2>1, <4>2, <5>1, <5>2, StoredTyped
      <4> QED BY <3>1, <4>1, <4>2
    <3>4. CpuTypes'
      BY <2>1, <2>2, <3>1 DEF CpuTypes
    <3>5. MemTypes'
      BY <2>1, <3>1, <3>3 DEF MemTypes, regs
    <3> QED BY <2>2, <2>4, <3>1, <3>4, <3>5
  <2>7. CASE Halt(e)
    <3>1. pc' = e.next /\ halted' = TRUE /\ Bus(Fetch) /\ UNCHANGED <<mem, regs, sp, iff>>
      BY <2>7 DEF Halt
    <3> QED BY <2>1, <2>2, <2>3, <3>1 DEF CpuTypes, MemTypes, regs
  <2>8. CASE EnableInts(e)
    <3>1. pc' = e.next /\ iff' = TRUE /\ Bus(Fetch) /\ UNCHANGED <<mem, regs, sp, halted>>
      BY <2>8 DEF EnableInts
    <3> QED BY <2>1, <2>2, <2>3, <3>1 DEF CpuTypes, MemTypes, regs
  <2>9. CASE Call(e)
    <3>1. /\ pc' = e.next /\ sp' = Wrapped(sp - 2) /\ mem' = Pushed(Wrapped(pc + 1))
          /\ Bus(Fetch \o PushWrites) /\ UNCHANGED <<carry, halted, iff>>
      BY <2>9 DEF Call
    <3>2. PICK r \in Registers : af' = r.a /\ ix' = r.ix /\ de' = r.de
      BY <2>9 DEF Call
    <3>3. af' \in Byte /\ ix' \in Address /\ de' \in Address
      BY <3>2, TrapAssumption
    <3>4. mem' \in [Address -> Byte]
      BY <2>1, <2>5, <3>1, PushedTyped
    <3>5. CpuTypes'
      BY <2>1, <2>2, <2>5, <3>1 DEF CpuTypes
    <3>6. MemTypes'
      BY <2>1, <3>1, <3>3, <3>4 DEF MemTypes
    <3> QED BY <2>3, <2>4, <3>1, <3>5, <3>6
  <2>10. CASE Return(e)
    <3>1. pc' = Popped(mem) /\ sp' = Wrapped(sp + 2) /\ Bus(Fetch \o RetReads(sp)) /\ UNCHANGED <<mem, regs, halted, iff>>
      BY <2>10 DEF Return
    <3>2. pc' \in Address
      BY <2>1, <3>1, WordsTyped
    <3>3. CpuTypes'
      BY <2>1, <2>2, <2>5, <3>1, <3>2 DEF CpuTypes
    <3>4. MemTypes'
      BY <2>1, <3>1 DEF MemTypes, regs
    <3> QED BY <2>3, <2>4, <3>1, <3>3, <3>4
  <2> QED BY <1>2, <2>6, <2>7, <2>8, <2>9, <2>10
<1> QED BY <1>1, <1>2 DEF StepStage

LEMMA StepKeeps == ASSUME MonitorInv, StepStage PROVE MonitorInv'
<1>1. /\ at = "step" /\ at' = "hook" /\ left' = (IF left > 0 THEN left - 1 ELSE left)
      /\ UNCHANGED <<lists, step, stopNow, script, last, tracing, tapes, session, asked>>
  BY DEF StepStage
<1>2. CpuTypes /\ MemTypes /\ TapeTypes
  BY DEF MonitorInv, TypeOK
<1>3. CpuTypes' /\ MemTypes'
  BY <1>2, StepTyped
<1>4. TapeTypes'
  BY <1>1, <1>2 DEF TapeTypes, tapes
<1>5. PICK xs \in Seq(Access) : Bus(xs) \/ UNCHANGED <<pending, seen>>
  BY <1>2, StepTyped
<1>6. /\ BusTypes' /\ (attachedDbg' => FirstHeard') /\ Quiet' /\ ListTypes' /\ ListsAsked'
      /\ ~attachedDbg => UNCHANGED <<pending, seen>>
  BY <1>1, <1>5, MachineKeeps
<1>7. UNCHANGED <<attachedDbg, runs, step>>
  BY <1>1 DEF session
<1>8. CountTypes' /\ CountsLeft'
  BY <1>1, <1>7 DEF MonitorInv, TypeOK, CountTypes, CountsLeft
<1>9. LoopTypes'
  BY <1>1, <1>7 DEF MonitorInv, TypeOK, LoopTypes
<1>10. Detached'
  BY <1>1, <1>6, <1>7 DEF MonitorInv, Detached
<1> QED BY <1>3, <1>4, <1>6, <1>8, <1>9, <1>10 DEF MonitorInv, TypeOK

-----------------------------------------------------------------------------
(* The emulator is started and ends. *)

LEMMA FirstTypes == InitialMem \in [Address -> Byte] /\ StackTop \in Address
BY Halves, ProgramAssumption DEF InitialMem

LEMMA NoOption ==
  /\ NoOptions.lists = [k \in Kinds |-> <<>>] /\ NoOptions.script = <<>>
  /\ NoOptions.trace = FALSE /\ NoOptions.stop = FALSE
BY DEF NoOptions

\* Nothing runs and no monitor is attached.
LEMMA InitKeeps == ASSUME Init PROVE MonitorInv
<1>1. /\ at = "gone" /\ runs = 0 /\ attachedDbg = FALSE
      /\ pc = 0 /\ sp = StackTop /\ halted = FALSE /\ iff = FALSE /\ ei = FALSE
      /\ mem = InitialMem /\ af = 0 /\ ix = 0 /\ de = 0 /\ carry = FALSE
      /\ file = <<>> /\ blocks = <<>> /\ pos = 0 /\ attached = FALSE /\ saving = FALSE
      /\ saved = <<>> /\ taped = <<>>
      /\ tracing = FALSE /\ stopNow = FALSE /\ step = 0 /\ pending = NoHit /\ script = <<>> /\ last = Blank
      /\ seen = <<>> /\ left = -1
      /\ lists = [k \in Kinds |-> <<>>] /\ asked = [k \in Kinds |-> ToBag(<<>>)]
  BY NoOption DEF Init
<1>2. LoopTypes /\ CpuTypes /\ MemTypes /\ TapeTypes
  <2>1. LoopTypes /\ CpuTypes
    BY <1>1, FirstTypes, Sizes DEF LoopTypes, CpuTypes
  <2>2. MemTypes
    BY <1>1, FirstTypes, Sizes DEF MemTypes
  <2>3. TapeTypes
    BY <1>1, EmptySeq DEF TapeTypes
  <2> QED BY <2>1, <2>2, <2>3
<1>3. ListTypes /\ CountTypes /\ BusTypes
  <2>1. Blank \in Lines
    BY DEF Lines, Blank
  <2>2. ListTypes
    <3>1. lists \in [Kinds -> Seq(Nat)]
      BY <1>1, EmptySeq
    <3> QED BY <1>1, <2>1, <3>1, EmptySeq DEF ListTypes
  <2>3. CountTypes /\ BusTypes
    BY <1>1, EmptySeq DEF CountTypes, BusTypes
  <2> QED BY <2>2, <2>3
<1>4. ListsAsked
  BY <1>1 DEF ListsAsked
<1> QED BY <1>1, <1>2, <1>3, <1>4 DEF MonitorInv, TypeOK, CountsLeft, Quiet, Detached

LEMMA OptionsTyped ==
  ASSUME runs \in Nat, runs < Len(Sessions), NEW s \in Sessions[runs + 1]
  PROVE  runs + 1 \in DOMAIN Sessions /\ s \in Options
<1>1. DOMAIN Sessions = 1 .. Len(Sessions) /\ Len(Sessions) \in Nat
  BY MonitorAssumption, LenProperties
<1>2. runs + 1 \in 1 .. Len(Sessions)
  BY <1>1
<1>3. Sessions[runs + 1] \subseteq Options
  BY <1>2, MonitorAssumption, ElementOfSeq
<1> QED BY <1>1, <1>2, <1>3

LEMMA StartTyped ==
  ASSUME runs \in Nat, CpuTypes, MemTypes, TapeTypes, Start
  PROVE  runs' \in Nat /\ CpuTypes' /\ MemTypes' /\ TapeTypes'
<1>1. runs < Len(Sessions)
  BY DEF Start
<1>2. PICK s \in Sessions[runs + 1] : PowerOn(s)
  BY DEF Start
<1>3. /\ saving' = s.save /\ runs' = runs + 1
      /\ (file' = <<>> /\ saved' = <<>>) \/ UNCHANGED <<file, saved>>
      /\ UNCHANGED <<mem, regs, cpu, pos>>
      /\ UNCHANGED <<blocks, attached, taped>> \/ (blocks' = ParsedFrom(file) /\ attached' = TRUE /\ taped' = saved)
  BY <1>2 DEF Start, PowerOn
<1>4. s.save \in BOOLEAN
  BY <1>1, OptionsTyped DEF Options
<1>5. CpuTypes' /\ MemTypes'
  BY <1>3 DEF CpuTypes, MemTypes, cpu, regs
<1>6. TapeTypes'
  <2>1. ParsedFrom(file) \in Seq(Seq(Byte))
    BY ParsedTyped DEF TapeTypes
  <2> QED BY <1>3, <1>4, <2>1, EmptySeq DEF TapeTypes
<1> QED BY <1>3, <1>5, <1>6

LEMMA StartKeeps == ASSUME MonitorInv, Start PROVE MonitorInv'
<1>1. PICK s \in Sessions[runs + 1] : PowerOn(s)
  BY DEF Start
<1>2. /\ at = "gone" /\ at' = "hook" /\ runs' = runs + 1 /\ runs < Len(Sessions)
      /\ attachedDbg' = s.monitor /\ asked' = [k \in Kinds |-> ToBag(s.lists[k])]
      /\ lists' = s.lists /\ tracing' = s.trace /\ stopNow' = s.stop /\ script' = s.script
      /\ step' = 0 /\ pending' = NoHit /\ last' = Blank
      /\ saving' = s.save
      /\ (file' = <<>> /\ saved' = <<>>) \/ UNCHANGED <<file, saved>>
      /\ UNCHANGED <<mem, regs, cpu, pos, seen, left>>
      /\ UNCHANGED <<blocks, attached, taped>> \/ (blocks' = ParsedFrom(file) /\ attached' = TRUE /\ taped' = saved)
  BY <1>1 DEF Start, PowerOn, debug_attach
<1>3. runs \in Nat /\ runs + 1 \in DOMAIN Sessions /\ s \in Options
  BY <1>2, OptionsTyped DEF MonitorInv, TypeOK, LoopTypes
<1>4. /\ s.lists \in [Kinds -> Seq(Nat)] /\ s.script \in Seq(Lines)
      /\ s.trace \in BOOLEAN /\ s.stop \in BOOLEAN /\ s.monitor \in BOOLEAN
  BY <1>3 DEF Options
<1>5. CpuTypes' /\ MemTypes' /\ TapeTypes'
  BY <1>3, StartTyped DEF MonitorInv, TypeOK
<1>6. LoopTypes'
  BY <1>2, <1>3, <1>4 DEF LoopTypes
<1>7. ListTypes'
  <2>1. Blank \in Lines
    BY DEF Blank, Lines
  <2> QED BY <1>2, <1>4, <2>1 DEF ListTypes
<1>8. ListsAsked'
  BY <1>2 DEF ListsAsked
<1>9. seen = <<>> /\ left = -1 /\ pending = NoHit
  <2>1. seen = <<>> /\ pending = NoHit
    BY <1>2 DEF MonitorInv, Quiet
  <2>2. left = -1
    BY <1>2 DEF MonitorInv, Detached
  <2> QED BY <2>1, <2>2
<1>10. CountTypes' /\ BusTypes' /\ CountsLeft' /\ Quiet' /\ Detached'
  BY <1>2, <1>9, EmptySeq DEF CountTypes, BusTypes, CountsLeft, Quiet, Detached
<1>11. FirstHeard'
  <2>1. Heard' = {}
    BY <1>2, <1>9 DEF Heard
  <2> QED BY <1>2, <2>1 DEF FirstHeard
<1> QED BY <1>5, <1>6, <1>7, <1>8, <1>10, <1>11 DEF MonitorInv, TypeOK

LEMMA EndTyped ==
  ASSUME runs \in Nat, TapeTypes, End
  PROVE  runs' \in Nat /\ CpuTypes' /\ MemTypes' /\ TapeTypes'
<1>1. /\ pc' = 0 /\ sp' = StackTop /\ halted' = FALSE /\ iff' = FALSE /\ ei' = FALSE
      /\ mem' = InitialMem /\ af' = 0 /\ ix' = 0 /\ de' = 0 /\ carry' = FALSE
      /\ blocks' = <<>> /\ pos' = 0 /\ attached' = FALSE /\ saving' = FALSE /\ taped' = <<>>
      /\ UNCHANGED <<file, saved, runs>>
  BY DEF End
<1>2. CpuTypes'
  BY <1>1, FirstTypes, Sizes DEF CpuTypes
<1>3. MemTypes'
  BY <1>1, FirstTypes, Sizes DEF MemTypes
<1>4. TapeTypes'
  BY <1>1, EmptySeq DEF TapeTypes
<1> QED BY <1>1, <1>2, <1>3, <1>4

LEMMA EndKeeps == ASSUME MonitorInv, End PROVE MonitorInv'
<1>1. /\ at' = "gone" /\ attachedDbg' = FALSE
      /\ tracing' = FALSE /\ stopNow' = FALSE /\ step' = 0 /\ pending' = NoHit /\ script' = <<>> /\ last' = Blank
      /\ seen' = <<>> /\ left' = -1
      /\ lists' = [k \in Kinds |-> <<>>] /\ asked' = [k \in Kinds |-> ToBag(<<>>)]
  BY NoOption DEF End, debug_attach
<1>2. LoopTypes' /\ CpuTypes' /\ MemTypes' /\ TapeTypes'
  <2>1. runs' \in Nat /\ CpuTypes' /\ MemTypes' /\ TapeTypes'
    BY EndTyped DEF MonitorInv, TypeOK, LoopTypes
  <2> QED BY <1>1, <2>1 DEF LoopTypes
<1>3. ListTypes' /\ CountTypes' /\ BusTypes'
  <2>1. Blank \in Lines
    BY DEF Lines, Blank
  <2>2. ListTypes'
    <3>1. lists' \in [Kinds -> Seq(Nat)]
      BY <1>1, EmptySeq
    <3> QED BY <1>1, <2>1, <3>1, EmptySeq DEF ListTypes
  <2>3. CountTypes' /\ BusTypes'
    BY <1>1, EmptySeq DEF CountTypes, BusTypes
  <2> QED BY <2>2, <2>3
<1>4. ListsAsked'
  BY <1>1 DEF ListsAsked
<1> QED BY <1>1, <1>2, <1>3, <1>4 DEF MonitorInv, TypeOK, CountsLeft, Quiet, Detached

-----------------------------------------------------------------------------
LEMMA MonitorStep == ASSUME MonitorInv, [Next]_vars PROVE MonitorInv'
<1>1. CASE UNCHANGED vars
  <2>1. UNCHANGED <<at, lists, step, stopNow, pending, script, last, tracing, mem, af, ix, de, carry>>
    BY <1>1 DEF vars, monitor, regs
  <2>2. UNCHANGED <<file, blocks, pos, attached, saving, saved, taped, pc, sp, halted, iff, ei, attachedDbg, runs, asked, seen, left>>
    BY <1>1 DEF vars, tapes, cpu, session
  <2>3. TypeOK'
    BY <2>1, <2>2 DEF MonitorInv, TypeOK, LoopTypes, CpuTypes, MemTypes, TapeTypes, ListTypes, CountTypes, BusTypes
  <2>4. (attachedDbg => FirstHeard)'
    BY <2>1, <2>2 DEF MonitorInv, FirstHeard, Heard, AskedWatch
  <2> QED BY <2>1, <2>2, <2>3, <2>4 DEF MonitorInv, ListsAsked, CountsLeft, Quiet, Detached
<1>2. CASE Next
  BY <1>2, HookKeeps, ReplKeeps, LoadKeeps, SaveKeeps, StepKeeps, InterruptKeeps, StartKeeps, EndKeeps DEF Next, Loop
<1> QED BY <1>1, <1>2

\* The monitor stops exactly when it was asked to, and tells the first watched access.
LEMMA StopStep ==
  ASSUME MonitorInv, [Next]_vars, at = "hook", at' \in {"repl", "load"}, attachedDbg
  PROVE  /\ at' = "repl" <=> Due
         /\ pending = IF Heard = {} THEN NoHit ELSE seen[Min(Heard)]
<1>1. Hook
  BY DEF Next, Loop, Hook, Repl, LoadStage, SaveStage, StepStage, Interrupt, Start, PowerOn, End, vars
<1>2. at' = IF Stops(pc, halted) THEN "repl" ELSE "load"
  BY <1>1 DEF Hook
<1>3. FirstHeard
  BY DEF MonitorInv
<1>4. pending # NoHit <=> Heard # {}
  <2>1. CASE Heard = {}
    BY <1>3, <2>1 DEF FirstHeard
  <2>2. CASE Heard # {}
    <3>1. seen \in Seq(Access)
      BY DEF MonitorInv, TypeOK, BusTypes
    <3>2. Heard \subseteq 1 .. Len(seen)
      BY <3>1, LenProperties DEF Heard
    <3>3. Min(Heard) \in Heard
      <4>1. Heard \subseteq Nat
        BY <3>2
      <4> QED BY <2>2, <4>1, MinIn
    <3>4. seen[Min(Heard)] \in Access
      BY <3>1, <3>2, <3>3, ElementOfSeq
    <3>5. \A x \in Access : x # NoHit
      BY DEF Access, NoHit, Kinds
    <3> QED BY <1>3, <2>2, <3>4, <3>5 DEF FirstHeard
  <2> QED BY <2>1, <2>2
<1>5. step = 1 <=> left = 0
  BY DEF MonitorInv, CountsLeft, TypeOK, CountTypes
<1>6. AtBreakpoint(pc, halted) <=> ~halted /\ BagIn(pc, asked["b"])
  <2>1. "b" \in Kinds /\ ListsAsked
    BY DEF MonitorInv, Kinds
  <2> QED BY <2>1, ListsInBag DEF AtBreakpoint
<1>7. Stops(pc, halted) <=> Due
  BY <1>4, <1>5, <1>6 DEF Stops, Due, StopOwed
<1> QED BY <1>2, <1>3, <1>7 DEF FirstHeard

\* After a hook that did not stop, nothing is owed until the instruction, unless a trap
\* comes between.
NothingMissed ==
  at \in {"load", "save", "step"} /\ attachedDbg /\ before = "hook" => ~StopOwed

\* What is owed does not change while nothing runs.
LEMMA OwedStays ==
  ASSUME UNCHANGED <<halted, pc, asked, seen>>
  PROVE  StopOwed' <=> StopOwed
BY DEF StopOwed, Heard, AskedWatch

LEMMA MissStep ==
  ASSUME MonitorInv, NothingMissed, [Next]_vars
  PROVE  NothingMissed'
<1>1. CASE Hook
  <2>1. /\ at = "hook" /\ UNCHANGED <<pc, halted, asked, attachedDbg>>
        /\ attachedDbg => seen' = <<>> /\ at' \in {"repl", "load"}
    BY <1>1 DEF Hook, cpu, session
  <2>2. CASE attachedDbg /\ at' = "load"
    <3>1. ~Due
      BY <1>1, <2>1, <2>2, StopStep
    <3>2. Heard' = {}
      BY <2>1, <2>2 DEF Heard
    <3>3. ~(~halted /\ BagIn(pc, asked["b"]))
      BY <3>1 DEF Due, StopOwed
    <3> QED BY <2>1, <3>2, <3>3 DEF NothingMissed, StopOwed
  <2> QED BY <2>1, <2>2 DEF NothingMissed
<1>2. CASE Repl
  BY <1>2 DEF Repl, NothingMissed
<1>3. ASSUME at \in {"load", "save"},
             before' = "trap" \/ UNCHANGED <<halted, pc, asked, seen, before, attachedDbg>>
      PROVE  NothingMissed'
  BY <1>3, OwedStays DEF NothingMissed
<1>4. CASE LoadStage
  BY <1>3, <1>4 DEF LoadStage, session
<1>5. CASE SaveStage
  BY <1>3, <1>5 DEF SaveStage, session
<1>6. CASE StepStage \/ Interrupt \/ Start \/ End
  BY <1>6 DEF StepStage, Interrupt, Start, PowerOn, End, NothingMissed
<1>7. CASE UNCHANGED vars
  <2>1. UNCHANGED <<at, halted, pc, asked, seen, before, attachedDbg>>
    BY <1>7 DEF vars, cpu, session
  <2> QED BY <2>1, OwedStays DEF NothingMissed
<1> QED BY <1>1, <1>2, <1>4, <1>5, <1>6, <1>7 DEF Next, Loop

\* debug_step_hook, debug_note_* and the lists of debug.c: the monitor prompts at exactly
\* the hooks where a breakpoint, a watched access, the end of a step count or the start
\* calls for it, whatever was typed before, and reports the first access that was watched;
\* and no instruction runs while a stop is owed before it, except for the one that a trap
\* returns to, which has no hook.  An address that -b gives twice is asked for twice.
THEOREM MonitorStopsWhenDue == Spec => StopsWhenDue
<1>1. Init => MonitorInv /\ NothingMissed
  <2>1. Init => NothingMissed
    BY DEF Init, NothingMissed
  <2> QED BY <2>1, InitKeeps
<1>2. MonitorInv /\ NothingMissed /\ [Next]_vars => (MonitorInv /\ NothingMissed)'
  BY MonitorStep, MissStep
<1>3. MonitorInv /\ NothingMissed /\ [Next]_vars =>
        [attachedDbg =>
           /\ at = "hook" /\ at' \in {"repl", "load"} =>
                /\ at' = "repl" <=> Due
                /\ pending = IF Heard = {} THEN NoHit ELSE seen[Min(Heard)]
           /\ at = "step" /\ at' = "hook" /\ before = "hook" => ~StopOwed]_vars
  BY StopStep DEF NothingMissed
<1> QED BY <1>1, <1>2, <1>3, PTL DEF Spec, StopsWhenDue

-----------------------------------------------------------------------------
(* The saved file, read back. *)

\* What a tape's block holds of a call to save: the flag, the bytes and their parity.
Image(s) == <<s.flag>> \o s.bytes \o <<Parity(s.flag, s.bytes)>>
Images(ss) == [m \in 1 .. Len(ss) |-> Image(ss[m])]

\* The file is a chain of whole blocks, one for each call, with nothing after the last.
Chain(f, ss) ==
  \E c \in [0 .. Len(ss) -> Progress] :
    /\ c[0] = [at |-> 1, blocks |-> <<>>]
    /\ \A m \in 1 .. Len(ss) : Whole(f, c[m - 1].at) /\ c[m] = OneMore(f, c[m - 1])
    /\ c[Len(ss)] = [at |-> Len(f) + 1, blocks |-> Images(ss)]

AllFit(ss) == \A k \in DOMAIN ss : Fits(ss[k])

LEMMA WordOf == \A n \in Nat : n < SIZE => Word(n % BASE, (n \div BASE) % BASE) = n
<1> SUFFICES ASSUME NEW n \in Nat, n < SIZE PROVE Word(n % BASE, (n \div BASE) % BASE) = n
  OBVIOUS
<1>1. BASE \in Nat /\ BASE > 0 /\ n < BASE * BASE
  BY Sizes
<1>2. \A k, b \in Nat : b > 0 => k \div b \in Nat /\ k % b \in Nat
  BY SMT
<1>3. \A k, b \in Nat : b > 0 => k = b * (k \div b) + (k % b)
  BY SMT
<1>4. \A k, b \in Nat : b > 0 /\ k < b * b => k \div b < b
  BY SMT
<1>5. \A k, b \in Nat : k < b => k % b = k
  BY SMT
<1>6. (n \div BASE) % BASE = n \div BASE
  BY <1>1, <1>2, <1>4, <1>5
<1>7. n = BASE * (n \div BASE) + (n % BASE)
  BY <1>1, <1>3
<1>8. BASE * (n \div BASE) \in Nat /\ n % BASE \in Nat
  <2>1. \A x, y \in Nat : x * y \in Nat
    BY SMT
  <2> QED BY <1>1, <1>2, <2>1
<1> QED BY <1>6, <1>7, <1>8 DEF Word

LEMMA Joining ==
  \A a, b \in Seq(Byte) :
    /\ a \o b \in Seq(Byte) /\ Len(a \o b) = Len(a) + Len(b)
    /\ \A i \in 1 .. Len(a) : (a \o b)[i] = a[i]
    /\ \A j \in 1 .. Len(b) : (a \o b)[Len(a) + j] = b[j]
<1> SUFFICES ASSUME NEW a \in Seq(Byte), NEW b \in Seq(Byte)
             PROVE  /\ a \o b \in Seq(Byte) /\ Len(a \o b) = Len(a) + Len(b)
                    /\ \A i \in 1 .. Len(a) : (a \o b)[i] = a[i]
                    /\ \A j \in 1 .. Len(b) : (a \o b)[Len(a) + j] = b[j]
  OBVIOUS
<1> DEFINE r == a \o b
           m == Len(a)
           n == Len(b)
<1>1. /\ r \in Seq(Byte) /\ Len(r) = m + n /\ m \in Nat /\ n \in Nat
      /\ \A i \in 1 .. m + n : r[i] = IF i <= m THEN a[i] ELSE b[i - m]
  BY ConcatProperties, LenProperties
<1> HIDE DEF r, m, n
<1>2. \A i \in 1 .. m : i \in 1 .. m + n /\ i <= m
  BY <1>1
<1>3. \A j \in 1 .. n : m + j \in 1 .. m + n /\ ~(m + j <= m) /\ m + j - m = j
  BY <1>1
<1>4. /\ r \in Seq(Byte) /\ Len(r) = m + n
      /\ \A i \in 1 .. m : r[i] = a[i]
      /\ \A j \in 1 .. n : r[m + j] = b[j]
  BY <1>1, <1>2, <1>3
<1> QED BY <1>4 DEF r, m, n

LEMMA ImageIs ==
  ASSUME NEW s \in Kept
  PROVE  /\ Image(s) \in Seq(Byte) /\ Len(Image(s)) = Len(s.bytes) + 2 /\ Len(s.bytes) \in Nat
         /\ Image(s)[1] = s.flag
         /\ \A i \in 1 .. Len(s.bytes) : Image(s)[i + 1] = s.bytes[i]
         /\ Image(s)[Len(s.bytes) + 2] = Parity(s.flag, s.bytes)
<1> DEFINE p == Parity(s.flag, s.bytes)
           n == Len(s.bytes)
           flag == <<s.flag>>
           last1 == <<p>>
           head == flag \o s.bytes
<1>1. s.flag \in Byte /\ s.bytes \in Seq(Byte) /\ n \in Nat /\ p \in Byte
  BY Parities, LenProperties DEF Kept
<1> HIDE DEF p
<1>2. flag \in Seq(Byte) /\ last1 \in Seq(Byte) /\ Len(flag) = 1 /\ Len(last1) = 1 /\ flag[1] = s.flag /\ last1[1] = p
  BY <1>1
<1> HIDE DEF flag, last1
<1>3. /\ head \in Seq(Byte) /\ Len(head) = 1 + n
      /\ \A i \in 1 .. 1 : head[i] = flag[i]
      /\ \A j \in 1 .. n : head[1 + j] = s.bytes[j]
  <2>1. Len(s.bytes) = n
    OBVIOUS
  <2>2. /\ head \in Seq(Byte) /\ Len(head) = Len(flag) + Len(s.bytes)
        /\ \A i \in 1 .. Len(flag) : head[i] = flag[i]
        /\ \A j \in 1 .. Len(s.bytes) : head[Len(flag) + j] = s.bytes[j]
    BY <1>1, <1>2, Joining
  <2> HIDE DEF head, n
  <2> QED BY <1>2, <2>1, <2>2
<1> HIDE DEF head, n
<1>4. /\ head \o last1 \in Seq(Byte) /\ Len(head \o last1) = 1 + n + 1
      /\ \A i \in 1 .. 1 + n : (head \o last1)[i] = head[i]
      /\ \A j \in 1 .. 1 : (head \o last1)[1 + n + j] = last1[j]
  <2> DEFINE all == head \o last1
  <2>1. /\ all \in Seq(Byte) /\ Len(all) = Len(head) + Len(last1)
        /\ \A i \in 1 .. Len(head) : all[i] = head[i]
        /\ \A j \in 1 .. Len(last1) : all[Len(head) + j] = last1[j]
    BY <1>2, <1>3, Joining
  <2> HIDE DEF all
  <2>2. /\ all \in Seq(Byte) /\ Len(all) = 1 + n + 1
        /\ \A i \in 1 .. 1 + n : all[i] = head[i]
        /\ \A j \in 1 .. 1 : all[1 + n + j] = last1[j]
    BY <1>2, <1>3, <2>1
  <2> QED BY <2>2 DEF all
<1> DEFINE r == Image(s)
<1>5. r = head \o last1
  BY DEF Image, p, head, flag, last1
<1> HIDE DEF r
<1>6. r \in Seq(Byte) /\ Len(r) = n + 2
  BY <1>1, <1>4, <1>5
<1>7. r[1] = s.flag
  <2>1. 1 \in 1 .. 1 + n /\ 1 \in 1 .. 1
    BY <1>1
  <2> QED BY <1>2, <1>3, <1>4, <1>5, <2>1
<1>8. \A i \in 1 .. n : r[i + 1] = s.bytes[i]
  <2>1. \A i \in 1 .. n : 1 + i \in 1 .. 1 + n /\ i + 1 = 1 + i
    BY <1>1
  <2> QED BY <1>3, <1>4, <1>5, <2>1
<1>9. r[n + 2] = p
  <2>1. n + 2 = 1 + n + 1 /\ 1 \in 1 .. 1
    BY <1>1
  <2> QED BY <1>2, <1>4, <1>5, <2>1
<1> QED BY <1>1, <1>6, <1>7, <1>8, <1>9 DEF n, p, r

\* A block in the file is its length and then its image.
LEMMA BlockIs ==
  ASSUME NEW s \in Kept, Fits(s), NEW g, g = BlockOf(s.flag, s.bytes)
  PROVE  /\ g \in Seq(Byte) /\ Len(g) = Len(Image(s)) + 2
         /\ Word(g[1], g[2]) = Len(Image(s))
         /\ \A i \in 1 .. Len(Image(s)) : g[2 + i] = Image(s)[i]
<1> DEFINE l == Len(s.bytes)
           n == l + 2
           lo == n % BASE
           hi == (n \div BASE) % BASE
           p == Parity(s.flag, s.bytes)
           start == <<lo, hi, s.flag>>
           last1 == <<p>>
           head == start \o s.bytes
<1>1. s.flag \in Byte /\ s.bytes \in Seq(Byte) /\ l \in Nat /\ n < SIZE
  BY LenProperties DEF Kept, Fits
<1>2. g \in Seq(Byte)
  BY <1>1, BlockTyped
<1>3. g = head \o last1
  BY DEF BlockOf
<1> HIDE DEF l
<1>4. Word(lo, hi) = n
  <2>1. n \in Nat
    BY <1>1
  <2> HIDE DEF n
  <2> QED BY <1>1, <2>1, WordOf
<1>5. lo \in Byte /\ hi \in Byte
  <2>1. \A k, b \in Nat : b > 0 => k % b \in 0 .. b - 1
    BY SMT
  <2>2. \A k, b \in Nat : b > 0 => k \div b \in Nat
    BY SMT
  <2>3. n \in Nat
    BY <1>1
  <2> HIDE DEF n
  <2>4. n \div BASE \in Nat
    BY <2>2, <2>3, Sizes
  <2> QED BY <2>1, <2>3, <2>4, Sizes DEF Byte
<1>6. p \in Byte
  BY <1>1, Parities
<1> HIDE DEF lo, hi, p
<1>7. start \in Seq(Byte) /\ Len(start) = 3 /\ start[1] = lo /\ start[2] = hi /\ start[3] = s.flag
  BY <1>1, <1>5
<1>8. last1 \in Seq(Byte) /\ Len(last1) = 1 /\ last1[1] = p
  BY <1>6
<1> HIDE DEF start, last1
<1>9. /\ head \in Seq(Byte) /\ Len(head) = 3 + l
      /\ \A i \in 1 .. 3 : head[i] = start[i]
      /\ \A j \in 1 .. l : head[3 + j] = s.bytes[j]
  <2>1. Len(s.bytes) = l
    BY DEF l
  <2>2. /\ head \in Seq(Byte) /\ Len(head) = Len(start) + Len(s.bytes)
        /\ \A i \in 1 .. Len(start) : head[i] = start[i]
        /\ \A j \in 1 .. Len(s.bytes) : head[Len(start) + j] = s.bytes[j]
    BY <1>1, <1>7, Joining
  <2> HIDE DEF head
  <2> QED BY <1>7, <2>1, <2>2
<1> HIDE DEF head
<1>10. /\ Len(g) = 3 + l + 1
       /\ \A i \in 1 .. 3 + l : g[i] = head[i]
       /\ \A j \in 1 .. 1 : g[3 + l + j] = last1[j]
  <2> DEFINE all == head \o last1
  <2>1. /\ Len(all) = Len(head) + Len(last1)
        /\ \A i \in 1 .. Len(head) : all[i] = head[i]
        /\ \A j \in 1 .. Len(last1) : all[Len(head) + j] = last1[j]
    BY <1>8, <1>9, Joining
  <2>2. g = all
    BY <1>3
  <2> HIDE DEF all
  <2> QED BY <1>8, <1>9, <2>1, <2>2
<1> DEFINE r == Image(s)
<1>11. /\ Len(r) = n /\ r[1] = s.flag /\ r[n] = p
       /\ \A i \in 1 .. l : r[i + 1] = s.bytes[i]
  BY ImageIs DEF l, p
<1> HIDE DEF r
<1>12. Len(g) = n + 2
  BY <1>1, <1>10
<1>13. g[1] = lo /\ g[2] = hi /\ g[3] = s.flag
  <2>1. 1 \in 1 .. 3 + l /\ 2 \in 1 .. 3 + l /\ 3 \in 1 .. 3 + l /\ 1 \in 1 .. 3 /\ 2 \in 1 .. 3 /\ 3 \in 1 .. 3
    BY <1>1
  <2> QED BY <1>7, <1>9, <1>10, <2>1
<1>14. ASSUME NEW i \in 1 .. n PROVE g[2 + i] = r[i]
  <2>1. CASE i = 1
    BY <1>11, <1>13, <2>1
  <2>2. CASE i \in 2 .. l + 1
    <3>1. PICK j \in 1 .. l : i = j + 1
      <4>1. i - 1 \in 1 .. l /\ i = (i - 1) + 1
        BY <1>1, <2>2
      <4> QED BY <4>1
    <3>2. 2 + i = 3 + j /\ 3 + j \in 1 .. 3 + l
      BY <1>1, <3>1
    <3> QED BY <1>9, <1>10, <1>11, <3>1, <3>2
  <2>3. CASE i = n
    <3>1. 2 + i = 3 + l + 1 /\ 1 \in 1 .. 1
      BY <1>1, <2>3
    <3> QED BY <1>8, <1>10, <1>11, <2>3, <3>1
  <2> QED BY <1>1, <2>1, <2>2, <2>3
<1> QED BY <1>2, <1>4, <1>11, <1>12, <1>13, <1>14 DEF r
\* What is read of a file stays what it is when the file grows.
LEMMA Grown ==
  ASSUME NEW f \in Seq(Byte), NEW g \in Seq(Byte), NEW r \in Progress, Whole(f, r.at)
  PROVE  Whole(f \o g, r.at) /\ OneMore(f \o g, r) = OneMore(f, r)
<1> DEFINE h == f \o g
           o == r.at
           n == BlockLen(f, o)
<1>1. o \in Nat \ {0} /\ Len(f) \in Nat /\ Len(g) \in Nat /\ o + 1 <= Len(f) /\ o + 1 + n <= Len(f)
  BY LenProperties DEF Progress, Whole
<1>2. h \in Seq(Byte) /\ Len(h) = Len(f) + Len(g) /\ \A i \in 1 .. Len(f) : h[i] = f[i]
  BY Joining
<1> HIDE DEF h
<1>3. o \in 1 .. Len(f) /\ o + 1 \in 1 .. Len(f)
  BY <1>1
<1>4. BlockLen(h, o) = n
  BY <1>2, <1>3 DEF BlockLen
<1>5. n \in Nat
  <2>1. f[o] \in Byte /\ f[o + 1] \in Byte
    BY <1>3, ElementOfSeq
  <2> QED BY <2>1, Words, AddressNat DEF BlockLen
<1> HIDE DEF o, n
<1>6. Whole(h, o)
  BY <1>1, <1>2, <1>4, <1>5 DEF Whole
<1>7. SubSeq(h, o + 2, o + 1 + n) = SubSeq(f, o + 2, o + 1 + n)
  <2> DEFINE first == o + 2
             end == o + 1 + n
  <2>1. first \in Int /\ end \in Int /\ \A i \in first .. end : i \in 1 .. Len(f) /\ i \in 1 .. Len(h)
    BY <1>1, <1>2, <1>5
  <2>2. \A i \in 1 .. end - first + 1 : first + i - 1 \in first .. end
    BY <1>1, <1>5
  <2> HIDE DEF first, end
  <2>3. \A i \in first .. end : h[i] = f[i] /\ f[i] \in Byte /\ h[i] \in Byte
    BY <1>2, <2>1, ElementOfSeq
  <2>4. /\ SubSeq(h, first, end) \in Seq(Byte)
        /\ Len(SubSeq(h, first, end)) = IF first <= end THEN end - first + 1 ELSE 0
        /\ \A i \in 1 .. end - first + 1 : SubSeq(h, first, end)[i] = h[first + i - 1]
    BY <2>1, <2>3, SubSeqProperties
  <2>5. /\ SubSeq(f, first, end) \in Seq(Byte)
        /\ Len(SubSeq(f, first, end)) = IF first <= end THEN end - first + 1 ELSE 0
        /\ \A i \in 1 .. end - first + 1 : SubSeq(f, first, end)[i] = f[first + i - 1]
    BY <2>1, <2>3, SubSeqProperties
  <2>6. \A i \in 1 .. Len(SubSeq(h, first, end)) : i \in 1 .. end - first + 1
    BY <2>1, <2>4
  <2>7. SubSeq(h, first, end) = SubSeq(f, first, end)
    <3> DEFINE a == SubSeq(h, first, end)
               b == SubSeq(f, first, end)
    <3>1. a \in Seq(Byte) /\ b \in Seq(Byte) /\ Len(a) = Len(b)
      BY <2>4, <2>5
    <3>2. \A i \in 1 .. Len(a) : a[i] = b[i]
      BY <2>2, <2>3, <2>4, <2>5, <2>6
    <3> HIDE DEF a, b
    <3>3. a = b
      BY <3>1, <3>2, SeqEqual
    <3> QED BY <3>3 DEF a, b
  <2> QED BY <2>7 DEF first, end
<1>8. OneMore(h, r) = [at |-> o + 2 + n, blocks |-> Append(r.blocks, SubSeq(h, o + 2, o + 1 + n))]
  BY <1>4, <1>6 DEF OneMore, o
<1>9. OneMore(f, r) = [at |-> o + 2 + n, blocks |-> Append(r.blocks, SubSeq(f, o + 2, o + 1 + n))]
  BY DEF OneMore, o, n
<1> QED BY <1>6, <1>7, <1>8, <1>9 DEF h, o

\* A block at the end of a file is read whole.
LEMMA ReadLast ==
  ASSUME NEW f \in Seq(Byte), NEW s \in Kept, Fits(s), NEW r \in Progress, r.at = Len(f) + 1,
         NEW g, g = BlockOf(s.flag, s.bytes)
  PROVE  /\ Whole(f \o g, r.at)
         /\ OneMore(f \o g, r) = [at |-> Len(f \o g) + 1, blocks |-> Append(r.blocks, Image(s))]
<1> DEFINE h == f \o g
           o == r.at
           n == Len(Image(s))
           im == Image(s)
<1>1. /\ g \in Seq(Byte) /\ Len(g) = n + 2 /\ Word(g[1], g[2]) = n /\ im \in Seq(Byte)
      /\ n \in Nat /\ n >= 2 /\ \A i \in 1 .. n : g[2 + i] = im[i]
  BY BlockIs, ImageIs
<1>2. Len(f) \in Nat /\ o = Len(f) + 1
  BY LenProperties
<1> HIDE DEF im
<1>3. h \in Seq(Byte) /\ Len(h) = Len(f) + Len(g) /\ \A j \in 1 .. Len(g) : h[Len(f) + j] = g[j]
  BY <1>1, Joining
<1> HIDE DEF h, o, n
<1>4. h[o] = g[1] /\ h[o + 1] = g[2] /\ \A i \in 1 .. n : h[o + 1 + i] = im[i]
  <2>1. 1 \in 1 .. Len(g) /\ 2 \in 1 .. Len(g) /\ \A i \in 1 .. n : 2 + i \in 1 .. Len(g)
    BY <1>1
  <2>2. o = Len(f) + 1 /\ o + 1 = Len(f) + 2 /\ \A i \in 1 .. n : o + 1 + i = Len(f) + (2 + i)
    BY <1>2
  <2>3. \A i \in 1 .. n : h[Len(f) + (2 + i)] = g[2 + i]
    BY <1>3, <2>1
  <2> QED BY <1>1, <1>3, <2>1, <2>2, <2>3
<1>5. BlockLen(h, o) = n
  BY <1>1, <1>4 DEF BlockLen
<1>6. o + 1 + n = Len(h) /\ o + 1 <= Len(h) /\ o + 2 + n = Len(h) + 1
  BY <1>1, <1>2, <1>3
<1>7. Whole(h, o)
  BY <1>1, <1>2, <1>5, <1>6 DEF Whole
<1>8. SubSeq(h, o + 2, o + 1 + n) = im
  <2> DEFINE first == o + 2
             end == o + 1 + n
             b == SubSeq(h, first, end)
  <2>1. first \in Int /\ end \in Int /\ first <= end /\ end - first + 1 = n
    BY <1>1, <1>2
  <2>2. \A i \in first .. end : i \in 1 .. Len(h)
    BY <1>1, <1>2, <1>6
  <2>3. \A i \in 1 .. n : first + i - 1 = o + 1 + i
    BY <1>2
  <2> HIDE DEF first, end
  <2>4. \A i \in first .. end : h[i] \in Byte
    BY <1>3, <2>2, ElementOfSeq
  <2>5. b \in Seq(Byte) /\ Len(b) = n /\ \A i \in 1 .. n : b[i] = h[first + i - 1]
    BY <2>1, <2>4, SubSeqProperties
  <2>6. \A i \in 1 .. Len(b) : b[i] = im[i]
    BY <1>4, <2>3, <2>5
  <2> HIDE DEF b
  <2>7. b = im
    <3>1. Len(im) = n
      BY DEF im, n
    <3> QED BY <1>1, <2>5, <2>6, <3>1, SeqEqual
  <2> QED BY <2>7 DEF b, first, end
<1>9. OneMore(h, r) = [at |-> o + 2 + n, blocks |-> Append(r.blocks, SubSeq(h, o + 2, o + 1 + n))]
  BY <1>5, <1>7 DEF OneMore, o
<1> QED BY <1>6, <1>7, <1>8, <1>9 DEF h, o, im

LEMMA ImagesTyped == \A ss \in Seq(Kept) : Images(ss) \in Seq(Seq(Byte)) /\ Len(Images(ss)) = Len(ss)
<1> SUFFICES ASSUME NEW ss \in Seq(Kept) PROVE Images(ss) \in Seq(Seq(Byte)) /\ Len(Images(ss)) = Len(ss)
  OBVIOUS
<1>1. \A m \in 1 .. Len(ss) : Image(ss[m]) \in Seq(Byte)
  BY ElementOfSeq, ImageIs
<1>2. Images(ss) \in [1 .. Len(ss) -> Seq(Byte)] /\ Len(ss) \in Nat
  BY <1>1, LenProperties DEF Images
<1> HIDE DEF Images
<1> QED BY <1>2, FunctionSeq

LEMMA ImagesGrow ==
  ASSUME NEW ss \in Seq(Kept), NEW s \in Kept
  PROVE  Images(Append(ss, s)) = Append(Images(ss), Image(s))
<1> DEFINE all == Append(ss, s)
           x == Images(all)
           y == Append(Images(ss), Image(s))
           n == Len(ss)
<1>1. /\ all \in Seq(Kept) /\ Len(all) = n + 1 /\ n \in Nat
      /\ all[n + 1] = s /\ \A i \in 1 .. n : all[i] = ss[i]
  BY AppendProperties, LenProperties
<1> HIDE DEF all
<1>2. x \in Seq(Seq(Byte)) /\ Len(x) = n + 1
  BY <1>1, ImagesTyped
<1>3. Images(ss) \in Seq(Seq(Byte)) /\ Len(Images(ss)) = n /\ Image(s) \in Seq(Byte)
  BY ImagesTyped, ImageIs
<1>4. /\ y \in Seq(Seq(Byte)) /\ Len(y) = n + 1 /\ y[n + 1] = Image(s)
      /\ \A i \in 1 .. n : y[i] = Images(ss)[i]
  BY <1>3, AppendProperties
<1>5. \A i \in 1 .. n : Images(ss)[i] = Image(ss[i])
  BY DEF Images
<1>6. \A i \in 1 .. n + 1 : x[i] = Image(all[i])
  BY <1>1 DEF Images
<1> HIDE DEF x, y
<1>7. \A i \in 1 .. n + 1 : x[i] = y[i]
  <2>1. \A i \in 1 .. n + 1 : i \in 1 .. n \/ i = n + 1
    BY <1>1
  <2> QED BY <1>1, <1>4, <1>5, <1>6, <2>1
<1>8. x = y
  BY <1>2, <1>4, <1>7, SeqEqual
<1> QED BY <1>8 DEF x, y, all
LEMMA ChainEmpty == Chain(<<>>, <<>>)
<1> DEFINE start == [at |-> 1, blocks |-> <<>>]
           c == [k \in 0 .. 0 |-> start]
<1>1. start \in Progress /\ Len(<<>>) = 0
  BY EmptySeq DEF Progress
<1>2. Images(<<>>) = <<>>
  BY ImagesTyped, EmptySeq
<1>3. c \in [0 .. 0 -> Progress] /\ c[0] = start
  BY <1>1
<1>4. start = [at |-> Len(<<>>) + 1, blocks |-> Images(<<>>)]
  BY <1>1, <1>2
<1> HIDE DEF c, start
<1>5. 1 .. 0 = {}
  OBVIOUS
<1>6. /\ c \in [0 .. Len(<<>>) -> Progress] /\ c[0] = start
      /\ \A m \in 1 .. Len(<<>>) : Whole(<<>>, c[m - 1].at) /\ c[m] = OneMore(<<>>, c[m - 1])
      /\ c[Len(<<>>)] = [at |-> Len(<<>>) + 1, blocks |-> Images(<<>>)]
  BY <1>1, <1>3, <1>4, <1>5
<1> QED BY <1>6 DEF Chain, start

\* One more call to save is one more link of the chain.
LEMMA ChainGrows ==
  ASSUME NEW f \in Seq(Byte), NEW ss \in Seq(Kept), Chain(f, ss), NEW s \in Kept, Fits(s)
  PROVE  Chain(f \o BlockOf(s.flag, s.bytes), Append(ss, s))
<1> DEFINE g == BlockOf(s.flag, s.bytes)
           h == f \o g
           all == Append(ss, s)
           n == Len(ss)
<1>1. PICK c \in [0 .. n -> Progress] :
        /\ c[0] = [at |-> 1, blocks |-> <<>>]
        /\ \A m \in 1 .. n : Whole(f, c[m - 1].at) /\ c[m] = OneMore(f, c[m - 1])
        /\ c[n] = [at |-> Len(f) + 1, blocks |-> Images(ss)]
  BY DEF Chain
<1>2. n \in Nat /\ Len(all) = n + 1 /\ all \in Seq(Kept)
  BY AppendProperties, LenProperties
<1>3. g \in Seq(Byte) /\ h \in Seq(Byte)
  <2>1. g \in Seq(Byte)
    BY BlockTyped DEF Kept
  <2> QED BY <2>1, Joining
<1>4. Whole(h, c[n].at) /\ OneMore(h, c[n]) = [at |-> Len(h) + 1, blocks |-> Images(all)]
  <2>1. c[n] \in Progress /\ c[n].at = Len(f) + 1 /\ c[n].blocks = Images(ss)
    BY <1>1, <1>2
  <2>2. /\ Whole(f \o g, c[n].at)
        /\ OneMore(f \o g, c[n]) = [at |-> Len(f \o g) + 1, blocks |-> Append(c[n].blocks, Image(s))]
    BY <2>1, ReadLast
  <2> QED BY <2>1, <2>2, ImagesGrow
<1>5. \A m \in 1 .. n : Whole(h, c[m - 1].at) /\ c[m] = OneMore(h, c[m - 1])
  <2> SUFFICES ASSUME NEW m \in 1 .. n PROVE Whole(h, c[m - 1].at) /\ c[m] = OneMore(h, c[m - 1])
    OBVIOUS
  <2>1. m - 1 \in 0 .. n
    BY <1>2
  <2>2. c[m - 1] \in Progress /\ Whole(f, c[m - 1].at) /\ c[m] = OneMore(f, c[m - 1])
    BY <1>1, <2>1
  <2> HIDE DEF g
  <2> QED BY <1>3, <2>2, Grown
<1> HIDE DEF h, all, n
<1> DEFINE d == [m \in 0 .. n + 1 |-> IF m <= n THEN c[m] ELSE OneMore(h, c[n])]
<1>6. OneMore(h, c[n]) \in Progress
  <2>1. c[n] \in Progress
    BY <1>1, <1>2
  <2> QED BY <1>3, <2>1, OneMoreTyped
<1>7. d \in [0 .. n + 1 -> Progress]
  <2>1. \A m \in 0 .. n + 1 : m <= n => c[m] \in Progress
    BY <1>1, <1>2
  <2> QED BY <1>6, <2>1
<1>8. \A m \in 0 .. n : d[m] = c[m]
  BY <1>2
<1>9. d[n + 1] = OneMore(h, c[n])
  BY <1>2
<1> HIDE DEF d
<1>10. \A m \in 1 .. n + 1 : Whole(h, d[m - 1].at) /\ d[m] = OneMore(h, d[m - 1])
  <2> SUFFICES ASSUME NEW m \in 1 .. n + 1 PROVE Whole(h, d[m - 1].at) /\ d[m] = OneMore(h, d[m - 1])
    OBVIOUS
  <2>1. CASE m \in 1 .. n
    <3>1. m - 1 \in 0 .. n /\ m \in 0 .. n
      BY <1>2, <2>1
    <3> QED BY <1>5, <1>8, <2>1, <3>1
  <2>2. CASE m = n + 1
    <3>1. m - 1 = n /\ n \in 0 .. n
      BY <1>2, <2>2
    <3> QED BY <1>4, <1>8, <1>9, <2>2, <3>1
  <2> QED BY <1>2, <2>1, <2>2
<1>11. 0 \in 0 .. n
  BY <1>2
<1>12. d[0] = [at |-> 1, blocks |-> <<>>] /\ d[n + 1] = [at |-> Len(h) + 1, blocks |-> Images(all)]
  BY <1>1, <1>4, <1>8, <1>9, <1>11
<1>13. Chain(h, all)
  BY <1>2, <1>7, <1>10, <1>12 DEF Chain
<1> QED BY <1>13 DEF h, all

\* Of a chain of blocks tape_load reads every one.
LEMMA ChainRead ==
  ASSUME NEW f \in Seq(Byte), NEW ss \in Seq(Kept), Chain(f, ss)
  PROVE  ParsedFrom(f) = Images(ss)
<1> DEFINE n == Len(ss)
           l == Len(f)
<1>1. PICK c \in [0 .. n -> Progress] :
        /\ c[0] = [at |-> 1, blocks |-> <<>>]
        /\ \A m \in 1 .. n : Whole(f, c[m - 1].at) /\ c[m] = OneMore(f, c[m - 1])
        /\ c[n] = [at |-> l + 1, blocks |-> Images(ss)]
  BY DEF Chain
<1>2. PICK read \in [0 .. l -> Progress] :
        /\ read[0] = [at |-> 1, blocks |-> <<>>]
        /\ \A k \in 1 .. l : read[k] = OneMore(f, read[k - 1])
        /\ ParsedFrom(f) = read[l].blocks
  BY Parsing
<1>3. n \in Nat /\ l \in Nat
  BY LenProperties
<1> HIDE DEF n, l
<1>4. n <= l
  <2> DEFINE S == {m \in 0 .. n : c[m].at >= m + 1}
  <2>1. 0 \in S
    BY <1>1, <1>3
  <2>2. ASSUME NEW m \in 1 .. n, m - 1 \in S PROVE m \in S
    <3>1. m - 1 \in 0 .. n /\ c[m - 1] \in Progress /\ c[m - 1].at >= m
      <4>1. m - 1 \in 0 .. n /\ c[m - 1].at >= (m - 1) + 1 /\ (m - 1) + 1 = m
        BY <1>3, <2>2
      <4> QED BY <1>1, <4>1
    <3>2. c[m].at = c[m - 1].at + 2 + BlockLen(f, c[m - 1].at)
      <4>1. c[m] = OneMore(f, c[m - 1]) /\ Whole(f, c[m - 1].at)
        BY <1>1
      <4>2. OneMore(f, c[m - 1]).at = c[m - 1].at + 2 + BlockLen(f, c[m - 1].at)
        BY <4>1 DEF OneMore
      <4> QED BY <4>1, <4>2
    <3>3. BlockLen(f, c[m - 1].at) \in Nat
      <4> DEFINE o == c[m - 1].at
      <4>1. o \in 1 .. Len(f) /\ o + 1 \in 1 .. Len(f)
        <5>1. o + 1 <= Len(f) /\ o \in Nat \ {0} /\ Len(f) \in Nat
          BY <1>1, <3>1, LenProperties DEF Whole, Progress
        <5> HIDE DEF o
        <5> QED BY <5>1
      <4> HIDE DEF o
      <4>2. f[o] \in Byte /\ f[o + 1] \in Byte
        BY <4>1, ElementOfSeq
      <4>3. BlockLen(f, o) \in Nat
        BY <4>2, Words, AddressNat DEF BlockLen
      <4> QED BY <4>3 DEF o
    <3>4. c[m - 1].at \in Nat
      BY <3>1 DEF Progress
    <3>5. c[m].at >= m + 1
      BY <1>3, <3>1, <3>2, <3>3, <3>4
    <3> QED BY <3>5
  <2> HIDE DEF S
  <2>3. 0 .. n \subseteq S
    BY <1>3, <2>1, <2>2, InductTo
  <2>4. n \in S
    BY <1>3, <2>3
  <2> QED BY <1>1, <1>3, <2>4 DEF S
<1>5. ~Whole(f, l + 1)
  BY <1>3 DEF Whole, l
<1> DEFINE at1(k) == IF k <= n THEN k ELSE n
           T == {k \in 0 .. l : read[k] = c[at1(k)]}
<1>6. 0 \in T
  BY <1>1, <1>2, <1>3
<1>7. ASSUME NEW k \in 1 .. l, k - 1 \in T PROVE k \in T
  <2>1. read[k] = OneMore(f, read[k - 1]) /\ read[k - 1] = c[at1(k - 1)]
    BY <1>2, <1>7
  <2>2. CASE k <= n
    <3>1. at1(k - 1) = k - 1 /\ at1(k) = k /\ k \in 1 .. n
      BY <1>3, <2>2
    <3>2. c[k] = OneMore(f, c[k - 1])
      BY <1>1, <3>1
    <3> HIDE DEF at1
    <3> QED BY <1>3, <2>1, <3>1, <3>2
  <2>3. CASE ~(k <= n)
    <3>1. at1(k - 1) = n /\ at1(k) = n
      BY <1>3, <2>3
    <3>2. OneMore(f, c[n]) = c[n]
      BY <1>1, <1>5 DEF OneMore
    <3> HIDE DEF at1
    <3> QED BY <1>3, <2>1, <3>1, <3>2
  <2> QED BY <2>2, <2>3
<1> HIDE DEF T
<1>8. 0 .. l \subseteq T
  BY <1>3, <1>6, <1>7, InductTo
<1>9. read[l] = c[n]
  <2>1. l \in T
    BY <1>3, <1>8
  <2>2. at1(l) = n
    BY <1>3, <1>4
  <2> HIDE DEF at1
  <2> QED BY <2>1, <2>2 DEF T
<1> QED BY <1>1, <1>2, <1>9

\* The file is the chain of what was saved to it, and the tape that is in is what the file
\* was when it was put in.
MachineTypes == runs \in Nat /\ CpuTypes /\ MemTypes /\ TapeTypes

TapeInv ==
  /\ MachineTypes
  /\ AllFit(saved) => Chain(file, saved)
  /\ attached /\ AllFit(taped) => blocks = Images(taped)

LEMMA TypesStay == ASSUME MachineTypes, [Next]_vars PROVE MachineTypes'
<1>1. CASE UNCHANGED vars
  BY <1>1 DEF vars, session, cpu, regs, tapes, MachineTypes, CpuTypes, MemTypes, TapeTypes
<1>2. CASE Hook
  BY <1>2 DEF Hook, session, cpu, regs, tapes, MachineTypes, CpuTypes, MemTypes, TapeTypes
<1>3. CASE Repl
  BY <1>3 DEF Repl, session, cpu, regs, tapes, MachineTypes, CpuTypes, MemTypes, TapeTypes
<1>4. CASE LoadStage
  BY <1>4, LoadStageTyped DEF MachineTypes, LoadStage, session
<1>5. CASE SaveStage
  BY <1>5, SaveStageTyped DEF MachineTypes, SaveStage, session
<1>6. CASE StepStage
  <2>1. UNCHANGED <<tapes, session>>
    BY <1>6 DEF StepStage
  <2> QED BY <1>6, <2>1, StepTyped DEF MachineTypes, TapeTypes, tapes, session
<1>7. CASE Interrupt
  <2>1. UNCHANGED session
    BY <1>7 DEF Interrupt
  <2> QED BY <1>7, <2>1, InterruptTyped DEF MachineTypes, session
<1>8. CASE Start
  BY <1>8, StartTyped DEF MachineTypes
<1>9. CASE End
  BY <1>9, EndTyped DEF MachineTypes
<1> QED BY <1>1, <1>2, <1>3, <1>4, <1>5, <1>6, <1>7, <1>8, <1>9 DEF Next, Loop

LEMMA SaveChains ==
  ASSUME TapeInv, NEW opened \in BOOLEAN, SaveTrap(opened)
  PROVE  AllFit(saved') => Chain(file', saved')
<1>1. CASE ~opened
  BY <1>1 DEF SaveTrap, TapeInv
<1>2. CASE opened
  <2> DEFINE s == [flag |-> af, bytes |-> MemoryAt(ix, de)]
  <2>1. file' = file \o BlockOf(s.flag, s.bytes) /\ saved' = Append(saved, s)
    BY <1>2 DEF SaveTrap
  <2>2. s \in Kept
    <3>1. ix \in Nat /\ de \in Nat /\ af \in Byte /\ mem \in [Address -> Byte]
      BY AddressNat DEF TapeInv, MachineTypes, MemTypes
    <3>2. MemoryAt(ix, de) \in Seq(Byte)
      BY <3>1, MemoryTyped
    <3> QED BY <3>1, <3>2 DEF Kept
  <2> HIDE DEF s
  <2>3. file \in Seq(Byte) /\ saved \in Seq(Kept)
    BY DEF TapeInv, MachineTypes, TapeTypes
  <2>4. ASSUME AllFit(saved') PROVE AllFit(saved) /\ Fits(s)
    <3>1. /\ saved' \in Seq(Kept) /\ Len(saved') = Len(saved) + 1 /\ Len(saved) \in Nat
          /\ saved'[Len(saved) + 1] = s /\ \A i \in 1 .. Len(saved) : saved'[i] = saved[i]
      BY <2>1, <2>2, <2>3, AppendProperties, LenProperties
    <3>2. DOMAIN saved' = 1 .. Len(saved) + 1 /\ DOMAIN saved = 1 .. Len(saved)
      BY <2>3, <3>1, LenProperties
    <3>3. Len(saved) + 1 \in DOMAIN saved' /\ \A i \in DOMAIN saved : i \in DOMAIN saved'
      BY <3>1, <3>2
    <3>4. Fits(s)
      BY <2>4, <3>1, <3>3 DEF AllFit
    <3>5. AllFit(saved)
      BY <2>4, <3>1, <3>2, <3>3 DEF AllFit
    <3> QED BY <3>4, <3>5
  <2>5. ASSUME AllFit(saved') PROVE Chain(file', saved')
    <3>1. AllFit(saved) /\ Fits(s)
      BY <2>4, <2>5
    <3>2. Chain(file, saved)
      BY <3>1 DEF TapeInv
    <3> QED BY <2>1, <2>2, <2>3, <3>1, <3>2, ChainGrows
  <2> QED BY <2>5
<1> QED BY <1>1, <1>2

LEMMA TapeStep == ASSUME TapeInv, [Next]_vars PROVE TapeInv'
<1>1. MachineTypes'
  BY TypesStay DEF TapeInv
<1>2. SUFFICES ASSUME TRUE
               PROVE  /\ AllFit(saved') => Chain(file', saved')
                      /\ attached' /\ AllFit(taped') => blocks' = Images(taped')
  BY <1>1 DEF TapeInv
<1>3. CASE UNCHANGED <<file, saved, attached, taped, blocks>>
  BY <1>3 DEF TapeInv
<1>4. CASE UNCHANGED vars \/ Hook \/ Repl \/ StepStage \/ Interrupt
  <2>1. UNCHANGED <<file, saved, attached, taped, blocks>>
    BY <1>4 DEF vars, Hook, Repl, StepStage, Interrupt, tapes
  <2> QED BY <1>3, <2>1
<1>5. CASE LoadStage
  <2>1. UNCHANGED <<file, saved, attached, taped, blocks>>
    BY <1>5 DEF LoadStage, LoadTrap, tapes
  <2> QED BY <1>3, <2>1
<1>6. CASE SaveStage
  <2>1. CASE UNCHANGED tapes
    BY <1>3, <2>1 DEF tapes
  <2>2. ASSUME NEW opened \in BOOLEAN, SaveTrap(opened)
        PROVE  /\ AllFit(saved') => Chain(file', saved')
               /\ attached' /\ AllFit(taped') => blocks' = Images(taped')
    <3>1. UNCHANGED <<attached, taped, blocks>>
      BY <2>2 DEF SaveTrap
    <3> QED BY <2>2, <3>1, SaveChains DEF TapeInv
  <2> QED BY <1>6, <2>1, <2>2 DEF SaveStage
<1>7. CASE Start
  <2>1. /\ (file' = <<>> /\ saved' = <<>>) \/ UNCHANGED <<file, saved>>
        /\ UNCHANGED <<blocks, attached, taped>> \/ (blocks' = ParsedFrom(file) /\ attached' = TRUE /\ taped' = saved)
    BY <1>7 DEF Start, PowerOn
  <2>2. AllFit(saved') => Chain(file', saved')
    BY <2>1, ChainEmpty DEF TapeInv
  <2>3. attached' /\ AllFit(taped') => blocks' = Images(taped')
    <3>1. AllFit(saved) => ParsedFrom(file) = Images(saved)
      BY ChainRead DEF TapeInv, MachineTypes, TapeTypes
    <3> QED BY <2>1, <3>1 DEF TapeInv
  <2> QED BY <2>2, <2>3
<1>8. CASE End
  <2>1. attached' = FALSE /\ UNCHANGED <<file, saved>>
    BY <1>8 DEF End
  <2> QED BY <2>1 DEF TapeInv
<1> QED BY <1>4, <1>5, <1>6, <1>7, <1>8 DEF Next, Loop

LEMMA TapeInit == ASSUME Init PROVE TapeInv
<1>1. MachineTypes
  BY InitKeeps DEF MonitorInv, TypeOK, LoopTypes, MachineTypes
<1>2. file = <<>> /\ saved = <<>> /\ attached = FALSE
  BY DEF Init
<1> QED BY <1>1, <1>2, ChainEmpty DEF TapeInv

-----------------------------------------------------------------------------
\* What the loader makes of the next block of the tape.
LoadedAs ==
  IF pos >= Len(taped) \/ (pos < Len(taped) /\ taped[pos + 1].flag # af)
  THEN carry' = FALSE /\ mem' = mem
  ELSE LET bytes == taped[pos + 1].bytes
           n == IF de < Len(bytes) THEN de ELSE Len(bytes)
       IN /\ carry' = (n = de) /\ ix' = Wrapped(ix + n) /\ de' = de - n
          /\ \A c \in Address :
               LET i == Wrapped(c - ix)
               IN mem'[c] = IF c >= RomTop /\ i < n THEN bytes[i + 1] ELSE mem[c]

LEMMA LoadOf ==
  ASSUME TapeInv, attached, AllFit(taped), LoadTrap
  PROVE  LoadedAs
<1>1. /\ pos \in Nat /\ taped \in Seq(Kept) /\ Len(taped) \in Nat /\ de \in Nat /\ ix \in Nat
      /\ mem \in [Address -> Byte]
  BY AddressNat, LenProperties DEF TapeInv, MachineTypes, TapeTypes, MemTypes
<1>2. blocks = Images(taped) /\ Len(blocks) = Len(taped)
  BY <1>1, ImagesTyped DEF TapeInv
<1>3. CASE pos >= Len(taped)
  <2>1. Failed
    BY <1>2, <1>3 DEF LoadTrap
  <2> QED BY <1>3, <2>1 DEF Failed, LoadedAs
<1>4. CASE ~(pos >= Len(taped))
  <2>1. pos + 1 \in 1 .. Len(taped) /\ pos < Len(taped)
    BY <1>1, <1>4
  <2> DEFINE s == taped[pos + 1]
             b == blocks[pos + 1]
  <2>2. s \in Kept /\ b = Image(s)
    BY <1>1, <1>2, <2>1, ElementOfSeq DEF Images
  <2>3. (Matches(b) /\ Copy(b)) \/ (~Matches(b) /\ Failed)
    BY <1>2, <1>4 DEF LoadTrap
  <2>4. LoadedAs = IF s.flag # af THEN carry' = FALSE /\ mem' = mem
                   ELSE LET bytes == s.bytes
                            n == IF de < Len(bytes) THEN de ELSE Len(bytes)
                        IN /\ carry' = (n = de) /\ ix' = Wrapped(ix + n) /\ de' = de - n
                           /\ \A c \in Address :
                                LET i == Wrapped(c - ix)
                                IN mem'[c] = IF c >= RomTop /\ i < n THEN bytes[i + 1] ELSE mem[c]
    BY <1>4, <2>1 DEF LoadedAs
  <2> HIDE DEF s, b
  <2>5. /\ b \in Seq(Byte) /\ Len(b) = Len(s.bytes) + 2 /\ Len(s.bytes) \in Nat /\ b[1] = s.flag
        /\ \A i \in 1 .. Len(s.bytes) : b[i + 1] = s.bytes[i]
    BY <2>2, ImageIs
  <2>6. Matches(b) <=> s.flag = af
    <3>1. b # <<>>
      BY <2>5
    <3> QED BY <2>5, <3>1 DEF Matches
  <2>7. CASE s.flag # af
    BY <2>3, <2>4, <2>6, <2>7 DEF Failed
  <2>8. CASE s.flag = af
    <3> DEFINE n == IF de < Len(s.bytes) THEN de ELSE Len(s.bytes)
    <3>1. Avail(b) = Len(s.bytes) /\ Taken(b) = n
      BY <2>5 DEF Avail, Taken
    <3>2. n \in Nat /\ n <= Len(s.bytes)
      BY <1>1, <2>5
    <3>3. /\ mem' = Stored(ix, SubSeq(b, 2, n + 1)) /\ carry' = (n = de)
          /\ ix' = Wrapped(ix + n) /\ de' = de - n
      BY <2>3, <2>6, <2>8, <3>1 DEF Copy
    <3> DEFINE r == SubSeq(b, 2, n + 1)
    <3> HIDE DEF n
    <3>4. Len(r) = n /\ \A i \in 1 .. n : r[i] = s.bytes[i]
      <4>1. \A i \in 2 .. n + 1 : i \in 1 .. Len(b)
        BY <2>5, <3>2
      <4>2. \A i \in 2 .. n + 1 : b[i] \in Byte
        <5>1. \A i \in 1 .. Len(b) : b[i] \in Byte
          BY <2>5, ElementOfSeq
        <5> QED BY <4>1, <5>1
      <4>3. 2 \in Int /\ n + 1 \in Int
        BY <3>2
      <4> DEFINE first == 2
                 end == n + 1
      <4>4. /\ first \in Int /\ end \in Int /\ \A i \in first .. end : b[i] \in Byte
            /\ (IF first <= end THEN end - first + 1 ELSE 0) = n
        BY <3>2, <4>2, <4>3
      <4>5. \A i \in 1 .. n : i \in 1 .. end - first + 1 /\ first + i - 1 = i + 1 /\ i \in 1 .. Len(s.bytes)
        BY <2>5, <3>2
      <4>6. r = SubSeq(b, first, end)
        OBVIOUS
      <4> HIDE DEF first, end, r
      <4>7. /\ Len(r) = IF first <= end THEN end - first + 1 ELSE 0
            /\ \A i \in 1 .. end - first + 1 : r[i] = b[first + i - 1]
        BY <4>4, <4>6, SubSeqProperties
      <4> QED BY <2>5, <4>4, <4>5, <4>7
    <3> HIDE DEF r
    <3>5. ASSUME NEW c \in Address
          PROVE  mem'[c] = IF c >= RomTop /\ Wrapped(c - ix) < n THEN s.bytes[Wrapped(c - ix) + 1] ELSE mem[c]
      <4>1. mem' = Stored(ix, r)
        BY <3>3 DEF r
      <4>2. mem'[c] = IF c >= RomTop /\ Wrapped(c - ix) < n THEN r[Wrapped(c - ix) + 1] ELSE mem[c]
        BY <3>4, <4>1 DEF Stored
      <4>3. Wrapped(c - ix) \in Nat
        <5>1. c - ix \in Int
          BY <1>1, AddressNat
        <5> QED BY <5>1, Wraps, AddressNat
      <4>4. Wrapped(c - ix) < n => Wrapped(c - ix) + 1 \in 1 .. n
        BY <3>2, <4>3
      <4> QED BY <3>4, <4>2, <4>4
    <3> QED BY <2>4, <2>8, <3>3, <3>5 DEF n
  <2> QED BY <2>7, <2>8
<1> QED BY <1>3, <1>4

\* tape_save_trap, tape_load and tape_trap of tape.c put together, over two runs of the
\* emulator: every block that was saved is read back whole, in its place, and the loader
\* leaves in memory what the saver took from it.
THEOREM SavedBlocksLoad == Spec => SavedLoads
<1>1. Init => TapeInv
  BY TapeInit
<1>2. TapeInv /\ [Next]_vars => TapeInv'
  BY TapeStep
<1>3. TapeInv /\ [Next]_vars =>
        [at = "load" /\ attached /\ pc = LdBytes /\ AllFit(taped) => LoadedAs]_vars
  <2> SUFFICES ASSUME TapeInv, Next, at = "load", attached, pc = LdBytes, AllFit(taped) PROVE LoadedAs
    OBVIOUS
  <2>1. LoadStage
    BY DEF Next, Loop, Hook, Repl, SaveStage, StepStage, Interrupt, Start, PowerOn, End
  <2>2. LoadTrap
    BY <2>1 DEF LoadStage
  <2> QED BY <2>2, LoadOf
<1> QED BY <1>1, <1>2, <1>3, PTL DEF Spec, SavedLoads, LoadedAs, AllFit
=============================================================================
