---------------------------- MODULE InflateProofs ----------------------------
(***************************************************************************)
(* Proofs about the decoder of inflate.c, for every stream and every room, *)
(* and for every size of the format: the bits that a writer puts into the  *)
(* bytes are the ones that the decoder takes out of them; a code of the    *)
(* canonical prefix code is decoded to its symbol and spare bits to none;  *)
(* so at each field, symbol and byte the decoder is where the writer was,  *)
(* and what it has written is what the stream means up to there.           *)
(***************************************************************************)
EXTENDS Readers, SequenceTheorems, FiniteSetTheorems, WellFoundedInduction, TLAPS

------------------------------------------------------------------------------
(***************************************************************************)
(* Induction and recursion over the naturals, in a form without operator   *)
(* parameters: a property is the set of the numbers that have it, and the  *)
(* step of a recursive function is a function.                             *)
(***************************************************************************)

\* A set of naturals has a least member.
LEMMA LeastOf ==
  ASSUME NEW T, T \subseteq Nat, T # {}
  PROVE  \E m \in T : \A k \in T : m <= k
<1>1. PICK m \in T : \A k \in T : <<k, m>> \notin OpToRel(<, Nat)
  BY WFMin, NatLessThanWellFounded, Zenon
<1>2. \A k \in T : ~(k < m)
  BY <1>1, Zenon DEF OpToRel
<1> QED BY <1>2

\* A set with 0 that is closed under + 1 is all of Nat.
LEMMA Induct ==
  ASSUME NEW S, S \subseteq Nat, 0 \in S, \A n \in Nat : n \in S => n + 1 \in S
  PROVE  S = Nat
<1>1. SUFFICES ASSUME Nat \ S # {} PROVE FALSE
  OBVIOUS
<1> DEFINE T == Nat \ S
<1>2. T \subseteq Nat /\ T # {}
  BY <1>1
<1>3. PICK m \in T : \A k \in T : m <= k
  <2> HIDE DEF T
  <2> QED BY <1>2, LeastOf
<1>4. m \in Nat \ S /\ m # 0 /\ m - 1 \in Nat
  BY <1>3
<1>5. m - 1 \in S
  BY <1>3, <1>4
<1>6. (m - 1) + 1 \in S
  BY <1>4, <1>5
<1> QED BY <1>4, <1>6

\* Up to a bound: what holds of 0 and goes from each number to the next.
LEMMA InductTo ==
  ASSUME NEW n \in Nat, NEW S, 0 \in S, \A k \in 1 .. n : k - 1 \in S => k \in S
  PROVE  0 .. n \subseteq S
<1> DEFINE T == {k \in Nat : k <= n => k \in S}
<1>1. 0 \in T
  OBVIOUS
<1>2. ASSUME NEW k \in Nat, k \in T PROVE k + 1 \in T
  <2>1. CASE k + 1 <= n
    <3>1. k + 1 \in 1 .. n /\ (k + 1) - 1 = k /\ k \in S
      BY <1>2, <2>1
    <3> QED BY <3>1
  <2>2. CASE ~(k + 1 <= n)
    BY <2>2
  <2> QED BY <2>1, <2>2
<1>3. T = Nat
  <2>1. T \subseteq Nat
    OBVIOUS
  <2> HIDE DEF T
  <2> QED BY <1>1, <1>2, <2>1, Induct
<1> QED BY <1>3

\* The functions with values in V that begin with a and go on by g.
Recursions(n, V, a, g) == {f \in [0 .. n -> V] : f[0] = a /\ \A k \in 1 .. n : f[k] = g[k][f[k - 1]]}

\* A function is defined by its value at 0 and a step from each value to the next.
LEMMA Recursive ==
  ASSUME NEW n \in Nat, NEW V, NEW a \in V, NEW g \in [1 .. n -> [V -> V]]
  PROVE  Recursions(n, V, a, g) # {}
<1> DEFINE Upto(m) == \E f \in [0 .. m -> V] : f[0] = a /\ \A k \in 1 .. m : f[k] = g[k][f[k - 1]]
           T == {m \in Nat : m <= n => Upto(m)}
<1>1. Upto(0)
  <2> DEFINE h == [k \in 0 .. 0 |-> a]
  <2>1. h \in [0 .. 0 -> V] /\ h[0] = a /\ \A k \in 1 .. 0 : h[k] = g[k][h[k - 1]]
    OBVIOUS
  <2> HIDE DEF h
  <2> QED BY <2>1
<1>2. ASSUME NEW m \in Nat, m + 1 <= n, Upto(m) PROVE Upto(m + 1)
  <2>1. PICK f \in [0 .. m -> V] : f[0] = a /\ \A k \in 1 .. m : f[k] = g[k][f[k - 1]]
    BY <1>2
  <2>2. m + 1 \in 1 .. n /\ f[m] \in V /\ g[m + 1] \in [V -> V]
    BY <1>2
  <2>3. g[m + 1][f[m]] \in V
    BY <2>2
  <2> DEFINE h == [k \in 0 .. m + 1 |-> IF k = m + 1 THEN g[m + 1][f[m]] ELSE f[k]]
  <2>4. h \in [0 .. m + 1 -> V] /\ h[0] = a
    BY <2>1, <2>3
  <2>5. ASSUME NEW k \in 1 .. m + 1 PROVE h[k] = g[k][h[k - 1]]
    <3>1. CASE k = m + 1
      <4>1. k - 1 = m /\ m \in 0 .. m + 1 /\ m # m + 1
        BY <3>1
      <4> QED BY <3>1, <4>1
    <3>2. CASE k # m + 1
      <4>1. k \in 1 .. m /\ k \in 0 .. m + 1 /\ k - 1 \in 0 .. m + 1 /\ k - 1 # m + 1
        BY <3>2
      <4> QED BY <2>1, <3>2, <4>1
    <3> QED BY <3>1, <3>2
  <2> QED BY <2>4, <2>5
<1>3. T = Nat
  <2>1. T \subseteq Nat /\ 0 \in T
    BY <1>1
  <2>2. ASSUME NEW m \in Nat, m \in T PROVE m + 1 \in T
    <3>1. CASE m + 1 <= n
      <4>1. m <= n /\ Upto(m)
        BY <2>2, <3>1
      <4>2. Upto(m + 1)
        BY <1>2, <3>1, <4>1
      <4> HIDE DEF Upto
      <4> QED BY <4>2
    <3>2. CASE ~(m + 1 <= n)
      BY <3>2
    <3> QED BY <3>1, <3>2
  <2> HIDE DEF T
  <2> QED BY <2>1, <2>2, Induct
<1>4. Upto(n)
  BY <1>3
<1> QED BY <1>4 DEF Recursions

\* Two functions with the same value at 0 and the same steps agree.
LEMMA SameRecursion ==
  ASSUME NEW n \in Nat, NEW f, NEW h, f[0] = h[0], \A k \in 1 .. n : f[k - 1] = h[k - 1] => f[k] = h[k]
  PROVE  \A k \in 0 .. n : f[k] = h[k]
<1> DEFINE S == {k \in 0 .. n : f[k] = h[k]}
<1>1. 0 \in S /\ \A k \in 1 .. n : k - 1 \in S => k \in S
  OBVIOUS
<1>2. 0 .. n \subseteq S
  <2> HIDE DEF S
  <2> QED BY <1>1, InductTo
<1> QED BY <1>2

----------------------------------------------------------------------------
(* Words of n bits. *)

\* The powers of two, which the code writes 1 << n.
LEMMA PowIs ==
  /\ Pow(0) = 1
  /\ \A n \in Nat : Pow(n) \in Nat \ {0} /\ Pow(n + 1) = 2 * Pow(n)
<1> DEFINE V == Nat \ {0}
           p(n) == CHOOSE f : f = [k \in 0 .. n |-> IF k = 0 THEN 1 ELSE 2 * f[k - 1]]
<1>1. ASSUME NEW n \in Nat
      PROVE  /\ \A k \in 0 .. n : p(n)[k] \in V
             /\ p(n)[0] = 1 /\ \A k \in 1 .. n : p(n)[k] = 2 * p(n)[k - 1]
  <2> DEFINE g == [k \in 1 .. n |-> [v \in V |-> 2 * v]]
             e == p(n)
  <2>1. PICK f \in [0 .. n -> V] : f[0] = 1 /\ \A k \in 1 .. n : f[k] = g[k][f[k - 1]]
    <3>1. g \in [1 .. n -> [V -> V]] /\ 1 \in V OBVIOUS
    <3>2. Recursions(n, V, 1, g) # {}
      <4> HIDE DEF g, V
      <4> QED BY <3>1, Recursive
    <3> QED BY <3>2 DEF Recursions
  <2>2. f = [k \in 0 .. n |-> IF k = 0 THEN 1 ELSE 2 * f[k - 1]]
    <3>1. \A k \in 0 .. n : k # 0 => k \in 1 .. n /\ k - 1 \in 0 .. n OBVIOUS
    <3>2. \A k \in 0 .. n : f[k] = IF k = 0 THEN 1 ELSE 2 * f[k - 1] BY <2>1, <3>1
    <3> QED BY <2>1, <3>2
  <2>3. e = [k \in 0 .. n |-> IF k = 0 THEN 1 ELSE 2 * e[k - 1]] BY <2>2, Zenon
  <2> HIDE DEF e
  <2>4. e[0] = 1 /\ \A k \in 1 .. n : e[k] = 2 * e[k - 1] BY <2>3
  <2> DEFINE S == {k \in 0 .. n : e[k] \in V}
  <2>5. 0 \in S /\ \A k \in 1 .. n : k - 1 \in S => k \in S BY <2>4
  <2>6. 0 .. n \subseteq S
    <3> HIDE DEF S
    <3> QED BY <2>5, InductTo
  <2> QED BY <2>4, <2>6 DEF e
<1>2. \A n \in Nat : Pow(n) = p(n)[n] BY Zenon DEF Pow
<1> HIDE DEF p
<1>3. ASSUME NEW n \in Nat PROVE Pow(n) \in V /\ Pow(n + 1) = 2 * Pow(n)
  <2>1. n + 1 \in Nat /\ n \in 0 .. n /\ n + 1 \in 1 .. n + 1 /\ (n + 1) - 1 = n OBVIOUS
  <2>2. p(n + 1)[n + 1] = 2 * p(n + 1)[n] BY <1>1, <2>1
  <2>3. \A k \in 1 .. n : k \in 1 .. n + 1 OBVIOUS
  <2>4. p(n + 1)[0] = p(n)[0] /\ \A k \in 1 .. n : p(n + 1)[k - 1] = p(n)[k - 1] => p(n + 1)[k] = p(n)[k]
    BY <1>1, <2>1, <2>3
  <2>5. p(n + 1)[n] = p(n)[n]
    <3>1. \A k \in 0 .. n : p(n + 1)[k] = p(n)[k]
      <4> DEFINE f == p(n + 1)
                 h == p(n)
      <4>1. f[0] = h[0] /\ \A k \in 1 .. n : f[k - 1] = h[k - 1] => f[k] = h[k] BY <2>4
      <4> HIDE DEF f, h
      <4>2. \A k \in 0 .. n : f[k] = h[k] BY <4>1, SameRecursion
      <4> QED BY <4>2 DEF f, h
    <3> QED BY <2>1, <3>1
  <2> QED BY <1>1, <1>2, <2>1, <2>2, <2>5
<1>4. Pow(0) = 1 BY <1>1, <1>2
<1> QED BY <1>3, <1>4

\* Quotients and remainders.
LEMMA Division ==
  ASSUME NEW n \in Nat, NEW d \in Nat \ {0}
  PROVE  n = d * (n \div d) + (n % d) /\ n % d \in 0 .. d - 1 /\ n \div d \in Nat
OBVIOUS

\* A number is d times its quotient and a rest below d, in one way.
LEMMA DivisionIs ==
  ASSUME NEW a \in Nat, NEW d \in Nat \ {0}, NEW r \in 0 .. d - 1, NEW n \in Nat, n = d * a + r
  PROVE  n \div d = a /\ n % d = r
OBVIOUS

\* Halving p times over is halving once more.
LEMMA DivTwice ==
  ASSUME NEW v \in Nat, NEW p \in Nat \ {0}
  PROVE  v \div (2 * p) = (v \div p) \div 2
<1> DEFINE q == v \div p
           r == v % p
           s == q \div 2
           t == q % 2
<1>1. v = p * q + r /\ r \in 0 .. p - 1 /\ q \in Nat BY Division
<1>2. q = 2 * s + t /\ t \in 0 .. 1 /\ s \in Nat
  <2> HIDE DEF q
  <2> QED BY <1>1
<1> HIDE DEF q, r, s, t
<1>3. p * t \in 0 .. p /\ p * s \in Nat
  <2>1. CASE t = 0 BY <1>2, <2>1
  <2>2. CASE t = 1 BY <1>2, <2>2
  <2> QED BY <1>2, <2>1, <2>2
<1>4. p * q = 2 * (p * s) + p * t BY <1>1, <1>2
<1>5. (2 * p) * s = 2 * (p * s) BY <1>2
<1> DEFINE pt == p * t
           ps == p * s
           pq == p * q
<1>6. pt \in 0 .. p /\ ps \in Nat /\ pq = 2 * ps + pt /\ v = pq + r BY <1>1, <1>3, <1>4
<1> HIDE DEF pt, ps, pq
<1>7. v = 2 * ps + (pt + r) /\ pt + r \in 0 .. 2 * p - 1 /\ 2 * p \in Nat \ {0} BY <1>1, <1>6
<1>8. v = (2 * p) * s + (pt + r) BY <1>5, <1>7 DEF ps
<1>9. v \div (2 * p) = s BY <1>2, <1>7, <1>8, DivisionIs
<1> QED BY <1>9 DEF q, s

\* Shifting by a and by b is shifting by both.
LEMMA PowAdd ==
  ASSUME NEW a \in Nat, NEW b \in Nat
  PROVE  Pow(a + b) = Pow(a) * Pow(b)
<1> DEFINE S == {n \in Nat : Pow(a + n) = Pow(a) * Pow(n)}
<1>1. 0 \in S BY PowIs
<1>2. ASSUME NEW n \in Nat, n \in S PROVE n + 1 \in S
  <2>1. Pow(a + (n + 1)) = 2 * Pow(a + n) /\ Pow(n + 1) = 2 * Pow(n)
    <3>1. a + (n + 1) = (a + n) + 1 /\ a + n \in Nat OBVIOUS
    <3> QED BY <3>1, PowIs
  <2>2. Pow(a) \in Nat /\ Pow(n) \in Nat /\ Pow(a + n) = Pow(a) * Pow(n) BY <1>2, PowIs
  <2>3. \A x, y \in Nat : 2 * (x * y) = x * (2 * y) OBVIOUS
  <2> QED BY <2>1, <2>2, <2>3
<1>3. S = Nat
  <2> HIDE DEF S
  <2>1. S \subseteq Nat BY DEF S
  <2> QED BY <1>1, <1>2, <2>1, Induct
<1> QED BY <1>3

\* So is dropping the low bits of a number.
LEMMA DivPow ==
  ASSUME NEW v \in Nat, NEW a \in Nat, NEW b \in Nat
  PROVE  (v \div Pow(a)) \div Pow(b) = v \div Pow(a + b)
<1> DEFINE q == v \div Pow(a)
           S == {n \in Nat : q \div Pow(n) = v \div Pow(a + n)}
<1>0. q \in Nat BY PowIs, Division
<1>1. 0 \in S
  <2>1. Pow(0) = 1 /\ a + 0 = a /\ q \div 1 = q
    <3> HIDE DEF q
    <3>1. 1 \in Nat \ {0} /\ 0 \in 0 .. 1 - 1 /\ q = 1 * q + 0 BY <1>0
    <3>2. q \div 1 = q BY <1>0, <3>1, DivisionIs
    <3> QED BY <3>2, PowIs
  <2> QED BY <2>1
<1>2. ASSUME NEW n \in Nat, n \in S PROVE n + 1 \in S
  <2>1. Pow(a + (n + 1)) = 2 * Pow(a + n) /\ Pow(n + 1) = 2 * Pow(n)
    <3>1. a + (n + 1) = (a + n) + 1 /\ a + n \in Nat OBVIOUS
    <3> QED BY <3>1, PowIs
  <2>2. v \div (2 * Pow(a + n)) = (v \div Pow(a + n)) \div 2
    <3>1. Pow(a + n) \in Nat \ {0} BY PowIs
    <3> QED BY <3>1, DivTwice
  <2>3. q \div (2 * Pow(n)) = (q \div Pow(n)) \div 2
    <3> HIDE DEF q
    <3> QED BY <1>0, PowIs, DivTwice
  <2> QED BY <1>2, <2>1, <2>2, <2>3
<1>3. S = Nat
  <2> HIDE DEF S
  <2>1. S \subseteq Nat BY DEF S
  <2> QED BY <1>1, <1>2, <2>1, Induct
<1> QED BY <1>3
----------------------------------------------------------------------------
(* Sums. *)

\* Partial sums are what their recursion says.
LEMMA SumsStep ==
  ASSUME NEW ds \in Seq(Nat)
  PROVE  /\ Sums(ds) \in [0 .. Len(ds) -> Nat] /\ Sums(ds)[0] = 0
         /\ \A k \in 1 .. Len(ds) : k - 1 \in 0 .. Len(ds) /\ Sums(ds)[k - 1] \in Nat /\ Sums(ds)[k] = Sums(ds)[k - 1] + ds[k]
<1> DEFINE e == CHOOSE e : e = [k \in 0 .. Len(ds) |-> IF k = 0 THEN 0 ELSE e[k - 1] + ds[k]]
           g == [k \in 1 .. Len(ds) |-> [v \in Nat |-> v + ds[k]]]
<1>1. Len(ds) \in Nat /\ 0 \in Nat /\ \A k \in 1 .. Len(ds) : \A v \in Nat : v + ds[k] \in Nat
  <2>1. Len(ds) \in Nat /\ \A k \in 1 .. Len(ds) : ds[k] \in Nat BY LenProperties, ElementOfSeq
  <2> QED BY <2>1
<1>2. g \in [1 .. Len(ds) -> [Nat -> Nat]] BY <1>1
<1>3. PICK f \in [0 .. Len(ds) -> Nat] : f[0] = 0 /\ \A k \in 1 .. Len(ds) : f[k] = g[k][f[k - 1]]
  <2>1. Recursions(Len(ds), Nat, 0, g) # {}
    <3> HIDE DEF g
    <3> QED BY <1>1, <1>2, Recursive
  <2> QED BY <2>1 DEF Recursions
<1>4. \A k \in 1 .. Len(ds) : k \in 0 .. Len(ds) /\ k # 0 /\ k - 1 \in 0 .. Len(ds) BY <1>1
<1>5. \A k \in 1 .. Len(ds) : f[k - 1] \in Nat /\ f[k] = f[k - 1] + ds[k]
  <2>1. \A k \in 1 .. Len(ds) : f[k - 1] \in Nat BY <1>3, <1>4
  <2> QED BY <1>3, <2>1
<1> HIDE DEF g
<1>6. f = [k \in 0 .. Len(ds) |-> IF k = 0 THEN 0 ELSE f[k - 1] + ds[k]]
  <2>1. \A k \in 0 .. Len(ds) : k # 0 => k \in 1 .. Len(ds) BY <1>1
  <2>2. \A k \in 0 .. Len(ds) : f[k] = IF k = 0 THEN 0 ELSE f[k - 1] + ds[k] BY <1>3, <1>5, <2>1, Zenon
  <2> QED BY <1>3, <2>2
<1>7. e = [k \in 0 .. Len(ds) |-> IF k = 0 THEN 0 ELSE e[k - 1] + ds[k]]
  <2>1. \E x : x = [k \in 0 .. Len(ds) |-> IF k = 0 THEN 0 ELSE x[k - 1] + ds[k]] BY <1>6, Zenon
  <2> QED BY <2>1, Zenon
<1>8. Sums(ds) = e BY Zenon DEF Sums
<1> HIDE DEF e
<1>9. 0 \in 0 .. Len(ds) BY <1>1
<1>10. e[0] = 0 /\ \A k \in 1 .. Len(ds) : e[k] = e[k - 1] + ds[k] BY <1>4, <1>7, <1>9, Zenon
<1>11. \A k \in 1 .. Len(ds) : f[k - 1] = e[k - 1] => f[k] = e[k] BY <1>5, <1>10, Zenon
<1>12. \A k \in 0 .. Len(ds) : f[k] = e[k]
  <2> DEFINE S == {k \in 0 .. Len(ds) : f[k] = e[k]}
  <2>1. f[0] = e[0] BY <1>3, <1>10
  <2>2. 0 \in S BY <1>9, <2>1
  <2>3. ASSUME NEW k \in 1 .. Len(ds), k - 1 \in S PROVE k \in S
    <3>1. f[k - 1] = e[k - 1] BY <2>3
    <3> QED BY <1>4, <1>11, <3>1
  <2> HIDE DEF S
  <2>4. 0 .. Len(ds) \subseteq S BY <1>1, <2>2, <2>3, InductTo
  <2> QED BY <2>4 DEF S
<1>13. e \in [0 .. Len(ds) -> Nat]
  <2>1. e = [k \in 0 .. Len(ds) |-> e[k]] BY <1>7
  <2>2. \A k \in 0 .. Len(ds) : e[k] \in Nat BY <1>3, <1>12
  <2> QED BY <2>1, <2>2
<1> QED BY <1>4, <1>8, <1>10, <1>13


\* What holds of summands that are twice one plus another holds of the sums.
LEMMA SumLinear ==
  ASSUME NEW f \in Seq(Nat), NEW g \in Seq(Nat), NEW h \in Seq(Nat), Len(g) = Len(f), Len(h) = Len(f),
         \A i \in 1 .. Len(f) : f[i] = 2 * g[i] + h[i]
  PROVE  SumOf(f) = 2 * SumOf(g) + SumOf(h)
<1> DEFINE n == Len(f)
           S == {k \in 0 .. n : Sums(f)[k] = 2 * Sums(g)[k] + Sums(h)[k]}
<1>1. n \in Nat BY LenProperties
<1>2. 0 \in S
  <2>1. Sums(f)[0] = 0 /\ Sums(g)[0] = 0 /\ Sums(h)[0] = 0 BY SumsStep
  <2> QED BY <1>1, <2>1
<1>3. ASSUME NEW k \in 1 .. n, k - 1 \in S PROVE k \in S
  <2>1. /\ Sums(f)[k] = Sums(f)[k - 1] + f[k]
        /\ Sums(g)[k] = Sums(g)[k - 1] + g[k] /\ Sums(g)[k - 1] \in Nat
        /\ Sums(h)[k] = Sums(h)[k - 1] + h[k] /\ Sums(h)[k - 1] \in Nat
    BY SumsStep
  <2>2. g[k] \in Nat /\ h[k] \in Nat /\ f[k] = 2 * g[k] + h[k] /\ k \in 0 .. n BY <1>1, ElementOfSeq
  <2>3. Sums(f)[k - 1] = 2 * Sums(g)[k - 1] + Sums(h)[k - 1] BY <1>3
  <2>4. Sums(f)[k] = 2 * Sums(g)[k] + Sums(h)[k]
    <3> DEFINE a == Sums(f)[k - 1]
               b == Sums(g)[k - 1]
               c == Sums(h)[k - 1]
    <3>1. b \in Nat /\ c \in Nat /\ a = 2 * b + c BY <2>1, <2>3
    <3>2. Sums(f)[k] = a + f[k] /\ Sums(g)[k] = b + g[k] /\ Sums(h)[k] = c + h[k] BY <2>1
    <3> HIDE DEF a, b, c
    <3>3. \A x, y \in Nat : (2 * b + c) + (2 * x + y) = 2 * (b + x) + (c + y) BY <3>1
    <3>4. (2 * b + c) + (2 * g[k] + h[k]) = 2 * (b + g[k]) + (c + h[k]) BY <2>2, <3>3
    <3>5. a + f[k] = (2 * b + c) + (2 * g[k] + h[k]) BY <2>2, <3>1, Zenon
    <3> QED BY <3>2, <3>4, <3>5, Zenon
  <2> QED BY <2>2, <2>4
<1>4. 0 .. n \subseteq S
  <2> HIDE DEF S, n
  <2> QED BY <1>1, <1>2, <1>3, InductTo
<1>5. n \in 0 .. n BY <1>1
<1> QED BY <1>4, <1>5 DEF SumOf

\* A sum of ones counts them.
LEMMA SumCounts ==
  ASSUME NEW c \in Seq({0, 1})
  PROVE  SumOf(c) = Cardinality({i \in 0 .. Len(c) - 1 : c[i + 1] = 1})
<1> DEFINE n == Len(c)
           Ones(k) == {i \in 0 .. k - 1 : c[i + 1] = 1}
           S == {k \in 0 .. n : IsFiniteSet(Ones(k)) /\ Sums(c)[k] = Cardinality(Ones(k))}
<1>1. n \in Nat /\ c \in Seq(Nat) /\ \A i \in 1 .. n : c[i] \in {0, 1}
  <2>1. {0, 1} \subseteq Nat OBVIOUS
  <2>2. Seq({0, 1}) \subseteq Seq(Nat) BY <2>1, SeqMonotonic
  <2> QED BY <2>2, LenProperties, ElementOfSeq
<1>2. 0 \in S
  <2>1. Ones(0) = {} OBVIOUS
  <2>2. Sums(c)[0] = 0 BY <1>1, SumsStep
  <2> QED BY <1>1, <2>1, <2>2, FS_EmptySet
<1>3. ASSUME NEW k \in 1 .. n, k - 1 \in S PROVE k \in S
  <2>1. Sums(c)[k] = Sums(c)[k - 1] + c[k] /\ Sums(c)[k - 1] \in Nat BY <1>1, SumsStep
  <2>2. CASE c[k] = 1
    <3>1. Ones(k) = Ones(k - 1) \cup {k - 1} /\ k - 1 \notin Ones(k - 1) BY <1>1, <2>2
    <3>0. IsFiniteSet(Ones(k - 1)) BY <1>3
    <3> HIDE DEF Ones
    <3>2. /\ IsFiniteSet(Ones(k - 1) \cup {k - 1})
          /\ Cardinality(Ones(k - 1) \cup {k - 1}) = IF k - 1 \in Ones(k - 1) THEN Cardinality(Ones(k - 1)) ELSE Cardinality(Ones(k - 1)) + 1
      BY <3>0, FS_AddElement, Zenon
    <3>3. IsFiniteSet(Ones(k)) /\ Cardinality(Ones(k)) = Cardinality(Ones(k - 1)) + 1 BY <3>1, <3>2, Zenon
    <3> QED BY <1>1, <1>3, <2>1, <2>2, <3>3
  <2>3. CASE c[k] = 0
    <3>1. Ones(k) = Ones(k - 1) BY <1>1, <2>3
    <3> HIDE DEF Ones
    <3> QED BY <1>1, <1>3, <2>1, <2>3, <3>1
  <2> QED BY <1>1, <2>2, <2>3
<1>4. 0 .. n \subseteq S
  <2> HIDE DEF S, n, Ones
  <2> QED BY <1>1, <1>2, <1>3, InductTo
<1>5. n \in 0 .. n BY <1>1
<1> QED BY <1>4, <1>5 DEF SumOf

----------------------------------------------------------------------------
(* Words of bits, low first and high first. *)

Bit == {0, 1}

\* The i-th bit of a field, low first, is the i-th binary digit of its value.
LEMMA LowIs ==
  ASSUME NEW v \in Nat, NEW n \in Nat
  PROVE  /\ Low(v, n) \in Seq(Bit) /\ Len(Low(v, n)) = n
         /\ \A i \in 1 .. n : Low(v, n)[i] = (v \div Pow(i - 1)) % 2
<1>1. \A i \in 1 .. n : (v \div Pow(i - 1)) % 2 \in Bit
  <2> TAKE i \in 1 .. n
  <2>1. i - 1 \in Nat OBVIOUS
  <2>2. Pow(i - 1) \in Nat \ {0} BY <2>1, PowIs
  <2>3. v \div Pow(i - 1) \in Nat BY <2>2, Division
  <2>4. \A q \in Nat : q % 2 \in {0, 1} OBVIOUS
  <2> QED BY <2>3, <2>4 DEF Bit
<1>2. Low(v, n) \in [1 .. n -> Bit] BY <1>1 DEF Low
<1>3. Low(v, n) \in Seq(Bit) /\ Len(Low(v, n)) = n BY <1>2, IsASeq, LenProperties
<1> QED BY <1>3 DEF Low

\* A bit at its place: what is in the low bits, and what is left above them.
LEMMA LowFirstOf ==
  ASSUME NEW v \in Nat, NEW n \in Nat, v < Pow(n)
  PROVE  LowFirst(Low(v, n)) = v
<1> DEFINE f == [i \in 1 .. n |-> Low(v, n)[i] * Pow(i - 1)]
           q(j) == v \div Pow(j)
           S == {j \in 0 .. n : Sums(f)[j] + Pow(j) * q(j) = v}
<1>1. f \in Seq(Nat) /\ Len(f) = n
  <2>1. \A i \in 1 .. n : Low(v, n)[i] * Pow(i - 1) \in Nat
    <3> TAKE i \in 1 .. n
    <3>1. Low(v, n)[i] \in Bit
      <4>1. Low(v, n) \in Seq(Bit) /\ i \in 1 .. Len(Low(v, n)) BY LowIs
      <4> QED BY <4>1, ElementOfSeq
    <3>2. i - 1 \in Nat /\ Low(v, n)[i] \in Nat BY <3>1 DEF Bit
    <3>3. Pow(i - 1) \in Nat BY <3>2, PowIs
    <3> QED BY <3>2, <3>3
  <2>2. f \in [1 .. n -> Nat] BY <2>1
  <2> HIDE DEF f
  <2> QED BY <2>2, IsASeq, LenProperties
<1>2. LowFirst(Low(v, n)) = SumOf(f) BY LowIs DEF LowFirst
<1>3. 0 \in S
  <2>1. Pow(0) = 1 /\ Sums(f)[0] = 0 BY <1>1, PowIs, SumsStep
  <2>2. 1 \in Nat \ {0} /\ 0 \in 0 .. 1 - 1 /\ v = 1 * v + 0 OBVIOUS
  <2>3. v \div 1 = v BY <2>2, DivisionIs
  <2> QED BY <2>1, <2>3
<1>4. ASSUME NEW j \in 1 .. n, j - 1 \in S PROVE j \in S
  <2> DEFINE p == Pow(j - 1)
             a == q(j - 1)
             b == a \div 2
             r == a % 2
             s == Sums(f)[j - 1]
  <2>1. j - 1 \in Nat /\ (j - 1) + 1 = j OBVIOUS
  <2>2. p \in Nat \ {0} /\ Pow(j) = 2 * p BY <2>1, PowIs
  <2>3. a \in Nat BY <2>2, Division
  <2>4. a = 2 * b + r /\ r \in {0, 1} /\ b \in Nat
    <3> HIDE DEF a
    <3> QED BY <2>3
  <2>5. q(j) = b BY <2>2, DivTwice
  <2>6. s \in Nat /\ Sums(f)[j] = s + f[j] BY <1>1, SumsStep
  <2>7. f[j] = r * p BY LowIs
  <2>8. s + p * a = v BY <1>4
  <2> HIDE DEF p, a, b, r, s, f, q
  <2>9. p * a = (2 * p) * b + r * p
    <3>1. p * (2 * b + r) = (2 * p) * b + r * p BY <2>2, <2>4
    <3> QED BY <2>4, <3>1
  <2>10. (2 * p) * b \in Nat /\ r * p \in Nat BY <2>2, <2>4
  <2>11. (s + r * p) + (2 * p) * b = v
    <3> DEFINE x == (2 * p) * b
               y == r * p
               z == p * a
    <3>1. x \in Nat /\ y \in Nat /\ z = x + y /\ s + z = v BY <2>8, <2>9, <2>10
    <3> HIDE DEF x, y, z
    <3>2. (s + y) + x = v BY <2>6, <3>1
    <3> QED BY <3>2 DEF x, y
  <2>12. Sums(f)[j] = s + r * p BY <2>6, <2>7
  <2>13. Sums(f)[j] + Pow(j) * q(j) = v BY <2>2, <2>5, <2>11, <2>12
  <2> QED BY <2>13
<1>5. 0 .. n \subseteq S
  <2> HIDE DEF S
  <2> QED BY <1>3, <1>4, InductTo
<1>6. q(n) = 0
  <2>1. Pow(n) \in Nat \ {0} BY PowIs
  <2>2. v \in 0 .. Pow(n) - 1 /\ v = Pow(n) * 0 + v BY <2>1
  <2> QED BY <2>1, <2>2, DivisionIs
<1>7. Sums(f)[n] + Pow(n) * q(n) = v
  <2>1. n \in S BY <1>5
  <2> QED BY <2>1
<1>8. Pow(n) * q(n) = 0
  <2>1. Pow(n) \in Nat BY PowIs
  <2> QED BY <1>6, <2>1
<1>9. Sums(f)[n] \in Nat
  <2>1. n \in 0 .. Len(f) BY <1>1
  <2> QED BY <1>1, <2>1, SumsStep
<1>10. SumOf(f) = Sums(f)[n] BY <1>1 DEF SumOf
<1> HIDE DEF f, q
<1> QED BY <1>2, <1>7, <1>8, <1>9, <1>10

\* The first bits of a word are its quotient.
LEMMA HighFirstOf ==
  ASSUME NEW l \in Nat, NEW v \in Nat, v < Pow(l), NEW k \in 0 .. l
  PROVE  HighFirst([i \in 1 .. k |-> Reverse(Low(v, l))[i]]) = v \div Pow(l - k)
<1> DEFINE q == v \div Pow(l - k)
           bs == [i \in 1 .. k |-> Reverse(Low(v, l))[i]]
<1>1. k \in Nat /\ l - k \in Nat OBVIOUS
<1>2. Pow(l - k) \in Nat \ {0} /\ Pow(k) \in Nat \ {0} BY <1>1, PowIs
<1>3. q \in Nat BY <1>2, Division
<1>4. q < Pow(k)
  <2>1. v = Pow(l - k) * q + (v % Pow(l - k)) /\ v % Pow(l - k) \in Nat
    <3> DEFINE d == Pow(l - k)
    <3>1. d \in Nat \ {0} BY <1>2
    <3> HIDE DEF d
    <3>2. v = d * (v \div d) + (v % d) /\ v % d \in Nat BY <3>1, Division
    <3> QED BY <3>2 DEF d
  <2>2. Pow(l) = Pow(l - k) * Pow(k)
    <3>1. (l - k) + k = l OBVIOUS
    <3> QED BY <1>1, <3>1, PowAdd
  <2> DEFINE d == Pow(l - k)
             m == Pow(k)
             r == v % Pow(l - k)
  <2>3. d * q + r < d * m /\ d \in Nat \ {0} /\ m \in Nat /\ r \in Nat BY <1>2, <2>1, <2>2
  <2> HIDE DEF d, m, r, q
  <2>4. ASSUME q >= m PROVE FALSE
    <3>1. PICK x \in Nat : q = m + x
      <4>1. q - m \in Nat /\ q = m + (q - m) BY <1>3, <2>3, <2>4
      <4> QED BY <4>1
    <3>2. d * q = d * m + d * x /\ d * m \in Nat /\ d * x \in Nat BY <2>3, <3>1
    <3> QED BY <2>3, <3>2
  <2>5. q < m BY <1>3, <2>3, <2>4
  <2> QED BY <2>5 DEF m
<1>5. Reverse(Low(v, l)) = [i \in 1 .. l |-> (v \div Pow(l - i)) % 2]
  <2>1. \A i \in 1 .. l : (l - i) + 1 \in 1 .. l /\ ((l - i) + 1) - 1 = l - i OBVIOUS
  <2>2. \A i \in 1 .. l : Low(v, l)[(l - i) + 1] = (v \div Pow(l - i)) % 2 BY <2>1, LowIs
  <2>3. Reverse(Low(v, l)) = [i \in 1 .. l |-> Low(v, l)[(l - i) + 1]] BY LowIs DEF Reverse
  <2> QED BY <2>2, <2>3
<1>6. bs \in [1 .. k -> Bit]
  <2>1. \A i \in 1 .. k : i \in 1 .. l /\ l - i \in Nat OBVIOUS
  <2>2. \A i \in 1 .. k : bs[i] = (v \div Pow(l - i)) % 2 BY <1>5, <2>1
  <2>3. \A i \in 1 .. k : (v \div Pow(l - i)) \in Nat BY <2>1, PowIs, Division
  <2>4. \A x \in Nat : x % 2 \in Bit BY DEF Bit
  <2> QED BY <2>2, <2>3, <2>4
<1>7. bs \in Seq(Bit) /\ Len(bs) = k
  <2> HIDE DEF bs
  <2> QED BY <1>1, <1>6, IsASeq, LenProperties
<1>8. Reverse(bs) = Low(q, k)
  <2>1. ASSUME NEW i \in 1 .. k PROVE bs[(k - i) + 1] = (q \div Pow(i - 1)) % 2
    <3>1. (k - i) + 1 \in 1 .. k /\ (k - i) + 1 \in 1 .. l /\ l - ((k - i) + 1) = (l - k) + (i - 1) /\ i - 1 \in Nat OBVIOUS
    <3>2. bs[(k - i) + 1] = (v \div Pow((l - k) + (i - 1))) % 2 BY <1>5, <3>1
    <3> QED BY <1>1, <3>1, <3>2, DivPow
  <2>2. Reverse(bs) = [i \in 1 .. k |-> bs[(k - i) + 1]]
    <3> HIDE DEF bs
    <3> QED BY <1>7 DEF Reverse
  <2> QED BY <2>1, <2>2 DEF Low
<1> HIDE DEF q, bs
<1>9. HighFirst(bs) = q BY <1>1, <1>3, <1>4, <1>8, LowFirstOf DEF HighFirst
<1> QED BY <1>9 DEF q, bs

\* A word of ones is the largest.
LEMMA HighFirstOnes ==
  ASSUME NEW k \in Nat
  PROVE  HighFirst([i \in 1 .. k |-> 1]) = Pow(k) - 1
<1> DEFINE ones == [i \in 1 .. k |-> 1]
           f == [i \in 1 .. k |-> Pow(i - 1)]
           S == {j \in 0 .. k : Sums(f)[j] = Pow(j) - 1}
<1>1. ones \in Seq(Nat) /\ Len(ones) = k
  <2>1. ones \in [1 .. k -> Nat] OBVIOUS
  <2> HIDE DEF ones
  <2> QED BY <2>1, IsASeq, LenProperties
<1>2. f \in Seq(Nat) /\ Len(f) = k
  <2>1. \A i \in 1 .. k : Pow(i - 1) \in Nat BY PowIs
  <2>2. f \in [1 .. k -> Nat] BY <2>1
  <2> HIDE DEF f
  <2> QED BY <2>2, IsASeq, LenProperties
<1>3. Reverse(ones) = ones
  <2>1. Reverse(ones) = [i \in 1 .. k |-> ones[(k - i) + 1]]
    <3> HIDE DEF ones
    <3> QED BY <1>1 DEF Reverse
  <2>2. \A i \in 1 .. k : (k - i) + 1 \in 1 .. k OBVIOUS
  <2> QED BY <2>1, <2>2
<1>4. HighFirst(ones) = SumOf(f)
  <2>1. \A i \in 1 .. k : ones[i] * Pow(i - 1) = Pow(i - 1) BY PowIs
  <2>2. LowFirst(ones) = SumOf([i \in 1 .. k |-> ones[i] * Pow(i - 1)])
    <3> HIDE DEF ones
    <3> QED BY <1>1 DEF LowFirst
  <2>3. [i \in 1 .. k |-> ones[i] * Pow(i - 1)] = f BY <2>1
  <2> HIDE DEF ones, f
  <2> QED BY <1>3, <2>2, <2>3 DEF HighFirst
<1>5. 0 \in S
  <2>1. Sums(f)[0] = 0 /\ Pow(0) = 1 BY <1>2, SumsStep, PowIs
  <2> HIDE DEF f
  <2> QED BY <2>1
<1>6. ASSUME NEW j \in 1 .. k, j - 1 \in S PROVE j \in S
  <2>1. j - 1 \in Nat /\ (j - 1) + 1 = j OBVIOUS
  <2>2. Pow(j - 1) \in Nat /\ Pow(j) = 2 * Pow(j - 1) BY <2>1, PowIs
  <2>3. Sums(f)[j] = Sums(f)[j - 1] + f[j] BY <1>2, SumsStep
  <2>4. f[j] = Pow(j - 1) OBVIOUS
  <2>5. Sums(f)[j - 1] = Pow(j - 1) - 1 BY <1>6
  <2> HIDE DEF f
  <2> QED BY <2>2, <2>3, <2>4, <2>5
<1>7. 0 .. k \subseteq S
  <2> HIDE DEF S
  <2> QED BY <1>5, <1>6, InductTo
<1>8. k \in S BY <1>7
<1>9. SumOf(f) = Pow(k) - 1 BY <1>2, <1>8 DEF SumOf
<1> HIDE DEF f, ones
<1>10. HighFirst(ones) = Pow(k) - 1 BY <1>4, <1>9
<1> QED BY <1>10 DEF ones

----------------------------------------------------------------------------
(* Sequences put one behind the other. *)

LensOf(ss) == [k \in 1 .. Len(ss) |-> Len(ss[k])]
Offsets(ss) == Sums(LensOf(ss))

\* Each piece begins where the one before it ends.
LEMMA OffsetsStep ==
  ASSUME NEW T, NEW ss \in Seq(Seq(T))
  PROVE  /\ Len(ss) \in Nat /\ Offsets(ss)[0] = 0
         /\ \A k \in 0 .. Len(ss) : Offsets(ss)[k] \in Nat
         /\ \A k \in 1 .. Len(ss) :
              /\ ss[k] \in Seq(T) /\ Len(ss[k]) \in Nat
              /\ k - 1 \in 0 .. Len(ss) /\ Offsets(ss)[k] = Offsets(ss)[k - 1] + Len(ss[k])
<1>1. Len(ss) \in Nat BY LenProperties
<1>2. \A k \in 1 .. Len(ss) : ss[k] \in Seq(T) /\ Len(ss[k]) \in Nat BY ElementOfSeq, LenProperties
<1>3. LensOf(ss) \in Seq(Nat) /\ Len(LensOf(ss)) = Len(ss)
  <2>1. LensOf(ss) \in [1 .. Len(ss) -> Nat] BY <1>2 DEF LensOf
  <2> QED BY <1>1, <2>1, IsASeq, LenProperties
<1>4. \A k \in 1 .. Len(ss) : LensOf(ss)[k] = Len(ss[k]) BY DEF LensOf
<1> DEFINE ls == LensOf(ss)
<1> HIDE DEF ls
<1>5. /\ Sums(ls) \in [0 .. Len(ls) -> Nat] /\ Sums(ls)[0] = 0
      /\ \A k \in 1 .. Len(ls) : k - 1 \in 0 .. Len(ls) /\ Sums(ls)[k] = Sums(ls)[k - 1] + ls[k]
  <2>1. ls \in Seq(Nat) BY <1>3 DEF ls
  <2> QED BY <2>1, SumsStep
<1>6. \A k \in 0 .. Len(ls) : Sums(ls)[k] \in Nat BY <1>5
<1> QED BY <1>1, <1>2, <1>3, <1>4, <1>5, <1>6 DEF Offsets, ls

\* Each stands behind those before it.
LEMMA Flattened ==
  ASSUME NEW T, NEW ss \in Seq(Seq(T))
  PROVE  /\ FlattenSeq(ss) \in Seq(T) /\ Len(FlattenSeq(ss)) = Offsets(ss)[Len(ss)]
         /\ \A k \in 1 .. Len(ss) : \A i \in 1 .. Len(ss[k]) :
              /\ Offsets(ss)[k - 1] + i \in 1 .. Offsets(ss)[Len(ss)]
              /\ FlattenSeq(ss)[Offsets(ss)[k - 1] + i] = ss[k][i]
<1> DEFINE n == Len(ss)
           V == Seq(T)
           ofs == Offsets(ss)
           g == [k \in 1 .. n |-> [v \in V |-> v \o ss[k]]]
<1>1. /\ n \in Nat /\ ofs[0] = 0 /\ \A k \in 0 .. n : ofs[k] \in Nat
      /\ \A k \in 1 .. n : ss[k] \in V /\ Len(ss[k]) \in Nat /\ k - 1 \in 0 .. n /\ ofs[k] = ofs[k - 1] + Len(ss[k])
  BY OffsetsStep
<1> HIDE DEF ofs
<1>2. \A k \in 1 .. n : \A v \in V : v \o ss[k] \in V BY <1>1, ConcatProperties
<1>3. PICK f \in [0 .. n -> V] : f[0] = <<>> /\ \A k \in 1 .. n : f[k] = g[k][f[k - 1]]
  <2>1. g \in [1 .. n -> [V -> V]] /\ <<>> \in V BY <1>2, EmptySeq
  <2>2. Recursions(n, V, <<>>, g) # {}
    <3> HIDE DEF g, V, n
    <3> QED BY <1>1, <2>1, Recursive
  <2> QED BY <2>2 DEF Recursions
<1>4. \A k \in 1 .. n : k \in 0 .. n /\ f[k] \in V /\ f[k - 1] \in V /\ f[k] = f[k - 1] \o ss[k]
  <2>1. \A k \in 1 .. n : k \in 0 .. n /\ k - 1 \in 0 .. n BY <1>1
  <2>2. \A k \in 0 .. n : f[k] \in V BY <1>3
  <2> QED BY <1>3, <2>1, <2>2
<1> HIDE DEF g
<1>5. FlattenSeq(ss) = f[n]
  <2>1. CASE n = 0
    <3>1. ss = <<>> BY <2>1, EmptySeq
    <3> QED BY <1>3, <2>1, <3>1 DEF FlattenSeq
  <2>2. CASE n # 0
    <3> DEFINE c == CHOOSE c : c = [i \in 1 .. n |-> IF i = 1 THEN ss[i] ELSE c[i - 1] \o ss[i]]
               h == [i \in 1 .. n |-> f[i]]
    <3>1. f[1] = ss[1]
      <4>1. 1 \in 1 .. n /\ f[1 - 1] = <<>> BY <1>1, <1>3, <2>2
      <4>2. f[1] = <<>> \o ss[1] /\ ss[1] \in V BY <1>1, <1>4, <4>1
      <4> QED BY <4>2, ConcatEmptySeq
    <3>2. h = [i \in 1 .. n |-> IF i = 1 THEN ss[i] ELSE h[i - 1] \o ss[i]]
      <4>1. \A i \in 1 .. n : i # 1 => i - 1 \in 1 .. n BY <1>1
      <4>2. \A i \in 1 .. n : h[i] = IF i = 1 THEN ss[i] ELSE h[i - 1] \o ss[i] BY <1>4, <3>1, <4>1
      <4> QED BY <4>2
    <3>3. c = [i \in 1 .. n |-> IF i = 1 THEN ss[i] ELSE c[i - 1] \o ss[i]]
      <4> HIDE DEF h
      <4>1. \E x : x = [i \in 1 .. n |-> IF i = 1 THEN ss[i] ELSE x[i - 1] \o ss[i]] BY <3>2, Zenon
      <4> QED BY <4>1, Zenon
    <3>4. FlattenSeq(ss) = c[n] BY <2>2, Zenon DEF FlattenSeq
    <3> HIDE DEF c, h
    <3>5. c[1] = ss[1] /\ \A i \in 1 .. n : i # 1 => c[i] = c[i - 1] \o ss[i]
      <4>1. 1 \in 1 .. n BY <1>1, <2>2
      <4>2. \A i \in 1 .. n : c[i] = IF i = 1 THEN ss[i] ELSE c[i - 1] \o ss[i] BY <3>3, Zenon
      <4> QED BY <4>1, <4>2
    <3> DEFINE S == {j \in 0 .. n : j # 0 => c[j] = f[j]}
    <3>6. 0 \in S BY <1>1
    <3>7. ASSUME NEW j \in 1 .. n, j - 1 \in S PROVE j \in S
      <4>1. CASE j = 1 BY <1>4, <3>1, <3>5, <4>1
      <4>2. CASE j # 1
        <5>1. j - 1 # 0 BY <4>2
        <5>2. c[j - 1] = f[j - 1] BY <3>7, <5>1
        <5> QED BY <1>4, <3>5, <4>2, <5>2
      <4> QED BY <4>1, <4>2
    <3>8. n \in S
      <4> HIDE DEF S
      <4>1. 0 .. n \subseteq S BY <1>1, <3>6, <3>7, InductTo
      <4> QED BY <1>1, <4>1
    <3> QED BY <2>2, <3>4, <3>8
  <2> QED BY <2>1, <2>2
<1> DEFINE Placed(j) == \A k \in 1 .. j : \A i \in 1 .. Len(ss[k]) : ofs[k - 1] + i \in 1 .. ofs[j] /\ f[j][ofs[k - 1] + i] = ss[k][i]
           S == {j \in 0 .. n : Len(f[j]) = ofs[j] /\ Placed(j)}
<1>6. 0 \in S
  <2>1. Len(f[0]) = 0 BY <1>3, EmptySeq
  <2> QED BY <1>1, <2>1
<1>7. ASSUME NEW j \in 1 .. n, j - 1 \in S PROVE j \in S
  <2>1. Len(f[j - 1]) = ofs[j - 1] /\ Placed(j - 1) BY <1>7
  <2>2. f[j] = f[j - 1] \o ss[j] /\ f[j - 1] \in V /\ ss[j] \in V /\ j \in 0 .. n BY <1>1, <1>4
  <2>3. /\ Len(f[j]) = Len(f[j - 1]) + Len(ss[j])
        /\ \A i \in 1 .. Len(f[j - 1]) + Len(ss[j]) : f[j][i] = IF i <= Len(f[j - 1]) THEN f[j - 1][i] ELSE ss[j][i - Len(f[j - 1])]
    <3> DEFINE was == f[j - 1]
               new == ss[j]
    <3>1. was \in V /\ new \in V BY <2>2
    <3> HIDE DEF was, new
    <3>2. /\ Len(was \o new) = Len(was) + Len(new)
          /\ \A i \in 1 .. Len(was) + Len(new) : (was \o new)[i] = IF i <= Len(was) THEN was[i] ELSE new[i - Len(was)]
      BY <3>1, ConcatProperties
    <3> QED BY <2>2, <3>2, Zenon DEF was, new
  <2>4. ofs[j] = ofs[j - 1] + Len(ss[j]) /\ ofs[j - 1] \in Nat /\ Len(ss[j]) \in Nat BY <1>1
  <2>5. ASSUME NEW k \in 1 .. j, NEW i \in 1 .. Len(ss[k])
        PROVE  ofs[k - 1] + i \in 1 .. ofs[j] /\ f[j][ofs[k - 1] + i] = ss[k][i]
    <3>1. k \in 1 .. n /\ ofs[k - 1] \in Nat /\ Len(ss[k]) \in Nat BY <1>1
    <3>2. CASE k = j
      <4>1. ofs[k - 1] + i \in 1 .. ofs[j] /\ ~(ofs[k - 1] + i <= ofs[j - 1]) /\ (ofs[k - 1] + i) - ofs[j - 1] = i
        BY <2>4, <3>2
      <4>2. Len(f[j - 1]) = ofs[j - 1] /\ k - 1 = j - 1 BY <2>1, <3>2
      <4>3. ofs[k - 1] + i \in 1 .. Len(f[j - 1]) + Len(ss[j]) BY <2>4, <4>1, <4>2
      <4>4. f[j][ofs[k - 1] + i] = ss[j][(ofs[k - 1] + i) - Len(f[j - 1])] BY <2>3, <4>1, <4>2, <4>3
      <4> QED BY <3>2, <4>1, <4>2, <4>4
    <3>3. CASE k # j
      <4>1. k \in 1 .. j - 1 BY <3>3
      <4>2. ofs[k - 1] + i \in 1 .. ofs[j - 1] /\ f[j - 1][ofs[k - 1] + i] = ss[k][i] BY <2>1, <4>1
      <4>3. ofs[k - 1] + i \in 1 .. ofs[j] /\ ofs[k - 1] + i <= ofs[j - 1] BY <2>4, <4>2
      <4> QED BY <2>1, <2>3, <2>4, <4>2, <4>3
    <3> QED BY <3>2, <3>3
  <2> QED BY <2>1, <2>2, <2>3, <2>4, <2>5
<1>8. n \in S
  <2> HIDE DEF S
  <2>1. 0 .. n \subseteq S BY <1>1, <1>6, <1>7, InductTo
  <2> QED BY <1>1, <2>1
<1>9. f[n] \in V BY <1>1, <1>3
<1> QED BY <1>5, <1>8, <1>9 DEF ofs

\* What stands in a sequence of bits from a place on.
Stands(all, p, c) == p \in Nat /\ p + Len(c) <= Len(all) /\ \A i \in 1 .. Len(c) : all[p + i] = c[i]

\* Where two words stand one behind the other, each stands.
LEMMA StandsJoined ==
  ASSUME NEW T, NEW all, NEW p, NEW a \in Seq(T), NEW b \in Seq(T), Len(all) \in Nat, Stands(all, p, a \o b)
  PROVE  Stands(all, p, a) /\ Stands(all, p + Len(a), b) /\ p + Len(a \o b) = (p + Len(a)) + Len(b)
<1>1. /\ Len(a) \in Nat /\ Len(b) \in Nat /\ Len(a \o b) = Len(a) + Len(b)
      /\ \A i \in 1 .. Len(a) + Len(b) : (a \o b)[i] = IF i <= Len(a) THEN a[i] ELSE b[i - Len(a)]
  BY LenProperties, ConcatProperties
<1>2. p \in Nat /\ p + (Len(a) + Len(b)) <= Len(all) /\ \A i \in 1 .. Len(a) + Len(b) : all[p + i] = (a \o b)[i]
  BY <1>1 DEF Stands
<1>3. \A i \in 1 .. Len(a) : all[p + i] = a[i]
  <2>1. \A i \in 1 .. Len(a) : i \in 1 .. Len(a) + Len(b) /\ i <= Len(a) BY <1>1
  <2> QED BY <1>1, <1>2, <2>1
<1>4. \A i \in 1 .. Len(b) : all[(p + Len(a)) + i] = b[i]
  <2> TAKE i \in 1 .. Len(b)
  <2>1. Len(a) + i \in 1 .. Len(a) + Len(b) /\ ~(Len(a) + i <= Len(a)) /\ (Len(a) + i) - Len(a) = i BY <1>1
  <2>2. p + (Len(a) + i) = (p + Len(a)) + i BY <1>1, <1>2
  <2> QED BY <1>1, <1>2, <2>1, <2>2
<1>5. p + Len(a) \in Nat /\ p + Len(a) <= Len(all) /\ (p + Len(a)) + Len(b) <= Len(all) BY <1>1, <1>2
<1> QED BY <1>1, <1>2, <1>3, <1>4, <1>5 DEF Stands

\* And so of any number of them, each at its offset.
LEMMA StandsFlattened ==
  ASSUME NEW T, NEW all, NEW p, NEW ss \in Seq(Seq(T)), Len(all) \in Nat, Stands(all, p, FlattenSeq(ss))
  PROVE  \A k \in 1 .. Len(ss) : Stands(all, p + Offsets(ss)[k - 1], ss[k])
<1> TAKE k \in 1 .. Len(ss)
<1> DEFINE ofs == Offsets(ss)
           n == Len(ss)
<1>1. /\ ofs[k - 1] \in Nat /\ Len(ss[k]) \in Nat /\ ofs[k] = ofs[k - 1] + Len(ss[k]) /\ ofs[n] \in Nat
      /\ Len(FlattenSeq(ss)) = ofs[n]
      /\ \A i \in 1 .. Len(ss[k]) : ofs[k - 1] + i \in 1 .. ofs[n] /\ FlattenSeq(ss)[ofs[k - 1] + i] = ss[k][i]
  BY OffsetsStep, Flattened
<1>2. p \in Nat /\ p + ofs[n] <= Len(all) /\ \A i \in 1 .. ofs[n] : all[p + i] = FlattenSeq(ss)[i] BY <1>1 DEF Stands
<1> HIDE DEF ofs, n
<1>3. p + ofs[k - 1] \in Nat BY <1>1, <1>2
<1>4. ASSUME NEW i \in 1 .. Len(ss[k]) PROVE all[(p + ofs[k - 1]) + i] = ss[k][i]
  <2>1. (p + ofs[k - 1]) + i = p + (ofs[k - 1] + i) BY <1>1, <1>2
  <2> QED BY <1>1, <1>2, <2>1
<1>5. (p + ofs[k - 1]) + Len(ss[k]) <= Len(all)
  <2>1. CASE Len(ss[k]) = 0
    <3>1. ofs[k - 1] <= ofs[n]
      <4> DEFINE S == {j \in 0 .. n : \A m \in 0 .. j : ofs[m] <= ofs[j]}
      <4>0. n \in Nat /\ ofs[0] = 0 /\ (\A j \in 0 .. n : ofs[j] \in Nat)
            /\ \A j \in 1 .. n : j - 1 \in 0 .. n /\ Len(ss[j]) \in Nat /\ ofs[j] = ofs[j - 1] + Len(ss[j])
        BY OffsetsStep DEF n, ofs
      <4>1. 0 \in S BY <4>0
      <4>2. ASSUME NEW j \in 1 .. n, j - 1 \in S PROVE j \in S
        <5>0. j \in 0 .. n /\ ofs[j - 1] \in Nat /\ ofs[j] \in Nat /\ Len(ss[j]) \in Nat /\ ofs[j] = ofs[j - 1] + Len(ss[j])
          <6>1. j \in 0 .. n BY <4>0
          <6> QED BY <4>0, <6>1, Zenon
        <5>1. ofs[j - 1] <= ofs[j] BY <5>0
        <5>2. ASSUME NEW m \in 0 .. j PROVE ofs[m] <= ofs[j]
          <6>1. CASE m = j BY <5>0, <6>1
          <6>2. CASE m # j
            <7>1. m \in 0 .. j - 1 /\ m \in 0 .. n BY <4>0, <6>2
            <7>2. ofs[m] <= ofs[j - 1] /\ ofs[m] \in Nat BY <4>0, <4>2, <7>1
            <7> QED BY <5>0, <5>1, <7>2
          <6> QED BY <6>1, <6>2
        <5> QED BY <5>0, <5>2
      <4>3. n \in S
        <5> HIDE DEF S
        <5>1. 0 .. n \subseteq S BY <4>0, <4>1, <4>2, InductTo
        <5> QED BY <4>0, <5>1
      <4>4. k - 1 \in 0 .. n BY <4>0 DEF n
      <4> QED BY <4>3, <4>4
    <3> QED BY <1>1, <1>2, <2>1, <3>1
  <2>2. CASE Len(ss[k]) # 0
    <3>1. Len(ss[k]) \in 1 .. Len(ss[k]) BY <1>1, <2>2
    <3>2. ofs[k - 1] + Len(ss[k]) \in 1 .. ofs[n] BY <1>1, <3>1
    <3> DEFINE x == ofs[k - 1]
               y == Len(ss[k])
               z == ofs[n]
               L == Len(all)
    <3>3. x \in Nat /\ y \in Nat /\ z \in Nat /\ p \in Nat /\ L \in Nat /\ x + y <= z /\ p + z <= L BY <1>1, <1>2, <3>2
    <3> HIDE DEF x, y, z, L
    <3>4. (p + x) + y <= L BY <3>3
    <3> QED BY <3>4 DEF x, y, L
  <2> QED BY <2>1, <2>2
<1>6. Stands(all, p + ofs[k - 1], ss[k]) BY <1>3, <1>4, <1>5 DEF Stands
<1> QED BY <1>6 DEF ofs

----------------------------------------------------------------------------
(* Prefix codes. *)

IsLens(lens) == lens \in Seq(0 .. MAXLBITS)

\* The sizes of the format.
LEMMA Sizes == OCTET \in Nat \ {0} /\ MAXLBITS \in Nat \ {0}
BY FormatAssumption

\* A sum of naturals is one.
LEMMA SumNat ==
  ASSUME NEW ds \in Seq(Nat)
  PROVE  SumOf(ds) \in Nat
<1>1. Len(ds) \in 0 .. Len(ds) BY LenProperties
<1> QED BY <1>1, SumsStep DEF SumOf

\* A list of code lengths, as huff_build is given it, and the symbols it uses.
LEMMA LensAre ==
  ASSUME NEW lens, IsLens(lens)
  PROVE  /\ Len(lens) \in Nat /\ \A i \in 1 .. Len(lens) : lens[i] \in 0 .. MAXLBITS
         /\ IsFiniteSet(Used(lens)) /\ \A s \in Used(lens) : s \in Nat /\ s + 1 \in 1 .. Len(lens) /\ lens[s + 1] \in 1 .. MAXLBITS
<1>1. Len(lens) \in Nat /\ \A i \in 1 .. Len(lens) : lens[i] \in 0 .. MAXLBITS BY LenProperties, ElementOfSeq DEF IsLens
<1>2. IsFiniteSet(0 .. Len(lens) - 1) BY <1>1, FS_Interval
<1>3. IsFiniteSet(Used(lens)) BY <1>2, FS_Subset DEF Used
<1>4. \A s \in Used(lens) : s \in Nat /\ s + 1 \in 1 .. Len(lens) /\ lens[s + 1] # 0 BY <1>1 DEF Used
<1>5. MAXLBITS \in Nat BY Sizes
<1>6. \A s \in Used(lens) : lens[s + 1] \in 1 .. MAXLBITS BY <1>1, <1>4, <1>5
<1> QED BY <1>1, <1>3, <1>4, <1>6

\* How many symbols have each length.
LEMMA CountsAre ==
  ASSUME NEW lens, IsLens(lens)
  PROVE  /\ Counts(lens) \in [1 .. MAXLBITS -> Nat]
         /\ \A l \in 1 .. MAXLBITS :
              Counts(lens)[l] = Cardinality({s \in Used(lens) : lens[s + 1] = l}) /\ IsFiniteSet({s \in Used(lens) : lens[s + 1] = l})
<1>1. \A l \in 1 .. MAXLBITS : IsFiniteSet({s \in Used(lens) : lens[s + 1] = l}) BY LensAre, FS_Subset
<1>2. \A l \in 1 .. MAXLBITS : Cardinality({s \in Used(lens) : lens[s + 1] = l}) \in Nat BY <1>1, FS_CardinalityType
<1> QED BY <1>1, <1>2 DEF Counts

\* The words of l bits that the codes of at most l bits begin.
Claims(lens, l) == [i \in 1 .. Len(lens) |-> IF lens[i] \in 1 .. l THEN Pow(l - lens[i]) ELSE 0]
Claimed(lens, l) == SumOf(Claims(lens, l))

\* The words of l bits that begin with a code of at most l bits, symbol by symbol.
LEMMA ClaimsAre ==
  ASSUME NEW lens, IsLens(lens), NEW l \in Nat
  PROVE  Claims(lens, l) \in Seq(Nat) /\ Len(Claims(lens, l)) = Len(lens) /\ Claimed(lens, l) \in Nat
<1>1. Claims(lens, l) \in [1 .. Len(lens) -> Nat]
  <2>1. \A x \in 1 .. l : Pow(l - x) \in Nat BY PowIs
  <2> QED BY <2>1 DEF Claims
<1>2. Claims(lens, l) \in Seq(Nat) /\ Len(Claims(lens, l)) = Len(lens) BY <1>1, LensAre, IsASeq, LenProperties
<1> QED BY <1>2, SumNat DEF Claimed

\* A bit more doubles the words that are taken, and the codes of that length are added.
LEMMA ClaimedStep ==
  ASSUME NEW lens, IsLens(lens)
  PROVE  /\ Claimed(lens, 0) = 0
         /\ \A l \in 1 .. MAXLBITS : Claimed(lens, l) = 2 * Claimed(lens, l - 1) + Counts(lens)[l]
<1>1. Claimed(lens, 0) = 0
  <2> DEFINE c == Claims(lens, 0)
  <2>1. c = [i \in 1 .. Len(lens) |-> 0] BY DEF Claims
  <2>2. c \in Seq({0, 1}) /\ Len(c) = Len(lens)
    <3>1. c \in [1 .. Len(lens) -> {0, 1}] BY <2>1
    <3> QED BY <3>1, LensAre, IsASeq, LenProperties
  <2>3. {i \in 0 .. Len(c) - 1 : c[i + 1] = 1} = {}
    <3>1. \A i \in 0 .. Len(c) - 1 : i + 1 \in 1 .. Len(lens) BY <2>2, LensAre
    <3> QED BY <2>1, <3>1
  <2> HIDE DEF c
  <2>4. SumOf(c) = 0 BY <2>2, <2>3, SumCounts, FS_EmptySet
  <2> QED BY <2>4 DEF c, Claimed
<1>2. ASSUME NEW l \in 1 .. MAXLBITS PROVE Claimed(lens, l) = 2 * Claimed(lens, l - 1) + Counts(lens)[l]
  <2> DEFINE f == Claims(lens, l)
             g == Claims(lens, l - 1)
             h == [i \in 1 .. Len(lens) |-> IF lens[i] = l THEN 1 ELSE 0]
             n == Len(lens)
  <2>0. n \in Nat /\ \A i \in 1 .. n : lens[i] \in 0 .. MAXLBITS BY LensAre
  <2>1. l \in Nat /\ l - 1 \in Nat BY Sizes
  <2>2. f \in Seq(Nat) /\ Len(f) = n /\ g \in Seq(Nat) /\ Len(g) = n BY <2>1, ClaimsAre
  <2>3. h \in Seq({0, 1}) /\ Len(h) = n /\ h \in Seq(Nat)
    <3>1. h \in [1 .. n -> {0, 1}] /\ h \in [1 .. n -> Nat] OBVIOUS
    <3> HIDE DEF h, n
    <3> QED BY <2>0, <3>1, IsASeq, LenProperties
  <2>4. ASSUME NEW i \in 1 .. n PROVE f[i] = 2 * g[i] + h[i]
    <3>1. f[i] = IF lens[i] \in 1 .. l THEN Pow(l - lens[i]) ELSE 0 BY DEF Claims
    <3>2. g[i] = IF lens[i] \in 1 .. l - 1 THEN Pow((l - 1) - lens[i]) ELSE 0 BY DEF Claims
    <3>3. h[i] = IF lens[i] = l THEN 1 ELSE 0 OBVIOUS
    <3> HIDE DEF f, g, h
    <3>4. lens[i] \in Nat BY <2>0, Sizes
    <3>5. CASE lens[i] = l
      <4>1. lens[i] \in 1 .. l /\ lens[i] \notin 1 .. l - 1 /\ l - lens[i] = 0 BY <2>1, <3>5
      <4> QED BY <3>1, <3>2, <3>3, <3>5, <4>1, PowIs
    <3>6. CASE lens[i] \in 1 .. l - 1
      <4>1. lens[i] \in 1 .. l /\ lens[i] # l /\ l - lens[i] = ((l - 1) - lens[i]) + 1 /\ (l - 1) - lens[i] \in Nat BY <2>1, <3>6
      <4>2. Pow(l - lens[i]) = 2 * Pow((l - 1) - lens[i]) /\ Pow((l - 1) - lens[i]) \in Nat BY <4>1, PowIs
      <4> QED BY <3>1, <3>2, <3>3, <3>6, <4>1, <4>2
    <3>7. CASE lens[i] # l /\ lens[i] \notin 1 .. l - 1
      <4>1. lens[i] \notin 1 .. l BY <2>1, <3>4, <3>7
      <4> QED BY <3>1, <3>2, <3>3, <3>7, <4>1
    <3> QED BY <3>5, <3>6, <3>7
  <2>5. {i \in 0 .. n - 1 : h[i + 1] = 1} = {s \in Used(lens) : lens[s + 1] = l}
    <3>1. \A i \in 0 .. n - 1 : i + 1 \in 1 .. n BY <2>0
    <3>2. \A i \in 0 .. n - 1 : h[i + 1] = 1 <=> lens[i + 1] = l BY <3>1
    <3>3. \A i \in 0 .. n - 1 : lens[i + 1] = l => i \in Used(lens) BY <2>1 DEF Used
    <3>4. \A s \in Used(lens) : s \in 0 .. n - 1 BY DEF Used
    <3> HIDE DEF h, n
    <3> QED BY <3>2, <3>3, <3>4
  <2> HIDE DEF f, g, h, n
  <2>6. SumOf(h) = Counts(lens)[l]
    <3>1. SumOf(h) = Cardinality({i \in 0 .. Len(h) - 1 : h[i + 1] = 1}) BY <2>3, SumCounts
    <3>2. Len(h) = n BY <2>3
    <3>3. Counts(lens)[l] = Cardinality({s \in Used(lens) : lens[s + 1] = l}) BY DEF Counts
    <3> QED BY <2>5, <3>1, <3>2, <3>3
  <2>7. SumOf(f) = 2 * SumOf(g) + SumOf(h)
    <3>1. \A i \in 1 .. Len(f) : f[i] = 2 * g[i] + h[i] BY <2>2, <2>4
    <3>2. f \in Seq(Nat) /\ g \in Seq(Nat) /\ h \in Seq(Nat) /\ Len(g) = Len(f) /\ Len(h) = Len(f) BY <2>2, <2>3
    <3> QED BY <3>1, <3>2, SumLinear, Zenon
  <2> QED BY <2>6, <2>7 DEF f, g, Claimed
<1> QED BY <1>1, <1>2

\* At the greatest length they are the weight of the code.
LEMMA ClaimedAll ==
  ASSUME NEW lens, IsLens(lens)
  PROVE  Weight(lens) = Claimed(lens, MAXLBITS)
<1>1. \A i \in 1 .. Len(lens) : lens[i] = 0 <=> ~(lens[i] \in 1 .. MAXLBITS) BY LensAre, Sizes
<1>2. [i \in 1 .. Len(lens) |-> IF lens[i] = 0 THEN 0 ELSE Pow(MAXLBITS - lens[i])] = Claims(lens, MAXLBITS)
  BY <1>1 DEF Claims
<1> QED BY <1>2 DEF Weight, Claimed


\* The recursions of huff_build and huff_decode.
LEMMA LeftStep ==
  ASSUME NEW count \in [1 .. MAXLBITS -> Nat]
  PROVE  /\ Left(count) \in [0 .. MAXLBITS -> Int] /\ Left(count)[0] = 1
         /\ \A k \in 1 .. MAXLBITS : k - 1 \in 0 .. MAXLBITS /\ Left(count)[k - 1] \in Int /\ Left(count)[k] = 2 * Left(count)[k - 1] - count[k]
<1> DEFINE e == CHOOSE e : e = [k \in 0 .. MAXLBITS |-> IF k = 0 THEN 1 ELSE 2 * e[k - 1] - count[k]]
           g == [k \in 1 .. MAXLBITS |-> [v \in Int |-> 2 * v - count[k]]]
<1>1. MAXLBITS \in Nat /\ 1 \in Int /\ \A k \in 1 .. MAXLBITS : \A v \in Int : 2 * v - count[k] \in Int
  <2>1. \A k \in 1 .. MAXLBITS : count[k] \in Nat OBVIOUS
  <2> QED BY <2>1, Sizes
<1>2. g \in [1 .. MAXLBITS -> [Int -> Int]] BY <1>1
<1>3. PICK f \in [0 .. MAXLBITS -> Int] : f[0] = 1 /\ \A k \in 1 .. MAXLBITS : f[k] = g[k][f[k - 1]]
  <2>1. Recursions(MAXLBITS, Int, 1, g) # {}
    <3> HIDE DEF g
    <3> QED BY <1>1, <1>2, Recursive
  <2> QED BY <2>1 DEF Recursions
<1>4. \A k \in 1 .. MAXLBITS : k \in 0 .. MAXLBITS /\ k # 0 /\ k - 1 \in 0 .. MAXLBITS BY <1>1
<1>5. \A k \in 1 .. MAXLBITS : f[k - 1] \in Int /\ f[k] = 2 * f[k - 1] - count[k]
  <2>1. \A k \in 1 .. MAXLBITS : f[k - 1] \in Int BY <1>3, <1>4
  <2> QED BY <1>3, <2>1
<1> HIDE DEF g
<1>6. f = [k \in 0 .. MAXLBITS |-> IF k = 0 THEN 1 ELSE 2 * f[k - 1] - count[k]]
  <2>1. \A k \in 0 .. MAXLBITS : k # 0 => k \in 1 .. MAXLBITS BY <1>1
  <2>2. \A k \in 0 .. MAXLBITS : f[k] = IF k = 0 THEN 1 ELSE 2 * f[k - 1] - count[k] BY <1>3, <1>5, <2>1, Zenon
  <2> QED BY <1>3, <2>2
<1>7. e = [k \in 0 .. MAXLBITS |-> IF k = 0 THEN 1 ELSE 2 * e[k - 1] - count[k]]
  <2>1. \E x : x = [k \in 0 .. MAXLBITS |-> IF k = 0 THEN 1 ELSE 2 * x[k - 1] - count[k]] BY <1>6, Zenon
  <2> QED BY <2>1, Zenon
<1>8. Left(count) = e BY Zenon DEF Left
<1> HIDE DEF e
<1>9. 0 \in 0 .. MAXLBITS BY <1>1
<1>10. e[0] = 1 /\ \A k \in 1 .. MAXLBITS : e[k] = 2 * e[k - 1] - count[k] BY <1>4, <1>7, <1>9, Zenon
<1>11. \A k \in 1 .. MAXLBITS : f[k - 1] = e[k - 1] => f[k] = e[k] BY <1>5, <1>10, Zenon
<1>12. \A k \in 0 .. MAXLBITS : f[k] = e[k]
  <2> DEFINE S == {k \in 0 .. MAXLBITS : f[k] = e[k]}
  <2>1. 0 \in S BY <1>3, <1>9, <1>10
  <2>2. \A k \in 1 .. MAXLBITS : k - 1 \in S => k \in S BY <1>4, <1>11
  <2>3. MAXLBITS \in Nat BY <1>1
  <2>4. 0 .. MAXLBITS \subseteq S
    <3> HIDE DEF S
    <3> QED BY <2>1, <2>2, <2>3, InductTo
  <2> QED BY <2>4
<1>13. e \in [0 .. MAXLBITS -> Int]
  <2>1. e = [k \in 0 .. MAXLBITS |-> e[k]] BY <1>7
  <2>2. \A k \in 0 .. MAXLBITS : e[k] \in Int BY <1>3, <1>12
  <2> QED BY <2>1, <2>2
<1> QED BY <1>4, <1>8, <1>10, <1>13

\* The first code of each length, as the decoder advances it bit by bit.
LEMMA FirstStep ==
  ASSUME NEW count \in [1 .. MAXLBITS -> Nat]
  PROVE  /\ First(count) \in [0 .. MAXLBITS -> Nat] /\ First(count)[0] = 0
         /\ \A k \in 1 .. MAXLBITS : k - 1 \in 0 .. MAXLBITS /\ First(count)[k - 1] \in Nat /\ First(count)[k] = 2 * (First(count)[k - 1] + count[k])
<1> DEFINE e == CHOOSE e : e = [k \in 0 .. MAXLBITS |-> IF k = 0 THEN 0 ELSE 2 * (e[k - 1] + count[k])]
           g == [k \in 1 .. MAXLBITS |-> [v \in Nat |-> 2 * (v + count[k])]]
<1>1. MAXLBITS \in Nat /\ 0 \in Nat /\ \A k \in 1 .. MAXLBITS : \A v \in Nat : 2 * (v + count[k]) \in Nat
  <2>1. \A k \in 1 .. MAXLBITS : count[k] \in Nat OBVIOUS
  <2> QED BY <2>1, Sizes
<1>2. g \in [1 .. MAXLBITS -> [Nat -> Nat]] BY <1>1
<1>3. PICK f \in [0 .. MAXLBITS -> Nat] : f[0] = 0 /\ \A k \in 1 .. MAXLBITS : f[k] = g[k][f[k - 1]]
  <2>1. Recursions(MAXLBITS, Nat, 0, g) # {}
    <3> HIDE DEF g
    <3> QED BY <1>1, <1>2, Recursive
  <2> QED BY <2>1 DEF Recursions
<1>4. \A k \in 1 .. MAXLBITS : k \in 0 .. MAXLBITS /\ k # 0 /\ k - 1 \in 0 .. MAXLBITS BY <1>1
<1>5. \A k \in 1 .. MAXLBITS : f[k - 1] \in Nat /\ f[k] = 2 * (f[k - 1] + count[k])
  <2>1. \A k \in 1 .. MAXLBITS : f[k - 1] \in Nat BY <1>3, <1>4
  <2> QED BY <1>3, <2>1
<1> HIDE DEF g
<1>6. f = [k \in 0 .. MAXLBITS |-> IF k = 0 THEN 0 ELSE 2 * (f[k - 1] + count[k])]
  <2>1. \A k \in 0 .. MAXLBITS : k # 0 => k \in 1 .. MAXLBITS BY <1>1
  <2>2. \A k \in 0 .. MAXLBITS : f[k] = IF k = 0 THEN 0 ELSE 2 * (f[k - 1] + count[k]) BY <1>3, <1>5, <2>1, Zenon
  <2> QED BY <1>3, <2>2
<1>7. e = [k \in 0 .. MAXLBITS |-> IF k = 0 THEN 0 ELSE 2 * (e[k - 1] + count[k])]
  <2>1. \E x : x = [k \in 0 .. MAXLBITS |-> IF k = 0 THEN 0 ELSE 2 * (x[k - 1] + count[k])] BY <1>6, Zenon
  <2> QED BY <2>1, Zenon
<1>8. First(count) = e BY Zenon DEF First
<1> HIDE DEF e
<1>9. 0 \in 0 .. MAXLBITS BY <1>1
<1>10. e[0] = 0 /\ \A k \in 1 .. MAXLBITS : e[k] = 2 * (e[k - 1] + count[k]) BY <1>4, <1>7, <1>9, Zenon
<1>11. \A k \in 1 .. MAXLBITS : f[k - 1] = e[k - 1] => f[k] = e[k] BY <1>5, <1>10, Zenon
<1>12. \A k \in 0 .. MAXLBITS : f[k] = e[k]
  <2> DEFINE S == {k \in 0 .. MAXLBITS : f[k] = e[k]}
  <2>1. 0 \in S BY <1>3, <1>9, <1>10
  <2>2. \A k \in 1 .. MAXLBITS : k - 1 \in S => k \in S BY <1>4, <1>11
  <2>3. MAXLBITS \in Nat BY <1>1
  <2>4. 0 .. MAXLBITS \subseteq S
    <3> HIDE DEF S
    <3> QED BY <2>1, <2>2, <2>3, InductTo
  <2> QED BY <2>4
<1>13. e \in [0 .. MAXLBITS -> Nat]
  <2>1. e = [k \in 0 .. MAXLBITS |-> e[k]] BY <1>7
  <2>2. \A k \in 0 .. MAXLBITS : e[k] \in Nat BY <1>3, <1>12
  <2> QED BY <2>1, <2>2
<1> QED BY <1>4, <1>8, <1>10, <1>13

\* The place of its symbol in the sorted list.
LEMMA IndexStep ==
  ASSUME NEW count \in [1 .. MAXLBITS -> Nat]
  PROVE  /\ Index(count) \in [0 .. MAXLBITS -> Nat] /\ Index(count)[0] = 0
         /\ \A k \in 1 .. MAXLBITS : k - 1 \in 0 .. MAXLBITS /\ Index(count)[k - 1] \in Nat /\ Index(count)[k] = Index(count)[k - 1] + count[k]
<1> DEFINE e == CHOOSE e : e = [k \in 0 .. MAXLBITS |-> IF k = 0 THEN 0 ELSE e[k - 1] + count[k]]
           g == [k \in 1 .. MAXLBITS |-> [v \in Nat |-> v + count[k]]]
<1>1. MAXLBITS \in Nat /\ 0 \in Nat /\ \A k \in 1 .. MAXLBITS : \A v \in Nat : v + count[k] \in Nat
  <2>1. \A k \in 1 .. MAXLBITS : count[k] \in Nat OBVIOUS
  <2> QED BY <2>1, Sizes
<1>2. g \in [1 .. MAXLBITS -> [Nat -> Nat]] BY <1>1
<1>3. PICK f \in [0 .. MAXLBITS -> Nat] : f[0] = 0 /\ \A k \in 1 .. MAXLBITS : f[k] = g[k][f[k - 1]]
  <2>1. Recursions(MAXLBITS, Nat, 0, g) # {}
    <3> HIDE DEF g
    <3> QED BY <1>1, <1>2, Recursive
  <2> QED BY <2>1 DEF Recursions
<1>4. \A k \in 1 .. MAXLBITS : k \in 0 .. MAXLBITS /\ k # 0 /\ k - 1 \in 0 .. MAXLBITS BY <1>1
<1>5. \A k \in 1 .. MAXLBITS : f[k - 1] \in Nat /\ f[k] = f[k - 1] + count[k]
  <2>1. \A k \in 1 .. MAXLBITS : f[k - 1] \in Nat BY <1>3, <1>4
  <2> QED BY <1>3, <2>1
<1> HIDE DEF g
<1>6. f = [k \in 0 .. MAXLBITS |-> IF k = 0 THEN 0 ELSE f[k - 1] + count[k]]
  <2>1. \A k \in 0 .. MAXLBITS : k # 0 => k \in 1 .. MAXLBITS BY <1>1
  <2>2. \A k \in 0 .. MAXLBITS : f[k] = IF k = 0 THEN 0 ELSE f[k - 1] + count[k] BY <1>3, <1>5, <2>1, Zenon
  <2> QED BY <1>3, <2>2
<1>7. e = [k \in 0 .. MAXLBITS |-> IF k = 0 THEN 0 ELSE e[k - 1] + count[k]]
  <2>1. \E x : x = [k \in 0 .. MAXLBITS |-> IF k = 0 THEN 0 ELSE x[k - 1] + count[k]] BY <1>6, Zenon
  <2> QED BY <2>1, Zenon
<1>8. Index(count) = e BY Zenon DEF Index
<1> HIDE DEF e
<1>9. 0 \in 0 .. MAXLBITS BY <1>1
<1>10. e[0] = 0 /\ \A k \in 1 .. MAXLBITS : e[k] = e[k - 1] + count[k] BY <1>4, <1>7, <1>9, Zenon
<1>11. \A k \in 1 .. MAXLBITS : f[k - 1] = e[k - 1] => f[k] = e[k] BY <1>5, <1>10, Zenon
<1>12. \A k \in 0 .. MAXLBITS : f[k] = e[k]
  <2> DEFINE S == {k \in 0 .. MAXLBITS : f[k] = e[k]}
  <2>1. 0 \in S BY <1>3, <1>9, <1>10
  <2>2. \A k \in 1 .. MAXLBITS : k - 1 \in S => k \in S BY <1>4, <1>11
  <2>3. MAXLBITS \in Nat BY <1>1
  <2>4. 0 .. MAXLBITS \subseteq S
    <3> HIDE DEF S
    <3> QED BY <2>1, <2>2, <2>3, InductTo
  <2> QED BY <2>4
<1>13. e \in [0 .. MAXLBITS -> Nat]
  <2>1. e = [k \in 0 .. MAXLBITS |-> e[k]] BY <1>7
  <2>2. \A k \in 0 .. MAXLBITS : e[k] \in Nat BY <1>3, <1>12
  <2> QED BY <2>1, <2>2
<1> QED BY <1>4, <1>8, <1>10, <1>13


\* The words not claimed are the codes left over, and a code begins behind the claims of the shorter ones.
LEMMA CountedUp ==
  ASSUME NEW lens, IsLens(lens), NEW l \in 0 .. MAXLBITS
  PROVE  /\ First(Counts(lens))[l] = 2 * Claimed(lens, l)
         /\ Left(Counts(lens))[l] = Pow(l) - Claimed(lens, l)
<1> DEFINE count == Counts(lens)
           claimed(k) == Claimed(lens, k)
           S == {k \in 0 .. MAXLBITS : First(count)[k] = 2 * claimed(k) /\ Left(count)[k] = Pow(k) - claimed(k)}
<1>0. MAXLBITS \in Nat BY Sizes
<1>1. count \in [1 .. MAXLBITS -> Nat] BY CountsAre
<1>2. \A k \in 0 .. MAXLBITS : claimed(k) \in Nat BY ClaimsAre
<1>3. claimed(0) = 0 /\ \A k \in 1 .. MAXLBITS : claimed(k) = 2 * claimed(k - 1) + count[k] BY ClaimedStep
<1> HIDE DEF count, claimed
<1>4. First(count)[0] = 0 /\ \A k \in 1 .. MAXLBITS : First(count)[k] = 2 * (First(count)[k - 1] + count[k]) BY <1>1, FirstStep
<1>5. Left(count)[0] = 1 /\ \A k \in 1 .. MAXLBITS : Left(count)[k] = 2 * Left(count)[k - 1] - count[k] BY <1>1, LeftStep
<1>6. 0 \in S
  <2>1. First(count)[0] = 2 * claimed(0) /\ Left(count)[0] = Pow(0) - claimed(0) /\ 0 \in 0 .. MAXLBITS
    BY <1>0, <1>3, <1>4, <1>5, PowIs
  <2> QED BY <2>1
<1>7. ASSUME NEW k \in 1 .. MAXLBITS, k - 1 \in S PROVE k \in S
  <2>1. k - 1 \in Nat /\ (k - 1) + 1 = k /\ k \in 0 .. MAXLBITS /\ k - 1 \in 0 .. MAXLBITS BY <1>0
  <2>2. Pow(k) = 2 * Pow(k - 1) /\ Pow(k - 1) \in Nat BY <2>1, PowIs
  <2>3. claimed(k - 1) \in Nat /\ count[k] \in Nat BY <1>1, <1>2, <2>1
  <2>4. First(count)[k - 1] = 2 * claimed(k - 1) /\ Left(count)[k - 1] = Pow(k - 1) - claimed(k - 1) BY <1>7
  <2>5. First(count)[k] = 2 * (2 * claimed(k - 1) + count[k]) BY <1>4, <2>4
  <2>6. Left(count)[k] = 2 * (Pow(k - 1) - claimed(k - 1)) - count[k] BY <1>5, <2>4
  <2>7. claimed(k) = 2 * claimed(k - 1) + count[k] BY <1>3
  <2>8. Left(count)[k] = Pow(k) - claimed(k) BY <2>2, <2>3, <2>6, <2>7
  <2> QED BY <2>1, <2>5, <2>7, <2>8
<1>8. 0 .. MAXLBITS \subseteq S
  <2> HIDE DEF S
  <2> QED BY <1>0, <1>6, <1>7, InductTo
<1> QED BY <1>8 DEF count, claimed

\* What the codes up to a length claim too much, the longer ones cannot give back.
LEMMA ClaimsGrow ==
  ASSUME NEW lens, IsLens(lens), NEW l \in 0 .. MAXLBITS
  PROVE  /\ Weight(lens) <= Pow(MAXLBITS) => Claimed(lens, l) <= Pow(l)
         /\ Weight(lens) < Pow(MAXLBITS) => Claimed(lens, l) < Pow(l)
<1> DEFINE claimed(k) == Claimed(lens, k)
           S == {k \in 0 .. MAXLBITS - l : /\ claimed(l) > Pow(l) => claimed(l + k) > Pow(l + k)
                                           /\ claimed(l) >= Pow(l) => claimed(l + k) >= Pow(l + k)}
<1>0. MAXLBITS \in Nat /\ l \in Nat /\ MAXLBITS - l \in Nat /\ l + (MAXLBITS - l) = MAXLBITS BY Sizes
<1>1. \A k \in 0 .. MAXLBITS : claimed(k) \in Nat BY ClaimsAre
<1>2. \A k \in 1 .. MAXLBITS : claimed(k) >= 2 * claimed(k - 1)
  <2> TAKE k \in 1 .. MAXLBITS
  <2>1. k - 1 \in 0 .. MAXLBITS BY <1>0
  <2>2. claimed(k) = 2 * claimed(k - 1) + Counts(lens)[k] /\ Counts(lens)[k] \in Nat BY ClaimedStep, CountsAre
  <2> QED BY <1>1, <2>1, <2>2
<1>3. Weight(lens) = claimed(MAXLBITS) BY ClaimedAll
<1> HIDE DEF claimed
<1>4. 0 \in S
  <2>1. l + 0 = l /\ 0 \in 0 .. MAXLBITS - l BY <1>0
  <2> QED BY <2>1
<1>5. ASSUME NEW k \in 1 .. MAXLBITS - l, k - 1 \in S PROVE k \in S
  <2>1. k \in 0 .. MAXLBITS - l /\ l + k \in 1 .. MAXLBITS /\ (l + k) - 1 = l + (k - 1) /\ l + (k - 1) \in Nat /\ l + k = (l + (k - 1)) + 1 BY <1>0
  <2>2. claimed(l + k) >= 2 * claimed(l + (k - 1)) BY <1>2, <2>1
  <2>3. Pow(l + k) = 2 * Pow(l + (k - 1)) /\ Pow(l + (k - 1)) \in Nat BY <2>1, PowIs
  <2>4. claimed(l + k) \in Nat /\ claimed(l + (k - 1)) \in Nat
    <3>1. l + (k - 1) \in 0 .. MAXLBITS /\ l + k \in 0 .. MAXLBITS BY <1>0
    <3> QED BY <1>1, <3>1
  <2>5. /\ claimed(l) > Pow(l) => claimed(l + (k - 1)) > Pow(l + (k - 1))
        /\ claimed(l) >= Pow(l) => claimed(l + (k - 1)) >= Pow(l + (k - 1))
    BY <1>5
  <2> QED BY <2>1, <2>2, <2>3, <2>4, <2>5
<1>6. MAXLBITS - l \in S
  <2> HIDE DEF S
  <2>1. 0 .. MAXLBITS - l \subseteq S BY <1>0, <1>4, <1>5, InductTo
  <2> QED BY <1>0, <2>1
<1>7. Pow(l) \in Nat /\ Pow(MAXLBITS) \in Nat BY <1>0, PowIs
<1>8. claimed(l) \in Nat /\ claimed(MAXLBITS) \in Nat BY <1>0, <1>1
<1>9. /\ claimed(l) > Pow(l) => claimed(MAXLBITS) > Pow(MAXLBITS)
      /\ claimed(l) >= Pow(l) => claimed(MAXLBITS) >= Pow(MAXLBITS)
  BY <1>0, <1>6
<1>10. /\ claimed(MAXLBITS) <= Pow(MAXLBITS) => claimed(l) <= Pow(l)
       /\ claimed(MAXLBITS) < Pow(MAXLBITS) => claimed(l) < Pow(l)
  BY <1>7, <1>8, <1>9
<1> QED BY <1>3, <1>10 DEF claimed

\* huff_build fails on the lengths that make no code.
LEMMA FailsUnlessCode ==
  ASSUME NEW lens, IsLens(lens)
  PROVE  /\ Fails(lens) <=> ~IsCode(lens)
         /\ Used(lens) = {} => Weight(lens) < Pow(MAXLBITS)
         /\ Weight(lens) \in Nat
<1>0. MAXLBITS \in Nat /\ MAXLBITS \in 0 .. MAXLBITS /\ MAXLBITS \in 1 .. MAXLBITS BY Sizes
<1>1. Weight(lens) = Claimed(lens, MAXLBITS) /\ Claimed(lens, MAXLBITS) \in Nat BY <1>0, ClaimedAll, ClaimsAre
<1>2. \A l \in 0 .. MAXLBITS : Claimed(lens, l) \in Nat /\ Pow(l) \in Nat \ {0}
  <2>1. \A l \in 0 .. MAXLBITS : l \in Nat BY <1>0
  <2> QED BY <2>1, ClaimsAre, PowIs
<1>3. Oversubscribed(Counts(lens)) <=> ~(Weight(lens) <= Pow(MAXLBITS))
  <2>1. \A l \in 1 .. MAXLBITS : l \in 0 .. MAXLBITS BY <1>0
  <2>2. \A l \in 1 .. MAXLBITS : Left(Counts(lens))[l] = Pow(l) - Claimed(lens, l) BY <2>1, CountedUp
  <2>3. \A l \in 1 .. MAXLBITS : Left(Counts(lens))[l] < 0 <=> ~(Claimed(lens, l) <= Pow(l)) BY <1>2, <2>1, <2>2
  <2>4. \A l \in 1 .. MAXLBITS : ~(Claimed(lens, l) <= Pow(l)) => ~(Weight(lens) <= Pow(MAXLBITS)) BY <2>1, ClaimsGrow
  <2> QED BY <1>0, <1>1, <2>3, <2>4 DEF Oversubscribed
<1>4. Counts(lens) = NoCodes <=> Used(lens) = {}
  <2>1. ASSUME Used(lens) = {} PROVE Counts(lens) = NoCodes
    <3>1. \A l \in 1 .. MAXLBITS : {s \in Used(lens) : lens[s + 1] = l} = {} BY <2>1
    <3> QED BY <3>1, FS_EmptySet DEF Counts, NoCodes
  <2>2. ASSUME NEW s \in Used(lens), Counts(lens) = NoCodes PROVE FALSE
    <3> DEFINE l == lens[s + 1]
               A == {t \in Used(lens) : lens[t + 1] = l}
    <3>1. l \in 1 .. MAXLBITS BY LensAre
    <3>2. Counts(lens)[l] = Cardinality(A) /\ IsFiniteSet(A) BY <3>1, CountsAre
    <3>3. s \in A OBVIOUS
    <3> HIDE DEF A, l
    <3>4. Cardinality(A) # 0 BY <3>2, <3>3, FS_EmptySet
    <3>5. NoCodes[l] = 0 BY <3>1 DEF NoCodes
    <3> QED BY <2>2, <3>2, <3>4, <3>5
  <2> QED BY <2>1, <2>2
<1>5. Fails(lens) <=> ~IsCode(lens) BY <1>3, <1>4 DEF Fails, IsCode
<1>6. ASSUME Used(lens) = {} PROVE Weight(lens) < Pow(MAXLBITS)
  <2>1. \A k \in 1 .. MAXLBITS : Counts(lens)[k] = 0 BY <1>4, <1>6 DEF NoCodes
  <2> DEFINE S == {k \in 0 .. MAXLBITS : Claimed(lens, k) = 0}
  <2>2. 0 \in S BY <1>0, ClaimedStep
  <2>3. ASSUME NEW k \in 1 .. MAXLBITS, k - 1 \in S PROVE k \in S
    <3>1. Claimed(lens, k - 1) = 0 /\ k \in 0 .. MAXLBITS BY <1>0, <2>3
    <3> QED BY <2>1, <3>1, ClaimedStep
  <2>4. MAXLBITS \in S
    <3> HIDE DEF S
    <3>1. 0 .. MAXLBITS \subseteq S BY <1>0, <2>2, <2>3, InductTo
    <3> QED BY <1>0, <3>1
  <2> QED BY <1>0, <1>1, <1>2, <2>4
<1> QED BY <1>1, <1>5, <1>6

\* Two sets with no common member are counted together.
LEMMA Disjointly ==
  ASSUME NEW S, NEW T, IsFiniteSet(S), IsFiniteSet(T), S \cap T = {}
  PROVE  IsFiniteSet(S \cup T) /\ Cardinality(S \cup T) = Cardinality(S) + Cardinality(T)
<1>1. Cardinality(S \cup T) = Cardinality(S) + Cardinality(T) - Cardinality(S \cap T) /\ IsFiniteSet(S \cup T) BY FS_Union
<1>2. Cardinality(S \cap T) = 0 /\ Cardinality(S) \in Nat /\ Cardinality(T) \in Nat BY FS_EmptySet, FS_CardinalityType
<1> QED BY <1>1, <1>2

\* The index counts the symbols up to a length.
LEMMA IndexCounts ==
  ASSUME NEW lens, IsLens(lens), NEW l \in 0 .. MAXLBITS
  PROVE  LET A == {s \in Used(lens) : lens[s + 1] <= l}
         IN  IsFiniteSet(A) /\ Index(Counts(lens))[l] = Cardinality(A)
<1> DEFINE count == Counts(lens)
           A(k) == {s \in Used(lens) : lens[s + 1] <= k}
           S == {k \in 0 .. MAXLBITS : Index(count)[k] = Cardinality(A(k))}
<1>0. MAXLBITS \in Nat BY Sizes
<1>1. count \in [1 .. MAXLBITS -> Nat] BY CountsAre
<1>2. \A k \in 0 .. MAXLBITS : IsFiniteSet(A(k)) BY LensAre, FS_Subset
<1>3. Index(count)[0] = 0 /\ \A k \in 1 .. MAXLBITS : Index(count)[k] = Index(count)[k - 1] + count[k]
  <2> HIDE DEF count
  <2> QED BY <1>1, IndexStep
<1>4. 0 \in S
  <2>1. A(0) = {} BY LensAre
  <2> QED BY <1>0, <1>3, <2>1, FS_EmptySet
<1>5. ASSUME NEW k \in 1 .. MAXLBITS, k - 1 \in S PROVE k \in S
  <2> DEFINE B == {s \in Used(lens) : lens[s + 1] = k}
  <2>1. k - 1 \in 0 .. MAXLBITS /\ k \in 0 .. MAXLBITS BY <1>0
  <2>2. A(k) = A(k - 1) \cup B /\ A(k - 1) \cap B = {} BY <1>0, LensAre
  <2>3. count[k] = Cardinality(B) /\ IsFiniteSet(B) BY CountsAre
  <2>4. IsFiniteSet(A(k - 1)) /\ Index(count)[k - 1] = Cardinality(A(k - 1)) BY <1>2, <1>5, <2>1
  <2>5. Index(count)[k] = Index(count)[k - 1] + count[k] BY <1>3
  <2> HIDE DEF A, B, count
  <2>6. Cardinality(A(k)) = Cardinality(A(k - 1)) + Cardinality(B) BY <2>2, <2>3, <2>4, Disjointly
  <2> QED BY <2>1, <2>3, <2>4, <2>5, <2>6
<1>6. 0 .. MAXLBITS \subseteq S
  <2> HIDE DEF S
  <2> QED BY <1>0, <1>4, <1>5, InductTo
<1> QED BY <1>2, <1>6

\* A symbol goes behind those that come before it.
LEMMA PlaceCounts ==
  ASSUME NEW lens, IsLens(lens), NEW s \in Used(lens)
  PROVE  /\ IsFiniteSet(Before(lens, s)) /\ Place(lens, s) = Cardinality(Before(lens, s))
         /\ Rank(lens, s) \in Nat /\ Rank(lens, s) < Counts(lens)[lens[s + 1]]
<1> DEFINE l == lens[s + 1]
           A == {t \in Used(lens) : lens[t + 1] <= l - 1}
           B == {t \in Used(lens) : lens[t + 1] = l /\ t < s}
           C == {t \in Used(lens) : lens[t + 1] = l}
<1>1. l \in 1 .. MAXLBITS /\ l - 1 \in 0 .. MAXLBITS /\ \A t \in Used(lens) : lens[t + 1] \in Nat /\ t \in Nat
  <2>1. \A t \in Used(lens) : lens[t + 1] \in 1 .. MAXLBITS /\ t \in Nat BY LensAre
  <2> QED BY <2>1, Sizes
<1>2. Before(lens, s) = A \cup B /\ A \cap B = {} BY <1>1 DEF Before
<1>3. IsFiniteSet(A) /\ Index(Counts(lens))[l - 1] = Cardinality(A)
  <2> HIDE DEF l
  <2> QED BY <1>1, IndexCounts
<1>4. IsFiniteSet(B) /\ IsFiniteSet(C) /\ Counts(lens)[l] = Cardinality(C)
  <2>1. IsFiniteSet(Used(lens)) BY LensAre
  <2>2. B \in SUBSET Used(lens) /\ C \in SUBSET Used(lens) OBVIOUS
  <2>3. Counts(lens)[l] = Cardinality(C)
    <3> HIDE DEF l
    <3> QED BY <1>1, CountsAre
  <2> HIDE DEF B, C
  <2> QED BY <2>1, <2>2, <2>3, FS_Subset
<1>5. s \in C /\ s \notin B /\ B \subseteq C BY <1>1
<1>6. Rank(lens, s) = Cardinality(B) BY DEF Rank
<1>7. Place(lens, s) = Index(Counts(lens))[l - 1] + Rank(lens, s) BY DEF Place
<1> HIDE DEF A, B, C, l
<1>8. Cardinality(B) \in Nat /\ Cardinality(C) \in Nat /\ Cardinality(B) < Cardinality(C)
  <2>1. Cardinality(B) <= Cardinality(C) /\ (Cardinality(C) = Cardinality(B) => C = B) BY <1>4, <1>5, FS_Subset
  <2>2. Cardinality(B) \in Nat /\ Cardinality(C) \in Nat BY <1>4, FS_CardinalityType
  <2> QED BY <1>5, <2>1, <2>2
<1>9. IsFiniteSet(A \cup B) /\ Cardinality(A \cup B) = Cardinality(A) + Cardinality(B) BY <1>2, <1>3, <1>4, Disjointly
<1> QED BY <1>2, <1>3, <1>4, <1>6, <1>7, <1>8, <1>9 DEF l

\* At a symbol's place in the sorted list stands the symbol.
LEMMA SymbolPlaced ==
  ASSUME NEW lens, IsLens(lens), NEW s \in Used(lens)
  PROVE  Symbols(lens)[Place(lens, s) + 1] = s
<1> DEFINE B(t) == Before(lens, t)
<1>1. \A t \in Used(lens) : t \in Nat /\ lens[t + 1] \in Nat
  <2>1. \A t \in Used(lens) : t \in Nat /\ lens[t + 1] \in 1 .. MAXLBITS BY LensAre
  <2> QED BY <2>1, Sizes
<1>2. \A t \in Used(lens) : B(t) \subseteq Used(lens) /\ t \notin B(t) BY <1>1 DEF Before
<1>3. \A t, u \in Used(lens) : t = u \/ (t \in B(u) /\ B(t) \subseteq B(u)) \/ (u \in B(t) /\ B(u) \subseteq B(t))
  <2> TAKE t, u \in Used(lens)
  <2>1. t \in Nat /\ u \in Nat /\ lens[t + 1] \in Nat /\ lens[u + 1] \in Nat BY <1>1
  <2>2. t = u \/ t \in B(u) \/ u \in B(t) BY <2>1 DEF Before
  <2>3. ASSUME NEW x \in Used(lens), NEW y \in Used(lens), x \in B(y) PROVE B(x) \subseteq B(y)
    <3> SUFFICES ASSUME NEW v \in B(x) PROVE v \in B(y) OBVIOUS
    <3>1. v \in Used(lens) /\ (lens[v + 1] < lens[x + 1] \/ (lens[v + 1] = lens[x + 1] /\ v < x)) BY DEF Before
    <3>2. lens[x + 1] < lens[y + 1] \/ (lens[x + 1] = lens[y + 1] /\ x < y) BY <2>3 DEF Before
    <3>3. v \in Nat /\ x \in Nat /\ y \in Nat /\ lens[v + 1] \in Nat /\ lens[x + 1] \in Nat /\ lens[y + 1] \in Nat BY <1>1, <3>1
    <3>4. lens[v + 1] < lens[y + 1] \/ (lens[v + 1] = lens[y + 1] /\ v < y) BY <3>1, <3>2, <3>3
    <3> QED BY <3>1, <3>4 DEF Before
  <2> HIDE DEF B
  <2> QED BY <2>2, <2>3
<1>4. \A t \in Used(lens) : IsFiniteSet(B(t)) /\ Place(lens, t) = Cardinality(B(t)) BY PlaceCounts
<1>5. IsFiniteSet(Used(lens)) BY LensAre
<1> HIDE DEF B
<1>6. \A t, u \in Used(lens) : t \in B(u) /\ B(t) \subseteq B(u) => Place(lens, t) # Place(lens, u)
  <2> TAKE t, u \in Used(lens)
  <2> HAVE t \in B(u) /\ B(t) \subseteq B(u)
  <2>1. B(t) # B(u) BY <1>2
  <2>2. Cardinality(B(u)) = Cardinality(B(t)) => B(u) = B(t) BY <1>4, FS_Subset
  <2> QED BY <1>4, <2>1, <2>2
<1>7. \A t, u \in Used(lens) : Place(lens, t) = Place(lens, u) => t = u BY <1>3, <1>6
<1>8. Place(lens, s) \in 0 .. Cardinality(Used(lens)) - 1
  <2>1. Cardinality(B(s)) <= Cardinality(Used(lens)) /\ (Cardinality(Used(lens)) = Cardinality(B(s)) => Used(lens) = B(s)) BY <1>2, <1>5, FS_Subset
  <2>2. Cardinality(B(s)) # Cardinality(Used(lens)) BY <1>2, <2>1
  <2>3. Cardinality(B(s)) \in Nat /\ Cardinality(Used(lens)) \in Nat BY <1>4, <1>5, FS_CardinalityType
  <2> QED BY <1>4, <2>1, <2>2, <2>3
<1>9. Cardinality(Used(lens)) \in Nat BY <1>5, FS_CardinalityType
<1> DEFINE i == Place(lens, s) + 1
<1>10. i \in 1 .. Cardinality(Used(lens)) /\ i - 1 = Place(lens, s) BY <1>8, <1>9
<1>11. Symbols(lens)[i] = CHOOSE t \in Used(lens) : Place(lens, t) = i - 1
  <2> HIDE DEF i
  <2> QED BY <1>10 DEF Symbols
<1> HIDE DEF i
<1>12. (CHOOSE t \in Used(lens) : Place(lens, t) = i - 1) = s BY <1>7, <1>10, Zenon
<1> QED BY <1>11, <1>12 DEF i


\* The number of a code: the words the shorter codes begin, and its rank among those of its length.
LEMMA NumberIs ==
  ASSUME NEW lens, IsLens(lens), NEW s \in Used(lens)
  PROVE  LET l == lens[s + 1]
         IN  /\ Number(lens, s) = 2 * Claimed(lens, l - 1) + Rank(lens, s)
             /\ Number(lens, s) \in Nat /\ Number(lens, s) < Claimed(lens, l)
<1> DEFINE l == lens[s + 1]
           n == Len(lens)
           f == [i \in 1 .. n |-> IF i - 1 \in Before(lens, s) THEN Pow(l - lens[i]) ELSE 0]
           g == Claims(lens, l - 1)
           h == [i \in 1 .. n |-> IF i - 1 \in Used(lens) /\ lens[i] = l /\ i - 1 < s THEN 1 ELSE 0]
<1>1. n \in Nat /\ \A i \in 1 .. n : lens[i] \in Nat BY LensAre, Sizes
<1>2. l \in Nat \ {0} /\ l \in 1 .. MAXLBITS /\ s \in Nat BY LensAre, Sizes
<1>3. \A i \in 1 .. n : i - 1 \in Used(lens) <=> lens[i] # 0
  <2> TAKE i \in 1 .. n
  <2>1. i - 1 \in 0 .. n - 1 /\ (i - 1) + 1 = i BY <1>1
  <2> QED BY <2>1 DEF Used
<1>4. \A i \in 1 .. n : i - 1 \in Before(lens, s) <=> lens[i] # 0 /\ (lens[i] < l \/ (lens[i] = l /\ i - 1 < s))
  <2> TAKE i \in 1 .. n
  <2>1. (i - 1) + 1 = i BY <1>1
  <2> QED BY <1>3, <2>1 DEF Before
<1>5. f \in Seq(Nat) /\ Len(f) = n
  <2>1. \A i \in 1 .. n : i - 1 \in Before(lens, s) => l - lens[i] \in Nat BY <1>1, <1>2, <1>4
  <2>2. \A i \in 1 .. n : i - 1 \in Before(lens, s) => Pow(l - lens[i]) \in Nat BY <2>1, PowIs
  <2>3. f \in [1 .. n -> Nat] BY <2>2
  <2> HIDE DEF f
  <2> QED BY <1>1, <2>3, IsASeq, LenProperties
<1>6. g \in Seq(Nat) /\ Len(g) = n /\ SumOf(g) = Claimed(lens, l - 1) /\ SumOf(g) \in Nat
  <2>1. l - 1 \in Nat BY <1>2
  <2> HIDE DEF l
  <2> QED BY <2>1, ClaimsAre DEF Claimed
<1>7. h \in Seq({0, 1}) /\ Len(h) = n /\ h \in Seq(Nat)
  <2>1. h \in [1 .. n -> {0, 1}] /\ h \in [1 .. n -> Nat] OBVIOUS
  <2> HIDE DEF h
  <2> QED BY <1>1, <2>1, IsASeq, LenProperties
<1>8. SumOf(h) = Rank(lens, s)
  <2>1. {i \in 0 .. n - 1 : h[i + 1] = 1} = {t \in Used(lens) : lens[t + 1] = l /\ t < s}
    <3>1. \A i \in 0 .. n - 1 : i + 1 \in 1 .. n /\ (i + 1) - 1 = i BY <1>1
    <3>2. \A i \in 0 .. n - 1 : h[i + 1] = 1 <=> i \in Used(lens) /\ lens[i + 1] = l /\ i < s BY <3>1
    <3>3. \A t \in Used(lens) : t \in 0 .. n - 1 BY DEF Used
    <3> HIDE DEF h, n
    <3> QED BY <3>2, <3>3
  <2>2. SumOf(h) = Cardinality({i \in 0 .. n - 1 : h[i + 1] = 1})
    <3> HIDE DEF h
    <3> QED BY <1>7, SumCounts
  <2> QED BY <2>1, <2>2 DEF Rank
<1>9. \A i \in 1 .. n : f[i] = 2 * g[i] + h[i]
  <2> TAKE i \in 1 .. n
  <2>1. f[i] = IF lens[i] # 0 /\ (lens[i] < l \/ (lens[i] = l /\ i - 1 < s)) THEN Pow(l - lens[i]) ELSE 0 BY <1>4
  <2>2. g[i] = IF lens[i] \in 1 .. l - 1 THEN Pow((l - 1) - lens[i]) ELSE 0 BY DEF Claims
  <2>3. h[i] = IF lens[i] # 0 /\ lens[i] = l /\ i - 1 < s THEN 1 ELSE 0 BY <1>3
  <2>4. lens[i] \in Nat BY <1>1
  <2> HIDE DEF f, g, h, l
  <2>5. CASE lens[i] \in 1 .. l - 1
    <3>1. lens[i] < l /\ lens[i] # 0 /\ lens[i] # l /\ l - lens[i] = ((l - 1) - lens[i]) + 1 /\ (l - 1) - lens[i] \in Nat BY <1>2, <2>5
    <3>2. Pow(l - lens[i]) = 2 * Pow((l - 1) - lens[i]) /\ Pow((l - 1) - lens[i]) \in Nat BY <3>1, PowIs
    <3> QED BY <2>1, <2>2, <2>3, <2>5, <3>1, <3>2
  <2>6. CASE lens[i] = l
    <3>1. lens[i] # 0 /\ ~(lens[i] < l) /\ lens[i] \notin 1 .. l - 1 /\ l - lens[i] = 0 BY <1>2, <2>6
    <3>2. Pow(l - lens[i]) = 1 /\ g[i] = 0 BY <2>2, <3>1, PowIs
    <3>3. f[i] = h[i] /\ h[i] \in {0, 1} BY <2>1, <2>3, <2>6, <3>1, <3>2
    <3> QED BY <3>2, <3>3
  <2>7. CASE lens[i] # l /\ lens[i] \notin 1 .. l - 1
    <3>1. lens[i] = 0 \/ ~(lens[i] < l) BY <1>2, <2>4, <2>7
    <3> QED BY <2>1, <2>2, <2>3, <2>7, <3>1
  <2> QED BY <2>5, <2>6, <2>7
<1>10. SumOf(f) = 2 * SumOf(g) + SumOf(h)
  <2> HIDE DEF f, g, h
  <2>1. \A i \in 1 .. Len(f) : f[i] = 2 * g[i] + h[i] BY <1>5, <1>9
  <2>2. f \in Seq(Nat) /\ g \in Seq(Nat) /\ h \in Seq(Nat) /\ Len(g) = Len(f) /\ Len(h) = Len(f) BY <1>5, <1>6, <1>7
  <2> QED BY <2>1, <2>2, SumLinear, Zenon
<1>11. Number(lens, s) = SumOf(f) BY DEF Number
<1>12. Rank(lens, s) \in Nat /\ Rank(lens, s) < Counts(lens)[l] BY PlaceCounts
<1>13. Claimed(lens, l) = 2 * Claimed(lens, l - 1) + Counts(lens)[l] /\ Counts(lens)[l] \in Nat
  <2> HIDE DEF l
  <2> QED BY <1>2, ClaimedStep, CountsAre
<1> HIDE DEF f, g, h, l
<1>14. Number(lens, s) = 2 * Claimed(lens, l - 1) + Rank(lens, s) BY <1>6, <1>8, <1>10, <1>11
<1> QED BY <1>6, <1>12, <1>13, <1>14 DEF l

\* The first bits of a code are no shorter one, for their number is behind those that the shorter ones begin.
Prefix(c, k) == [i \in 1 .. k |-> c[i]]

\* A code is the number of its symbol; no shorter start of it is below the codes taken so far.
LEMMA CodeWords ==
  ASSUME NEW lens, IsLens(lens), NEW s \in Used(lens), Weight(lens) <= Pow(MAXLBITS)
  PROVE  LET l == lens[s + 1]
         IN  /\ Code(lens, s) \in Seq(Bit) /\ Len(Code(lens, s)) = l
             /\ HighFirst(Prefix(Code(lens, s), l)) = Number(lens, s)
             /\ \A k \in 1 .. l - 1 : HighFirst(Prefix(Code(lens, s), k)) \in Nat /\ HighFirst(Prefix(Code(lens, s), k)) >= Claimed(lens, k)
<1> DEFINE l == lens[s + 1]
           v == Number(lens, s)
           c == Code(lens, s)
           w(k) == v \div Pow(l - k)
           claimed(k) == Claimed(lens, k)
<1>1. l \in Nat \ {0} /\ l \in 1 .. MAXLBITS /\ l \in 0 .. MAXLBITS
  <2>1. l \in 1 .. MAXLBITS BY LensAre
  <2> QED BY <2>1, Sizes
<1>2. v = 2 * claimed(l - 1) + Rank(lens, s) /\ v \in Nat /\ v < claimed(l) /\ Rank(lens, s) \in Nat BY NumberIs, PlaceCounts
<1>3. claimed(l) <= Pow(l) BY <1>1, ClaimsGrow
<1>4. \A k \in 0 .. l : claimed(k) \in Nat
  <2>1. \A k \in 0 .. l : k \in Nat BY <1>1
  <2> QED BY <2>1, ClaimsAre
<1>5. Pow(l) \in Nat BY <1>1, PowIs
<1>6. v < Pow(l)
  <2>1. claimed(l) \in Nat BY <1>1, <1>4
  <2> HIDE DEF v, claimed, l
  <2> QED BY <1>2, <1>3, <1>5, <2>1
<1>7. c = Reverse(Low(v, l)) BY DEF Code, Coded
<1> HIDE DEF v, c, l
<1>8. Low(v, l) \in Seq(Bit) /\ Len(Low(v, l)) = l BY <1>1, <1>2, LowIs
<1>9. c \in Seq(Bit) /\ Len(c) = l
  <2>1. \A i \in 1 .. l : (l - i) + 1 \in 1 .. l BY <1>1
  <2>2. \A i \in 1 .. l : Low(v, l)[(l - i) + 1] \in Bit BY <1>8, <2>1, ElementOfSeq
  <2>3. c = [i \in 1 .. l |-> Low(v, l)[(l - i) + 1]] BY <1>7, <1>8 DEF Reverse
  <2>4. c \in [1 .. l -> Bit] BY <2>2, <2>3
  <2> QED BY <1>1, <2>4, IsASeq, LenProperties
<1>10. \A k \in 0 .. l : HighFirst(Prefix(c, k)) = w(k)
  <2> TAKE k \in 0 .. l
  <2>1. HighFirst([i \in 1 .. k |-> Reverse(Low(v, l))[i]]) = v \div Pow(l - k) BY <1>1, <1>2, <1>6, HighFirstOf
  <2> QED BY <1>7, <2>1 DEF Prefix
<1>11. w(l) = v
  <2>1. Pow(l - l) = 1
    <3>1. l - l = 0 BY <1>1
    <3> QED BY <3>1, PowIs
  <2>2. v \div 1 = v BY <1>2
  <2> QED BY <2>1, <2>2
<1>12. \A k \in 1 .. l : w(k - 1) = w(k) \div 2 /\ w(k) \in Nat
  <2> TAKE k \in 1 .. l
  <2>1. l - k \in Nat /\ l - (k - 1) = (l - k) + 1 BY <1>1
  <2>2. Pow(l - (k - 1)) = 2 * Pow(l - k) /\ Pow(l - k) \in Nat \ {0} BY <2>1, PowIs
  <2>3. v \div (2 * Pow(l - k)) = (v \div Pow(l - k)) \div 2 /\ v \div Pow(l - k) \in Nat BY <1>2, <2>2, DivTwice, Division
  <2> QED BY <2>2, <2>3
<1>13. \A k \in 1 .. l : claimed(k) >= 2 * claimed(k - 1)
  <2> TAKE k \in 1 .. l
  <2>1. k \in 1 .. MAXLBITS /\ k - 1 \in 0 .. l /\ k \in 0 .. l BY <1>1, Sizes
  <2>2. claimed(k) = 2 * claimed(k - 1) + Counts(lens)[k] /\ Counts(lens)[k] \in Nat BY <2>1, ClaimedStep, CountsAre
  <2>3. claimed(k - 1) \in Nat BY <1>4, <2>1
  <2> HIDE DEF claimed
  <2> QED BY <2>2, <2>3
<1> HIDE DEF w, claimed
<1> DEFINE S == {j \in 0 .. l - 1 : w((l - 1) - j) >= claimed((l - 1) - j)}
<1>14. 0 \in S
  <2>1. l \in 1 .. l /\ l - 1 \in 0 .. l /\ (l - 1) - 0 = l - 1 BY <1>1
  <2>2. w(l - 1) = v \div 2 BY <1>11, <1>12, <2>1
  <2>3. claimed(l - 1) \in Nat BY <1>4, <2>1
  <2>4. v \div 2 >= claimed(l - 1) BY <1>2, <2>3
  <2>5. 0 \in 0 .. l - 1 /\ w((l - 1) - 0) >= claimed((l - 1) - 0) BY <1>1, <2>1, <2>2, <2>4
  <2> QED BY <2>5
<1>15. ASSUME NEW j \in 1 .. l - 1, j - 1 \in S PROVE j \in S
  <2> DEFINE k == (l - 1) - (j - 1)
  <2>1. k \in 1 .. l /\ k - 1 = (l - 1) - j /\ j \in 0 .. l - 1 /\ k - 1 \in 0 .. l /\ k \in 0 .. l BY <1>1
  <2>2. w(k) >= claimed(k) BY <1>15
  <2> HIDE DEF k
  <2>3. w(k - 1) = w(k) \div 2 /\ w(k) \in Nat BY <1>12, <2>1
  <2>4. claimed(k) >= 2 * claimed(k - 1) /\ claimed(k) \in Nat /\ claimed(k - 1) \in Nat BY <1>4, <1>13, <2>1
  <2>5. w(k - 1) >= claimed(k - 1) BY <2>2, <2>3, <2>4
  <2> QED BY <2>1, <2>5
<1>16. 0 .. l - 1 \subseteq S
  <2> HIDE DEF S
  <2>1. l - 1 \in Nat BY <1>1
  <2> QED BY <1>14, <1>15, <2>1, InductTo
<1>17. \A k \in 1 .. l - 1 : w(k) >= claimed(k) /\ w(k) \in Nat
  <2> TAKE k \in 1 .. l - 1
  <2>1. (l - 1) - k \in 0 .. l - 1 /\ (l - 1) - ((l - 1) - k) = k /\ k \in 1 .. l BY <1>1
  <2>2. (l - 1) - k \in S BY <1>16, <2>1
  <2>3. w((l - 1) - ((l - 1) - k)) >= claimed((l - 1) - ((l - 1) - k)) BY <2>2
  <2>4. w(k) >= claimed(k) BY <2>1, <2>3
  <2> QED BY <1>12, <2>1, <2>4
<1>18. \A k \in 1 .. l - 1 : k \in 0 .. l BY <1>1
<1>19. l \in 0 .. l BY <1>1
<1>20. /\ c \in Seq(Bit) /\ Len(c) = l /\ HighFirst(Prefix(c, l)) = v
       /\ \A k \in 1 .. l - 1 : HighFirst(Prefix(c, k)) \in Nat /\ HighFirst(Prefix(c, k)) >= claimed(k)
  BY <1>9, <1>10, <1>11, <1>17, <1>18, <1>19
<1> QED BY <1>20 DEF c, l, v, claimed

\* Nor is any start of the word that a symbol without a code is written as.
LEMMA SpareWords ==
  ASSUME NEW lens, IsLens(lens), NEW s, s \notin Used(lens), Weight(lens) < Pow(MAXLBITS)
  PROVE  /\ Code(lens, s) \in Seq(Bit) /\ Len(Code(lens, s)) = MAXLBITS
         /\ \A k \in 1 .. MAXLBITS : HighFirst(Prefix(Code(lens, s), k)) \in Nat /\ HighFirst(Prefix(Code(lens, s), k)) >= Claimed(lens, k)
<1>1. Code(lens, s) = [i \in 1 .. MAXLBITS |-> 1] BY DEF Code, Coded
<1>2. Code(lens, s) \in Seq(Bit) /\ Len(Code(lens, s)) = MAXLBITS
  <2>1. Code(lens, s) \in [1 .. MAXLBITS -> Bit] BY <1>1 DEF Bit
  <2> QED BY <2>1, Sizes, IsASeq, LenProperties
<1>3. ASSUME NEW k \in 1 .. MAXLBITS
      PROVE  HighFirst(Prefix(Code(lens, s), k)) \in Nat /\ HighFirst(Prefix(Code(lens, s), k)) >= Claimed(lens, k)
  <2>1. k \in Nat /\ k \in 0 .. MAXLBITS /\ \A i \in 1 .. k : i \in 1 .. MAXLBITS BY Sizes
  <2>2. Prefix(Code(lens, s), k) = [i \in 1 .. k |-> 1] BY <1>1, <2>1 DEF Prefix
  <2>3. HighFirst(Prefix(Code(lens, s), k)) = Pow(k) - 1 BY <2>1, <2>2, HighFirstOnes
  <2>4. Claimed(lens, k) < Pow(k) /\ Claimed(lens, k) \in Nat /\ Pow(k) \in Nat \ {0} BY <2>1, ClaimsGrow, ClaimsAre, PowIs
  <2> QED BY <2>3, <2>4
<1> QED BY <1>2, <1>3

----------------------------------------------------------------------------
(* The reader stands at a place of the bits that the bytes carry. *)

Supply == Len(src) * OCTET

Carries(all) ==
  /\ all \in Seq(Bit) /\ src \in Seq(Seq(Bit)) /\ Supply <= Len(all)
  /\ \A k \in 1 .. Len(src) : Len(src[k]) = OCTET /\ \A i \in 1 .. OCTET : src[k][i] = all[(k - 1) * OCTET + i]

IsReader(r) == "ok" \in DOMAIN r /\ r = [x \in DOMAIN r |-> r[x]]
ReadsAt(all, r, p) ==
  /\ r.ok = TRUE /\ IsReader(r)
  /\ r.pos \in 0 .. Len(src) /\ r.buf \in Seq(Bit) /\ Len(r.buf) < OCTET
  /\ p \in Nat /\ p + Len(r.buf) = r.pos * OCTET /\ \A i \in 1 .. Len(r.buf) : r.buf[i] = all[p + i]

\* It is filled as far as is needed, and no further.
Fill(b, n) == IF n <= b THEN 0 ELSE (n - b + OCTET - 1) \div OCTET

\* As many bytes are fetched as are wanting, and no more.
LEMMA FilledIs ==
  ASSUME NEW b \in Nat, b < OCTET, NEW n \in Nat, NEW p \in Nat, NEW a \in Nat, p + b = a * OCTET
  PROVE  /\ Fill(b, n) \in Nat /\ (a + Fill(b, n)) * OCTET = a * OCTET + Fill(b, n) * OCTET
         /\ p + n <= (a + Fill(b, n)) * OCTET /\ (a + Fill(b, n)) * OCTET < p + n + OCTET
         /\ \A m \in Nat : a + Fill(b, n) <= m <=> p + n <= m * OCTET
<1> DEFINE q == Fill(b, n)
           t == (a + q) * OCTET
<1>0. OCTET \in Nat \ {0} BY Sizes
<1>1. q \in Nat /\ (n <= b => q = 0) /\ (n > b => n - b <= q * OCTET /\ q * OCTET <= n - b + OCTET - 1)
  <2>1. CASE n <= b BY <2>1 DEF Fill
  <2>2. CASE n > b
    <3> DEFINE x == n - b + OCTET - 1
               d == OCTET
    <3>1. x \in Nat /\ q = x \div d /\ d \in Nat \ {0} /\ x = n - b + d - 1 BY <1>0, <2>2 DEF Fill
    <3> HIDE DEF x, d, q
    <3>2. x = d * (x \div d) + (x % d) /\ x % d \in 0 .. d - 1 /\ x \div d \in Nat BY <3>1, Division
    <3>3. d * q = q * d /\ q * d \in Nat BY <3>1, <3>2
    <3> DEFINE y == q * d
               r == x % d
    <3>4. x = y + r /\ r \in 0 .. d - 1 /\ y \in Nat BY <3>1, <3>2, <3>3
    <3> HIDE DEF y, r
    <3>5. n - b <= y /\ y <= n - b + d - 1 BY <2>2, <3>1, <3>4
    <3> QED BY <2>2, <3>1, <3>2, <3>5 DEF y, d
  <2> QED BY <2>1, <2>2
<1> HIDE DEF q
<1>2. t = a * OCTET + q * OCTET /\ a * OCTET \in Nat /\ q * OCTET \in Nat BY <1>0, <1>1
<1> DEFINE y == q * OCTET
           z == a * OCTET
<1>3. t = z + y /\ p + b = z /\ y \in Nat /\ z \in Nat /\ (q = 0 => y = 0) BY <1>0, <1>2
<1>4. n > b => n - b <= y /\ y <= n - b + OCTET - 1 BY <1>1
<1> HIDE DEF t, y, z
<1>5. p + n <= t /\ t < p + n + OCTET
  <2>1. CASE n <= b BY <1>0, <1>1, <1>3, <2>1
  <2>2. CASE n > b BY <1>0, <1>3, <1>4, <2>2
  <2> QED BY <2>1, <2>2
<1>6. ASSUME NEW m \in Nat PROVE a + q <= m <=> p + n <= m * OCTET
  <2>1. ASSUME a + q <= m PROVE p + n <= m * OCTET
    <3>1. PICK x \in Nat : m = (a + q) + x
      <4>1. m - (a + q) \in Nat /\ m = (a + q) + (m - (a + q)) BY <1>1, <2>1
      <4> QED BY <4>1
    <3>2. m * OCTET = t + x * OCTET /\ x * OCTET \in Nat /\ t \in Nat BY <1>0, <1>1, <3>1 DEF t
    <3> QED BY <1>5, <3>2
  <2>2. ASSUME ~(a + q <= m) PROVE ~(p + n <= m * OCTET)
    <3>1. PICK x \in Nat : a + q = (m + 1) + x
      <4>1. (a + q) - (m + 1) \in Nat /\ a + q = (m + 1) + ((a + q) - (m + 1)) BY <1>1, <2>2
      <4> QED BY <4>1
    <3>2. ((m + 1) + x) * OCTET = m * OCTET + OCTET + x * OCTET /\ x * OCTET \in Nat /\ m * OCTET \in Nat BY <1>0, <3>1
    <3>3. t = m * OCTET + OCTET + x * OCTET BY <3>1, <3>2 DEF t
    <3> QED BY <1>0, <1>5, <3>2, <3>3
  <2> QED BY <2>1, <2>2
<1>7. /\ q \in Nat /\ t = a * OCTET + q * OCTET /\ p + n <= t /\ t < p + n + OCTET
      /\ \A m \in Nat : a + q <= m <=> p + n <= m * OCTET
  BY <1>1, <1>3, <1>5, <1>6 DEF y, z
<1> QED BY <1>7 DEF t, q

\* Whole bytes put one behind the other.
LEMMA BytesInOrder ==
  ASSUME NEW all, Carries(all), NEW a \in Nat, NEW q \in Nat, a + q <= Len(src)
  PROVE  LET bs == FlattenSeq(SubSeq(src, a + 1, a + q))
         IN  bs \in Seq(Bit) /\ Len(bs) = q * OCTET /\ \A i \in 1 .. q * OCTET : bs[i] = all[a * OCTET + i]
<1> DEFINE ss == SubSeq(src, a + 1, a + q)
           bs == FlattenSeq(ss)
           ofs == Offsets(ss)
<1>0. OCTET \in Nat \ {0} /\ Len(src) \in Nat BY Sizes, LenProperties DEF Carries
<1>1. ss \in Seq(Seq(Bit)) /\ Len(ss) = q /\ \A k \in 1 .. q : ss[k] = src[a + k]
  <2>1. \A i \in a + 1 .. a + q : src[i] \in Seq(Bit)
    <3>1. \A i \in a + 1 .. a + q : i \in 1 .. Len(src) BY <1>0
    <3> QED BY <3>1, ElementOfSeq DEF Carries
  <2>2. a + 1 \in Int /\ a + q \in Int OBVIOUS
  <2>3. /\ ss \in Seq(Seq(Bit)) /\ Len(ss) = IF a + 1 <= a + q THEN (a + q) - (a + 1) + 1 ELSE 0
        /\ \A i \in 1 .. (a + q) - (a + 1) + 1 : ss[i] = src[(a + 1) + i - 1]
    BY <2>1, <2>2, SubSeqProperties
  <2>4. (a + q) - (a + 1) + 1 = q /\ \A i \in 1 .. q : (a + 1) + i - 1 = a + i OBVIOUS
  <2>5. Len(ss) = q BY <2>3, <2>4
  <2> QED BY <2>3, <2>4, <2>5
<1> HIDE DEF ss
<1>2. \A k \in 1 .. q : Len(ss[k]) = OCTET /\ \A i \in 1 .. OCTET : ss[k][i] = all[((a + k) - 1) * OCTET + i]
  <2> TAKE k \in 1 .. q
  <2>1. a + k \in 1 .. Len(src) BY <1>0
  <2>2. Len(src[a + k]) = OCTET /\ \A i \in 1 .. OCTET : src[a + k][i] = all[((a + k) - 1) * OCTET + i] BY <2>1, Zenon DEF Carries
  <2>3. ss[k] = src[a + k] BY <1>1
  <2> QED BY <2>2, <2>3
<1>3. /\ ofs[0] = 0 /\ \A k \in 0 .. q : ofs[k] \in Nat
      /\ \A k \in 1 .. q : ofs[k] = ofs[k - 1] + OCTET
  <2>1. /\ ofs[0] = 0 /\ \A k \in 0 .. Len(ss) : ofs[k] \in Nat
        /\ \A k \in 1 .. Len(ss) : ofs[k] = ofs[k - 1] + Len(ss[k])
    BY <1>1, OffsetsStep
  <2> HIDE DEF ofs
  <2> QED BY <1>1, <1>2, <2>1
<1>4. /\ bs \in Seq(Bit) /\ Len(bs) = ofs[q]
      /\ \A k \in 1 .. q : \A i \in 1 .. OCTET : bs[ofs[k - 1] + i] = ss[k][i]
  <2>1. /\ bs \in Seq(Bit) /\ Len(bs) = ofs[Len(ss)]
        /\ \A k \in 1 .. Len(ss) : \A i \in 1 .. Len(ss[k]) :
             ofs[k - 1] + i \in 1 .. ofs[Len(ss)] /\ bs[ofs[k - 1] + i] = ss[k][i]
    <3>1. ss \in Seq(Seq(Bit)) BY <1>1
    <3> QED BY <3>1, Flattened
  <2> HIDE DEF ofs, bs
  <2> QED BY <1>1, <1>2, <2>1
<1> HIDE DEF ofs, bs
<1>5. \A k \in 0 .. q : ofs[k] = k * OCTET
  <2> DEFINE S == {k \in 0 .. q : ofs[k] = k * OCTET}
  <2>1. 0 \in S BY <1>0, <1>3
  <2>2. ASSUME NEW k \in 1 .. q, k - 1 \in S PROVE k \in S
    <3>1. ofs[k] = (k - 1) * OCTET + OCTET BY <1>3, <2>2
    <3>2. (k - 1) * OCTET + OCTET = k * OCTET BY <1>0
    <3> QED BY <3>1, <3>2
  <2>3. 0 .. q \subseteq S
    <3> HIDE DEF S
    <3> QED BY <2>1, <2>2, InductTo
  <2> QED BY <2>3
<1>6. ASSUME NEW i \in 1 .. q * OCTET PROVE bs[i] = all[a * OCTET + i]
  <2> DEFINE d == OCTET
             x == i - 1
             k == (x \div d) + 1
             m == (x % d) + 1
  <2>1. q * OCTET \in Nat BY <1>0
  <2>2. x \in Nat /\ x + 1 = i /\ x < q * d /\ d \in Nat \ {0} BY <1>0, <2>1
  <2> HIDE DEF x, d
  <2>3. x = d * (x \div d) + (x % d) /\ x % d \in 0 .. d - 1 /\ x \div d \in Nat BY <2>2, Division
  <2>4. k - 1 = x \div d /\ m - 1 = x % d /\ k \in Nat \ {0} /\ m \in 1 .. d BY <2>2, <2>3
  <2> HIDE DEF k, m
  <2>5. d * (k - 1) = (k - 1) * d /\ (k - 1) * d \in Nat BY <2>2, <2>4
  <2>6. i = (k - 1) * d + m
    <3> DEFINE y == (k - 1) * d
    <3>1. x = y + (m - 1) /\ y \in Nat BY <2>3, <2>4, <2>5
    <3> HIDE DEF y
    <3>2. i = y + m BY <2>2, <2>4, <3>1
    <3> QED BY <3>2 DEF y
  <2>7. k \in 1 .. q
    <3>1. ASSUME k > q PROVE FALSE
      <4>1. PICK z \in Nat : k - 1 = q + z
        <5>1. (k - 1) - q \in Nat /\ k - 1 = q + ((k - 1) - q) BY <2>4, <3>1
        <5> QED BY <5>1
      <4>2. (k - 1) * d = q * d + z * d /\ z * d \in Nat /\ q * d \in Nat BY <2>2, <4>1
      <4> DEFINE y == (k - 1) * d
                 u == q * d
      <4>3. x = y + (m - 1) /\ x < u /\ y >= u /\ y \in Nat /\ u \in Nat BY <2>2, <2>3, <2>4, <2>5, <4>2
      <4> HIDE DEF y, u
      <4> QED BY <2>4, <4>3
    <3> QED BY <2>4, <3>1
  <2>8. bs[ofs[k - 1] + m] = ss[k][m] /\ ss[k][m] = all[((a + k) - 1) * OCTET + m] BY <1>2, <1>4, <2>4, <2>7 DEF d
  <2>9. ofs[k - 1] = (k - 1) * d
    <3>1. k - 1 \in 0 .. q BY <2>4, <2>7
    <3> QED BY <1>5, <3>1 DEF d
  <2>10. ((a + k) - 1) * OCTET = a * OCTET + (k - 1) * OCTET /\ a * OCTET \in Nat /\ (k - 1) * OCTET \in Nat BY <2>2, <2>4 DEF d
  <2>11. ((a + k) - 1) * OCTET + m = a * OCTET + i
    <3> DEFINE y == (k - 1) * OCTET
               u == a * OCTET
               w == ((a + k) - 1) * OCTET
    <3>1. w = u + y /\ u \in Nat /\ y \in Nat /\ i = y + m BY <2>6, <2>10 DEF d
    <3> HIDE DEF y, u, w
    <3>2. w + m = u + i BY <2>4, <2>2, <3>1
    <3> QED BY <3>2 DEF w, u
  <2> QED BY <2>6, <2>8, <2>9, <2>11
<1>7. bs \in Seq(Bit) /\ Len(bs) = q * OCTET
  <2>1. q \in 0 .. q OBVIOUS
  <2> QED BY <1>4, <1>5, <2>1
<1> QED BY <1>6, <1>7 DEF bs, ss


\* What is there is taken, and the reader stands behind it.
LEMMA Takes ==
  ASSUME NEW all, Carries(all), NEW r, NEW p, ReadsAt(all, r, p), NEW n \in Nat
  PROVE  /\ Enough(r, n) <=> p + n <= Supply
         /\ Enough(r, n) => /\ \A v : ReadsAt(all, Taken(r, n, v), p + n)
                            /\ SubSeq(Buffer(r, n), 1, n) = [i \in 1 .. n |-> all[p + i]]
<1> DEFINE b == Len(r.buf)
           a == r.pos
           q == Filled(r, n)
           bs == FlattenSeq(SubSeq(src, a + 1, a + q))
           c == Buffer(r, n)
           t == (a + q) * OCTET
<1>0. OCTET \in Nat \ {0} /\ Len(src) \in Nat /\ Supply = Len(src) * OCTET BY Sizes, LenProperties DEF Carries, Supply
<1>1. /\ r.ok = TRUE /\ a \in Nat /\ a <= Len(src) /\ r.buf \in Seq(Bit) /\ b \in Nat /\ b < OCTET
      /\ p \in Nat /\ p + b = a * OCTET /\ \A i \in 1 .. b : r.buf[i] = all[p + i]
  <2>1. r.buf \in Seq(Bit) BY DEF ReadsAt
  <2>2. b \in Nat BY <2>1, LenProperties
  <2> QED BY <1>0, <2>1, <2>2 DEF ReadsAt
<1>2. q = Fill(b, n) BY DEF Filled, Fill
<1>3. /\ q \in Nat /\ t = a * OCTET + q * OCTET /\ p + n <= t /\ t < p + n + OCTET
      /\ \A m \in Nat : a + q <= m <=> p + n <= m * OCTET
  <2> HIDE DEF b, a, q
  <2>1. b \in Nat /\ b < OCTET /\ a \in Nat /\ p \in Nat /\ p + b = a * OCTET BY <1>1
  <2>2. /\ Fill(b, n) \in Nat /\ (a + Fill(b, n)) * OCTET = a * OCTET + Fill(b, n) * OCTET
        /\ p + n <= (a + Fill(b, n)) * OCTET /\ (a + Fill(b, n)) * OCTET < p + n + OCTET
        /\ \A m \in Nat : a + Fill(b, n) <= m <=> p + n <= m * OCTET
    BY <2>1, FilledIs
  <2> QED BY <1>2, <2>2
<1>4. Enough(r, n) <=> a + q <= Len(src) BY <1>1 DEF Enough
<1> HIDE DEF a, b, q, t
<1>5. Enough(r, n) <=> p + n <= Supply BY <1>0, <1>3, <1>4
<1>6. ASSUME Enough(r, n)
      PROVE  (\A v : ReadsAt(all, Taken(r, n, v), p + n)) /\ SubSeq(c, 1, n) = [i \in 1 .. n |-> all[p + i]]
  <2>1. a + q <= Len(src) BY <1>4, <1>6
  <2>2. bs \in Seq(Bit) /\ Len(bs) = q * OCTET /\ \A i \in 1 .. q * OCTET : bs[i] = all[a * OCTET + i]
    <3>1. a \in Nat /\ q \in Nat BY <1>1, <1>3
    <3> QED BY <2>1, <3>1, BytesInOrder
  <2>3. c = r.buf \o bs BY DEF Buffer, a, q
  <2> DEFINE z == q * OCTET
             y == a * OCTET
  <2>4. z \in Nat /\ y \in Nat /\ t = y + z /\ p + b = y
    <3>1. a \in Nat /\ q \in Nat /\ OCTET \in Nat BY <1>0, <1>1, <1>3
    <3>2. z \in Nat /\ y \in Nat BY <3>1
    <3>3. t = y + z BY <1>3
    <3>4. p + b = y BY <1>1
    <3> QED BY <3>2, <3>3, <3>4
  <2> HIDE DEF c, bs, z
  <2>5. c \in Seq(Bit) /\ Len(c) = b + z /\ \A i \in 1 .. b + z : c[i] = IF i <= b THEN r.buf[i] ELSE bs[i - b]
    <3>1. r.buf \in Seq(Bit) /\ bs \in Seq(Bit) /\ Len(bs) = z /\ Len(r.buf) = b BY <1>1, <2>2 DEF z, b
    <3> QED BY <2>3, <3>1, ConcatProperties
  <2>6. \A i \in 1 .. b + z : c[i] = all[p + i]
    <3> TAKE i \in 1 .. b + z
    <3>1. CASE i <= b
      <4>1. i \in 1 .. b BY <1>1, <3>1
      <4> QED BY <1>1, <2>5, <3>1, <4>1
    <3>2. CASE ~(i <= b)
      <4>1. i - b \in 1 .. z /\ y + (i - b) = p + i BY <1>1, <2>4, <3>2
      <4>2. bs[i - b] = all[y + (i - b)] BY <2>2, <4>1 DEF z, y
      <4> QED BY <2>5, <3>2, <4>1, <4>2
    <3> QED BY <3>1, <3>2
  <2> HIDE DEF y
  <2>7. n <= b + z /\ (b + z) - n < OCTET BY <1>0, <1>1, <1>3, <2>4
  <2>8. SubSeq(c, 1, n) = [i \in 1 .. n |-> all[p + i]]
    <3>1. SubSeq(c, 1, n) = [i \in 1 .. n |-> c[i]] BY <1>1
    <3>2. \A i \in 1 .. n : i \in 1 .. b + z BY <1>1, <2>4, <2>7
    <3> QED BY <2>6, <3>1, <3>2
  <2>9. /\ SubSeq(c, n + 1, b + z) \in Seq(Bit) /\ Len(SubSeq(c, n + 1, b + z)) = (b + z) - n
        /\ \A i \in 1 .. (b + z) - n : SubSeq(c, n + 1, b + z)[i] = all[(p + n) + i]
    <3> DEFINE d == SubSeq(c, n + 1, b + z)
    <3>1. \A i \in n + 1 .. b + z : c[i] \in Bit
      <4>1. \A i \in n + 1 .. b + z : i \in 1 .. Len(c) BY <1>1, <2>4, <2>5
      <4> QED BY <2>5, <4>1, ElementOfSeq
    <3>2. n + 1 \in Int /\ b + z \in Int BY <1>1, <2>4
    <3>3. /\ d \in Seq(Bit) /\ Len(d) = IF n + 1 <= b + z THEN (b + z) - (n + 1) + 1 ELSE 0
          /\ \A i \in 1 .. (b + z) - (n + 1) + 1 : d[i] = c[(n + 1) + i - 1]
      BY <3>1, <3>2, SubSeqProperties
    <3> HIDE DEF d
    <3>4. Len(d) = (b + z) - n BY <1>1, <2>4, <2>7, <3>3
    <3>5. ASSUME NEW i \in 1 .. (b + z) - n PROVE d[i] = all[(p + n) + i]
      <4>1. i \in 1 .. (b + z) - (n + 1) + 1 /\ (n + 1) + i - 1 = n + i /\ n + i \in 1 .. b + z /\ p + (n + i) = (p + n) + i
        BY <1>1, <2>4, <2>7
      <4> QED BY <2>6, <3>3, <4>1
    <3> QED BY <3>3, <3>4, <3>5 DEF d
  <2>10. ASSUME NEW v PROVE ReadsAt(all, Taken(r, n, v), p + n)
    <3> DEFINE x == Taken(r, n, v)
    <3>1. x = [ok |-> TRUE, v |-> v, pos |-> a + q, buf |-> SubSeq(c, n + 1, b + z)] BY <2>5 DEF Taken, c, a, q
    <3> HIDE DEF x
    <3>2. x.ok = TRUE /\ x.v = v /\ x.pos = a + q /\ x.buf = SubSeq(c, n + 1, b + z) /\ IsReader(x) BY <3>1 DEF IsReader
    <3>3. a + q \in 0 .. Len(src)
      <4>1. q \in Nat BY <1>3
      <4> QED BY <1>0, <1>1, <2>1, <4>1
    <3>4. p + n \in Nat /\ (p + n) + ((b + z) - n) = t BY <1>1, <2>4
    <3>5. x.pos * OCTET = t BY <3>2 DEF t
    <3>6. /\ x.buf \in Seq(Bit) /\ Len(x.buf) < OCTET /\ (p + n) + Len(x.buf) = x.pos * OCTET
          /\ \A i \in 1 .. Len(x.buf) : x.buf[i] = all[(p + n) + i]
      BY <2>7, <2>9, <3>2, <3>4, <3>5
    <3>7. x.ok = TRUE /\ IsReader(x) /\ x.pos \in 0 .. Len(src) /\ p + n \in Nat BY <3>2, <3>3, <3>4
    <3>8. ReadsAt(all, x, p + n) BY <3>6, <3>7 DEF ReadsAt
    <3> QED BY <3>8 DEF x
  <2> QED BY <2>8, <2>10
<1> QED BY <1>5, <1>6

\* A reader that has failed reads nothing more.
LEMMA FailsReading ==
  ASSUME NEW r, IsReader(r), NEW n
  PROVE  /\ IsReader([r EXCEPT !.ok = FALSE]) /\ [r EXCEPT !.ok = FALSE].ok = FALSE
         /\ ~r.ok => bits(r, n) = [r EXCEPT !.ok = FALSE] /\ \A h : huff_decode(r, h) = [r EXCEPT !.ok = FALSE]
<1>3. [r EXCEPT !.ok = FALSE].ok = FALSE /\ IsReader([r EXCEPT !.ok = FALSE]) BY DEF IsReader
<1>4. ASSUME ~r.ok PROVE bits(r, n) = [r EXCEPT !.ok = FALSE] /\ \A h : huff_decode(r, h) = [r EXCEPT !.ok = FALSE]
  <2>1. \A m : ~Enough(r, m) BY <1>4 DEF Enough
  <2>2. \A h, l : ~Hit(r, h, l) BY <2>1 DEF Hit
  <2> QED BY <2>1, <2>2 DEF bits, huff_decode
<1> QED BY <1>3, <1>4

\* A field of so many bits.
LEMMA GetsField ==
  ASSUME NEW all, Carries(all), NEW r, NEW p, ReadsAt(all, r, p),
         NEW n \in Nat, NEW v \in Nat, v < Pow(n), Stands(all, p, Low(v, n))
  PROVE  /\ p + n <= Supply => bits(r, n).ok = TRUE /\ bits(r, n).v = v /\ ReadsAt(all, bits(r, n), p + n)
         /\ ~(p + n <= Supply) => bits(r, n).ok = FALSE
         /\ IsReader(bits(r, n))
<1>1. Low(v, n) = [i \in 1 .. n |-> all[p + i]]
  <2>1. Len(Low(v, n)) = n /\ Low(v, n) = [i \in 1 .. n |-> Low(v, n)[i]] BY LowIs DEF Low
  <2>2. \A i \in 1 .. n : all[p + i] = Low(v, n)[i] BY <2>1 DEF Stands
  <2> QED BY <2>1, <2>2
<1>2. LowFirst(Low(v, n)) = v BY LowFirstOf
<1>3. ASSUME p + n <= Supply PROVE bits(r, n).ok = TRUE /\ bits(r, n).v = v /\ ReadsAt(all, bits(r, n), p + n)
  <2>1. Enough(r, n) BY <1>3, Takes
  <2>2. SubSeq(Buffer(r, n), 1, n) = Low(v, n) BY <1>1, <2>1, Takes
  <2>3. bits(r, n) = Taken(r, n, v) BY <1>2, <2>1, <2>2 DEF bits
  <2>4. Taken(r, n, v).ok = TRUE /\ Taken(r, n, v).v = v BY DEF Taken
  <2>5. ReadsAt(all, Taken(r, n, v), p + n) BY <2>1, Takes
  <2> QED BY <2>3, <2>4, <2>5
<1>4. ASSUME ~(p + n <= Supply) PROVE bits(r, n).ok = FALSE /\ IsReader(bits(r, n))
  <2>1. ~Enough(r, n) BY <1>4, Takes
  <2>2. bits(r, n) = [r EXCEPT !.ok = FALSE] BY <2>1 DEF bits
  <2>3. IsReader(r) BY DEF ReadsAt
  <2> QED BY <2>2, <2>3, FailsReading
<1> QED BY <1>3, <1>4 DEF ReadsAt

\* The bits at a place, against those that the codes of each length begin.
LEMMA HitIs ==
  ASSUME NEW all, Carries(all), NEW r, NEW p, ReadsAt(all, r, p), NEW lens, IsLens(lens), NEW l \in 1 .. MAXLBITS,
         NEW c, Stands(all, p, c), l <= Len(c), Len(c) \in Nat, HighFirst(Prefix(c, l)) \in Nat
  PROVE  Hit(r, huff_build(lens), l) <=> p + l <= Supply /\ HighFirst(Prefix(c, l)) < Claimed(lens, l)
<1> DEFINE count == Counts(lens)
           w == HighFirst(Prefix(c, l))
<1>0. l \in Nat /\ l - 1 \in Nat /\ l - 1 \in 0 .. MAXLBITS /\ l \in 0 .. MAXLBITS BY Sizes
<1>1. Enough(r, l) <=> p + l <= Supply BY <1>0, Takes
<1>2. huff_build(lens).count = count BY DEF huff_build
<1>3. First(count)[l - 1] = 2 * Claimed(lens, l - 1) /\ Claimed(lens, l - 1) \in Nat BY <1>0, CountedUp, ClaimsAre
<1>4. Claimed(lens, l) = 2 * Claimed(lens, l - 1) + count[l] /\ count[l] \in Nat BY ClaimedStep, CountsAre
<1>5. Enough(r, l) => SubSeq(Buffer(r, l), 1, l) = Prefix(c, l)
  <2>1. Enough(r, l) => SubSeq(Buffer(r, l), 1, l) = [i \in 1 .. l |-> all[p + i]] BY <1>0, Takes
  <2>2. \A i \in 1 .. l : i \in 1 .. Len(c) BY <1>0
  <2>3. \A i \in 1 .. l : all[p + i] = c[i] BY <2>2 DEF Stands
  <2> QED BY <2>1, <2>3 DEF Prefix
<1>6. Hit(r, huff_build(lens), l) <=> Enough(r, l) /\ w - First(count)[l - 1] < count[l] BY <1>2, <1>5 DEF Hit
<1> HIDE DEF w, count
<1>7. w - First(count)[l - 1] < count[l] <=> w < Claimed(lens, l) BY <1>3, <1>4 DEF w
<1> QED BY <1>1, <1>6, <1>7 DEF w

\* A symbol that has a code.
LEMMA GetsSymbol ==
  ASSUME NEW all, Carries(all), NEW r, NEW p, ReadsAt(all, r, p),
         NEW lens, IsLens(lens), Weight(lens) <= Pow(MAXLBITS), NEW s, Coded(lens, s), Stands(all, p, Code(lens, s))
  PROVE  LET x == huff_decode(r, huff_build(lens))
             q == p + Len(Code(lens, s))
         IN  /\ q <= Supply => x.ok = TRUE /\ x.v = s /\ ReadsAt(all, x, q)
             /\ ~(q <= Supply) => x.ok = FALSE
             /\ IsReader(x)
<1> DEFINE l == lens[s + 1]
           c == Code(lens, s)
           h == huff_build(lens)
           x == huff_decode(r, h)
<1>0. s \in Used(lens) BY DEF Coded
<1>1. l \in 1 .. MAXLBITS /\ l \in Nat /\ MAXLBITS \in Nat BY <1>0, LensAre, Sizes
<1>2. /\ c \in Seq(Bit) /\ Len(c) = l /\ HighFirst(Prefix(c, l)) = Number(lens, s)
      /\ \A k \in 1 .. l - 1 : HighFirst(Prefix(c, k)) \in Nat /\ HighFirst(Prefix(c, k)) >= Claimed(lens, k)
  BY <1>0, CodeWords
<1>3. Number(lens, s) = 2 * Claimed(lens, l - 1) + Rank(lens, s) /\ Number(lens, s) \in Nat /\ Number(lens, s) < Claimed(lens, l)
  BY <1>0, NumberIs
<1>4. IsReader(r) /\ p \in Nat /\ Supply \in Nat
  <2>1. OCTET \in Nat /\ Len(src) \in Nat BY Sizes, LenProperties DEF Carries
  <2> QED BY <2>1 DEF ReadsAt, Supply
<1> HIDE DEF l, c, x
<1>5. Hit(r, h, l) <=> p + l <= Supply
  <2>1. l <= Len(c) /\ Len(c) \in Nat /\ HighFirst(Prefix(c, l)) \in Nat BY <1>1, <1>2, <1>3
  <2>2. Stands(all, p, c) BY DEF c
  <2>3. Hit(r, h, l) <=> p + l <= Supply /\ HighFirst(Prefix(c, l)) < Claimed(lens, l) BY <1>1, <2>1, <2>2, HitIs
  <2> QED BY <1>2, <1>3, <2>3
<1>6. \A k \in 1 .. l - 1 : ~Hit(r, h, k)
  <2> TAKE k \in 1 .. l - 1
  <2>1. k \in 1 .. MAXLBITS /\ k <= Len(c) /\ Len(c) \in Nat /\ k \in Nat BY <1>1, <1>2
  <2>2. Stands(all, p, c) /\ HighFirst(Prefix(c, k)) \in Nat /\ HighFirst(Prefix(c, k)) >= Claimed(lens, k) BY <1>2 DEF c
  <2>3. Claimed(lens, k) \in Nat BY <2>1, ClaimsAre
  <2>4. Hit(r, h, k) <=> p + k <= Supply /\ HighFirst(Prefix(c, k)) < Claimed(lens, k) BY <2>1, <2>2, HitIs
  <2> QED BY <2>2, <2>3, <2>4
<1>7. ASSUME p + l <= Supply PROVE x.ok = TRUE /\ x.v = s /\ ReadsAt(all, x, p + l)
  <2> DEFINE L == CHOOSE k \in 1 .. MAXLBITS : Hit(r, h, k) /\ \A j \in 1 .. k - 1 : ~Hit(r, h, j)
             code == HighFirst(SubSeq(Buffer(r, l), 1, l))
             v == h.symbol[Index(h.count)[l - 1] + code - First(h.count)[l - 1] + 1]
  <2>1. Hit(r, h, l) BY <1>5, <1>7
  <2>2. \A k \in 1 .. MAXLBITS : (Hit(r, h, k) /\ \A j \in 1 .. k - 1 : ~Hit(r, h, j)) => k = l
    <3> TAKE k \in 1 .. MAXLBITS
    <3> HAVE Hit(r, h, k) /\ \A j \in 1 .. k - 1 : ~Hit(r, h, j)
    <3>1. k \notin 1 .. l - 1 BY <1>6
    <3>2. l \notin 1 .. k - 1 BY <2>1
    <3> QED BY <1>1, <3>1, <3>2
  <2>3. L = l BY <1>1, <1>6, <2>1, <2>2, Zenon
  <2>4. Enough(r, l) /\ SubSeq(Buffer(r, l), 1, l) = [i \in 1 .. l |-> all[p + i]] BY <1>1, <1>7, Takes
  <2>5. code = Number(lens, s)
    <3>1. \A i \in 1 .. l : all[p + i] = c[i] BY <1>2 DEF Stands, c
    <3>2. SubSeq(Buffer(r, l), 1, l) = Prefix(c, l) BY <2>4, <3>1 DEF Prefix
    <3> QED BY <1>2, <3>2
  <2>6. v = s
    <3>1. h.symbol = Symbols(lens) /\ h.count = Counts(lens) BY DEF huff_build
    <3>2. First(Counts(lens))[l - 1] = 2 * Claimed(lens, l - 1) /\ Claimed(lens, l - 1) \in Nat
      <4>1. l - 1 \in 0 .. MAXLBITS /\ l - 1 \in Nat BY <1>1
      <4> QED BY <4>1, CountedUp, ClaimsAre
    <3>3. Place(lens, s) = Index(Counts(lens))[l - 1] + Rank(lens, s) BY DEF Place, l
    <3>4. Rank(lens, s) \in Nat BY <1>0, PlaceCounts
    <3>5. Index(Counts(lens))[l - 1] \in Nat
      <4>1. l - 1 \in 0 .. MAXLBITS /\ Counts(lens) \in [1 .. MAXLBITS -> Nat] BY <1>1, CountsAre
      <4> QED BY <4>1, IndexStep
    <3> HIDE DEF code, h
    <3>6. Index(Counts(lens))[l - 1] + code - First(Counts(lens))[l - 1] + 1 = Place(lens, s) + 1
      BY <1>3, <2>5, <3>2, <3>3, <3>4, <3>5
    <3>7. Symbols(lens)[Place(lens, s) + 1] = s BY <1>0, SymbolPlaced
    <3> QED BY <3>1, <3>6, <3>7
  <2>7. x = Taken(r, l, v)
    <3>1. \E k \in 1 .. MAXLBITS : Hit(r, h, k) BY <1>1, <2>1
    <3> HIDE DEF h
    <3>2. x = LET k == CHOOSE k \in 1 .. MAXLBITS : Hit(r, h, k) /\ \A j \in 1 .. k - 1 : ~Hit(r, h, j)
                  w == HighFirst(SubSeq(Buffer(r, k), 1, k))
              IN Taken(r, k, h.symbol[Index(h.count)[k - 1] + w - First(h.count)[k - 1] + 1])
      BY <3>1, Zenon DEF x, huff_decode
    <3> QED BY <2>3, <3>2, Zenon
  <2>8. ReadsAt(all, Taken(r, l, s), p + l) BY <1>1, <2>4, Takes
  <2>9. Taken(r, l, s).ok = TRUE /\ Taken(r, l, s).v = s BY DEF Taken
  <2> QED BY <2>6, <2>7, <2>8, <2>9
<1>8. ASSUME ~(p + l <= Supply) PROVE x.ok = FALSE /\ IsReader(x)
  <2>1. \A k \in 1 .. MAXLBITS : ~Hit(r, h, k)
    <3> TAKE k \in 1 .. MAXLBITS
    <3>1. CASE k \in 1 .. l - 1 BY <1>6, <3>1
    <3>2. CASE k \notin 1 .. l - 1
      <4>1. k \in Nat /\ ~(p + k <= Supply) BY <1>1, <1>4, <1>8, <3>2
      <4>2. ~Enough(r, k) BY <4>1, Takes
      <4> QED BY <4>2 DEF Hit
    <3> QED BY <3>1, <3>2
  <2>2. x = [r EXCEPT !.ok = FALSE]
    <3> HIDE DEF h
    <3> QED BY <2>1 DEF x, huff_decode
  <2> QED BY <1>4, <2>2, FailsReading
<1>9. IsReader(x) BY <1>7, <1>8 DEF ReadsAt
<1>10. Len(c) = l BY <1>2
<1> HIDE DEF h
<1>11. /\ p + Len(c) <= Supply => x.ok = TRUE /\ x.v = s /\ ReadsAt(all, x, p + Len(c))
       /\ ~(p + Len(c) <= Supply) => x.ok = FALSE
       /\ IsReader(x)
  BY <1>7, <1>8, <1>9, <1>10
<1> QED BY <1>11 DEF x, c, h

\* A symbol that has none.
LEMMA GetsNothing ==
  ASSUME NEW all, Carries(all), NEW r, NEW p, ReadsAt(all, r, p),
         NEW lens, IsLens(lens), Weight(lens) < Pow(MAXLBITS), NEW s, ~Coded(lens, s), Stands(all, p, Code(lens, s))
  PROVE  huff_decode(r, huff_build(lens)).ok = FALSE /\ IsReader(huff_decode(r, huff_build(lens)))
<1> DEFINE h == huff_build(lens)
<1>1. \A k \in 1 .. MAXLBITS : ~Hit(r, h, k)
  <2> TAKE k \in 1 .. MAXLBITS
  <2>1. s \notin Used(lens) BY DEF Coded
  <2>2. /\ Len(Code(lens, s)) = MAXLBITS
        /\ HighFirst(Prefix(Code(lens, s), k)) \in Nat /\ HighFirst(Prefix(Code(lens, s), k)) >= Claimed(lens, k)
    BY <2>1, SpareWords
  <2>3. k \in Nat /\ k <= MAXLBITS /\ MAXLBITS \in Nat BY Sizes
  <2>4. Claimed(lens, k) \in Nat BY <2>3, ClaimsAre
  <2>5. Hit(r, h, k) <=> p + k <= Supply /\ HighFirst(Prefix(Code(lens, s), k)) < Claimed(lens, k) BY <2>2, <2>3, HitIs
  <2> QED BY <2>2, <2>4, <2>5
<1> HIDE DEF h
<1>2. huff_decode(r, h) = [r EXCEPT !.ok = FALSE] BY <1>1 DEF huff_decode
<1>3. IsReader(r) BY DEF ReadsAt
<1> QED BY <1>2, <1>3, FailsReading DEF h

----------------------------------------------------------------------------
(* What a writer puts together are bits. *)

Words == Seq(Bit)

\* Two words of bits make one.
LEMMA WordsJoin ==
  /\ <<>> \in Words
  /\ \A a, b \in Words : a \o b \in Words /\ Len(a \o b) = Len(a) + Len(b) /\ Len(a) \in Nat
<1>1. <<>> \in Words BY EmptySeq DEF Words
<1>2. \A a, b \in Words : a \o b \in Words /\ Len(a \o b) = Len(a) + Len(b) BY ConcatProperties DEF Words
<1>3. \A a \in Words : Len(a) \in Nat BY LenProperties DEF Words
<1> QED BY <1>1, <1>2, <1>3

\* The bits up to the next byte.
LEMMA PaddingIs ==
  ASSUME NEW n \in Nat
  PROVE  /\ Padding(n) \in Words /\ Len(Padding(n)) < OCTET /\ Len(Padding(n)) \in Nat
         /\ \E m \in Nat : n + Len(Padding(n)) = m * OCTET
<1> DEFINE d == OCTET
           q == n \div d
           r == n % d
           l == (d - r) % d
<1>1. d \in Nat \ {0} BY Sizes
<1>2. n = d * q + r /\ r \in 0 .. d - 1 /\ q \in Nat
  <2> HIDE DEF d
  <2> QED BY <1>1, Division
<1>3. l \in 0 .. d - 1 /\ (r = 0 => l = 0) /\ (r # 0 => l = d - r)
  <2> HIDE DEF d, r
  <2>1. CASE r = 0
    <3>1. d = d * 1 + 0 /\ d - r = d /\ 0 \in 0 .. d - 1 BY <1>1, <2>1
    <3>2. l = 0 BY <1>1, <3>1, DivisionIs
    <3> QED BY <1>1, <2>1, <3>2
  <2>2. CASE r # 0
    <3>1. d - r \in 0 .. d - 1 /\ d - r \in Nat /\ d - r = d * 0 + (d - r) BY <1>1, <1>2, <2>2
    <3>2. l = d - r BY <1>1, <3>1, DivisionIs
    <3> QED BY <2>2, <3>1, <3>2
  <2> QED BY <2>1, <2>2
<1>4. Padding(n) = [i \in 1 .. l |-> 0] BY DEF Padding
<1> HIDE DEF d, q, r, l
<1>5. Padding(n) \in Words /\ Len(Padding(n)) = l
  <2>1. Padding(n) \in [1 .. l -> Bit] BY <1>4 DEF Bit
  <2>2. l \in Nat BY <1>1, <1>3
  <2> QED BY <2>1, <2>2, IsASeq, LenProperties DEF Words
<1>6. \E m \in Nat : n + l = m * d
  <2> DEFINE y == d * q
  <2>1. y = q * d /\ y \in Nat /\ y + d = (q + 1) * d BY <1>1, <1>2
  <2>2. n = y + r BY <1>2
  <2> HIDE DEF y
  <2>3. CASE r = 0
    <3>1. n + l = q * d BY <1>1, <1>2, <1>3, <2>1, <2>2, <2>3
    <3> QED BY <1>2, <3>1
  <2>4. CASE r # 0
    <3>1. n + l = y + d BY <1>1, <1>2, <1>3, <2>1, <2>2, <2>4
    <3> QED BY <1>2, <2>1, <3>1
  <2> QED BY <2>3, <2>4
<1>7. l < d /\ l \in Nat BY <1>1, <1>3
<1>8. l < OCTET BY <1>7 DEF d
<1>9. \E m \in Nat : n + l = m * OCTET BY <1>6 DEF d
<1> QED BY <1>5, <1>7, <1>8, <1>9

\* Every symbol is written in bits, with a code or without.
LEMMA CodeBits ==
  ASSUME NEW lens, IsLens(lens), NEW s
  PROVE  Code(lens, s) \in Words
<1>1. CASE s \in Used(lens)
  <2> DEFINE l == lens[s + 1]
             v == Number(lens, s)
  <2>1. l \in Nat /\ v \in Nat BY <1>1, LensAre, Sizes, NumberIs
  <2>2. Code(lens, s) = Reverse(Low(v, l)) BY <1>1 DEF Code, Coded
  <2> HIDE DEF l, v
  <2>3. Low(v, l) \in Seq(Bit) /\ Len(Low(v, l)) = l BY <2>1, LowIs
  <2>4. \A i \in 1 .. l : (l - i) + 1 \in 1 .. l BY <2>1
  <2>5. \A i \in 1 .. l : Low(v, l)[(l - i) + 1] \in Bit BY <2>3, <2>4, ElementOfSeq
  <2>6. Code(lens, s) = [i \in 1 .. l |-> Low(v, l)[(l - i) + 1]] BY <2>2, <2>3 DEF Reverse
  <2>7. Code(lens, s) \in [1 .. l -> Bit] BY <2>5, <2>6
  <2> QED BY <2>1, <2>7, IsASeq DEF Words
<1>2. CASE s \notin Used(lens)
  <2>1. Code(lens, s) = [i \in 1 .. MAXLBITS |-> 1] BY <1>2 DEF Code, Coded
  <2>2. Code(lens, s) \in [1 .. MAXLBITS -> Bit] BY <2>1 DEF Bit
  <2> QED BY <2>2, Sizes, IsASeq DEF Words
<1> QED BY <1>1, <1>2

\* The tables of the format.
LEMMA TablesAre ==
  /\ IsLens(FixedLit) /\ IsLens(FixedDist)
  /\ Len(LengthTable) \in Nat /\ Len(DistTable) \in Nat /\ Len(Runs) \in Nat /\ Len(Order) \in Nat
  /\ \A k \in 1 .. Len(LengthTable) : LengthTable[k].base \in Nat /\ LengthTable[k].ext \in Nat
  /\ \A k \in 1 .. Len(DistTable) : DistTable[k].base \in Nat \ {0} /\ DistTable[k].ext \in Nat
  /\ \A k \in 1 .. Len(Runs) : Runs[k].base \in Nat \ {0} /\ Runs[k].ext \in Nat
<1>1. LengthTable \in Seq(Row) /\ DistTable \in Seq([base : Nat \ {0}, ext : Nat]) /\ Runs \in Seq([base : Nat \ {0}, ext : Nat]) /\ Order \in Seq(Nat)
  BY FormatAssumption
<1>2. Len(LengthTable) \in Nat /\ Len(DistTable) \in Nat /\ Len(Runs) \in Nat /\ Len(Order) \in Nat BY <1>1, LenProperties
<1>3. \A k \in 1 .. Len(LengthTable) : LengthTable[k] \in Row BY <1>1, ElementOfSeq
<1>4. \A k \in 1 .. Len(DistTable) : DistTable[k] \in [base : Nat \ {0}, ext : Nat] BY <1>1, ElementOfSeq
<1>5. \A k \in 1 .. Len(Runs) : Runs[k] \in [base : Nat \ {0}, ext : Nat] BY <1>1, ElementOfSeq
<1>6. IsLens(FixedLit) /\ IsLens(FixedDist) BY FormatAssumption DEF IsLens
<1> QED BY <1>2, <1>3, <1>4, <1>5, <1>6 DEF Row

\* The parts of a match, one behind the other.
MatchBits(d, t) ==
  Low(t.lx, LengthTable[t.len + 1].ext) \o Code(d, t.dist)
  \o (IF Coded(d, t.dist) THEN Low(t.dx, DistTable[t.dist + 1].ext) ELSE <<>>)

\* A literal is a code; a match four fields, or a code alone when its length is none.
LEMMA TokenIsBits ==
  ASSUME NEW l, IsLens(l), NEW d, IsLens(d), NEW t, Fits(d, t)
  PROVE  /\ TokenBits(l, d, t) \in Words
         /\ t.kind = "lit" => t.lit \in 0 .. LITS - 1 /\ TokenBits(l, d, t) = Code(l, t.lit)
         /\ t.kind # "lit" =>
              /\ t.kind = "match" /\ t.len \in Nat
              /\ ~(t.len < Len(LengthTable)) => TokenBits(l, d, t) = Code(l, END + 1 + t.len)
              /\ t.len < Len(LengthTable) =>
                   /\ t.len + 1 \in 1 .. Len(LengthTable) /\ t.lx \in Nat /\ t.lx < Pow(LengthTable[t.len + 1].ext) /\ t.dist \in Nat
                   /\ TokenBits(l, d, t) = Code(l, END + 1 + t.len) \o MatchBits(d, t)
                   /\ Low(t.lx, LengthTable[t.len + 1].ext) \in Words
                   /\ Coded(d, t.dist) =>
                        /\ t.dist < Len(DistTable) /\ t.dist + 1 \in 1 .. Len(DistTable) /\ t.dx \in Nat /\ t.dx < Pow(DistTable[t.dist + 1].ext)
                        /\ Low(t.dx, DistTable[t.dist + 1].ext) \in Words
<1>1. CASE t.kind = "lit"
  <2>1. t.lit \in 0 .. LITS - 1 BY <1>1 DEF Fits
  <2>2. TokenBits(l, d, t) = Code(l, t.lit) BY <1>1 DEF TokenBits
  <2> QED BY <1>1, <2>1, <2>2, CodeBits
<1>2. CASE t.kind # "lit"
  <2>1. t.kind = "match" BY <1>2 DEF Fits
  <2>2. /\ t.len \in Nat
        /\ t.len < Len(LengthTable) =>
              /\ t.lx \in 0 .. Pow(LengthTable[t.len + 1].ext) - 1
              /\ t.dist \in Nat
              /\ Coded(d, t.dist) => t.dist < Len(DistTable) /\ t.dx \in 0 .. Pow(DistTable[t.dist + 1].ext) - 1
    BY <2>1 DEF Fits
  <2>3. Code(l, END + 1 + t.len) \in Words BY CodeBits
  <2>4. CASE ~(t.len < Len(LengthTable))
    <3>1. TokenBits(l, d, t) = Code(l, END + 1 + t.len) \o <<>> BY <1>2, <2>1, <2>4 DEF TokenBits
    <3>2. TokenBits(l, d, t) = Code(l, END + 1 + t.len) BY <2>3, <3>1, ConcatEmptySeq DEF Words
    <3> QED BY <1>2, <2>1, <2>2, <2>3, <2>4, <3>2
  <2>5. CASE t.len < Len(LengthTable)
    <3>1. t.len + 1 \in 1 .. Len(LengthTable) BY <2>2, <2>5, TablesAre
    <3>2. LengthTable[t.len + 1].ext \in Nat BY <3>1, TablesAre
    <3>3. Pow(LengthTable[t.len + 1].ext) \in Nat BY <3>2, PowIs
    <3>4. t.lx \in Nat /\ t.lx < Pow(LengthTable[t.len + 1].ext) /\ t.dist \in Nat BY <2>2, <2>5, <3>3
    <3>5. Low(t.lx, LengthTable[t.len + 1].ext) \in Words BY <3>2, <3>4, LowIs DEF Words
    <3>6. ASSUME Coded(d, t.dist)
          PROVE  /\ t.dist < Len(DistTable) /\ t.dist + 1 \in 1 .. Len(DistTable) /\ t.dx \in Nat /\ t.dx < Pow(DistTable[t.dist + 1].ext)
                 /\ Low(t.dx, DistTable[t.dist + 1].ext) \in Words
      <4>1. t.dist < Len(DistTable) /\ t.dx \in 0 .. Pow(DistTable[t.dist + 1].ext) - 1 BY <2>2, <2>5, <3>6
      <4>2. t.dist + 1 \in 1 .. Len(DistTable) BY <3>4, <4>1, TablesAre
      <4>3. DistTable[t.dist + 1].ext \in Nat BY <4>2, TablesAre
      <4>4. Pow(DistTable[t.dist + 1].ext) \in Nat BY <4>3, PowIs
      <4>5. t.dx \in Nat /\ t.dx < Pow(DistTable[t.dist + 1].ext) BY <4>1, <4>4
      <4> QED BY <4>1, <4>2, <4>3, <4>5, LowIs DEF Words
    <3>7. TokenBits(l, d, t) = Code(l, END + 1 + t.len) \o MatchBits(d, t) BY <1>2, <2>1, <2>5 DEF TokenBits, MatchBits
    <3>8. MatchBits(d, t) \in Words
      <4>1. Code(d, t.dist) \in Words BY CodeBits
      <4>2. (IF Coded(d, t.dist) THEN Low(t.dx, DistTable[t.dist + 1].ext) ELSE <<>>) \in Words BY <3>6, WordsJoin
      <4> QED BY <3>5, <4>1, <4>2, WordsJoin DEF MatchBits
    <3>9. TokenBits(l, d, t) \in Words BY <2>3, <3>7, <3>8, WordsJoin
    <3> QED BY <1>2, <2>1, <2>2, <2>5, <3>1, <3>4, <3>5, <3>6, <3>7, <3>9
  <2> QED BY <2>4, <2>5
<1> QED BY <1>1, <1>2

TokenParts(l, d, ts) == [k \in 1 .. Len(ts) |-> TokenBits(l, d, ts[k])]

\* The tokens of a block, and the code of its end.
LEMMA TokensAreBits ==
  ASSUME NEW l, IsLens(l), NEW d, IsLens(d), NEW ts, AllFit(d, ts)
  PROVE  /\ TokenParts(l, d, ts) \in Seq(Words) /\ Len(TokenParts(l, d, ts)) = Len(ts) /\ Len(ts) \in Nat
         /\ TokensBits(l, d, ts) = FlattenSeq(TokenParts(l, d, ts)) \o Code(l, END)
         /\ FlattenSeq(TokenParts(l, d, ts)) \in Words /\ TokensBits(l, d, ts) \in Words
<1>1. Len(ts) \in Nat /\ \A k \in 1 .. Len(ts) : Fits(d, ts[k]) BY DEF AllFit
<1>2. \A k \in 1 .. Len(ts) : TokenBits(l, d, ts[k]) \in Words BY <1>1, TokenIsBits
<1>3. TokenParts(l, d, ts) \in [1 .. Len(ts) -> Words] BY <1>2 DEF TokenParts
<1>4. TokenParts(l, d, ts) \in Seq(Words) /\ Len(TokenParts(l, d, ts)) = Len(ts) BY <1>1, <1>3, IsASeq, LenProperties
<1>5. FlattenSeq(TokenParts(l, d, ts)) \in Words BY <1>4, Flattened DEF Words
<1>6. TokensBits(l, d, ts) = FlattenSeq(TokenParts(l, d, ts)) \o Code(l, END) BY DEF TokensBits, TokenParts
<1>7. Code(l, END) \in Words BY CodeBits
<1> QED BY <1>1, <1>4, <1>5, <1>6, <1>7, WordsJoin


----------------------------------------------------------------------------
(* The list of lengths. *)

IsList(list) == list \in Seq([s : 0 .. Len(Order) - 1, x : Nat])
Lens == Seq(0 .. MAXLBITS)

\* What one member of the list adds to the lengths so far.
AfterItem(list, k, v) ==
  CASE list[k].s <= MAXLBITS -> Append(v, list[k].s)
    [] list[k].s = COPY -> v \o [i \in 1 .. Run(list, k) |-> IF v = <<>> THEN 0 ELSE v[Len(v)]]
    [] OTHER -> v \o [i \in 1 .. Run(list, k) |-> 0]

\* An item of the list is a length or a run of a known base.
LEMMA ItemIs ==
  ASSUME NEW list, IsList(list), NEW k \in 1 .. Len(list)
  PROVE  /\ list[k].s \in Nat /\ list[k].s < Len(Order) /\ list[k].x \in Nat
         /\ list[k].s > MAXLBITS =>
              /\ list[k].s - MAXLBITS \in 1 .. Len(Runs)
              /\ Runs[list[k].s - MAXLBITS].base \in Nat \ {0} /\ Runs[list[k].s - MAXLBITS].ext \in Nat
              /\ Run(list, k) \in Nat \ {0} /\ Run(list, k) = Runs[list[k].s - MAXLBITS].base + list[k].x
<1>1. list[k] \in [s : 0 .. Len(Order) - 1, x : Nat] BY ElementOfSeq DEF IsList
<1>2. list[k].s \in 0 .. Len(Order) - 1 /\ list[k].x \in Nat BY <1>1
<1>3. Len(Order) = MAXLBITS + 1 + Len(Runs) BY FormatAssumption
<1>4. Len(Order) \in Nat /\ Len(Runs) \in Nat BY TablesAre
<1>5. list[k].s \in Nat /\ list[k].s < Len(Order) BY <1>2, <1>4
<1>6. ASSUME list[k].s > MAXLBITS
      PROVE  /\ list[k].s - MAXLBITS \in 1 .. Len(Runs)
             /\ Runs[list[k].s - MAXLBITS].base \in Nat \ {0} /\ Runs[list[k].s - MAXLBITS].ext \in Nat
             /\ Run(list, k) \in Nat \ {0} /\ Run(list, k) = Runs[list[k].s - MAXLBITS].base + list[k].x
  <2>1. list[k].s - MAXLBITS \in 1 .. Len(Runs) BY <1>3, <1>4, <1>5, <1>6, Sizes
  <2>2. Runs[list[k].s - MAXLBITS].base \in Nat \ {0} /\ Runs[list[k].s - MAXLBITS].ext \in Nat BY <2>1, TablesAre
  <2>3. Run(list, k) = Runs[list[k].s - MAXLBITS].base + list[k].x BY DEF Run
  <2> QED BY <1>2, <2>1, <2>2, <2>3
<1> QED BY <1>2, <1>5, <1>6

\* A length adds itself, a run as many lengths as it says.
LEMMA AfterItemIs ==
  ASSUME NEW list, IsList(list), NEW k \in 1 .. Len(list), NEW v \in Lens
  PROVE  /\ AfterItem(list, k, v) \in Lens /\ Len(v) \in Nat
         /\ list[k].s <= MAXLBITS => AfterItem(list, k, v) = Append(v, list[k].s) /\ Len(AfterItem(list, k, v)) = Len(v) + 1
         /\ list[k].s > MAXLBITS => Len(AfterItem(list, k, v)) = Len(v) + Run(list, k)
         /\ list[k].s = COPY /\ v # <<>> => AfterItem(list, k, v) = v \o [i \in 1 .. Run(list, k) |-> v[Len(v)]]
         /\ list[k].s > MAXLBITS /\ list[k].s # COPY => AfterItem(list, k, v) = v \o [i \in 1 .. Run(list, k) |-> 0]
         /\ Len(AfterItem(list, k, v)) > 0
<1>1. Len(v) \in Nat BY LenProperties DEF Lens
<1>2. list[k].s \in Nat BY ItemIs
<1>3. CASE list[k].s <= MAXLBITS
  <2>0. list[k].s # COPY BY <1>2, <1>3, Sizes DEF COPY
  <2>1. AfterItem(list, k, v) = Append(v, list[k].s) BY <1>3, <2>0 DEF AfterItem
  <2>2. list[k].s \in 0 .. MAXLBITS BY <1>2, <1>3, Sizes
  <2>3. AfterItem(list, k, v) \in Lens /\ Len(AfterItem(list, k, v)) = Len(v) + 1 BY <2>1, <2>2, AppendProperties DEF Lens
  <2>4. ~(list[k].s > MAXLBITS) /\ list[k].s # COPY BY <1>2, <1>3, Sizes DEF COPY
  <2> QED BY <1>1, <1>3, <2>1, <2>3, <2>4
<1>4. CASE list[k].s > MAXLBITS
  <2> DEFINE n == Run(list, k)
             z == IF list[k].s = COPY /\ v # <<>> THEN v[Len(v)] ELSE 0
             w == [i \in 1 .. n |-> z]
  <2>1. n \in Nat \ {0} BY <1>4, ItemIs
  <2>2. ~(list[k].s <= MAXLBITS) BY <1>2, <1>4, Sizes
  <2>3. z \in 0 .. MAXLBITS
    <3>1. CASE v # <<>>
      <4>1. Len(v) # 0 BY <3>1, EmptySeq DEF Lens
      <4>2. Len(v) \in 1 .. Len(v) BY <1>1, <4>1
      <4>3. v[Len(v)] \in 0 .. MAXLBITS BY <4>2, ElementOfSeq DEF Lens
      <4> QED BY <4>3, Sizes
    <3> QED BY <3>1, Sizes
  <2>4. AfterItem(list, k, v) = v \o w
    <3>1. CASE list[k].s = COPY /\ v # <<>> BY <2>2, <3>1 DEF AfterItem
    <3>2. CASE list[k].s = COPY /\ v = <<>> BY <2>2, <3>2 DEF AfterItem
    <3>3. CASE list[k].s # COPY BY <2>2, <3>3 DEF AfterItem
    <3> QED BY <3>1, <3>2, <3>3
  <2>5. list[k].s = COPY /\ v # <<>> => w = [i \in 1 .. n |-> v[Len(v)]] OBVIOUS
  <2>6. list[k].s # COPY => w = [i \in 1 .. n |-> 0] OBVIOUS
  <2> HIDE DEF n, z
  <2>7. w \in [1 .. n -> 0 .. MAXLBITS] BY <2>3
  <2> HIDE DEF w
  <2>8. w \in Lens /\ Len(w) = n
    <3>1. n \in Nat BY <2>1
    <3>2. w \in Seq(0 .. MAXLBITS)
      <4> DEFINE T == 0 .. MAXLBITS
      <4>1. w \in [1 .. n -> T] BY <2>7
      <4> HIDE DEF T
      <4>2. w \in Seq(T) BY <3>1, <4>1
      <4> QED BY <4>2 DEF T
    <3>3. DOMAIN w = 1 .. n BY <2>7
    <3>4. Len(w) = n BY <3>1, <3>2, <3>3, LenProperties
    <3> QED BY <3>2, <3>4 DEF Lens
  <2>9. v \o w \in Lens /\ Len(v \o w) = Len(v) + n BY <2>8, ConcatProperties DEF Lens
  <2>10. Len(v \o w) > 0 BY <1>1, <2>1, <2>9
  <2> QED BY <1>1, <1>4, <2>2, <2>4, <2>5, <2>6, <2>9, <2>10 DEF n
<1>5. list[k].s <= MAXLBITS \/ list[k].s > MAXLBITS BY <1>2, Sizes
<1> QED BY <1>3, <1>4, <1>5


\* The lengths that the members of a list stand for.
LEMMA LengthsStep ==
  ASSUME NEW list, IsList(list)
  PROVE  /\ LengthsUpTo(list) \in [0 .. Len(list) -> Lens] /\ LengthsUpTo(list)[0] = <<>>
         /\ \A k \in 1 .. Len(list) : k - 1 \in 0 .. Len(list) /\ LengthsUpTo(list)[k - 1] \in Lens /\ LengthsUpTo(list)[k] = AfterItem(list, k, LengthsUpTo(list)[k - 1])
<1> DEFINE e == CHOOSE e : e = [k \in 0 .. Len(list) |-> IF k = 0 THEN <<>> ELSE AfterItem(list, k, e[k - 1])]
           g == [k \in 1 .. Len(list) |-> [v \in Lens |-> AfterItem(list, k, v)]]
<1>1. Len(list) \in Nat /\ <<>> \in Lens /\ \A k \in 1 .. Len(list) : \A v \in Lens : AfterItem(list, k, v) \in Lens
  <2>1. Len(list) \in Nat BY LenProperties DEF IsList
  <2>2. <<>> \in Lens BY EmptySeq DEF Lens
  <2> QED BY <2>1, <2>2, AfterItemIs
<1>2. g \in [1 .. Len(list) -> [Lens -> Lens]] BY <1>1
<1>3. PICK f \in [0 .. Len(list) -> Lens] : f[0] = <<>> /\ \A k \in 1 .. Len(list) : f[k] = g[k][f[k - 1]]
  <2>1. Recursions(Len(list), Lens, <<>>, g) # {}
    <3> HIDE DEF g
    <3> QED BY <1>1, <1>2, Recursive
  <2> QED BY <2>1 DEF Recursions
<1>4. \A k \in 1 .. Len(list) : k \in 0 .. Len(list) /\ k # 0 /\ k - 1 \in 0 .. Len(list) BY <1>1
<1>5. \A k \in 1 .. Len(list) : f[k - 1] \in Lens /\ f[k] = AfterItem(list, k, f[k - 1])
  <2>1. \A k \in 1 .. Len(list) : f[k - 1] \in Lens BY <1>3, <1>4
  <2> QED BY <1>3, <2>1
<1> HIDE DEF g
<1>6. f = [k \in 0 .. Len(list) |-> IF k = 0 THEN <<>> ELSE AfterItem(list, k, f[k - 1])]
  <2>1. \A k \in 0 .. Len(list) : k # 0 => k \in 1 .. Len(list) BY <1>1
  <2>2. \A k \in 0 .. Len(list) : f[k] = IF k = 0 THEN <<>> ELSE AfterItem(list, k, f[k - 1]) BY <1>3, <1>5, <2>1, Zenon
  <2> QED BY <1>3, <2>2
<1>7. e = [k \in 0 .. Len(list) |-> IF k = 0 THEN <<>> ELSE AfterItem(list, k, e[k - 1])]
  <2>1. \E x : x = [k \in 0 .. Len(list) |-> IF k = 0 THEN <<>> ELSE AfterItem(list, k, x[k - 1])] BY <1>6, Zenon
  <2> QED BY <2>1, Zenon
<1>8. LengthsUpTo(list) = e BY Zenon DEF LengthsUpTo, AfterItem
<1> HIDE DEF e
<1>9. 0 \in 0 .. Len(list) BY <1>1
<1>10. e[0] = <<>> /\ \A k \in 1 .. Len(list) : e[k] = AfterItem(list, k, e[k - 1]) BY <1>4, <1>7, <1>9, Zenon
<1>11. \A k \in 1 .. Len(list) : f[k - 1] = e[k - 1] => f[k] = e[k] BY <1>5, <1>10, Zenon
<1>12. \A k \in 0 .. Len(list) : f[k] = e[k]
  <2> DEFINE S == {k \in 0 .. Len(list) : f[k] = e[k]}
  <2>1. 0 \in S BY <1>3, <1>9, <1>10
  <2>2. \A k \in 1 .. Len(list) : k - 1 \in S => k \in S BY <1>4, <1>11
  <2>3. Len(list) \in Nat BY <1>1
  <2>4. 0 .. Len(list) \subseteq S
    <3> HIDE DEF S
    <3> QED BY <2>1, <2>2, <2>3, InductTo
  <2> QED BY <2>4
<1>13. e \in [0 .. Len(list) -> Lens]
  <2>1. e = [k \in 0 .. Len(list) |-> e[k]] BY <1>7
  <2>2. \A k \in 0 .. Len(list) : e[k] \in Lens BY <1>3, <1>12
  <2> QED BY <2>1, <2>2
<1> QED BY <1>4, <1>8, <1>10, <1>13


\* The lengths, item by item.
LEMMA LengthsAre ==
  ASSUME NEW list, IsList(list)
  PROVE  /\ Len(list) \in Nat /\ \A j \in 0 .. Len(list) : LengthsUpTo(list)[j] \in Lens /\ Len(LengthsUpTo(list)[j]) \in Nat
         /\ LengthsUpTo(list)[0] = <<>> /\ Lengths(list) = LengthsUpTo(list)[Len(list)]
         /\ \A j \in 1 .. Len(list) :
              /\ j - 1 \in 0 .. Len(list) /\ LengthsUpTo(list)[j] = AfterItem(list, j, LengthsUpTo(list)[j - 1])
              /\ LengthsUpTo(list)[j] # <<>>
<1>1. Len(list) \in Nat BY LenProperties DEF IsList
<1>2. /\ LengthsUpTo(list) \in [0 .. Len(list) -> Lens] /\ LengthsUpTo(list)[0] = <<>>
      /\ \A k \in 1 .. Len(list) : k - 1 \in 0 .. Len(list) /\ LengthsUpTo(list)[k - 1] \in Lens
                                   /\ LengthsUpTo(list)[k] = AfterItem(list, k, LengthsUpTo(list)[k - 1])
  BY LengthsStep
<1>3. \A j \in 0 .. Len(list) : LengthsUpTo(list)[j] \in Lens BY <1>2
<1>4. \A j \in 0 .. Len(list) : Len(LengthsUpTo(list)[j]) \in Nat BY <1>3, LenProperties DEF Lens
<1>5. \A j \in 1 .. Len(list) : Len(LengthsUpTo(list)[j]) > 0
  <2> TAKE j \in 1 .. Len(list)
  <2>1. Len(AfterItem(list, j, LengthsUpTo(list)[j - 1])) > 0 BY <1>2, AfterItemIs
  <2> QED BY <1>2, <2>1
<1>6. \A j \in 1 .. Len(list) : LengthsUpTo(list)[j] # <<>>
  <2>1. ~(Len(<<>>) > 0) BY EmptySeq
  <2> QED BY <1>5, <2>1
<1> QED BY <1>1, <1>2, <1>3, <1>4, <1>6 DEF Lengths

\* The two tables of a block, cut out of the lengths.
LEMMA TablesOf ==
  ASSUME NEW b, IsTable(b)
  PROVE  /\ IsList(b.list) /\ b.nlit \in Nat /\ b.ndist \in Nat /\ b.nlit + b.ndist \in Nat
         /\ IsLens(LitOf(b)) /\ IsLens(DistOf(b)) /\ Len(LitOf(b)) = b.nlit /\ Len(DistOf(b)) = b.ndist
         /\ END \in Nat /\ END + 1 <= b.nlit
<1>1. IsList(b.list) BY DEF IsTable, IsList
<1>2. END \in Nat /\ Pow(Field.lit) \in Nat /\ Pow(Field.dist) \in Nat /\ Field.lit \in Nat /\ Field.dist \in Nat
  <2>1. Field.lit \in Nat /\ Field.dist \in Nat BY FormatAssumption
  <2> QED BY <2>1, PowIs, Sizes DEF END, LITS
<1>3. b.nlit \in END + 1 .. END + Pow(Field.lit) /\ b.ndist \in 1 .. Pow(Field.dist) BY DEF IsTable
<1>4. b.nlit \in Nat /\ b.ndist \in Nat /\ END + 1 <= b.nlit BY <1>2, <1>3
<1>5. Len(Lengths(b.list)) >= b.nlit + b.ndist BY DEF IsTable
<1>6. Lengths(b.list) \in Lens /\ Len(Lengths(b.list)) \in Nat
  <2>1. Len(b.list) \in 0 .. Len(b.list) BY <1>1, LengthsAre
  <2> QED BY <1>1, <2>1, LengthsAre
<1> DEFINE all == Lengths(b.list)
           n == b.nlit
           m == b.ndist
<1>7. LitOf(b) = SubSeq(all, 1, n) /\ DistOf(b) = SubSeq(all, n + 1, n + m) BY DEF LitOf, DistOf
<1>8. all \in Seq(0 .. MAXLBITS) /\ Len(all) \in Nat BY <1>6 DEF Lens
<1>9. n \in Nat /\ m \in Nat /\ Len(all) >= n + m BY <1>4, <1>5
<1> HIDE DEF all, n, m
<1>10. \A i \in 1 .. n : all[i] \in 0 .. MAXLBITS
  <2>1. \A i \in 1 .. n : i \in 1 .. Len(all) BY <1>8, <1>9
  <2> QED BY <1>8, <2>1, ElementOfSeq
<1>11. \A i \in n + 1 .. n + m : all[i] \in 0 .. MAXLBITS
  <2>1. \A i \in n + 1 .. n + m : i \in 1 .. Len(all) BY <1>8, <1>9
  <2> QED BY <1>8, <2>1, ElementOfSeq
<1>12. SubSeq(all, 1, n) \in Seq(0 .. MAXLBITS) /\ Len(SubSeq(all, 1, n)) = n
  <2>1. 1 \in Int /\ n \in Int BY <1>9
  <2>2. SubSeq(all, 1, n) \in Seq(0 .. MAXLBITS) /\ Len(SubSeq(all, 1, n)) = IF 1 <= n THEN n - 1 + 1 ELSE 0
    BY <1>10, <2>1, SubSeqProperties
  <2>3. (IF 1 <= n THEN n - 1 + 1 ELSE 0) = n BY <1>9
  <2> QED BY <2>2, <2>3
<1>13. SubSeq(all, n + 1, n + m) \in Seq(0 .. MAXLBITS) /\ Len(SubSeq(all, n + 1, n + m)) = m
  <2>1. n + 1 \in Int /\ n + m \in Int BY <1>9
  <2>2. /\ SubSeq(all, n + 1, n + m) \in Seq(0 .. MAXLBITS)
        /\ Len(SubSeq(all, n + 1, n + m)) = IF n + 1 <= n + m THEN (n + m) - (n + 1) + 1 ELSE 0
    BY <1>11, <2>1, SubSeqProperties
  <2>3. (IF n + 1 <= n + m THEN (n + m) - (n + 1) + 1 ELSE 0) = m BY <1>9
  <2> QED BY <2>2, <2>3
<1>14. IsLens(LitOf(b)) /\ Len(LitOf(b)) = n BY <1>7, <1>12 DEF IsLens
<1>15. IsLens(DistOf(b)) /\ Len(DistOf(b)) = m BY <1>7, <1>13 DEF IsLens
<1> QED BY <1>1, <1>2, <1>4, <1>14, <1>15 DEF n, m


----------------------------------------------------------------------------
(* The bits of a block. *)

\* A function on 1 .. n is a sequence of n.
LEMMA FunSeq ==
  ASSUME NEW T, NEW n \in Nat, NEW w \in [1 .. n -> T]
  PROVE  w \in Seq(T) /\ Len(w) = n
<1>1. w \in Seq(T) OBVIOUS
<1>2. DOMAIN w = 1 .. n OBVIOUS
<1> QED BY <1>1, <1>2, LenProperties

\* A field of n bits.
LEMMA FieldBits ==
  ASSUME NEW v \in Nat, NEW n \in Nat
  PROVE  Low(v, n) \in Words /\ Len(Low(v, n)) = n
BY LowIs DEF Words

Extra(list, k) == IF list[k].s > MAXLBITS THEN Low(list[k].x, Runs[list[k].s - MAXLBITS].ext) ELSE <<>>
Item(c, list, k) == Code(c, list[k].s) \o Extra(list, k)
Items(c, list) == [k \in 1 .. Len(list) |-> Item(c, list, k)]
LensFields(b) == [k \in 1 .. b.ncode |-> Low(b.clens[Order[k] + 1], Field.len)]
TokenPart(b) == IF Used(LitOf(b)) # {} /\ LitOf(b)[END + 1] # 0 THEN TokensBits(LitOf(b), DistOf(b), b.tokens) ELSE <<>>
ListPart(b) == FlattenSeq(Items(b.clens, b.list)) \o TokenPart(b)

\* Each item of the list is a code and its extra bits.
LEMMA ItemsAre ==
  ASSUME NEW c, IsLens(c), NEW list, IsList(list)
  PROVE  /\ Items(c, list) \in Seq(Words) /\ Len(Items(c, list)) = Len(list) /\ FlattenSeq(Items(c, list)) \in Words
         /\ \A k \in 1 .. Len(list) : Items(c, list)[k] = Item(c, list, k) /\ Code(c, list[k].s) \in Words /\ Extra(list, k) \in Words
<1>1. Len(list) \in Nat BY LengthsAre
<1>2. \A k \in 1 .. Len(list) : Code(c, list[k].s) \in Words /\ Extra(list, k) \in Words
  <2> TAKE k \in 1 .. Len(list)
  <2>1. Code(c, list[k].s) \in Words BY CodeBits
  <2>2. CASE list[k].s > MAXLBITS
    <3>1. Runs[list[k].s - MAXLBITS].ext \in Nat /\ list[k].x \in Nat BY <2>2, ItemIs
    <3> QED BY <2>1, <2>2, <3>1, FieldBits DEF Extra
  <2>3. CASE ~(list[k].s > MAXLBITS) BY <2>1, <2>3, WordsJoin DEF Extra
  <2> QED BY <2>2, <2>3
<1>3. \A k \in 1 .. Len(list) : Item(c, list, k) \in Words BY <1>2, WordsJoin DEF Item
<1>4. Items(c, list) \in [1 .. Len(list) -> Words] BY <1>3 DEF Items
<1>5. Items(c, list) \in Seq(Words) /\ Len(Items(c, list)) = Len(list) BY <1>1, <1>4, FunSeq
<1>6. FlattenSeq(Items(c, list)) \in Words BY <1>5, Flattened DEF Words
<1> QED BY <1>2, <1>5, <1>6 DEF Items

\* The sizes of a dynamic block's header, and what is written into it.
LEMMA TableIs ==
  ASSUME NEW b, IsTable(b)
  PROVE  /\ IsLens(b.clens) /\ Len(b.clens) = Len(Order) /\ b.ncode \in MinCode .. Len(Order)
         /\ Field.lit \in Nat /\ Field.dist \in Nat /\ Field.code \in Nat /\ Field.len \in Nat /\ MinCode \in Nat
         /\ b.nlit - (END + 1) \in Nat /\ b.nlit - (END + 1) < Pow(Field.lit)
         /\ b.ndist - 1 \in Nat /\ b.ndist - 1 < Pow(Field.dist)
         /\ b.ncode - MinCode \in Nat /\ b.ncode - MinCode < Pow(Field.code) /\ b.ncode \in Nat
         /\ \A k \in 1 .. Len(Order) : Order[k] + 1 \in 1 .. Len(Order)
         /\ \A i \in 1 .. Len(Order) : b.clens[i] \in Nat /\ b.clens[i] < Pow(Field.len)
<1>1. /\ Field.lit \in Nat /\ Field.dist \in Nat /\ Field.code \in Nat /\ Field.len \in Nat /\ MinCode \in Nat
      /\ MinCode + Pow(Field.code) - 1 <= Len(Order) /\ Pow(Field.len) - 1 <= MAXLBITS
  BY FormatAssumption
<1>2. Pow(Field.lit) \in Nat /\ Pow(Field.dist) \in Nat /\ Pow(Field.code) \in Nat /\ Pow(Field.len) \in Nat BY <1>1, PowIs
<1>3. Len(Order) \in Nat BY TablesAre
<1>4. /\ b.nlit \in END + 1 .. END + Pow(Field.lit) /\ b.ndist \in 1 .. Pow(Field.dist)
      /\ b.ncode \in MinCode .. MinCode + Pow(Field.code) - 1
      /\ b.clens \in [1 .. Len(Order) -> 0 .. Pow(Field.len) - 1]
  BY DEF IsTable
<1>5. b.nlit \in Nat /\ b.ndist \in Nat /\ END \in Nat BY TablesOf
<1>6. b.nlit - (END + 1) \in Nat /\ b.nlit - (END + 1) < Pow(Field.lit) BY <1>2, <1>4, <1>5
<1>7. b.ndist - 1 \in Nat /\ b.ndist - 1 < Pow(Field.dist) BY <1>2, <1>4, <1>5
<1>8. b.ncode \in Nat /\ b.ncode - MinCode \in Nat /\ b.ncode - MinCode < Pow(Field.code)
  <2> DEFINE n == b.ncode
             m == MinCode
             p == Pow(Field.code)
  <2>1. m \in Nat /\ p \in Nat /\ n \in m .. m + p - 1 BY <1>1, <1>2, <1>4
  <2> HIDE DEF n, m, p
  <2>2. n \in Nat /\ n - m \in Nat /\ n - m < p BY <2>1
  <2> QED BY <2>2 DEF n, m, p
<1>9. b.ncode \in MinCode .. Len(Order) BY <1>1, <1>2, <1>3, <1>4, <1>8
<1>10. \A k \in 1 .. Len(Order) : Order[k] + 1 \in 1 .. Len(Order)
  <2> TAKE k \in 1 .. Len(Order)
  <2>1. Order[k] < Len(Order) BY FormatAssumption
  <2>2. Order \in Seq(Nat) BY FormatAssumption
  <2>3. Order[k] \in Nat BY <2>2, ElementOfSeq
  <2> QED BY <1>3, <2>1, <2>3
<1>11. \A i \in 1 .. Len(Order) : b.clens[i] \in Nat /\ b.clens[i] < Pow(Field.len) /\ b.clens[i] \in 0 .. MAXLBITS
  <2> TAKE i \in 1 .. Len(Order)
  <2>1. b.clens[i] \in 0 .. Pow(Field.len) - 1 BY <1>4
  <2> QED BY <1>1, <1>2, <2>1, Sizes
<1>12. b.clens \in [1 .. Len(Order) -> 0 .. MAXLBITS] BY <1>4, <1>11
<1>13. IsLens(b.clens) /\ Len(b.clens) = Len(Order)
  <2> DEFINE T == 0 .. MAXLBITS
  <2>1. b.clens \in [1 .. Len(Order) -> T] BY <1>12
  <2> HIDE DEF T
  <2>2. b.clens \in Seq(T) /\ Len(b.clens) = Len(Order) BY <1>3, <2>1, FunSeq
  <2> QED BY <2>2 DEF IsLens, T
<1> QED BY <1>1, <1>6, <1>7, <1>8, <1>9, <1>10, <1>11, <1>13

\* The lengths of the code for lengths, in their permuted order.
LEMMA LensFieldsAre ==
  ASSUME NEW b, IsTable(b)
  PROVE  /\ LensFields(b) \in Seq(Words) /\ Len(LensFields(b)) = b.ncode /\ FlattenSeq(LensFields(b)) \in Words
         /\ \A k \in 1 .. b.ncode : k \in 1 .. Len(Order) /\ LensFields(b)[k] = Low(b.clens[Order[k] + 1], Field.len)
<1>1. \A k \in 1 .. b.ncode : k \in 1 .. Len(Order) BY TableIs, TablesAre
<1>2. \A k \in 1 .. b.ncode : b.clens[Order[k] + 1] \in Nat BY <1>1, TableIs
<1>3. \A k \in 1 .. b.ncode : Low(b.clens[Order[k] + 1], Field.len) \in Words BY <1>2, TableIs, FieldBits
<1>4. LensFields(b) \in [1 .. b.ncode -> Words] BY <1>3 DEF LensFields
<1>5. LensFields(b) \in Seq(Words) /\ Len(LensFields(b)) = b.ncode BY <1>4, TableIs, FunSeq
<1>6. FlattenSeq(LensFields(b)) \in Words BY <1>5, Flattened DEF Words
<1> QED BY <1>1, <1>5, <1>6 DEF LensFields

\* The fields of a dynamic block, one behind the other.
LEMMA DynamicIsBits ==
  ASSUME NEW b, IsTable(b), AllFit(DistOf(b), b.tokens)
  PROVE  /\ DynamicBits(b) = Low(b.nlit - (END + 1), Field.lit) \o Low(b.ndist - 1, Field.dist) \o Low(b.ncode - MinCode, Field.code)
                             \o FlattenSeq(LensFields(b)) \o FlattenSeq(Items(b.clens, b.list)) \o TokenPart(b)
         /\ TokenPart(b) \in Words /\ ListPart(b) \in Words /\ DynamicBits(b) \in Words
<1>1. DynamicBits(b) = Low(b.nlit - (END + 1), Field.lit) \o Low(b.ndist - 1, Field.dist) \o Low(b.ncode - MinCode, Field.code)
                       \o FlattenSeq(LensFields(b)) \o FlattenSeq(Items(b.clens, b.list)) \o TokenPart(b)
  BY DEF DynamicBits, LensFields, Items, Item, Extra, TokenPart
<1>2. TokensBits(LitOf(b), DistOf(b), b.tokens) \in Words BY TablesOf, TokensAreBits
<1>3. TokenPart(b) \in Words BY <1>2, WordsJoin DEF TokenPart
<1>4. FlattenSeq(Items(b.clens, b.list)) \in Words BY TableIs, TablesOf, ItemsAre
<1>5. FlattenSeq(LensFields(b)) \in Words BY LensFieldsAre
<1>6. ListPart(b) \in Words BY <1>3, <1>4, WordsJoin DEF ListPart
<1>7. Low(b.nlit - (END + 1), Field.lit) \in Words BY TableIs, FieldBits
<1>8. Low(b.ndist - 1, Field.dist) \in Words BY TableIs, FieldBits
<1>9. Low(b.ncode - MinCode, Field.code) \in Words BY TableIs, FieldBits
<1>10. Low(b.nlit - (END + 1), Field.lit) \o Low(b.ndist - 1, Field.dist) \in Words BY <1>7, <1>8, WordsJoin
<1>11. Low(b.nlit - (END + 1), Field.lit) \o Low(b.ndist - 1, Field.dist) \o Low(b.ncode - MinCode, Field.code) \in Words
  BY <1>9, <1>10, WordsJoin
<1>12. Low(b.nlit - (END + 1), Field.lit) \o Low(b.ndist - 1, Field.dist) \o Low(b.ncode - MinCode, Field.code)
       \o FlattenSeq(LensFields(b)) \in Words
  BY <1>5, <1>11, WordsJoin
<1>13. Low(b.nlit - (END + 1), Field.lit) \o Low(b.ndist - 1, Field.dist) \o Low(b.ncode - MinCode, Field.code)
       \o FlattenSeq(LensFields(b)) \o FlattenSeq(Items(b.clens, b.list)) \in Words
  BY <1>4, <1>12, WordsJoin
<1>14. DynamicBits(b) \in Words BY <1>1, <1>3, <1>13, WordsJoin
<1> QED BY <1>1, <1>3, <1>6, <1>14

\* What stands in a stored block: its length, the check, its bytes.
ByteFields(b) == [k \in 1 .. Len(b.bytes) |-> Low(b.bytes[k], OCTET)]
Check(b) == IF b.check THEN Pow(2 * OCTET) - 1 - Len(b.bytes) ELSE Len(b.bytes)
StoredBits(b, n) == Padding(n + 3) \o Low(Len(b.bytes), 2 * OCTET) \o Low(Check(b), 2 * OCTET) \o FlattenSeq(ByteFields(b))
BlockKind(b, last, n) == <<IF last THEN 1 ELSE 0>> \o Low(b.type, 2)
Rest(b, n) ==
  CASE b.type = 0 -> StoredBits(b, n) [] b.type = 1 -> TokensBits(FixedLit, FixedDist, b.tokens)
    [] b.type = 2 -> DynamicBits(b) [] b.type = 3 -> <<>>

\* The length of a stored block, its complement or not, and its bytes.
LEMMA StoredIs ==
  ASSUME NEW b, b.type = 0, IsBlock(b), NEW n \in Nat
  PROVE  /\ 2 * OCTET \in Nat /\ Len(b.bytes) \in Nat /\ Len(b.bytes) < Pow(2 * OCTET) /\ b.check \in BOOLEAN /\ b.bytes \in Seq(Nat)
         /\ Check(b) \in Nat /\ Check(b) < Pow(2 * OCTET) /\ (b.check <=> Len(b.bytes) + Check(b) = Pow(2 * OCTET) - 1)
         /\ ByteFields(b) \in Seq(Words) /\ Len(ByteFields(b)) = Len(b.bytes) /\ FlattenSeq(ByteFields(b)) \in Words
         /\ \A k \in 1 .. Len(b.bytes) : b.bytes[k] \in Nat /\ b.bytes[k] < Pow(OCTET) /\ ByteFields(b)[k] = Low(b.bytes[k], OCTET)
         /\ Low(Len(b.bytes), 2 * OCTET) \in Words /\ Low(Check(b), 2 * OCTET) \in Words
         /\ StoredBits(b, n) \in Words
<1>1. b.bytes \in Seq(0 .. LITS - 1) /\ Len(b.bytes) < Pow(2 * OCTET) /\ b.check \in BOOLEAN BY DEF IsBlock
<1>2. Len(b.bytes) \in Nat BY <1>1, LenProperties
<1>3. 2 * OCTET \in Nat /\ 2 * OCTET - 1 \in Nat /\ (2 * OCTET - 1) + 1 = 2 * OCTET BY Sizes
<1>4. LITS \in Nat /\ LITS = Pow(OCTET) BY Sizes, PowIs DEF LITS
<1> DEFINE P == Pow(2 * OCTET)
           h == Pow(2 * OCTET - 1)
           len == Len(b.bytes)
<1>5. P \in Nat /\ h \in Nat /\ P = 2 * h BY <1>3, PowIs
<1>6. Check(b) = IF b.check THEN P - 1 - len ELSE len BY DEF Check
<1>7. len \in Nat /\ len < P BY <1>1, <1>2
<1> HIDE DEF P, h, len
<1>8. Check(b) \in Nat /\ Check(b) < P /\ (b.check <=> len + Check(b) = P - 1)
  <2>1. CASE b.check BY <1>5, <1>6, <1>7, <2>1
  <2>2. CASE ~b.check
    <3>1. Check(b) = len BY <1>6, <2>2
    <3>2. ~(2 * len = 2 * h - 1) BY <1>5, <1>7
    <3> QED BY <1>5, <1>7, <2>2, <3>1, <3>2
  <2> QED BY <2>1, <2>2
<1>9. \A k \in 1 .. Len(b.bytes) : b.bytes[k] \in Nat /\ b.bytes[k] < Pow(OCTET)
  <2> TAKE k \in 1 .. Len(b.bytes)
  <2>1. b.bytes[k] \in 0 .. LITS - 1 BY <1>1, ElementOfSeq
  <2> QED BY <1>4, <2>1
<1>10. ByteFields(b) \in [1 .. Len(b.bytes) -> Words] BY <1>9, FieldBits, Sizes DEF ByteFields
<1>11. ByteFields(b) \in Seq(Words) /\ Len(ByteFields(b)) = Len(b.bytes) BY <1>2, <1>10, FunSeq
<1>12. FlattenSeq(ByteFields(b)) \in Words BY <1>11, Flattened DEF Words
<1>13. Low(Len(b.bytes), 2 * OCTET) \in Words BY <1>2, <1>3, FieldBits
<1>14. Low(Check(b), 2 * OCTET) \in Words BY <1>3, <1>8, FieldBits
<1>15. Padding(n + 3) \in Words BY PaddingIs
<1>16. Padding(n + 3) \o Low(Len(b.bytes), 2 * OCTET) \in Words BY <1>13, <1>15, WordsJoin
<1>17. Padding(n + 3) \o Low(Len(b.bytes), 2 * OCTET) \o Low(Check(b), 2 * OCTET) \in Words BY <1>14, <1>16, WordsJoin
<1>18. StoredBits(b, n) \in Words BY <1>12, <1>17, WordsJoin DEF StoredBits
<1>19. b.bytes \in Seq(Nat)
  <2>1. b.bytes \in [1 .. Len(b.bytes) -> Nat] BY <1>1, <1>9
  <2> QED BY <1>2, <2>1, FunSeq
<1>20. Check(b) < Pow(2 * OCTET) /\ (b.check <=> Len(b.bytes) + Check(b) = Pow(2 * OCTET) - 1) BY <1>8 DEF P, len
<1> QED BY <1>1, <1>2, <1>3, <1>8, <1>9, <1>11, <1>12, <1>13, <1>14, <1>18, <1>19, <1>20 DEF ByteFields

\* Every block is the three bits of its header, and the rest.
LEMMA BlockIsBits ==
  ASSUME NEW b, IsBlock(b), NEW last \in BOOLEAN, NEW n \in Nat
  PROVE  /\ b.type \in 0 .. 3 /\ BlockBits(b, last, n) = BlockKind(b, last, n) \o Rest(b, n)
         /\ <<IF last THEN 1 ELSE 0>> \in Words /\ Low(b.type, 2) \in Words /\ BlockKind(b, last, n) \in Words
         /\ Rest(b, n) \in Words /\ BlockBits(b, last, n) \in Words /\ Len(BlockKind(b, last, n)) = 3
<1>1. b.type \in 0 .. 3 BY DEF IsBlock
<1>2. BlockBits(b, last, n) = BlockKind(b, last, n) \o Rest(b, n) BY DEF BlockBits, BlockKind, Rest, StoredBits, Check, ByteFields
<1> DEFINE f == IF last THEN 1 ELSE 0
<1>3. f \in Bit BY DEF Bit
<1> HIDE DEF f
<1>4. <<f>> \in Words /\ Len(<<f>>) = 1 BY <1>3 DEF Words
<1>5. Low(b.type, 2) \in Words /\ Len(Low(b.type, 2)) = 2
  <2>1. b.type \in Nat /\ 2 \in Nat BY <1>1
  <2> QED BY <2>1, FieldBits
<1>6. <<f>> \o Low(b.type, 2) \in Words /\ Len(<<f>> \o Low(b.type, 2)) = 3
  <2> DEFINE a == <<f>>
             c == Low(b.type, 2)
  <2>1. a \in Words /\ Len(a) = 1 /\ c \in Words /\ Len(c) = 2 BY <1>4, <1>5
  <2> HIDE DEF a, c
  <2>2. a \o c \in Words /\ Len(a \o c) = Len(a) + Len(c) BY <2>1, WordsJoin
  <2>3. a \o c \in Words /\ Len(a \o c) = 3 BY <2>1, <2>2
  <2> QED BY <2>3 DEF a, c
<1>7. Rest(b, n) \in Words
  <2>1. CASE b.type = 0
    <3>1. StoredBits(b, n) \in Words BY <2>1, StoredIs
    <3> QED BY <2>1, <3>1 DEF Rest
  <2>2. CASE b.type = 1
    <3>1. AllFit(FixedDist, b.tokens) BY <2>2 DEF IsBlock
    <3>2. TokensBits(FixedLit, FixedDist, b.tokens) \in Words BY <3>1, TablesAre, TokensAreBits
    <3> QED BY <2>2, <3>2 DEF Rest
  <2>3. CASE b.type = 2
    <3>1. IsTable(b) /\ AllFit(DistOf(b), b.tokens) BY <2>3 DEF IsBlock
    <3>2. DynamicBits(b) \in Words BY <3>1, DynamicIsBits
    <3> QED BY <2>3, <3>2 DEF Rest
  <2>4. CASE b.type = 3 BY <2>4, WordsJoin DEF Rest
  <2> QED BY <1>1, <2>1, <2>2, <2>3, <2>4
<1>8. BlockKind(b, last, n) = <<f>> \o Low(b.type, 2) BY DEF BlockKind, f
<1>9. BlockBits(b, last, n) \in Words BY <1>2, <1>6, <1>7, <1>8, WordsJoin
<1>10. <<IF last THEN 1 ELSE 0>> \in Words BY <1>4 DEF f
<1> QED BY <1>1, <1>2, <1>5, <1>6, <1>7, <1>8, <1>9, <1>10

----------------------------------------------------------------------------
(* The bits of a stream, and the bytes that carry them. *)

GoodBlocks(bs) == Len(bs) \in Nat \ {0} /\ \A k \in 1 .. Len(bs) : IsBlock(bs[k])

\* Where a block ends, and its bits.
Ahead(bs, k) == Len(BitsUpTo(bs)[k])
BitsOf(bs, k) == BlockBits(bs[k], k = Len(bs), Ahead(bs, k - 1))
WithBlock(bs, k, v) == v \o BlockBits(bs[k], k = Len(bs), Len(v))
AllBits(bs) == StreamBits(bs) \o Padding(Len(StreamBits(bs)))


\* Each block comes behind those before it.
LEMMA BitsStep ==
  ASSUME NEW bs, GoodBlocks(bs)
  PROVE  /\ BitsUpTo(bs) \in [0 .. Len(bs) -> Words] /\ BitsUpTo(bs)[0] = <<>>
         /\ \A k \in 1 .. Len(bs) : k - 1 \in 0 .. Len(bs) /\ BitsUpTo(bs)[k - 1] \in Words /\ BitsUpTo(bs)[k] = WithBlock(bs, k, BitsUpTo(bs)[k - 1])
<1> DEFINE e == CHOOSE e : e = [k \in 0 .. Len(bs) |-> IF k = 0 THEN <<>> ELSE WithBlock(bs, k, e[k - 1])]
           g == [k \in 1 .. Len(bs) |-> [v \in Words |-> WithBlock(bs, k, v)]]
<1>1. Len(bs) \in Nat /\ <<>> \in Words /\ \A k \in 1 .. Len(bs) : \A v \in Words : WithBlock(bs, k, v) \in Words
  <2>1. Len(bs) \in Nat BY DEF GoodBlocks
  <2>2. <<>> \in Words BY WordsJoin
  <2>3. ASSUME NEW k \in 1 .. Len(bs), NEW v \in Words
        PROVE  WithBlock(bs, k, v) \in Words
    <3>1. IsBlock(bs[k]) BY DEF GoodBlocks
    <3>2. Len(v) \in Nat BY WordsJoin
    <3>3. (k = Len(bs)) \in BOOLEAN OBVIOUS
    <3>4. BlockBits(bs[k], k = Len(bs), Len(v)) \in Words BY <3>1, <3>2, <3>3, BlockIsBits
    <3> QED BY <3>4, WordsJoin DEF WithBlock
  <2> QED BY <2>1, <2>2, <2>3
<1>2. g \in [1 .. Len(bs) -> [Words -> Words]] BY <1>1
<1>3. PICK f \in [0 .. Len(bs) -> Words] : f[0] = <<>> /\ \A k \in 1 .. Len(bs) : f[k] = g[k][f[k - 1]]
  <2>1. Recursions(Len(bs), Words, <<>>, g) # {}
    <3> HIDE DEF g
    <3> QED BY <1>1, <1>2, Recursive
  <2> QED BY <2>1 DEF Recursions
<1>4. \A k \in 1 .. Len(bs) : k \in 0 .. Len(bs) /\ k # 0 /\ k - 1 \in 0 .. Len(bs) BY <1>1
<1>5. \A k \in 1 .. Len(bs) : f[k - 1] \in Words /\ f[k] = WithBlock(bs, k, f[k - 1])
  <2>1. \A k \in 1 .. Len(bs) : f[k - 1] \in Words BY <1>3, <1>4
  <2> QED BY <1>3, <2>1
<1> HIDE DEF g
<1>6. f = [k \in 0 .. Len(bs) |-> IF k = 0 THEN <<>> ELSE WithBlock(bs, k, f[k - 1])]
  <2>1. \A k \in 0 .. Len(bs) : k # 0 => k \in 1 .. Len(bs) BY <1>1
  <2>2. \A k \in 0 .. Len(bs) : f[k] = IF k = 0 THEN <<>> ELSE WithBlock(bs, k, f[k - 1]) BY <1>3, <1>5, <2>1, Zenon
  <2> QED BY <1>3, <2>2
<1>7. e = [k \in 0 .. Len(bs) |-> IF k = 0 THEN <<>> ELSE WithBlock(bs, k, e[k - 1])]
  <2>1. \E x : x = [k \in 0 .. Len(bs) |-> IF k = 0 THEN <<>> ELSE WithBlock(bs, k, x[k - 1])] BY <1>6, Zenon
  <2> QED BY <2>1, Zenon
<1>8. BitsUpTo(bs) = e BY Zenon DEF BitsUpTo, WithBlock
<1> HIDE DEF e
<1>9. 0 \in 0 .. Len(bs) BY <1>1
<1>10. e[0] = <<>> /\ \A k \in 1 .. Len(bs) : e[k] = WithBlock(bs, k, e[k - 1]) BY <1>4, <1>7, <1>9, Zenon
<1>11. \A k \in 1 .. Len(bs) : f[k - 1] = e[k - 1] => f[k] = e[k] BY <1>5, <1>10, Zenon
<1>12. \A k \in 0 .. Len(bs) : f[k] = e[k]
  <2> DEFINE S == {k \in 0 .. Len(bs) : f[k] = e[k]}
  <2>1. 0 \in S BY <1>3, <1>9, <1>10
  <2>2. \A k \in 1 .. Len(bs) : k - 1 \in S => k \in S BY <1>4, <1>11
  <2>3. Len(bs) \in Nat BY <1>1
  <2>4. 0 .. Len(bs) \subseteq S
    <3> HIDE DEF S
    <3> QED BY <2>1, <2>2, <2>3, InductTo
  <2> QED BY <2>4
<1>13. e \in [0 .. Len(bs) -> Words]
  <2>1. e = [k \in 0 .. Len(bs) |-> e[k]] BY <1>7
  <2>2. \A k \in 0 .. Len(bs) : e[k] \in Words BY <1>3, <1>12
  <2> QED BY <2>1, <2>2
<1> QED BY <1>4, <1>8, <1>10, <1>13


\* Down from a bound: what holds of n and goes from each number to the one before.
LEMMA Backwards ==
  ASSUME NEW n \in Nat, NEW S, n \in S, \A k \in 1 .. n : k \in S => k - 1 \in S
  PROVE  \A k \in 0 .. n : k \in S
<1> DEFINE T == {i \in 0 .. n : n - i \in S}
<1>1. 0 \in T OBVIOUS
<1>2. \A i \in 1 .. n : i - 1 \in T => i \in T
  <2> TAKE i \in 1 .. n
  <2> HAVE i - 1 \in T
  <2>1. n - (i - 1) \in 1 .. n /\ n - (i - 1) \in S /\ (n - (i - 1)) - 1 = n - i /\ i \in 0 .. n OBVIOUS
  <2>2. n - i \in S BY <2>1
  <2> QED BY <2>1, <2>2
<1>3. 0 .. n \subseteq T
  <2> HIDE DEF T
  <2> QED BY <1>1, <1>2, InductTo
<1>4. TAKE k \in 0 .. n
<1>5. n - k \in 0 .. n /\ n - (n - k) = k OBVIOUS
<1>6. n - k \in T BY <1>3, <1>5
<1> QED BY <1>5, <1>6

\* Each block stands behind those before it, and padding fills the last byte.
LEMMA BlocksStand ==
  ASSUME NEW bs, GoodBlocks(bs)
  PROVE  /\ Ahead(bs, 0) = 0 /\ Ahead(bs, Len(bs)) = Len(StreamBits(bs))
         /\ \A k \in 0 .. Len(bs) : Ahead(bs, k) \in Nat /\ Ahead(bs, k) <= Len(StreamBits(bs))
         /\ StreamBits(bs) \in Words /\ AllBits(bs) \in Words /\ Len(StreamBits(bs)) \in Nat /\ Len(AllBits(bs)) \in Nat
         /\ Len(StreamBits(bs)) <= Len(AllBits(bs)) /\ Len(AllBits(bs)) < Len(StreamBits(bs)) + OCTET
         /\ \E m \in Nat : Len(AllBits(bs)) = m * OCTET
         /\ \A k \in 1 .. Len(bs) :
              /\ k - 1 \in 0 .. Len(bs) /\ k \in 0 .. Len(bs) /\ BitsOf(bs, k) \in Words
              /\ Stands(AllBits(bs), Ahead(bs, k - 1), BitsOf(bs, k)) /\ Ahead(bs, k) = Ahead(bs, k - 1) + Len(BitsOf(bs, k))
<1> DEFINE U == BitsUpTo(bs)
           N == Len(bs)
           A == StreamBits(bs)
           Z == Padding(Len(A))
<1>1. N \in Nat BY DEF GoodBlocks
<1>2. /\ U \in [0 .. N -> Words] /\ U[0] = <<>>
      /\ \A k \in 1 .. N : k - 1 \in 0 .. N /\ U[k - 1] \in Words /\ U[k] = WithBlock(bs, k, U[k - 1])
  BY BitsStep
<1>3. \A k \in 1 .. N : /\ k - 1 \in 0 .. N /\ k \in 0 .. N /\ BitsOf(bs, k) \in Words /\ U[k - 1] \in Words
                        /\ U[k] = U[k - 1] \o BitsOf(bs, k) /\ Len(U[k]) = Len(U[k - 1]) + Len(BitsOf(bs, k))
  <2> TAKE k \in 1 .. N
  <2>1. k - 1 \in 0 .. N /\ U[k - 1] \in Words /\ U[k] = WithBlock(bs, k, U[k - 1]) BY <1>2
  <2>2. U[k] = U[k - 1] \o BitsOf(bs, k) BY <2>1 DEF WithBlock, BitsOf, Ahead
  <2>3. IsBlock(bs[k]) BY DEF GoodBlocks
  <2>4. Len(U[k - 1]) \in Nat BY <2>1, WordsJoin
  <2>5. (k = N) \in BOOLEAN OBVIOUS
  <2>6. BlockBits(bs[k], k = Len(bs), Len(U[k - 1])) \in Words BY <2>3, <2>4, <2>5, BlockIsBits
  <2>7. BitsOf(bs, k) \in Words BY <2>6 DEF BitsOf, Ahead
  <2>8. Len(U[k]) = Len(U[k - 1]) + Len(BitsOf(bs, k)) BY <2>1, <2>2, <2>7, WordsJoin
  <2>9. k \in 0 .. N BY <1>1
  <2> QED BY <2>1, <2>2, <2>7, <2>8, <2>9
<1>4. \A k \in 0 .. N : Len(U[k]) \in Nat /\ U[k] \in Words BY <1>2, WordsJoin
<1>5. A = U[N] /\ N \in 0 .. N /\ 0 \in 0 .. N BY <1>1 DEF StreamBits
<1>6. A \in Words /\ Len(A) \in Nat BY <1>4, <1>5
<1>7. /\ Z \in Words /\ Len(Z) < OCTET /\ Len(Z) \in Nat /\ \E m \in Nat : Len(A) + Len(Z) = m * OCTET
  BY <1>6, PaddingIs
<1>8. AllBits(bs) = A \o Z BY DEF AllBits
<1>9. AllBits(bs) \in Words /\ Len(AllBits(bs)) = Len(A) + Len(Z) BY <1>6, <1>7, <1>8, WordsJoin
<1>10. Ahead(bs, 0) = 0 BY <1>2, EmptySeq DEF Ahead
<1>11. \A k \in 0 .. N : Ahead(bs, k) = Len(U[k]) BY DEF Ahead
<1> HIDE DEF U, A, Z
<1>12. \A k \in 0 .. N : Stands(AllBits(bs), 0, U[k])
  <2> DEFINE S == {k \in 0 .. N : Stands(AllBits(bs), 0, U[k])}
  <2>1. N \in S
    <3>1. A \in Seq(Bit) /\ Z \in Seq(Bit) BY <1>6, <1>7 DEF Words
    <3>2. \A i \in 1 .. Len(A) : AllBits(bs)[0 + i] = A[i]
      <4> TAKE i \in 1 .. Len(A)
      <4>1. i \in 1 .. Len(A) + Len(Z) /\ i <= Len(A) /\ 0 + i = i BY <1>6, <1>7
      <4>2. (A \o Z)[i] = A[i] BY <3>1, <4>1, ConcatProperties
      <4> QED BY <1>8, <4>1, <4>2
    <3>3. 0 + Len(A) <= Len(AllBits(bs)) BY <1>6, <1>7, <1>9
    <3>4. Stands(AllBits(bs), 0, A) BY <3>2, <3>3 DEF Stands
    <3> QED BY <1>5, <3>4
  <2>2. \A k \in 1 .. N : k \in S => k - 1 \in S
    <3> TAKE k \in 1 .. N
    <3> HAVE k \in S
    <3>1. Stands(AllBits(bs), 0, U[k - 1] \o BitsOf(bs, k)) BY <1>3
    <3>2. U[k - 1] \in Seq(Bit) /\ BitsOf(bs, k) \in Seq(Bit) BY <1>3 DEF Words
    <3>3. Len(AllBits(bs)) \in Nat BY <1>9, WordsJoin
    <3>4. Stands(AllBits(bs), 0, U[k - 1]) BY <3>1, <3>2, <3>3, StandsJoined
    <3> QED BY <1>3, <3>4
  <2> HIDE DEF S
  <2>3. \A k \in 0 .. N : k \in S BY <1>1, <2>1, <2>2, Backwards
  <2> QED BY <2>3 DEF S
<1>13. \A k \in 1 .. N : Stands(AllBits(bs), Ahead(bs, k - 1), BitsOf(bs, k))
  <2> TAKE k \in 1 .. N
  <2>1. Stands(AllBits(bs), 0, U[k - 1] \o BitsOf(bs, k)) BY <1>3, <1>12
  <2>2. U[k - 1] \in Seq(Bit) /\ BitsOf(bs, k) \in Seq(Bit) BY <1>3 DEF Words
  <2>3. Len(AllBits(bs)) \in Nat BY <1>9, WordsJoin
  <2>4. Stands(AllBits(bs), 0 + Len(U[k - 1]), BitsOf(bs, k)) BY <2>1, <2>2, <2>3, StandsJoined
  <2>5. 0 + Len(U[k - 1]) = Ahead(bs, k - 1) BY <1>3, <1>4, <1>11
  <2> QED BY <2>4, <2>5
<1>14. \A k \in 0 .. N : Ahead(bs, k) <= Len(A)
  <2> DEFINE S == {k \in 0 .. N : Ahead(bs, k) <= Len(A)}
  <2>1. N \in S BY <1>5, <1>6, <1>11
  <2>2. \A k \in 1 .. N : k \in S => k - 1 \in S
    <3> TAKE k \in 1 .. N
    <3> HAVE k \in S
    <3>1. Len(U[k]) = Len(U[k - 1]) + Len(BitsOf(bs, k)) /\ Len(BitsOf(bs, k)) \in Nat /\ Len(U[k - 1]) \in Nat BY <1>3, WordsJoin
    <3>2. Len(U[k]) <= Len(A) BY <1>3, <1>11
    <3>3. Len(U[k - 1]) <= Len(A) BY <1>6, <3>1, <3>2
    <3> QED BY <1>3, <1>11, <3>3
  <2> HIDE DEF S
  <2>3. \A k \in 0 .. N : k \in S BY <1>1, <2>1, <2>2, Backwards
  <2> QED BY <2>3 DEF S
<1>15. \A k \in 1 .. N : Ahead(bs, k) = Ahead(bs, k - 1) + Len(BitsOf(bs, k)) BY <1>3, <1>11
<1>16. /\ Len(A) <= Len(AllBits(bs)) /\ Len(AllBits(bs)) < Len(A) + OCTET /\ Len(AllBits(bs)) \in Nat
       /\ \E m \in Nat : Len(AllBits(bs)) = m * OCTET
  <2>1. \E m \in Nat : Len(AllBits(bs)) = m * OCTET BY <1>7, <1>9
  <2> DEFINE x == Len(AllBits(bs))
             d == OCTET
             z == Len(Z)
             a == Len(A)
  <2>2. x = a + z /\ z < d /\ d \in Nat /\ z \in Nat /\ a \in Nat BY <1>6, <1>7, <1>9, Sizes
  <2> HIDE DEF x, d, z, a
  <2>3. a <= x /\ x < a + d /\ x \in Nat BY <2>2
  <2> QED BY <2>1, <2>3 DEF x, a, d
<1>17. \A k \in 0 .. N : Ahead(bs, k) \in Nat BY <1>4, <1>11
<1>18. Ahead(bs, N) = Len(A) BY <1>5, <1>11
<1>19. \A k \in 1 .. N : k - 1 \in 0 .. N /\ k \in 0 .. N /\ BitsOf(bs, k) \in Words BY <1>3
<1> QED BY <1>6, <1>9, <1>10, <1>13, <1>14, <1>15, <1>16, <1>17, <1>18, <1>19 DEF A

\* The bytes of a stream carry its bits; where bytes are lost, not all of them.
LEMMA BytesCarry ==
  ASSUME NEW bs, GoodBlocks(bs), NEW lost \in 0 .. Len(Encoded(bs)),
         src = SubSeq(Encoded(bs), 1, Len(Encoded(bs)) - lost)
  PROVE  /\ Carries(AllBits(bs)) /\ Supply \in Nat /\ Len(src) \in Nat
         /\ lost = 0 => Supply = Len(AllBits(bs))
         /\ lost # 0 => Supply < Len(StreamBits(bs))
<1> DEFINE all == AllBits(bs)
           d == OCTET
           E == Encoded(bs)
           L == Len(all)
           A == Len(StreamBits(bs))
<1>1. d \in Nat \ {0} BY Sizes
<1>2. all \in Seq(Bit) /\ L \in Nat /\ A \in Nat /\ A <= L /\ L < A + d BY BlocksStand DEF Words
<1>3. PICK m \in Nat : L = m * d BY BlocksStand
<1>4. L \div d = m
  <2>1. L = d * m + 0 /\ 0 \in 0 .. d - 1 BY <1>1, <1>3
  <2> HIDE DEF L, d
  <2> QED BY <1>1, <1>2, <2>1, DivisionIs
<1>5. E = [k \in 1 .. m |-> [i \in 1 .. d |-> all[(k - 1) * d + i]]] BY <1>4 DEF Encoded, AllBits
<1>6. \A k \in 1 .. m : \A i \in 1 .. d : (k - 1) * d + i \in 1 .. L
  <2> HIDE DEF L, d
  <2> TAKE k \in 1 .. m
  <2> TAKE i \in 1 .. d
  <2> DEFINE x == (k - 1) * d
             y == (m - k) * d
  <2>1. x \in Nat /\ y \in Nat /\ L = x + d + y BY <1>1, <1>3
  <2> HIDE DEF x, y
  <2>2. x + i \in 1 .. L BY <1>1, <1>2, <2>1
  <2> QED BY <2>2 DEF x
<1>7. \A k \in 1 .. m : \A i \in 1 .. d : all[(k - 1) * d + i] \in Bit BY <1>2, <1>6, ElementOfSeq
<1> HIDE DEF all, d, E, L, A
<1>8. \A k \in 1 .. m : E[k] \in Seq(Bit) /\ Len(E[k]) = d /\ \A i \in 1 .. d : E[k][i] = all[(k - 1) * d + i]
  <2> TAKE k \in 1 .. m
  <2>1. E[k] = [i \in 1 .. d |-> all[(k - 1) * d + i]] BY <1>5
  <2>2. E[k] \in [1 .. d -> Bit] BY <1>7, <2>1
  <2> QED BY <1>1, <2>1, <2>2, FunSeq
<1>9. E \in Seq(Seq(Bit)) /\ Len(E) = m
  <2>1. E \in [1 .. m -> Seq(Bit)] BY <1>5, <1>8
  <2> QED BY <2>1, FunSeq
<1>10. lost \in 0 .. m BY <1>9 DEF E
<1> DEFINE n == m - lost
<1>11. n \in Nat /\ n <= m /\ n + lost = m BY <1>10
<1>12. src = SubSeq(E, 1, n) BY <1>9 DEF E
<1> HIDE DEF n
<1>13. src \in Seq(Seq(Bit)) /\ Len(src) = n /\ \A k \in 1 .. n : src[k] = E[k]
  <2>1. \A k \in 1 .. n : k \in 1 .. m BY <1>11
  <2>2. \A k \in 1 .. n : E[k] \in Seq(Bit) BY <1>8, <2>1
  <2>3. 1 \in Int /\ n \in Int BY <1>11
  <2>4. /\ SubSeq(E, 1, n) \in Seq(Seq(Bit)) /\ Len(SubSeq(E, 1, n)) = IF 1 <= n THEN n - 1 + 1 ELSE 0
        /\ \A i \in 1 .. n - 1 + 1 : SubSeq(E, 1, n)[i] = E[1 + i - 1]
    BY <2>2, <2>3, SubSeqProperties
  <2>5. (IF 1 <= n THEN n - 1 + 1 ELSE 0) = n /\ n - 1 + 1 = n /\ \A i \in 1 .. n : 1 + i - 1 = i BY <1>11
  <2>6. \A i \in 1 .. n : SubSeq(E, 1, n)[i] = E[i] BY <2>4, <2>5
  <2> QED BY <1>12, <2>4, <2>5, <2>6
<1> DEFINE S == n * d
           X == lost * d
<1>14. S \in Nat /\ X \in Nat /\ S + X = m * d /\ (lost = 0 => X = 0) /\ (lost # 0 => X >= d) BY <1>1, <1>10, <1>11
<1>15. Supply = S BY <1>13 DEF Supply, d
<1> HIDE DEF S, X
<1>16. S + X = L BY <1>3, <1>14
<1>17. (lost = 0 => S = L) /\ (lost # 0 => S < A) /\ S <= L BY <1>1, <1>2, <1>14, <1>16
<1>18. \A k \in 1 .. n : k \in 1 .. m BY <1>11
<1>19. \A k \in 1 .. n : Len(src[k]) = d /\ \A i \in 1 .. d : src[k][i] = all[(k - 1) * d + i] BY <1>8, <1>13, <1>18
<1>20. Carries(all) BY <1>2, <1>13, <1>15, <1>17, <1>19 DEF Carries, d, L
<1> QED BY <1>11, <1>13, <1>14, <1>15, <1>17, <1>20 DEF all, L, A

----------------------------------------------------------------------------
(* What tokens, blocks and streams stand for. *)

Meaning == [ok : BOOLEAN, text : Seq(Nat)]
Within(m, room) == m.ok /\ Len(m.text) <= room

\* A meaning is a text, or bad.
LEMMA MeaningIs ==
  /\ Bad \in Meaning /\ ~Bad.ok
  /\ \A m \in Meaning : m.ok \in BOOLEAN /\ m.text \in Seq(Nat) /\ Len(m.text) \in Nat
  /\ \A w \in Seq(Nat) : [ok |-> TRUE, text |-> w] \in Meaning /\ [ok |-> TRUE, text |-> w].ok /\ [ok |-> TRUE, text |-> w].text = w
<1>1. <<>> \in Seq(Nat) BY EmptySeq
<1>2. Bad \in Meaning /\ ~Bad.ok BY <1>1 DEF Bad, Meaning
<1>3. \A m \in Meaning : m.ok \in BOOLEAN /\ m.text \in Seq(Nat) BY DEF Meaning
<1>4. \A m \in Meaning : Len(m.text) \in Nat BY <1>3, LenProperties
<1>5. \A w \in Seq(Nat) : [ok |-> TRUE, text |-> w] \in Meaning /\ [ok |-> TRUE, text |-> w].ok /\ [ok |-> TRUE, text |-> w].text = w
  BY DEF Meaning
<1> QED BY <1>2, <1>3, <1>4, <1>5

\* What a match repeats: the text that is so far behind, from there on and around again.
Repeated(w, n, d) == [i \in 1 .. n |-> w[Len(w) - d + 1 + ((i - 1) % d)]]

\* A repeated text is as long as the match says.
LEMMA RepeatedIs ==
  ASSUME NEW w \in Seq(Nat), NEW n \in Nat, NEW d \in 1 .. Len(w)
  PROVE  Repeated(w, n, d) \in Seq(Nat) /\ Len(Repeated(w, n, d)) = n /\ w \o Repeated(w, n, d) \in Seq(Nat)
         /\ Len(w \o Repeated(w, n, d)) = Len(w) + n
<1>1. Len(w) \in Nat /\ d \in Nat \ {0} /\ d <= Len(w) BY LenProperties
<1>2. \A i \in 1 .. n : w[Len(w) - d + 1 + ((i - 1) % d)] \in Nat
  <2> TAKE i \in 1 .. n
  <2>1. i - 1 \in Nat OBVIOUS
  <2>2. (i - 1) % d \in 0 .. d - 1 BY <1>1, <2>1, Division
  <2> DEFINE r == (i - 1) % d
             L == Len(w)
  <2>3. r \in 0 .. d - 1 /\ L \in Nat /\ d <= L BY <1>1, <2>2
  <2>4. L - d + 1 + r \in 1 .. L
    <3> HIDE DEF r, L
    <3> QED BY <1>1, <2>3
  <2>5. w[L - d + 1 + r] \in Nat BY <2>4, ElementOfSeq
  <2> QED BY <2>5
<1>3. Repeated(w, n, d) \in [1 .. n -> Nat] BY <1>2 DEF Repeated
<1>4. Repeated(w, n, d) \in Seq(Nat) /\ Len(Repeated(w, n, d)) = n BY <1>3, FunSeq
<1> QED BY <1>4, ConcatProperties

Long(t) == LengthTable[t.len + 1].base + t.lx
Far(t) == DistTable[t.dist + 1].base + t.dx
Whole(l, d, t) == Coded(l, END + 1 + t.len) /\ Coded(d, t.dist) /\ t.len < Len(LengthTable)

\* A token means a longer text, or nothing when a code of it or its reach is wanting.
LEMMA TokenMeansIs ==
  ASSUME NEW l, IsLens(l), NEW d, IsLens(d), NEW t, Fits(d, t), NEW w \in Seq(Nat)
  PROVE  /\ TokenMeans(l, d, t, w) \in Meaning
         /\ TokenMeans(l, d, t, w).ok => Len(w) <= Len(TokenMeans(l, d, t, w).text)
         /\ t.kind = "lit" =>
              /\ ~Coded(l, t.lit) => TokenMeans(l, d, t, w) = Bad
              /\ Coded(l, t.lit) => TokenMeans(l, d, t, w) = [ok |-> TRUE, text |-> Append(w, t.lit)]
         /\ t.kind # "lit" =>
              /\ ~Whole(l, d, t) => TokenMeans(l, d, t, w) = Bad
              /\ Whole(l, d, t) =>
                   /\ Long(t) \in Nat /\ Far(t) \in Nat \ {0}
                   /\ Far(t) > Len(w) => TokenMeans(l, d, t, w) = Bad
                   /\ ~(Far(t) > Len(w)) =>
                        /\ Far(t) \in 1 .. Len(w)
                        /\ TokenMeans(l, d, t, w) = [ok |-> TRUE, text |-> w \o Repeated(w, Long(t), Far(t))]
<1> DEFINE T == TokenMeans(l, d, t, w)
<1>0. Len(w) \in Nat BY LenProperties
<1>1. CASE t.kind = "lit"
  <2>1. t.lit \in 0 .. LITS - 1 BY <1>1 DEF Fits
  <2>2. LITS \in Nat BY Sizes, PowIs DEF LITS
  <2>3. t.lit \in Nat BY <2>1, <2>2
  <2>4. CASE Coded(l, t.lit)
    <3>1. T = [ok |-> TRUE, text |-> Append(w, t.lit)] BY <1>1, <2>4 DEF TokenMeans
    <3>2. Append(w, t.lit) \in Seq(Nat) /\ Len(Append(w, t.lit)) = Len(w) + 1 BY <2>3, AppendProperties
    <3>3. T \in Meaning /\ T.ok /\ T.text = Append(w, t.lit) BY <3>1, <3>2, MeaningIs
    <3>4. Len(w) <= Len(T.text) BY <1>0, <3>2, <3>3
    <3> QED BY <1>1, <2>4, <3>1, <3>3, <3>4
  <2>5. CASE ~Coded(l, t.lit)
    <3>1. T = Bad BY <1>1, <2>5 DEF TokenMeans
    <3> QED BY <1>1, <2>5, <3>1, MeaningIs
  <2> QED BY <2>4, <2>5
<1>2. CASE t.kind # "lit"
  <2>1. t.kind = "match" /\ t.len \in Nat BY <1>2, TokenIsBits
  <2>2. CASE ~Whole(l, d, t)
    <3>1. T = Bad BY <1>2, <2>1, <2>2 DEF TokenMeans, Whole
    <3> QED BY <1>2, <2>2, <3>1, MeaningIs
  <2>3. CASE Whole(l, d, t)
    <3>1. Coded(d, t.dist) /\ t.len < Len(LengthTable) BY <2>3 DEF Whole
    <3>2. t.len + 1 \in 1 .. Len(LengthTable) /\ t.lx \in Nat /\ t.dist + 1 \in 1 .. Len(DistTable) /\ t.dx \in Nat
      BY <1>2, <3>1, TokenIsBits
    <3>3. LengthTable[t.len + 1].base \in Nat /\ DistTable[t.dist + 1].base \in Nat \ {0} BY <3>2, TablesAre
    <3>4. Long(t) \in Nat /\ Far(t) \in Nat \ {0}
      <4> DEFINE a == LengthTable[t.len + 1].base
                 c == DistTable[t.dist + 1].base
                 x == t.lx
                 y == t.dx
      <4>1. a \in Nat /\ c \in Nat \ {0} /\ x \in Nat /\ y \in Nat BY <3>2, <3>3
      <4>2. Long(t) = a + x /\ Far(t) = c + y BY DEF Long, Far
      <4> HIDE DEF a, c, x, y
      <4> QED BY <4>1, <4>2
    <3>5. T = IF Far(t) > Len(w) THEN Bad ELSE [ok |-> TRUE, text |-> w \o Repeated(w, Long(t), Far(t))]
      BY <2>1, <2>3 DEF TokenMeans, Whole, Far, Long, Repeated
    <3>6. CASE Far(t) > Len(w)
      <4>1. T = Bad BY <3>5, <3>6
      <4> QED BY <1>2, <2>3, <3>4, <3>6, <4>1, MeaningIs
    <3>7. CASE ~(Far(t) > Len(w))
      <4>1. Far(t) \in 1 .. Len(w) BY <1>0, <3>4, <3>7
      <4>2. T = [ok |-> TRUE, text |-> w \o Repeated(w, Long(t), Far(t))] BY <3>5, <3>7
      <4>3. w \o Repeated(w, Long(t), Far(t)) \in Seq(Nat) /\ Len(w \o Repeated(w, Long(t), Far(t))) = Len(w) + Long(t)
        BY <3>4, <4>1, RepeatedIs
      <4>4. T \in Meaning /\ T.ok /\ T.text = w \o Repeated(w, Long(t), Far(t)) BY <4>2, <4>3, MeaningIs
      <4>5. Len(w) <= Len(T.text) BY <1>0, <3>4, <4>3, <4>4
      <4> QED BY <1>2, <2>3, <3>4, <3>7, <4>1, <4>2, <4>4, <4>5
    <3> QED BY <3>6, <3>7
  <2> QED BY <2>2, <2>3
<1> QED BY <1>1, <1>2

AfterToken(ts, l, d, k, v) == IF v.ok THEN TokenMeans(l, d, ts[k], v.text) ELSE Bad


\* Token by token.
LEMMA TokensMeanStep ==
  ASSUME NEW l, IsLens(l), NEW d, IsLens(d), NEW ts, AllFit(d, ts), NEW w \in Seq(Nat)
  PROVE  /\ TokensMean(ts, l, d, w) \in [0 .. Len(ts) -> Meaning] /\ TokensMean(ts, l, d, w)[0] = [ok |-> TRUE, text |-> w]
         /\ \A k \in 1 .. Len(ts) : k - 1 \in 0 .. Len(ts) /\ TokensMean(ts, l, d, w)[k - 1] \in Meaning /\ TokensMean(ts, l, d, w)[k] = AfterToken(ts, l, d, k, TokensMean(ts, l, d, w)[k - 1])
<1> DEFINE e == CHOOSE e : e = [k \in 0 .. Len(ts) |-> IF k = 0 THEN [ok |-> TRUE, text |-> w] ELSE AfterToken(ts, l, d, k, e[k - 1])]
           g == [k \in 1 .. Len(ts) |-> [v \in Meaning |-> AfterToken(ts, l, d, k, v)]]
<1>1. Len(ts) \in Nat /\ [ok |-> TRUE, text |-> w] \in Meaning /\ \A k \in 1 .. Len(ts) : \A v \in Meaning : AfterToken(ts, l, d, k, v) \in Meaning
  <2>1. Len(ts) \in Nat BY DEF AllFit
  <2>2. [ok |-> TRUE, text |-> w] \in Meaning BY MeaningIs
  <2>3. ASSUME NEW k \in 1 .. Len(ts), NEW v \in Meaning
        PROVE  AfterToken(ts, l, d, k, v) \in Meaning
    <3>1. Fits(d, ts[k]) BY DEF AllFit
    <3>2. v.text \in Seq(Nat) BY MeaningIs
    <3>3. TokenMeans(l, d, ts[k], v.text) \in Meaning BY <3>1, <3>2, TokenMeansIs
    <3> QED BY <3>3, MeaningIs DEF AfterToken
  <2> QED BY <2>1, <2>2, <2>3
<1>2. g \in [1 .. Len(ts) -> [Meaning -> Meaning]] BY <1>1
<1>3. PICK f \in [0 .. Len(ts) -> Meaning] : f[0] = [ok |-> TRUE, text |-> w] /\ \A k \in 1 .. Len(ts) : f[k] = g[k][f[k - 1]]
  <2>1. Recursions(Len(ts), Meaning, [ok |-> TRUE, text |-> w], g) # {}
    <3> HIDE DEF g
    <3> QED BY <1>1, <1>2, Recursive
  <2> QED BY <2>1 DEF Recursions
<1>4. \A k \in 1 .. Len(ts) : k \in 0 .. Len(ts) /\ k # 0 /\ k - 1 \in 0 .. Len(ts) BY <1>1
<1>5. \A k \in 1 .. Len(ts) : f[k - 1] \in Meaning /\ f[k] = AfterToken(ts, l, d, k, f[k - 1])
  <2>1. \A k \in 1 .. Len(ts) : f[k - 1] \in Meaning BY <1>3, <1>4
  <2> QED BY <1>3, <2>1
<1> HIDE DEF g
<1>6. f = [k \in 0 .. Len(ts) |-> IF k = 0 THEN [ok |-> TRUE, text |-> w] ELSE AfterToken(ts, l, d, k, f[k - 1])]
  <2>1. \A k \in 0 .. Len(ts) : k # 0 => k \in 1 .. Len(ts) BY <1>1
  <2>2. \A k \in 0 .. Len(ts) : f[k] = IF k = 0 THEN [ok |-> TRUE, text |-> w] ELSE AfterToken(ts, l, d, k, f[k - 1]) BY <1>3, <1>5, <2>1, Zenon
  <2> QED BY <1>3, <2>2
<1>7. e = [k \in 0 .. Len(ts) |-> IF k = 0 THEN [ok |-> TRUE, text |-> w] ELSE AfterToken(ts, l, d, k, e[k - 1])]
  <2>1. \E x : x = [k \in 0 .. Len(ts) |-> IF k = 0 THEN [ok |-> TRUE, text |-> w] ELSE AfterToken(ts, l, d, k, x[k - 1])] BY <1>6, Zenon
  <2> QED BY <2>1, Zenon
<1>8. TokensMean(ts, l, d, w) = e BY Zenon DEF TokensMean, AfterToken
<1> HIDE DEF e
<1>9. 0 \in 0 .. Len(ts) BY <1>1
<1>10. e[0] = [ok |-> TRUE, text |-> w] /\ \A k \in 1 .. Len(ts) : e[k] = AfterToken(ts, l, d, k, e[k - 1]) BY <1>4, <1>7, <1>9, Zenon
<1>11. \A k \in 1 .. Len(ts) : f[k - 1] = e[k - 1] => f[k] = e[k] BY <1>5, <1>10, Zenon
<1>12. \A k \in 0 .. Len(ts) : f[k] = e[k]
  <2> DEFINE S == {k \in 0 .. Len(ts) : f[k] = e[k]}
  <2>1. 0 \in S BY <1>3, <1>9, <1>10
  <2>2. \A k \in 1 .. Len(ts) : k - 1 \in S => k \in S BY <1>4, <1>11
  <2>3. Len(ts) \in Nat BY <1>1
  <2>4. 0 .. Len(ts) \subseteq S
    <3> HIDE DEF S
    <3> QED BY <2>1, <2>2, <2>3, InductTo
  <2> QED BY <2>4
<1>13. e \in [0 .. Len(ts) -> Meaning]
  <2>1. e = [k \in 0 .. Len(ts) |-> e[k]] BY <1>7
  <2>2. \A k \in 0 .. Len(ts) : e[k] \in Meaning BY <1>3, <1>12
  <2> QED BY <2>1, <2>2
<1> QED BY <1>4, <1>8, <1>10, <1>13


\* A meaning that fits leaves room for what comes before it.
LEMMA Onwards ==
  ASSUME NEW n \in Nat, NEW M, \A k \in 0 .. n : M[k] \in Meaning,
         \A k \in 1 .. n : M[k].ok => M[k - 1].ok /\ Len(M[k - 1].text) <= Len(M[k].text),
         NEW room \in Nat, Within(M[n], room)
  PROVE  \A k \in 0 .. n : Within(M[k], room)
<1> DEFINE S == {k \in 0 .. n : Within(M[k], room)}
<1>1. n \in S OBVIOUS
<1>2. \A k \in 1 .. n : k \in S => k - 1 \in S
  <2> TAKE k \in 1 .. n
  <2> HAVE k \in S
  <2>1. k - 1 \in 0 .. n /\ k \in 0 .. n OBVIOUS
  <2>2. Len(M[k].text) \in Nat /\ Len(M[k - 1].text) \in Nat BY <2>1, MeaningIs
  <2>3. M[k].ok /\ Len(M[k].text) <= room BY DEF Within
  <2>4. M[k - 1].ok /\ Len(M[k - 1].text) <= room BY <2>2, <2>3
  <2> QED BY <2>1, <2>4 DEF Within
<1> HIDE DEF S
<1>3. \A k \in 0 .. n : k \in S BY <1>1, <1>2, Backwards
<1> QED BY <1>3 DEF S

FollowsToken(l, d, ts, w, k) ==
  LET M == TokensMean(ts, l, d, w) IN M[k - 1].ok => M[k] = TokenMeans(l, d, ts[k], M[k - 1].text)

\* What the tokens mean, one by one; the text never shrinks.
LEMMA TokensAre ==
  ASSUME NEW l, IsLens(l), NEW d, IsLens(d), NEW ts, AllFit(d, ts), NEW w \in Seq(Nat)
  PROVE  LET M == TokensMean(ts, l, d, w)
         IN  /\ M[0] = [ok |-> TRUE, text |-> w] /\ Len(ts) \in Nat
             /\ \A k \in 0 .. Len(ts) : M[k] \in Meaning
             /\ \A k \in 1 .. Len(ts) :
                  k - 1 \in 0 .. Len(ts) /\ Fits(d, ts[k]) /\ FollowsToken(l, d, ts, w, k)
             /\ M[Len(ts)].ok => Len(w) <= Len(M[Len(ts)].text)
             /\ \A room \in Nat : Within(M[Len(ts)], room) => \A k \in 0 .. Len(ts) : Within(M[k], room)
<1> DEFINE M == TokensMean(ts, l, d, w)
           n == Len(ts)
<1>1. n \in Nat BY DEF AllFit
<1>2. /\ M \in [0 .. n -> Meaning] /\ M[0] = [ok |-> TRUE, text |-> w]
      /\ \A k \in 1 .. n : k - 1 \in 0 .. n /\ M[k - 1] \in Meaning /\ M[k] = AfterToken(ts, l, d, k, M[k - 1])
  <2> HIDE DEF M, n
  <2>1. /\ TokensMean(ts, l, d, w) \in [0 .. Len(ts) -> Meaning] /\ TokensMean(ts, l, d, w)[0] = [ok |-> TRUE, text |-> w]
        /\ \A k \in 1 .. Len(ts) : /\ k - 1 \in 0 .. Len(ts) /\ TokensMean(ts, l, d, w)[k - 1] \in Meaning
                                   /\ TokensMean(ts, l, d, w)[k] = AfterToken(ts, l, d, k, TokensMean(ts, l, d, w)[k - 1])
    BY TokensMeanStep
  <2> QED BY <2>1 DEF M, n
<1>3. \A k \in 0 .. n : M[k] \in Meaning BY <1>2
<1> HIDE DEF M
<1>4. \A k \in 1 .. n : /\ Fits(d, ts[k]) /\ (M[k - 1].ok => M[k] = TokenMeans(l, d, ts[k], M[k - 1].text))
                        /\ M[k].ok => M[k - 1].ok /\ Len(M[k - 1].text) <= Len(M[k].text)
  <2> TAKE k \in 1 .. n
  <2>1. Fits(d, ts[k]) BY DEF AllFit
  <2>2. M[k - 1] \in Meaning /\ M[k] = AfterToken(ts, l, d, k, M[k - 1]) BY <1>2
  <2>3. CASE M[k - 1].ok
    <3>1. M[k] = TokenMeans(l, d, ts[k], M[k - 1].text) BY <2>2, <2>3 DEF AfterToken
    <3>2. M[k - 1].text \in Seq(Nat) BY <2>2, MeaningIs
    <3>3. TokenMeans(l, d, ts[k], M[k - 1].text).ok => Len(M[k - 1].text) <= Len(TokenMeans(l, d, ts[k], M[k - 1].text).text)
      BY <2>1, <3>2, TokenMeansIs
    <3> QED BY <2>1, <2>3, <3>1, <3>3
  <2>4. CASE ~M[k - 1].ok
    <3>1. M[k] = Bad BY <2>2, <2>4 DEF AfterToken
    <3> QED BY <2>1, <2>4, <3>1, MeaningIs
  <2> QED BY <2>3, <2>4
<1>5. ASSUME NEW room \in Nat, Within(M[n], room)
      PROVE  \A k \in 0 .. n : Within(M[k], room)
  BY <1>1, <1>3, <1>4, <1>5, Onwards
<1>6. M[n].ok => Len(w) <= Len(M[n].text)
  <2> SUFFICES ASSUME M[n].ok
               PROVE  Len(w) <= Len(M[n].text)
    OBVIOUS
  <2> DEFINE room == Len(M[n].text)
  <2>1. n \in 0 .. n /\ 0 \in 0 .. n BY <1>1
  <2>2. room \in Nat BY <1>3, <2>1, MeaningIs
  <2>3. Within(M[n], room) BY <2>2 DEF Within
  <2>4. Within(M[0], room) BY <1>5, <2>1, <2>2, <2>3
  <2>5. M[0].text = w BY <1>2
  <2> QED BY <2>4, <2>5 DEF Within
<1>7. \A k \in 1 .. n : FollowsToken(l, d, ts, w, k) BY <1>4 DEF FollowsToken, M
<1> QED BY <1>1, <1>2, <1>3, <1>4, <1>5, <1>6, <1>7 DEF M

\* The codes of a block of tokens.
LitFor(b) == IF b.type = 1 THEN FixedLit ELSE LitOf(b)
DistFor(b) == IF b.type = 1 THEN FixedDist ELSE DistOf(b)
Coding(b) == b.type = 1 \/ (b.type = 2 /\ DynamicOk(b))

\* A code of one symbol or none is never too full.
LEMMA LoneCode ==
  ASSUME NEW lens, IsLens(lens), Len(lens) = 1
  PROVE  Weight(lens) <= Pow(MAXLBITS)
<1>1. lens[1] \in 0 .. MAXLBITS BY LensAre
<1> DEFINE v == IF lens[1] = 0 THEN 0 ELSE Pow(MAXLBITS - lens[1])
           ds == [i \in 1 .. 1 |-> v]
<1>2. v \in Nat /\ v <= Pow(MAXLBITS)
  <2>1. Pow(MAXLBITS) \in Nat BY Sizes, PowIs
  <2>2. CASE lens[1] = 0 BY <2>1, <2>2
  <2>3. CASE lens[1] # 0
    <3> DEFINE a == MAXLBITS - lens[1]
               c == lens[1]
    <3>1. a \in Nat /\ c \in Nat /\ a + c = MAXLBITS BY <1>1, Sizes
    <3> HIDE DEF a, c
    <3>2. Pow(a + c) = Pow(a) * Pow(c) /\ Pow(a) \in Nat \ {0} /\ Pow(c) \in Nat \ {0} BY <3>1, PowAdd, PowIs
    <3> DEFINE x == Pow(a)
               y == Pow(c)
    <3>3. x \in Nat \ {0} /\ y \in Nat \ {0} /\ Pow(a + c) = x * y BY <3>2
    <3>4. x <= x * y
      <4> HIDE DEF x, y
      <4> QED BY <3>3
    <3>5. x \in Nat /\ x <= Pow(MAXLBITS) BY <3>1, <3>3, <3>4
    <3>6. v = x BY <2>3 DEF a
    <3> QED BY <3>5, <3>6
  <2> QED BY <2>2, <2>3
<1>3. [i \in 1 .. Len(lens) |-> IF lens[i] = 0 THEN 0 ELSE Pow(MAXLBITS - lens[i])] = ds
  <2>1. \A i \in 1 .. 1 : (IF lens[i] = 0 THEN 0 ELSE Pow(MAXLBITS - lens[i])) = v
    <3>1. \A i \in 1 .. 1 : i = 1 OBVIOUS
    <3> QED BY <3>1
  <2> QED BY <2>1
<1> HIDE DEF v
<1>4. ds \in Seq(Nat) /\ Len(ds) = 1
  <2>1. ds \in [1 .. 1 -> Nat] BY <1>2
  <2> HIDE DEF ds
  <2>2. 1 \in Nat OBVIOUS
  <2> QED BY <2>1, <2>2, FunSeq
<1>5. ds[1] = v OBVIOUS
<1> HIDE DEF ds
<1>6. SumOf(ds) = v
  <2>1. /\ Sums(ds)[0] = 0
        /\ \A k \in 1 .. Len(ds) : k - 1 \in 0 .. Len(ds) /\ Sums(ds)[k - 1] \in Nat /\ Sums(ds)[k] = Sums(ds)[k - 1] + ds[k]
    BY <1>4, SumsStep
  <2>2. Sums(ds)[1] = Sums(ds)[0] + ds[1]
    <3>1. 1 \in 1 .. Len(ds) /\ 1 - 1 = 0 BY <1>4
    <3> QED BY <2>1, <3>1
  <2>3. Sums(ds)[1] = v BY <1>2, <1>5, <2>1, <2>2
  <2> QED BY <1>4, <2>3 DEF SumOf
<1>7. Weight(lens) = v BY <1>3, <1>6 DEF Weight
<1> QED BY <1>2, <1>7

\* A block with codes has two of them that are not over-full, and its tokens can be written in them.
LEMMA CodingIs ==
  ASSUME NEW b, IsBlock(b), Coding(b)
  PROVE  /\ IsLens(LitFor(b)) /\ IsLens(DistFor(b)) /\ Weight(LitFor(b)) <= Pow(MAXLBITS) /\ Weight(DistFor(b)) <= Pow(MAXLBITS)
         /\ Coded(LitFor(b), END) /\ AllFit(DistFor(b), b.tokens) /\ AllSparing(LitFor(b), DistFor(b), b.tokens)
         /\ \A w : BlockMeans(b, w) = TokensMean(b.tokens, LitFor(b), DistFor(b), w)[Len(b.tokens)]
<1>1. CASE b.type = 1
  <2>1. LitFor(b) = FixedLit /\ DistFor(b) = FixedDist BY <1>1 DEF LitFor, DistFor
  <2>2. AllFit(FixedDist, b.tokens) /\ AllSparing(FixedLit, FixedDist, b.tokens) BY <1>1 DEF IsBlock
  <2>3. Weight(FixedLit) <= Pow(MAXLBITS) /\ Weight(FixedDist) <= Pow(MAXLBITS) /\ Coded(FixedLit, END) BY FormatAssumption DEF IsCode
  <2>4. \A w : BlockMeans(b, w) = TokensMean(b.tokens, FixedLit, FixedDist, w)[Len(b.tokens)] BY <1>1 DEF BlockMeans
  <2> QED BY <2>1, <2>2, <2>3, <2>4, TablesAre
<1>2. CASE b.type = 2 /\ DynamicOk(b)
  <2>1. LitFor(b) = LitOf(b) /\ DistFor(b) = DistOf(b) BY <1>2 DEF LitFor, DistFor
  <2>2. IsTable(b) /\ AllFit(DistOf(b), b.tokens) /\ AllSparing(LitOf(b), DistOf(b), b.tokens) BY <1>2 DEF IsBlock
  <2>3. IsCode(LitOf(b)) /\ Coded(LitOf(b), END) /\ (IsCode(DistOf(b)) \/ b.ndist = 1) BY <1>2 DEF DynamicOk
  <2>4. IsLens(LitOf(b)) /\ IsLens(DistOf(b)) /\ Len(DistOf(b)) = b.ndist BY <2>2, TablesOf
  <2>5. Weight(DistOf(b)) <= Pow(MAXLBITS)
    <3>1. CASE IsCode(DistOf(b)) BY <3>1 DEF IsCode
    <3>2. CASE b.ndist = 1 BY <2>4, <3>2, LoneCode
    <3> QED BY <2>3, <3>1, <3>2
  <2>6. \A w : BlockMeans(b, w) = TokensMean(b.tokens, LitOf(b), DistOf(b), w)[Len(b.tokens)] BY <1>2 DEF BlockMeans
  <2>7. Weight(LitOf(b)) <= Pow(MAXLBITS) BY <2>3 DEF IsCode
  <2> QED BY <2>1, <2>2, <2>3, <2>4, <2>5, <2>6, <2>7
<1> QED BY <1>1, <1>2 DEF Coding

\* A block means what its tokens or its bytes mean, behind what there is.
LEMMA BlockMeansIs ==
  ASSUME NEW b, IsBlock(b), NEW w \in Seq(Nat)
  PROVE  /\ BlockMeans(b, w) \in Meaning
         /\ BlockMeans(b, w).ok => Len(w) <= Len(BlockMeans(b, w).text) /\ (Coding(b) \/ (b.type = 0 /\ b.check))
         /\ b.type = 0 /\ b.check => BlockMeans(b, w) = [ok |-> TRUE, text |-> w \o b.bytes]
<1>0. Len(w) \in Nat BY LenProperties
<1>1. CASE b.type = 0
  <2>1. b.bytes \in Seq(Nat) /\ Len(b.bytes) \in Nat /\ b.check \in BOOLEAN
    <3>1. 0 \in Nat OBVIOUS
    <3> QED BY <1>1, <3>1, StoredIs
  <2>2. CASE b.check
    <3>1. BlockMeans(b, w) = [ok |-> TRUE, text |-> w \o b.bytes] BY <1>1, <2>2 DEF BlockMeans
    <3>2. w \o b.bytes \in Seq(Nat) /\ Len(w \o b.bytes) = Len(w) + Len(b.bytes) BY <2>1, ConcatProperties
    <3>3. BlockMeans(b, w) \in Meaning /\ BlockMeans(b, w).text = w \o b.bytes BY <3>1, <3>2, MeaningIs
    <3>4. Len(w) <= Len(BlockMeans(b, w).text) BY <1>0, <2>1, <3>2, <3>3
    <3> QED BY <1>1, <2>2, <3>1, <3>3, <3>4
  <2>3. CASE ~b.check
    <3>1. BlockMeans(b, w) = Bad BY <1>1, <2>3 DEF BlockMeans
    <3> QED BY <2>3, <3>1, MeaningIs
  <2> QED BY <2>2, <2>3
<1>2. CASE Coding(b)
  <2>1. /\ TokensMean(b.tokens, LitFor(b), DistFor(b), w)[Len(b.tokens)] = BlockMeans(b, w)
        /\ IsLens(LitFor(b)) /\ IsLens(DistFor(b)) /\ AllFit(DistFor(b), b.tokens)
    BY <1>2, CodingIs
  <2>2. Len(b.tokens) \in Nat /\ Len(b.tokens) \in 0 .. Len(b.tokens) BY <2>1, TokensAre
  <2>3. /\ TokensMean(b.tokens, LitFor(b), DistFor(b), w)[Len(b.tokens)] \in Meaning
        /\ TokensMean(b.tokens, LitFor(b), DistFor(b), w)[Len(b.tokens)].ok =>
             Len(w) <= Len(TokensMean(b.tokens, LitFor(b), DistFor(b), w)[Len(b.tokens)].text)
    BY <2>1, <2>2, TokensAre
  <2>4. b.type # 0 BY <1>2 DEF Coding
  <2> QED BY <1>2, <2>1, <2>3, <2>4
<1>3. CASE b.type # 0 /\ ~Coding(b)
  <2>1. BlockMeans(b, w) = Bad
    <3>1. b.type \in {2, 3} /\ (b.type = 2 => ~DynamicOk(b)) BY <1>3 DEF IsBlock, Coding
    <3> QED BY <3>1 DEF BlockMeans
  <2> QED BY <1>3, <2>1, MeaningIs
<1> QED BY <1>1, <1>2, <1>3

AfterBlockMeans(bs, k, v) == IF v.ok THEN BlockMeans(bs[k], v.text) ELSE Bad


\* Block by block.
LEMMA BlocksMeanStep ==
  ASSUME NEW bs, GoodBlocks(bs)
  PROVE  /\ BlocksMean(bs) \in [0 .. Len(bs) -> Meaning] /\ BlocksMean(bs)[0] = [ok |-> TRUE, text |-> <<>>]
         /\ \A k \in 1 .. Len(bs) : k - 1 \in 0 .. Len(bs) /\ BlocksMean(bs)[k - 1] \in Meaning /\ BlocksMean(bs)[k] = AfterBlockMeans(bs, k, BlocksMean(bs)[k - 1])
<1> DEFINE e == CHOOSE e : e = [k \in 0 .. Len(bs) |-> IF k = 0 THEN [ok |-> TRUE, text |-> <<>>] ELSE AfterBlockMeans(bs, k, e[k - 1])]
           g == [k \in 1 .. Len(bs) |-> [v \in Meaning |-> AfterBlockMeans(bs, k, v)]]
<1>1. Len(bs) \in Nat /\ [ok |-> TRUE, text |-> <<>>] \in Meaning /\ \A k \in 1 .. Len(bs) : \A v \in Meaning : AfterBlockMeans(bs, k, v) \in Meaning
  <2>1. Len(bs) \in Nat BY DEF GoodBlocks
  <2>2. [ok |-> TRUE, text |-> <<>>] \in Meaning BY MeaningIs, EmptySeq
  <2>3. ASSUME NEW k \in 1 .. Len(bs), NEW v \in Meaning
        PROVE  AfterBlockMeans(bs, k, v) \in Meaning
    <3>1. IsBlock(bs[k]) BY DEF GoodBlocks
    <3>2. v.text \in Seq(Nat) BY MeaningIs
    <3>3. BlockMeans(bs[k], v.text) \in Meaning BY <3>1, <3>2, BlockMeansIs
    <3> QED BY <3>3, MeaningIs DEF AfterBlockMeans
  <2> QED BY <2>1, <2>2, <2>3
<1>2. g \in [1 .. Len(bs) -> [Meaning -> Meaning]] BY <1>1
<1>3. PICK f \in [0 .. Len(bs) -> Meaning] : f[0] = [ok |-> TRUE, text |-> <<>>] /\ \A k \in 1 .. Len(bs) : f[k] = g[k][f[k - 1]]
  <2>1. Recursions(Len(bs), Meaning, [ok |-> TRUE, text |-> <<>>], g) # {}
    <3> HIDE DEF g
    <3> QED BY <1>1, <1>2, Recursive
  <2> QED BY <2>1 DEF Recursions
<1>4. \A k \in 1 .. Len(bs) : k \in 0 .. Len(bs) /\ k # 0 /\ k - 1 \in 0 .. Len(bs) BY <1>1
<1>5. \A k \in 1 .. Len(bs) : f[k - 1] \in Meaning /\ f[k] = AfterBlockMeans(bs, k, f[k - 1])
  <2>1. \A k \in 1 .. Len(bs) : f[k - 1] \in Meaning BY <1>3, <1>4
  <2> QED BY <1>3, <2>1
<1> HIDE DEF g
<1>6. f = [k \in 0 .. Len(bs) |-> IF k = 0 THEN [ok |-> TRUE, text |-> <<>>] ELSE AfterBlockMeans(bs, k, f[k - 1])]
  <2>1. \A k \in 0 .. Len(bs) : k # 0 => k \in 1 .. Len(bs) BY <1>1
  <2>2. \A k \in 0 .. Len(bs) : f[k] = IF k = 0 THEN [ok |-> TRUE, text |-> <<>>] ELSE AfterBlockMeans(bs, k, f[k - 1]) BY <1>3, <1>5, <2>1, Zenon
  <2> QED BY <1>3, <2>2
<1>7. e = [k \in 0 .. Len(bs) |-> IF k = 0 THEN [ok |-> TRUE, text |-> <<>>] ELSE AfterBlockMeans(bs, k, e[k - 1])]
  <2>1. \E x : x = [k \in 0 .. Len(bs) |-> IF k = 0 THEN [ok |-> TRUE, text |-> <<>>] ELSE AfterBlockMeans(bs, k, x[k - 1])] BY <1>6, Zenon
  <2> QED BY <2>1, Zenon
<1>8. BlocksMean(bs) = e BY Zenon DEF BlocksMean, AfterBlockMeans
<1> HIDE DEF e
<1>9. 0 \in 0 .. Len(bs) BY <1>1
<1>10. e[0] = [ok |-> TRUE, text |-> <<>>] /\ \A k \in 1 .. Len(bs) : e[k] = AfterBlockMeans(bs, k, e[k - 1]) BY <1>4, <1>7, <1>9, Zenon
<1>11. \A k \in 1 .. Len(bs) : f[k - 1] = e[k - 1] => f[k] = e[k] BY <1>5, <1>10, Zenon
<1>12. \A k \in 0 .. Len(bs) : f[k] = e[k]
  <2> DEFINE S == {k \in 0 .. Len(bs) : f[k] = e[k]}
  <2>1. 0 \in S BY <1>3, <1>9, <1>10
  <2>2. \A k \in 1 .. Len(bs) : k - 1 \in S => k \in S BY <1>4, <1>11
  <2>3. Len(bs) \in Nat BY <1>1
  <2>4. 0 .. Len(bs) \subseteq S
    <3> HIDE DEF S
    <3> QED BY <2>1, <2>2, <2>3, InductTo
  <2> QED BY <2>4
<1>13. e \in [0 .. Len(bs) -> Meaning]
  <2>1. e = [k \in 0 .. Len(bs) |-> e[k]] BY <1>7
  <2>2. \A k \in 0 .. Len(bs) : e[k] \in Meaning BY <1>3, <1>12
  <2> QED BY <2>1, <2>2
<1> QED BY <1>4, <1>8, <1>10, <1>13


Mean(bs, k) == BlocksMean(bs)[k]

\* What the blocks mean, one by one; within the room at last is within it always.
LEMMA BlocksAre ==
  ASSUME NEW bs, GoodBlocks(bs)
  PROVE  /\ Mean(bs, 0) = [ok |-> TRUE, text |-> <<>>] /\ Mean(bs, Len(bs)) = StreamMeans(bs)
         /\ \A k \in 0 .. Len(bs) : Mean(bs, k) \in Meaning
         /\ \A k \in 1 .. Len(bs) :
              /\ k - 1 \in 0 .. Len(bs) /\ k \in 0 .. Len(bs) /\ IsBlock(bs[k])
              /\ Mean(bs, k - 1).ok => Mean(bs, k) = BlockMeans(bs[k], Mean(bs, k - 1).text)
         /\ \A room \in Nat : Within(StreamMeans(bs), room) => \A k \in 0 .. Len(bs) : Within(Mean(bs, k), room)
<1> DEFINE M == BlocksMean(bs)
           n == Len(bs)
<1>1. n \in Nat BY DEF GoodBlocks
<1>2. /\ M \in [0 .. n -> Meaning] /\ M[0] = [ok |-> TRUE, text |-> <<>>]
      /\ \A k \in 1 .. n : k - 1 \in 0 .. n /\ M[k - 1] \in Meaning /\ M[k] = AfterBlockMeans(bs, k, M[k - 1])
  BY BlocksMeanStep
<1>3. \A k \in 0 .. n : M[k] \in Meaning BY <1>2
<1>0. \A k \in 0 .. n : Mean(bs, k) = M[k] BY DEF Mean
<1> HIDE DEF M
<1>4. \A k \in 1 .. n : /\ IsBlock(bs[k]) /\ (M[k - 1].ok => M[k] = BlockMeans(bs[k], M[k - 1].text))
                        /\ M[k].ok => M[k - 1].ok /\ Len(M[k - 1].text) <= Len(M[k].text)
  <2> TAKE k \in 1 .. n
  <2>1. IsBlock(bs[k]) BY DEF GoodBlocks
  <2>2. M[k - 1] \in Meaning /\ M[k] = AfterBlockMeans(bs, k, M[k - 1]) BY <1>2
  <2>3. CASE M[k - 1].ok
    <3>1. M[k] = BlockMeans(bs[k], M[k - 1].text) BY <2>2, <2>3 DEF AfterBlockMeans
    <3>2. M[k - 1].text \in Seq(Nat) BY <2>2, MeaningIs
    <3>3. BlockMeans(bs[k], M[k - 1].text).ok => Len(M[k - 1].text) <= Len(BlockMeans(bs[k], M[k - 1].text).text)
      BY <2>1, <3>2, BlockMeansIs
    <3> QED BY <2>1, <2>3, <3>1, <3>3
  <2>4. CASE ~M[k - 1].ok
    <3>1. M[k] = Bad BY <2>2, <2>4 DEF AfterBlockMeans
    <3> QED BY <2>1, <2>4, <3>1, MeaningIs
  <2> QED BY <2>3, <2>4
<1>5. M[n] = StreamMeans(bs) BY DEF M, StreamMeans
<1>6. ASSUME NEW room \in Nat, Within(M[n], room)
      PROVE  \A k \in 0 .. n : Within(M[k], room)
  BY <1>1, <1>3, <1>4, <1>6, Onwards
<1>7. \A k \in 1 .. n : k - 1 \in 0 .. n /\ k \in 0 .. n BY <1>1
<1>8. 0 \in 0 .. n /\ n \in 0 .. n BY <1>1
<1> QED BY <1>0, <1>2, <1>3, <1>4, <1>5, <1>6, <1>7, <1>8

----------------------------------------------------------------------------
(* A match, byte by byte: the text that it repeats. *)

Copying(n, d) ==
  LET upTo[k \in 0 .. n] == IF k = 0 THEN out ELSE Append(upTo[k - 1], upTo[k - 1][Len(upTo[k - 1]) - d + 1]) IN upTo
Behind(d) == {v \in Seq(Nat) : d <= Len(v)}


\* Each byte is the one so far behind.
LEMMA CopyingStep ==
  ASSUME out \in Seq(Nat), NEW n \in Nat, NEW d \in 1 .. Len(out)
  PROVE  /\ Copying(n, d) \in [0 .. n -> Behind(d)] /\ Copying(n, d)[0] = out
         /\ \A k \in 1 .. n : k - 1 \in 0 .. n /\ Copying(n, d)[k - 1] \in Behind(d) /\ Copying(n, d)[k] = Append(Copying(n, d)[k - 1], Copying(n, d)[k - 1][Len(Copying(n, d)[k - 1]) - d + 1])
<1> DEFINE e == CHOOSE e : e = [k \in 0 .. n |-> IF k = 0 THEN out ELSE Append(e[k - 1], e[k - 1][Len(e[k - 1]) - d + 1])]
           g == [k \in 1 .. n |-> [v \in Behind(d) |-> Append(v, v[Len(v) - d + 1])]]
<1>1. n \in Nat /\ out \in Behind(d) /\ \A k \in 1 .. n : \A v \in Behind(d) : Append(v, v[Len(v) - d + 1]) \in Behind(d)
  <2>1. Len(out) \in Nat /\ d \in Nat \ {0} /\ d <= Len(out) BY LenProperties
  <2>2. out \in Behind(d) BY <2>1 DEF Behind
  <2>3. ASSUME NEW v \in Behind(d)
        PROVE  Append(v, v[Len(v) - d + 1]) \in Behind(d)
    <3>1. v \in Seq(Nat) /\ Len(v) \in Nat /\ d <= Len(v) BY LenProperties DEF Behind
    <3>2. Len(v) - d + 1 \in 1 .. Len(v) BY <2>1, <3>1
    <3>3. v[Len(v) - d + 1] \in Nat BY <3>1, <3>2, ElementOfSeq
    <3>4. Append(v, v[Len(v) - d + 1]) \in Seq(Nat) /\ Len(Append(v, v[Len(v) - d + 1])) = Len(v) + 1 BY <3>1, <3>3, AppendProperties
    <3>5. d <= Len(Append(v, v[Len(v) - d + 1])) BY <2>1, <3>1, <3>4
    <3> QED BY <3>4, <3>5 DEF Behind
  <2> QED BY <2>2, <2>3
<1>2. g \in [1 .. n -> [Behind(d) -> Behind(d)]] BY <1>1
<1>3. PICK f \in [0 .. n -> Behind(d)] : f[0] = out /\ \A k \in 1 .. n : f[k] = g[k][f[k - 1]]
  <2>1. Recursions(n, Behind(d), out, g) # {}
    <3> HIDE DEF g
    <3> QED BY <1>1, <1>2, Recursive
  <2> QED BY <2>1 DEF Recursions
<1>4. \A k \in 1 .. n : k \in 0 .. n /\ k # 0 /\ k - 1 \in 0 .. n BY <1>1
<1>5. \A k \in 1 .. n : f[k - 1] \in Behind(d) /\ f[k] = Append(f[k - 1], f[k - 1][Len(f[k - 1]) - d + 1])
  <2>1. \A k \in 1 .. n : f[k - 1] \in Behind(d) BY <1>3, <1>4
  <2> QED BY <1>3, <2>1
<1> HIDE DEF g
<1>6. f = [k \in 0 .. n |-> IF k = 0 THEN out ELSE Append(f[k - 1], f[k - 1][Len(f[k - 1]) - d + 1])]
  <2>1. \A k \in 0 .. n : k # 0 => k \in 1 .. n BY <1>1
  <2>2. \A k \in 0 .. n : f[k] = IF k = 0 THEN out ELSE Append(f[k - 1], f[k - 1][Len(f[k - 1]) - d + 1]) BY <1>3, <1>5, <2>1, Zenon
  <2> QED BY <1>3, <2>2
<1>7. e = [k \in 0 .. n |-> IF k = 0 THEN out ELSE Append(e[k - 1], e[k - 1][Len(e[k - 1]) - d + 1])]
  <2>1. \E x : x = [k \in 0 .. n |-> IF k = 0 THEN out ELSE Append(x[k - 1], x[k - 1][Len(x[k - 1]) - d + 1])] BY <1>6, Zenon
  <2> QED BY <2>1, Zenon
<1>8. Copying(n, d) = e BY Zenon DEF Copying
<1> HIDE DEF e
<1>9. 0 \in 0 .. n BY <1>1
<1>10. e[0] = out /\ \A k \in 1 .. n : e[k] = Append(e[k - 1], e[k - 1][Len(e[k - 1]) - d + 1]) BY <1>4, <1>7, <1>9, Zenon
<1>11. \A k \in 1 .. n : f[k - 1] = e[k - 1] => f[k] = e[k] BY <1>5, <1>10, Zenon
<1>12. \A k \in 0 .. n : f[k] = e[k]
  <2> DEFINE S == {k \in 0 .. n : f[k] = e[k]}
  <2>1. 0 \in S BY <1>3, <1>9, <1>10
  <2>2. \A k \in 1 .. n : k - 1 \in S => k \in S BY <1>4, <1>11
  <2>3. n \in Nat BY <1>1
  <2>4. 0 .. n \subseteq S
    <3> HIDE DEF S
    <3> QED BY <2>1, <2>2, <2>3, InductTo
  <2> QED BY <2>4
<1>13. e \in [0 .. n -> Behind(d)]
  <2>1. e = [k \in 0 .. n |-> e[k]] BY <1>7
  <2>2. \A k \in 0 .. n : e[k] \in Behind(d) BY <1>3, <1>12
  <2> QED BY <2>1, <2>2
<1> QED BY <1>4, <1>8, <1>10, <1>13


\* A distance later it is the same byte again.
LEMMA Again ==
  ASSUME NEW m \in Nat, NEW d \in Nat \ {0}
  PROVE  (m + d) % d = m % d /\ (m < d => m % d = m)
<1> DEFINE q == m \div d
           s == m % d
<1>1. m = d * q + s /\ s \in 0 .. d - 1 /\ q \in Nat BY Division
<1> HIDE DEF q, s
<1>2. (m + d) % d = s
  <2> DEFINE p == q + 1
             j == m + d
             y == d * q
  <2>1. y \in Nat /\ d * p = y + d BY <1>1
  <2>2. m = y + s BY <1>1
  <2>3. p \in Nat /\ j \in Nat BY <1>1
  <2> HIDE DEF y, p
  <2>4. j = d * p + s BY <1>1, <2>1, <2>2
  <2> HIDE DEF j
  <2>5. j % d = s BY <1>1, <2>3, <2>4, DivisionIs
  <2> QED BY <2>5 DEF j
<1>3. m < d => m % d = m
  <2> SUFFICES ASSUME m < d
               PROVE  m % d = m
    OBVIOUS
  <2>1. m = d * 0 + m /\ m \in 0 .. d - 1 /\ 0 \in Nat OBVIOUS
  <2> QED BY <2>1, DivisionIs
<1> QED BY <1>2, <1>3 DEF s

\* The copying loop, which reads bytes that it has just written, repeats the text as the format says.
LEMMA CopiedIs ==
  ASSUME out \in Seq(Nat), NEW n \in Nat, NEW d \in 1 .. Len(out)
  PROVE  Copied(n, d) = Repeated(out, n, d)
<1> DEFINE U == Copying(n, d)
           L == Len(out)
           R == [i \in 1 .. n |-> out[L - d + 1 + ((i - 1) % d)]]
<1>1. L \in Nat /\ d \in Nat \ {0} /\ d <= L BY LenProperties
<1>2. /\ U \in [0 .. n -> Behind(d)] /\ U[0] = out
      /\ \A k \in 1 .. n : k - 1 \in 0 .. n /\ U[k - 1] \in Behind(d) /\ U[k] = Append(U[k - 1], U[k - 1][Len(U[k - 1]) - d + 1])
  BY CopyingStep
<1>3. \A k \in 0 .. n : U[k] \in Seq(Nat) BY <1>2 DEF Behind
<1>4. Copied(n, d) = SubSeq(U[n], L + 1, L + n) BY DEF Copied, Copying
<1>5. Repeated(out, n, d) = R BY DEF Repeated
<1> DEFINE Holds(k) == /\ Len(U[k]) = L + k
                       /\ \A i \in 1 .. L : U[k][i] = out[i]
                       /\ \A i \in 1 .. k : U[k][L + i] = R[i]
           S == {k \in 0 .. n : Holds(k)}
<1> HIDE DEF U, L
<1>6. 0 \in S
  <2>1. 0 \in 0 .. n /\ L + 0 = L BY <1>1
  <2>2. Len(U[0]) = L + 0 BY <1>2, <2>1 DEF L
  <2> QED BY <1>2, <2>1, <2>2
<1>7. \A k \in 1 .. n : k - 1 \in S => k \in S
  <2> TAKE k \in 1 .. n
  <2> HAVE k - 1 \in S
  <2> DEFINE v == U[k - 1]
             a == L + k - d
  <2>1. v \in Seq(Nat) /\ Len(v) = L + (k - 1) /\ (\A i \in 1 .. L : v[i] = out[i]) /\ \A i \in 1 .. k - 1 : v[L + i] = R[i]
    BY <1>2, <1>3
  <2>2. Len(v) - d + 1 = a /\ a \in 1 .. Len(v)
    <3> DEFINE w == Len(v)
    <3>1. w = L + (k - 1) /\ k \in Nat /\ 1 <= k BY <2>1
    <3> HIDE DEF w
    <3>2. w - d + 1 = L + k - d /\ L + k - d \in 1 .. w BY <1>1, <3>1
    <3> QED BY <3>2 DEF w
  <2>3. U[k] = Append(v, v[a]) BY <1>2, <2>2
  <2>4. v[a] \in Nat BY <2>1, <2>2, ElementOfSeq
  <2>5. /\ Len(Append(v, v[a])) = Len(v) + 1 /\ (\A i \in 1 .. Len(v) : Append(v, v[a])[i] = v[i])
        /\ Append(v, v[a])[Len(v) + 1] = v[a]
    BY <2>1, <2>4, AppendProperties
  <2>6. k \in Nat \ {0} /\ k <= n OBVIOUS
  <2> DEFINE r == (k - 1) % d
  <2>7. R[k] = out[L - d + 1 + r] OBVIOUS
  <2>8. v[a] = R[k]
    <3>1. CASE k <= d
      <4>1. k - 1 = d * 0 + (k - 1) /\ k - 1 \in 0 .. d - 1 /\ k - 1 \in Nat BY <1>1, <2>6, <3>1
      <4>2. r = k - 1
        <5> DEFINE j == k - 1
        <5>1. j \in Nat /\ j < d BY <1>1, <4>1
        <5> HIDE DEF j, S
        <5>2. j % d = j BY <1>1, <5>1, Again
        <5> QED BY <5>2 DEF j
      <4>3. L - d + 1 + (k - 1) = a /\ a \in 1 .. L BY <1>1, <2>6, <3>1
      <4> QED BY <2>1, <2>7, <4>2, <4>3
    <3>2. CASE k > d
      <4> DEFINE m == k - 1 - d
                 s == m % d
      <4>1. m \in Nat BY <1>1, <2>6, <3>2
      <4>4. r = s
        <5>1. m + d = k - 1 BY <1>1, <2>6
        <5> HIDE DEF m, S
        <5>2. (m + d) % d = m % d BY <1>1, <4>1, Again
        <5> QED BY <5>1, <5>2
      <4>5. k - d \in 1 .. k - 1 /\ k - d \in 1 .. n /\ a = L + (k - d) /\ (k - d) - 1 = m BY <1>1, <2>6, <3>2
      <4>6. v[a] = R[k - d] BY <2>1, <4>5
      <4>7. R[k - d] = out[L - d + 1 + (m % d)] BY <4>5
      <4> QED BY <2>7, <4>4, <4>6, <4>7
    <3> QED BY <1>1, <2>6, <3>1, <3>2
  <2> HIDE DEF R, r, a
  <2>9. Len(U[k]) = L + k BY <1>1, <2>1, <2>3, <2>5, <2>6
  <2>10. \A i \in 1 .. L : U[k][i] = out[i]
    <3> TAKE i \in 1 .. L
    <3>1. i \in 1 .. Len(v) BY <1>1, <2>1, <2>6
    <3> QED BY <2>1, <2>3, <2>5, <3>1
  <2>11. \A i \in 1 .. k : U[k][L + i] = R[i]
    <3> TAKE i \in 1 .. k
    <3>1. CASE i = k
      <4>1. L + i = Len(v) + 1 BY <1>1, <2>1, <2>6, <3>1
      <4> QED BY <2>3, <2>5, <2>8, <3>1, <4>1
    <3>2. CASE i # k
      <4>1. i \in 1 .. k - 1 /\ L + i \in 1 .. Len(v)
        <5> HIDE DEF v, S
        <5> QED BY <1>1, <2>1, <2>6, <3>2
      <4> QED BY <2>1, <2>3, <2>5, <4>1
    <3> QED BY <3>1, <3>2
  <2>12. k \in 0 .. n BY <2>6
  <2> QED BY <2>9, <2>10, <2>11, <2>12
<1>8. 0 .. n \subseteq S
  <2> HIDE DEF S
  <2> QED BY <1>6, <1>7, InductTo
<1>9. Holds(n)
  <2>1. n \in 0 .. n OBVIOUS
  <2> QED BY <1>8, <2>1
<1>10. SubSeq(U[n], L + 1, L + n) = R
  <2> DEFINE w == U[n]
             x == SubSeq(w, L + 1, L + n)
  <2>1. w \in Seq(Nat) /\ Len(w) = L + n BY <1>3, <1>9
  <2>2. \A i \in L + 1 .. L + n : w[i] \in Nat
    <3> TAKE i \in L + 1 .. L + n
    <3>1. i \in 1 .. Len(w) BY <1>1, <2>1
    <3> QED BY <2>1, <3>1, ElementOfSeq
  <2>3. L + 1 \in Int /\ L + n \in Int BY <1>1
  <2>4. /\ x \in Seq(Nat) /\ Len(x) = IF L + 1 <= L + n THEN (L + n) - (L + 1) + 1 ELSE 0
        /\ \A i \in 1 .. (L + n) - (L + 1) + 1 : x[i] = w[(L + 1) + i - 1]
    BY <2>2, <2>3, SubSeqProperties
  <2>5. (IF L + 1 <= L + n THEN (L + n) - (L + 1) + 1 ELSE 0) = n /\ (L + n) - (L + 1) + 1 = n BY <1>1
  <2>6. Len(x) = n /\ \A i \in 1 .. n : x[i] = w[L + i]
    <3>1. \A i \in 1 .. n : (L + 1) + i - 1 = L + i BY <1>1
    <3> QED BY <2>4, <2>5, <3>1
  <2>7. \A i \in 1 .. n : x[i] = R[i] BY <1>9, <2>6
  <2>8. x = [i \in 1 .. Len(x) |-> x[i]]
    <3>1. DOMAIN x = 1 .. Len(x) BY <2>4, LenProperties
    <3> HIDE DEF x
    <3> QED BY <2>4, <3>1
  <2> HIDE DEF x
  <2>9. x = [i \in 1 .. n |-> R[i]] BY <2>6, <2>7, <2>8
  <2> QED BY <2>9 DEF x
<1> QED BY <1>4, <1>5, <1>10

----------------------------------------------------------------------------
(* A reader behind what it has read, or out of input before it.            *)

Got(all, r, p) == IsReader(r) /\ (p <= Supply => ReadsAt(all, r, p)) /\ (~(p <= Supply) => r.ok = FALSE)

\* A reader at a place has got there.
LEMMA GotIs ==
  ASSUME NEW all, Carries(all), NEW r, NEW p, ReadsAt(all, r, p)
  PROVE  p \in Nat /\ p <= Supply /\ Got(all, r, p)
<1>1. Len(src) \in Nat /\ OCTET \in Nat \ {0} BY LenProperties, Sizes DEF Carries
<1>2. r.pos \in 0 .. Len(src) /\ p \in Nat /\ p + Len(r.buf) = r.pos * OCTET /\ Len(r.buf) \in Nat /\ IsReader(r)
  BY LenProperties DEF ReadsAt
<1> DEFINE a == r.pos
           n == Len(src)
           d == OCTET
           x == a * d
           y == (n - a) * d
<1>3. a \in Nat /\ n \in Nat /\ d \in Nat /\ n - a \in Nat BY <1>1, <1>2
<1>4. x \in Nat /\ y \in Nat /\ n * d = x + y
  <2> HIDE DEF a, n, d
  <2> QED BY <1>3
<1>5. p <= x BY <1>2
<1>6. Supply = n * d BY DEF Supply
<1> HIDE DEF x, y
<1>7. p <= Supply BY <1>2, <1>4, <1>5, <1>6
<1> QED BY <1>2, <1>7 DEF Got

\* What GetsField says, also for a reader that is out of input.
LEMMA GotField ==
  ASSUME NEW all, Carries(all), NEW r, NEW p \in Nat, Got(all, r, p), Supply \in Nat,
         NEW n \in Nat, NEW v \in Nat, v < Pow(n), Stands(all, p, Low(v, n))
  PROVE  Got(all, bits(r, n), p + n) /\ (p + n <= Supply => bits(r, n).v = v)
<1>1. CASE p <= Supply
  <2>1. ReadsAt(all, r, p) BY <1>1 DEF Got
  <2>2. /\ p + n <= Supply => bits(r, n).ok = TRUE /\ bits(r, n).v = v /\ ReadsAt(all, bits(r, n), p + n)
        /\ ~(p + n <= Supply) => bits(r, n).ok = FALSE
        /\ IsReader(bits(r, n))
    BY <2>1, GetsField
  <2> QED BY <2>2 DEF Got
<1>2. CASE ~(p <= Supply)
  <2>1. r.ok = FALSE /\ IsReader(r) BY <1>2 DEF Got
  <2>2. bits(r, n) = [r EXCEPT !.ok = FALSE] /\ IsReader([r EXCEPT !.ok = FALSE]) /\ [r EXCEPT !.ok = FALSE].ok = FALSE
    BY <2>1, FailsReading
  <2>3. ~(p + n <= Supply) BY <1>2
  <2> QED BY <2>2, <2>3 DEF Got
<1> QED BY <1>1, <1>2

\* What GetsSymbol says, also for a reader that is out of input.
LEMMA GotSymbol ==
  ASSUME NEW all, Carries(all), NEW r, NEW p \in Nat, Got(all, r, p), Supply \in Nat,
         NEW lens, IsLens(lens), Weight(lens) <= Pow(MAXLBITS), NEW s, Coded(lens, s), Stands(all, p, Code(lens, s))
  PROVE  /\ Got(all, huff_decode(r, huff_build(lens)), p + Len(Code(lens, s))) /\ Len(Code(lens, s)) \in Nat
         /\ p + Len(Code(lens, s)) <= Supply => huff_decode(r, huff_build(lens)).v = s
<1> DEFINE x == huff_decode(r, huff_build(lens))
           q == p + Len(Code(lens, s))
<1>0. Len(Code(lens, s)) \in Nat BY CodeBits, WordsJoin
<1>1. CASE p <= Supply
  <2>1. ReadsAt(all, r, p) BY <1>1 DEF Got
  <2>2. (q <= Supply => x.ok = TRUE /\ x.v = s /\ ReadsAt(all, x, q)) /\ (~(q <= Supply) => x.ok = FALSE) /\ IsReader(x)
    BY <2>1, GetsSymbol
  <2> QED BY <1>0, <2>2 DEF Got
<1>2. CASE ~(p <= Supply)
  <2>1. r.ok = FALSE /\ IsReader(r) BY <1>2 DEF Got
  <2>2. x = [r EXCEPT !.ok = FALSE] /\ IsReader([r EXCEPT !.ok = FALSE]) /\ [r EXCEPT !.ok = FALSE].ok = FALSE
    BY <2>1, FailsReading
  <2>3. ~(q <= Supply) BY <1>0, <1>2
  <2> HIDE DEF x, q
  <2>4. Got(all, x, q) /\ (q <= Supply => x.v = s) BY <2>2, <2>3 DEF Got
  <2> QED BY <1>0, <2>4 DEF x, q
<1> QED BY <1>1, <1>2

\* What GetsNothing says, also for a reader that is out of input.
LEMMA GotNothing ==
  ASSUME NEW all, Carries(all), NEW r, NEW p \in Nat, Got(all, r, p), Supply \in Nat,
         NEW lens, IsLens(lens), Weight(lens) < Pow(MAXLBITS), NEW s, ~Coded(lens, s), Stands(all, p, Code(lens, s))
  PROVE  IsReader(huff_decode(r, huff_build(lens))) /\ huff_decode(r, huff_build(lens)).ok = FALSE
<1> DEFINE x == huff_decode(r, huff_build(lens))
<1>1. CASE p <= Supply
  <2>1. ReadsAt(all, r, p) BY <1>1 DEF Got
  <2> QED BY <2>1, GetsNothing
<1>2. CASE ~(p <= Supply)
  <2>1. r.ok = FALSE /\ IsReader(r) BY <1>2 DEF Got
  <2>2. x = [r EXCEPT !.ok = FALSE] /\ IsReader([r EXCEPT !.ok = FALSE]) /\ [r EXCEPT !.ok = FALSE].ok = FALSE
    BY <2>1, FailsReading
  <2> QED BY <2>2
<1> QED BY <1>1, <1>2

----------------------------------------------------------------------------
(* Where the decoder is in a stream s: in which block, at which token or   *)
(* length, and that what is written so far is what the stream says so far. *)

BytesOf(s) == LET all == Encoded(s.blocks) IN SubSeq(all, 1, Len(all) - s.lost)
Given(s) == Written(s) /\ stream = s /\ src = BytesOf(s)
Accepts(s) == s.zlib /\ s.lost = 0 /\ Within(StreamMeans(s.blocks), s.room)

Reading(s, p) == ReadsAt(AllBits(s.blocks), Reader, p)
Inside(s, k, t) ==
  k \in 1 .. Len(s.blocks) /\ s.blocks[k].type = t /\ final = (k = Len(s.blocks)) /\ Mean(s.blocks, k - 1).ok
Unwritten(s, k) == out = Mean(s.blocks, k - 1).text

AtHeader(s) == mode = "header" /\ out = <<>> /\ Reading(s, 0)
AtBlock(s, k) ==
  /\ mode = "block" /\ k \in 1 .. Len(s.blocks) /\ Mean(s.blocks, k - 1).ok /\ Unwritten(s, k)
  /\ Reading(s, Ahead(s.blocks, k - 1))
AtKind(s, k, t) ==
  /\ mode = (CASE t = 0 -> "stored" [] t = 1 -> "fixed" [] t = 2 -> "dynamic")
  /\ Inside(s, k, t) /\ Unwritten(s, k)
  /\ Reading(s, Ahead(s.blocks, k - 1) + 3)
AtBytes(s, k, p, j) ==
  LET b == s.blocks[k]
  IN /\ mode = "bytes" /\ Inside(s, k, 0) /\ b.check
     /\ Stands(AllBits(s.blocks), p, FlattenSeq(ByteFields(b))) /\ p + Len(FlattenSeq(ByteFields(b))) = Ahead(s.blocks, k)
     /\ Ahead(s.blocks, k) <= Supply
     /\ j \in 0 .. Len(b.bytes) /\ copying = Len(b.bytes) - j
     /\ out = Mean(s.blocks, k - 1).text \o SubSeq(b.bytes, 1, j)
     /\ Reading(s, p + Offsets(ByteFields(b))[j])
AtLengths(s, k, p, j) ==
  LET b == s.blocks[k]
  IN /\ mode = "lengths" /\ Inside(s, k, 2) /\ Unwritten(s, k)
     /\ nlit = b.nlit /\ ndist = b.ndist /\ nlit <= MaxLit /\ ndist <= MaxDist
     /\ IsCode(b.clens) /\ lenc = huff_build(b.clens)
     /\ Stands(AllBits(s.blocks), p, ListPart(b)) /\ p + Len(ListPart(b)) = Ahead(s.blocks, k)
     /\ j \in 0 .. Len(b.list) /\ lengths = LengthsUpTo(b.list)[j] /\ Len(lengths) <= nlit + ndist
     /\ (\A i \in 1 .. j : Coded(b.clens, b.list[i].s)) /\ (j > 0 => b.list[1].s # COPY)
     /\ Reading(s, p + Offsets(Items(b.clens, b.list))[j])
TokenMeaning(s, k, j) ==
  LET b == s.blocks[k] IN TokensMean(b.tokens, LitFor(b), DistFor(b), Mean(s.blocks, k - 1).text)[j]
AtCodes(s, k, p, j) ==
  LET b == s.blocks[k]
  IN /\ mode = "codes" /\ Inside(s, k, b.type) /\ Coding(b)
     /\ lit = huff_build(LitFor(b)) /\ dist = huff_build(DistFor(b))
     /\ Stands(AllBits(s.blocks), p, TokensBits(LitFor(b), DistFor(b), b.tokens))
     /\ p + Len(TokensBits(LitFor(b), DistFor(b), b.tokens)) = Ahead(s.blocks, k)
     /\ j \in 0 .. Len(b.tokens) /\ TokenMeaning(s, k, j).ok /\ out = TokenMeaning(s, k, j).text
     /\ Reading(s, p + Offsets(TokenParts(LitFor(b), DistFor(b), b.tokens))[j])
AtEnd(s) ==
  \/ mode = "done" /\ Accepts(s) /\ out = StreamMeans(s.blocks).text
  \/ mode = "error" /\ ~Accepts(s)

Somewhere(s) ==
  \/ AtHeader(s) \/ AtEnd(s)
  \/ \E k : AtBlock(s, k)
  \/ \E k : \E t \in 0 .. 2 : AtKind(s, k, t)
  \/ \E k, p, j : AtBytes(s, k, p, j) \/ AtLengths(s, k, p, j) \/ AtCodes(s, k, p, j)
Decoding(s) ==
  /\ Given(s) /\ Len(out) <= s.room
  /\ s.zlib => Somewhere(s)
  /\ ~s.zlib => mode \in {"header", "error"}

\* What is known of the input: its bytes carry the bits of the stream, up to those that were lost.
LEMMA GivenIs ==
  ASSUME NEW s, Given(s), s.zlib
  PROVE  /\ GoodBlocks(s.blocks) /\ s.room \in Nat /\ Carries(AllBits(s.blocks)) /\ Supply \in Nat /\ Len(src) \in Nat
         /\ Len(AllBits(s.blocks)) \in Nat
         /\ Len(StreamBits(s.blocks)) <= Supply => s.lost = 0
         /\ s.lost = 0 => Len(StreamBits(s.blocks)) <= Supply
<1> DEFINE bs == s.blocks
<1>1. GoodBlocks(bs) /\ s.room \in Nat /\ s.lost \in 0 .. Len(Encoded(bs)) BY DEF Given, Written, GoodBlocks
<1>2. src = SubSeq(Encoded(bs), 1, Len(Encoded(bs)) - s.lost) BY DEF Given, BytesOf
<1>3. /\ Carries(AllBits(bs)) /\ Supply \in Nat /\ Len(src) \in Nat
      /\ s.lost = 0 => Supply = Len(AllBits(bs))
      /\ s.lost # 0 => Supply < Len(StreamBits(bs))
  BY <1>1, <1>2, BytesCarry
<1>4. Len(StreamBits(bs)) \in Nat /\ Len(StreamBits(bs)) <= Len(AllBits(bs)) /\ Len(AllBits(bs)) \in Nat BY <1>1, BlocksStand
<1> QED BY <1>1, <1>3, <1>4

\* What makes a stream one that is refused.
LEMMA Refused ==
  ASSUME NEW s, Given(s), s.zlib, NEW k \in 1 .. Len(s.blocks)
  PROVE  /\ Supply < Ahead(s.blocks, k) => ~Accepts(s)
         /\ ~Within(Mean(s.blocks, k), s.room) => ~Accepts(s)
         /\ Mean(s.blocks, k - 1).ok =>
              /\ ~Within(BlockMeans(s.blocks[k], Mean(s.blocks, k - 1).text), s.room) => ~Accepts(s)
              /\ Mean(s.blocks, k) = BlockMeans(s.blocks[k], Mean(s.blocks, k - 1).text)
<1> DEFINE bs == s.blocks
<1>1. GoodBlocks(bs) /\ s.room \in Nat /\ Supply \in Nat /\ (s.lost = 0 => Len(StreamBits(bs)) <= Supply) BY GivenIs
<1>2. k \in 0 .. Len(bs) BY <1>1, BlocksAre
<1>3. Supply < Ahead(bs, k) => ~Accepts(s)
  <2>1. Ahead(bs, k) \in Nat /\ Ahead(bs, k) <= Len(StreamBits(bs)) /\ Len(StreamBits(bs)) \in Nat BY <1>1, <1>2, BlocksStand
  <2> QED BY <1>1, <2>1 DEF Accepts
<1>4. ~Within(Mean(bs, k), s.room) => ~Accepts(s) BY <1>1, <1>2, BlocksAre DEF Accepts
<1>5. Mean(bs, k - 1).ok => Mean(bs, k) = BlockMeans(bs[k], Mean(bs, k - 1).text) BY <1>1, BlocksAre
<1> QED BY <1>3, <1>4, <1>5

\* Behind the last block everything is there and everything was meant.
LEMMA EndOfStream ==
  ASSUME NEW s, Given(s), s.zlib, NEW k, k = Len(s.blocks), Ahead(s.blocks, k) <= Supply, Mean(s.blocks, k).ok,
         Len(Mean(s.blocks, k).text) <= s.room
  PROVE  Accepts(s) /\ Mean(s.blocks, k) = StreamMeans(s.blocks)
<1>1. GoodBlocks(s.blocks) /\ (Len(StreamBits(s.blocks)) <= Supply => s.lost = 0) BY GivenIs
<1>2. Ahead(s.blocks, k) = Len(StreamBits(s.blocks)) BY <1>1, BlocksStand
<1>3. Mean(s.blocks, k) = StreamMeans(s.blocks) BY <1>1, BlocksAre
<1> QED BY <1>1, <1>2, <1>3 DEF Accepts, Within

\* The k-th block, and where it stands.
LEMMA BlockIs ==
  ASSUME NEW s, Given(s), s.zlib, NEW k \in 1 .. Len(s.blocks)
  PROVE  LET all == AllBits(s.blocks)
             b == s.blocks[k]
             p == Ahead(s.blocks, k - 1)
             fin == k = Len(s.blocks)
         IN  /\ IsBlock(b) /\ p \in Nat /\ fin \in BOOLEAN /\ Ahead(s.blocks, k) \in Nat
             /\ Stands(all, p, BlockKind(b, fin, p) \o Rest(b, p))
             /\ Ahead(s.blocks, k) = (p + 3) + Len(Rest(b, p)) /\ Rest(b, p) \in Words /\ Len(Rest(b, p)) \in Nat
             /\ Stands(all, p + 3, Rest(b, p))
             /\ Stands(all, p, <<IF fin THEN 1 ELSE 0>>) /\ Stands(all, p + 1, Low(b.type, 2))
             /\ b.type \in 0 .. 3
<1> DEFINE bs == s.blocks
           all == AllBits(bs)
           b == bs[k]
           p == Ahead(bs, k - 1)
           fin == k = Len(bs)
<1>1. GoodBlocks(bs) /\ Len(all) \in Nat BY GivenIs
<1>2. IsBlock(b) /\ k - 1 \in 0 .. Len(bs) /\ k \in 0 .. Len(bs) BY <1>1, BlocksAre
<1>3. p \in Nat /\ Ahead(bs, k) \in Nat BY <1>1, <1>2, BlocksStand
<1>4. Stands(all, p, BitsOf(bs, k)) /\ Ahead(bs, k) = p + Len(BitsOf(bs, k)) BY <1>1, BlocksStand
<1>5. fin \in BOOLEAN OBVIOUS
<1>6. BitsOf(bs, k) = BlockBits(b, fin, p) BY DEF BitsOf
<1> HIDE DEF p, b, fin, all
<1> DEFINE x == <<IF fin THEN 1 ELSE 0>>
           y == Low(b.type, 2)
           z == Rest(b, p)
<1>7. /\ b.type \in 0 .. 3 /\ BlockBits(b, fin, p) = BlockKind(b, fin, p) \o z
      /\ x \in Words /\ y \in Words /\ BlockKind(b, fin, p) \in Words /\ z \in Words /\ Len(BlockKind(b, fin, p)) = 3
  BY <1>2, <1>3, <1>5, BlockIsBits
<1>8. BlockKind(b, fin, p) = x \o y BY DEF BlockKind
<1>9. Len(x) = 1 OBVIOUS
<1> HIDE DEF x, y, z
<1>10. Stands(all, p, BlockKind(b, fin, p) \o z) BY <1>4, <1>6, <1>7
<1>11. Stands(all, p, BlockKind(b, fin, p)) /\ Stands(all, p + 3, z)
  <2>1. BlockKind(b, fin, p) \in Seq(Bit) /\ z \in Seq(Bit) BY <1>7 DEF Words
  <2>2. Stands(all, p, BlockKind(b, fin, p)) /\ Stands(all, p + Len(BlockKind(b, fin, p)), z) BY <1>1, <1>10, <2>1, StandsJoined
  <2> QED BY <1>7, <2>2
<1>12. Stands(all, p, x) /\ Stands(all, p + 1, y)
  <2>1. x \in Seq(Bit) /\ y \in Seq(Bit) BY <1>7 DEF Words
  <2>2. Stands(all, p, x \o y) BY <1>8, <1>11
  <2>3. Stands(all, p, x) /\ Stands(all, p + Len(x), y) BY <1>1, <2>1, <2>2, StandsJoined
  <2> QED BY <1>9, <2>3
<1>13. Ahead(bs, k) = (p + 3) + Len(z) /\ Len(z) \in Nat
  <2>1. Len(BlockKind(b, fin, p) \o z) = Len(BlockKind(b, fin, p)) + Len(z) /\ Len(z) \in Nat BY <1>7, WordsJoin
  <2> QED BY <1>3, <1>4, <1>6, <1>7, <2>1
<1> QED BY <1>2, <1>3, <1>5, <1>7, <1>10, <1>11, <1>12, <1>13 DEF p, b, fin, all, x, y, z


----------------------------------------------------------------------------
(* Each action goes from a place in the stream to the next one, or refuses *)
(* a stream that is not to be accepted.                                    *)

\* A step that reads nothing leaves the reader where it is.
LEMMA ReadingStays ==
  ASSUME NEW s, NEW p, Reading(s, p), src' = src, pos' = pos, bitbuf' = bitbuf
  PROVE  Reading(s, p)'
BY DEF Reading, ReadsAt, Reader, IsReader

\* A step that has read leaves it behind what it read.
LEMMA ReadingMoves ==
  ASSUME NEW s, NEW p, NEW r, ReadsAt(AllBits(s.blocks), r, p), At(r), src' = src
  PROVE  Reading(s, p)'
<1>1. /\ r.pos \in 0 .. Len(src) /\ r.buf \in Seq(Bit) /\ Len(r.buf) < OCTET
      /\ p \in Nat /\ p + Len(r.buf) = r.pos * OCTET /\ \A i \in 1 .. Len(r.buf) : r.buf[i] = AllBits(s.blocks)[p + i]
  BY DEF ReadsAt
<1>2. pos' = r.pos /\ bitbuf' = r.buf BY DEF At
<1>3. IsReader(Reader)' BY DEF Reader, IsReader
<1>4. Reader' = [ok |-> TRUE, v |-> 0, pos |-> r.pos, buf |-> r.buf] BY <1>2 DEF Reader
<1>5. Reader'.ok = TRUE /\ Reader'.pos = r.pos /\ Reader'.buf = r.buf BY <1>4
<1> HIDE DEF Reader
<1> QED BY <1>1, <1>3, <1>5 DEF Reading, ReadsAt

\* A decoder that refuses what is not to be accepted is where it should be.
LEMMA Errs ==
  ASSUME NEW s, ~Accepts(s), mode' = "error"
  PROVE  Somewhere(s)'
BY DEF Somewhere, AtEnd

\* The header of the whole stream is passed.
LEMMA HeaderMoves ==
  ASSUME NEW s, Given(s), s.zlib, AtHeader(s), Header
  PROVE  Somewhere(s)' /\ out' = out
<1>1. GoodBlocks(s.blocks) BY GivenIs
<1>2. /\ mode' = "block" /\ src' = src /\ pos' = pos /\ bitbuf' = bitbuf /\ out' = out
  BY DEF Header, Goes, Given, input
<1>3. Ahead(s.blocks, 0) = 0 BY <1>1, BlocksStand
<1>4. Reading(s, Ahead(s.blocks, 0))'
  <2>1. Reading(s, 0)' BY <1>2, ReadingStays DEF AtHeader
  <2> QED BY <1>3, <2>1
<1>5. 1 \in 1 .. Len(s.blocks) /\ 1 - 1 = 0 BY <1>1 DEF GoodBlocks
<1>6. Mean(s.blocks, 0).ok /\ Mean(s.blocks, 0).text = <<>> BY <1>1, BlocksAre
<1>7. out' = <<>> BY <1>2 DEF AtHeader
<1>8. AtBlock(s, 1)' BY <1>2, <1>4, <1>5, <1>6, <1>7 DEF AtBlock, Unwritten
<1> QED BY <1>2, <1>8 DEF Somewhere

\* One bit is a field of one bit.
LEMMA BitIs ==
  ASSUME NEW v \in Bit
  PROVE  Low(v, 1) = <<v>> /\ v \in Nat /\ v < Pow(1) /\ Pow(2) = 4
<1>1. v \in Nat /\ v < 2 BY DEF Bit
<1>2. Pow(0) = 1 /\ Pow(1) = 2 /\ Pow(2) = 4
  <2>1. Pow(0) = 1 /\ Pow(0 + 1) = 2 * Pow(0) /\ Pow(1 + 1) = 2 * Pow(1) BY PowIs
  <2> QED BY <2>1
<1>3. Low(v, 1) = [i \in 1 .. 1 |-> (v \div Pow(i - 1)) % 2] BY DEF Low
<1>4. \A i \in 1 .. 1 : (v \div Pow(i - 1)) % 2 = v
  <2> TAKE i \in 1 .. 1
  <2>1. Pow(i - 1) = 1
    <3>1. i - 1 = 0 OBVIOUS
    <3> QED BY <1>2, <3>1
  <2>2. v \div 1 = v BY <1>1
  <2>3. v % 2 = v BY <1>1
  <2> QED BY <2>1, <2>2, <2>3
<1>5. [i \in 1 .. 1 |-> (v \div Pow(i - 1)) % 2] = [i \in 1 .. 1 |-> v] BY <1>4
<1>6. [i \in 1 .. 1 |-> v] = <<v>> OBVIOUS
<1> QED BY <1>1, <1>2, <1>3, <1>5, <1>6

\* The header of a block: the last or not, and the kind, or a kind that there is not.
LEMMA BlockHeaderMoves ==
  ASSUME NEW s, Given(s), s.zlib, NEW k, AtBlock(s, k), BlockHeader
  PROVE  Somewhere(s)' /\ out' = out
<1> DEFINE bs == s.blocks
           all == AllBits(bs)
           b == bs[k]
           p == Ahead(bs, k - 1)
           fin == k = Len(bs)
           bit == IF fin THEN 1 ELSE 0
           last == bits(Reader, 1)
           type == bits(last, 2)
<1>1. k \in 1 .. Len(bs) /\ Mean(bs, k - 1).ok /\ ReadsAt(all, Reader, p) BY DEF AtBlock, Reading
<1>2. /\ IsBlock(b) /\ p \in Nat /\ Ahead(bs, k) \in Nat /\ Ahead(bs, k) = (p + 3) + Len(Rest(b, p)) /\ Len(Rest(b, p)) \in Nat
      /\ Stands(all, p, <<bit>>) /\ Stands(all, p + 1, Low(b.type, 2)) /\ b.type \in 0 .. 3
  BY <1>1, BlockIs
<1>3. Carries(all) /\ Supply \in Nat BY GivenIs
<1>4. src' = src /\ out' = out
  <2>1. src' = src BY DEF BlockHeader, input
  <2>2. out' = out BY DEF BlockHeader, Error
  <2> QED BY <2>1, <2>2
<1>5. \/ /\ type.ok /\ type.v # 3 /\ final' = (last.v = 1) /\ At(type)
         /\ mode' = CASE type.v = 0 -> "stored" [] type.v = 1 -> "fixed" [] type.v = 2 -> "dynamic"
      \/ /\ ~(type.ok /\ type.v # 3) /\ mode' = "error"
  BY DEF BlockHeader, Error, Goes
<1>6. Got(all, last, p + 1) /\ (p + 1 <= Supply => last.v = bit)
  <2>1. Got(all, Reader, p) BY <1>1, <1>3, GotIs
  <2>2. bit \in Bit BY DEF Bit
  <2> HIDE DEF bit, p, all
  <2>3. Low(bit, 1) = <<bit>> /\ bit \in Nat /\ bit < Pow(1) BY <2>2, BitIs
  <2>4. Stands(all, p, Low(bit, 1)) BY <1>2, <2>3
  <2> QED BY <1>2, <1>3, <2>1, <2>3, <2>4, GotField
<1>7. Got(all, type, p + 3) /\ (p + 3 <= Supply => type.v = b.type)
  <2> HIDE DEF bit, p, all, last, b
  <2>1. 0 \in Bit BY DEF Bit
  <2>2. b.type \in Nat /\ b.type < Pow(2) BY <1>2, <2>1, BitIs
  <2>3. p + 1 \in Nat /\ 2 \in Nat /\ (p + 1) + 2 = p + 3 BY <1>2
  <2>4. Got(all, type, (p + 1) + 2) /\ ((p + 1) + 2 <= Supply => type.v = b.type)
    BY <1>2, <1>3, <1>6, <2>2, <2>3, GotField
  <2> QED BY <2>3, <2>4
<1>8. CASE ~(p + 3 <= Supply)
  <2>1. type.ok = FALSE BY <1>7, <1>8 DEF Got
  <2>2. Supply < Ahead(bs, k)
    <3> HIDE DEF p, bs
    <3> QED BY <1>2, <1>3, <1>8
  <2>3. ~Accepts(s) BY <1>1, <2>2, Refused
  <2>4. mode' = "error" BY <1>5, <2>1
  <2> QED BY <1>4, <2>3, <2>4, Errs
<1>9. CASE p + 3 <= Supply
  <2>1. type.ok = TRUE /\ type.v = b.type /\ ReadsAt(all, type, p + 3) BY <1>7, <1>9 DEF Got, ReadsAt
  <2>2. CASE b.type = 3
    <3>1. BlockMeans(b, Mean(bs, k - 1).text) = Bad BY <2>2 DEF BlockMeans
    <3>2. ~Within(BlockMeans(b, Mean(bs, k - 1).text), s.room) BY <3>1, MeaningIs DEF Within
    <3>3. ~Accepts(s) BY <1>1, <3>2, Refused
    <3>4. mode' = "error" BY <1>5, <2>1, <2>2
    <3> QED BY <1>4, <3>3, <3>4, Errs
  <2>3. CASE b.type # 3
    <3> DEFINE t == b.type
    <3>1. t \in 0 .. 2 BY <1>2, <2>3
    <3>2. final' = (last.v = 1) /\ At(type) /\ mode' = (CASE t = 0 -> "stored" [] t = 1 -> "fixed" [] t = 2 -> "dynamic")
      BY <1>5, <2>1, <2>3
    <3>3. last.v = bit
      <4>1. p + 1 <= Supply
        <5> HIDE DEF p
        <5> QED BY <1>2, <1>3, <1>9
      <4> QED BY <1>6, <4>1
    <3>4. final' = fin BY <3>2, <3>3
    <3>5. Reading(s, p + 3)' BY <1>4, <2>1, <3>2, ReadingMoves
    <3>6. Inside(s, k, t)' BY <1>1, <3>4 DEF Inside
    <3>7. Unwritten(s, k)' BY <1>4 DEF AtBlock, Unwritten
    <3>8. AtKind(s, k, t)' BY <3>2, <3>5, <3>6, <3>7 DEF AtKind
    <3> QED BY <1>4, <3>1, <3>8 DEF Somewhere
  <2> QED BY <2>2, <2>3
<1> QED BY <1>8, <1>9

----------------------------------------------------------------------------
(* Stored blocks. *)

\* The end of a block: the next one, or the end of the stream.
LEMMA PastBlock ==
  ASSUME NEW s, Given(s), s.zlib, NEW k \in 1 .. Len(s.blocks), final = (k = Len(s.blocks)),
         Mean(s.blocks, k).ok, Len(Mean(s.blocks, k).text) <= s.room, Ahead(s.blocks, k) <= Supply,
         out' = Mean(s.blocks, k).text, Reading(s, Ahead(s.blocks, k))', mode' = AfterBlock
  PROVE  Somewhere(s)'
<1>1. CASE k = Len(s.blocks)
  <2>1. mode' = "done" BY <1>1 DEF AfterBlock
  <2>2. Accepts(s) /\ Mean(s.blocks, k) = StreamMeans(s.blocks) BY <1>1, EndOfStream
  <2>3. out' = StreamMeans(s.blocks).text BY <2>2
  <2> QED BY <2>1, <2>2, <2>3 DEF Somewhere, AtEnd
<1>2. CASE k # Len(s.blocks)
  <2>1. mode' = "block" BY <1>2 DEF AfterBlock
  <2>2. Len(s.blocks) \in Nat BY GivenIs DEF GoodBlocks
  <2>3. k + 1 \in 1 .. Len(s.blocks) /\ (k + 1) - 1 = k BY <1>2, <2>2
  <2>4. AtBlock(s, k + 1)' BY <2>1, <2>3 DEF AtBlock, Unwritten
  <2> QED BY <2>4 DEF Somewhere
<1> QED BY <1>1, <1>2

\* Fields of the same size.
LEMMA OffsetsEven ==
  ASSUME NEW ss \in Seq(Words), NEW d \in Nat, \A k \in 1 .. Len(ss) : Len(ss[k]) = d
  PROVE  \A k \in 0 .. Len(ss) : Offsets(ss)[k] = k * d
<1>1. /\ Len(ss) \in Nat /\ Offsets(ss)[0] = 0
      /\ \A k \in 0 .. Len(ss) : Offsets(ss)[k] \in Nat
      /\ \A k \in 1 .. Len(ss) : k - 1 \in 0 .. Len(ss) /\ Offsets(ss)[k] = Offsets(ss)[k - 1] + Len(ss[k])
  BY OffsetsStep DEF Words
<1> DEFINE S == {k \in 0 .. Len(ss) : Offsets(ss)[k] = k * d}
<1>2. 0 \in S BY <1>1
<1>3. \A k \in 1 .. Len(ss) : k - 1 \in S => k \in S
  <2> TAKE k \in 1 .. Len(ss)
  <2> HAVE k - 1 \in S
  <2>1. Offsets(ss)[k - 1] = (k - 1) * d /\ Offsets(ss)[k] = Offsets(ss)[k - 1] + d BY <1>1
  <2> DEFINE x == (k - 1) * d
  <2>2. x + d = k * d OBVIOUS
  <2>3. k \in 0 .. Len(ss) BY <1>1
  <2> QED BY <2>1, <2>2, <2>3
<1> HIDE DEF S
<1>4. 0 .. Len(ss) \subseteq S BY <1>1, <1>2, <1>3, InductTo
<1> QED BY <1>4 DEF S

\* What is left of the last byte is the padding.
LEMMA AlignedIs ==
  ASSUME NEW all, Carries(all), NEW q, ReadsAt(all, Reader, q)
  PROVE  /\ ReadsAt(all, Aligned, q + Len(Padding(q))) /\ q \in Nat /\ Len(Padding(q)) \in Nat
         /\ q + Len(Padding(q)) = pos * OCTET /\ pos \in Nat
<1> DEFINE d == OCTET
           z == Len(Padding(q))
           c == Len(bitbuf)
<1>1. d \in Nat \ {0} BY Sizes
<1>2. pos \in 0 .. Len(src) /\ bitbuf \in Seq(Bit) /\ c < d /\ q \in Nat /\ q + c = pos * d BY DEF ReadsAt, Reader
<1>3. Len(src) \in Nat /\ c \in Nat BY <1>2, LenProperties DEF Carries
<1>4. pos \in Nat BY <1>2, <1>3
<1>5. z < d /\ z \in Nat BY <1>2, PaddingIs
<1>6. PICK m \in Nat : q + z = m * d BY <1>2, PaddingIs
<1> HIDE DEF d, z, c
<1>7. m = pos
  <2> DEFINE x == m * d
             y == pos * d
  <2>1. CASE m < pos
    <3> DEFINE w == (pos - m - 1) * d
    <3>1. pos - m - 1 \in Nat BY <1>4, <2>1
    <3>2. w \in Nat /\ x \in Nat /\ y = x + d + w BY <1>1, <1>4, <3>1
    <3>3. q + z = x /\ q + c = y BY <1>2, <1>6
    <3> HIDE DEF w, x, y
    <3> QED BY <1>1, <1>2, <1>3, <1>5, <3>2, <3>3
  <2>2. CASE m > pos
    <3> DEFINE w == (m - pos - 1) * d
    <3>1. m - pos - 1 \in Nat BY <1>4, <2>2
    <3>2. w \in Nat /\ y \in Nat /\ x = y + d + w BY <1>1, <1>4, <3>1
    <3>3. q + z = x /\ q + c = y BY <1>2, <1>6
    <3> HIDE DEF w, x, y
    <3> QED BY <1>1, <1>2, <1>3, <1>5, <3>2, <3>3
  <2> QED BY <1>4, <2>1, <2>2
<1>8. q + z = pos * d BY <1>6, <1>7
<1>9. Aligned = [ok |-> TRUE, v |-> 0, pos |-> pos, buf |-> <<>>]
  <2> DEFINE nothing == <<>>
  <2>1. Aligned = [Reader EXCEPT !.buf = nothing] BY DEF Aligned
  <2> HIDE DEF nothing
  <2>2. Aligned = [ok |-> TRUE, v |-> 0, pos |-> pos, buf |-> nothing] BY <2>1 DEF Reader
  <2> QED BY <2>2 DEF nothing
<1>10. /\ Aligned.ok = TRUE /\ Aligned.pos = pos /\ Aligned.buf = <<>> /\ "ok" \in DOMAIN Aligned
       /\ Aligned = [x \in DOMAIN Aligned |-> Aligned[x]]
  BY <1>9
<1> HIDE DEF Aligned
<1>11. <<>> \in Seq(Bit) /\ Len(<<>>) = 0 BY EmptySeq
<1>12. q + z \in Nat /\ (q + z) + Len(Aligned.buf) = Aligned.pos * d BY <1>2, <1>5, <1>8, <1>10, <1>11
<1>13. Len(Aligned.buf) < d /\ Aligned.buf \in Seq(Bit) BY <1>1, <1>10, <1>11
<1>14. \A i \in 1 .. Len(Aligned.buf) : Aligned.buf[i] = all[(q + z) + i] BY <1>10, <1>11
<1>15. Aligned.pos \in 0 .. Len(src) BY <1>2, <1>10
<1>16. ReadsAt(all, Aligned, q + z) BY <1>10, <1>12, <1>13, <1>14, <1>15 DEF ReadsAt, IsReader, d
<1> QED BY <1>2, <1>4, <1>5, <1>8, <1>16 DEF d, z

\* The fields of a stored block, behind its padding.
LEMMA StoredStands ==
  ASSUME NEW all, Len(all) \in Nat, NEW b, b.type = 0, IsBlock(b), NEW n \in Nat, Stands(all, n + 3, Rest(b, n))
  PROVE  LET q == n + 3 + Len(Padding(n + 3))
         IN  /\ Stands(all, q, Low(Len(b.bytes), 2 * OCTET)) /\ Stands(all, q + 2 * OCTET, Low(Check(b), 2 * OCTET))
             /\ Stands(all, q + 2 * OCTET + 2 * OCTET, FlattenSeq(ByteFields(b)))
             /\ (n + 3) + Len(Rest(b, n)) = q + 2 * OCTET + 2 * OCTET + Len(FlattenSeq(ByteFields(b)))
             /\ Len(FlattenSeq(ByteFields(b))) = Len(b.bytes) * OCTET
<1> DEFINE w == Padding(n + 3)
           x == Low(Len(b.bytes), 2 * OCTET)
           y == Low(Check(b), 2 * OCTET)
           z == FlattenSeq(ByteFields(b))
           m == 2 * OCTET
<1>1. Rest(b, n) = w \o x \o y \o z BY DEF Rest, StoredBits
<1>2. w \in Words /\ Len(w) \in Nat BY PaddingIs
<1>3. m \in Nat /\ x \in Words /\ Len(x) = m
  <2>1. m \in Nat /\ Len(b.bytes) \in Nat BY StoredIs
  <2> QED BY <2>1, FieldBits
<1>4. y \in Words /\ Len(y) = m
  <2>1. Check(b) \in Nat BY StoredIs
  <2> QED BY <1>3, <2>1, FieldBits
<1>5. z \in Words /\ Len(z) \in Nat
  <2>1. z \in Words BY StoredIs
  <2> QED BY <2>1, WordsJoin
<1>6. Len(z) = Len(b.bytes) * OCTET
  <2>1. /\ ByteFields(b) \in Seq(Words) /\ Len(ByteFields(b)) = Len(b.bytes) /\ Len(b.bytes) \in Nat
        /\ \A k \in 1 .. Len(b.bytes) : b.bytes[k] \in Nat /\ ByteFields(b)[k] = Low(b.bytes[k], OCTET)
    BY StoredIs
  <2>2. ASSUME NEW k \in 1 .. Len(ByteFields(b)) PROVE Len(ByteFields(b)[k]) = OCTET
    <3>1. b.bytes[k] \in Nat /\ ByteFields(b)[k] = Low(b.bytes[k], OCTET) BY <2>1
    <3>2. Len(Low(b.bytes[k], OCTET)) = OCTET BY <3>1, FieldBits, Sizes
    <3> QED BY <3>1, <3>2
  <2>3. OCTET \in Nat BY Sizes
  <2>4. \A k \in 0 .. Len(ByteFields(b)) : Offsets(ByteFields(b))[k] = k * OCTET BY <2>1, <2>2, <2>3, OffsetsEven
  <2>5. Offsets(ByteFields(b))[Len(b.bytes)] = Len(b.bytes) * OCTET
    <3>1. Len(b.bytes) \in 0 .. Len(ByteFields(b)) BY <2>1
    <3> QED BY <2>4, <3>1
  <2>6. Len(z) = Offsets(ByteFields(b))[Len(ByteFields(b))] BY <2>1, Flattened DEF Words
  <2> QED BY <2>1, <2>5, <2>6
<1> HIDE DEF w, x, y, z, m
<1> DEFINE wx == w \o x
           wxy == wx \o y
<1>7. wx \in Words /\ Len(wx) = Len(w) + m BY <1>2, <1>3, WordsJoin
<1> HIDE DEF wx
<1>8. wxy \in Words /\ Len(wxy) = Len(w) + m + m
  <2>1. wxy \in Words /\ Len(wxy) = Len(wx) + Len(y) BY <1>4, <1>7, WordsJoin
  <2> QED BY <1>2, <1>3, <1>4, <1>7, <2>1
<1> HIDE DEF wxy
<1>9. Rest(b, n) = wxy \o z BY <1>1 DEF wx, wxy
<1>10. w \in Seq(Bit) /\ x \in Seq(Bit) /\ y \in Seq(Bit) /\ z \in Seq(Bit) /\ wx \in Seq(Bit) /\ wxy \in Seq(Bit)
  BY <1>2, <1>3, <1>4, <1>5, <1>7, <1>8 DEF Words
<1>11. Stands(all, n + 3, wxy) /\ Stands(all, (n + 3) + Len(wxy), z) /\ (n + 3) + Len(wxy \o z) = ((n + 3) + Len(wxy)) + Len(z)
  <2>1. Stands(all, n + 3, wxy \o z) BY <1>9
  <2>2. Stands(all, n + 3, wxy) /\ Stands(all, (n + 3) + Len(wxy), z) BY <1>10, <2>1, StandsJoined
  <2>3. Len(wxy \o z) = Len(wxy) + Len(z) /\ Len(wxy) \in Nat /\ Len(z) \in Nat BY <1>5, <1>8, WordsJoin
  <2>4. (n + 3) + Len(wxy \o z) = ((n + 3) + Len(wxy)) + Len(z)
    <3> DEFINE A == Len(wxy)
               B == Len(z)
    <3>1. A \in Nat /\ B \in Nat /\ Len(wxy \o z) = A + B BY <2>3
    <3> HIDE DEF A, B
    <3>2. (n + 3) + Len(wxy \o z) = ((n + 3) + A) + B BY <3>1
    <3> QED BY <3>2 DEF A, B
  <2> QED BY <2>2, <2>4
<1>12. Stands(all, n + 3, wx) /\ Stands(all, (n + 3) + Len(wx), y)
  <2>1. Stands(all, n + 3, wx \o y) BY <1>11 DEF wxy
  <2> QED BY <1>10, <2>1, StandsJoined
<1>13. Stands(all, (n + 3) + Len(w), x)
  <2>1. Stands(all, n + 3, w \o x) BY <1>12 DEF wx
  <2> QED BY <1>10, <2>1, StandsJoined
<1> DEFINE q == n + 3 + Len(w)
<1>14. (n + 3) + Len(w) = q /\ (n + 3) + Len(wx) = q + m /\ (n + 3) + Len(wxy) = q + m + m BY <1>2, <1>3, <1>7, <1>8
<1>15. Stands(all, q, x) BY <1>13, <1>14
<1>16. Stands(all, q + m, y) BY <1>12, <1>14
<1>17. Stands(all, q + m + m, z) BY <1>11, <1>14
<1>18. (n + 3) + Len(Rest(b, n)) = q + m + m + Len(z) BY <1>9, <1>11, <1>14
<1> QED BY <1>6, <1>15, <1>16, <1>17, <1>18 DEF w, x, y, z, m

\* The fields of a stored block are read from the next byte on.
LEMMA StoredMoves ==
  ASSUME NEW s, Given(s), s.zlib, NEW k, AtKind(s, k, 0), mode = "stored", Stored
  PROVE  Somewhere(s)' /\ out' = out
<1> DEFINE bs == s.blocks
           all == AllBits(bs)
           b == bs[k]
           n == Ahead(bs, k - 1)
           fin == k = Len(bs)
           w == Mean(bs, k - 1).text
           len == bits(Aligned, 2 * OCTET)
           nlen == bits(len, 2 * OCTET)
           m == 2 * OCTET
           d == OCTET
           q == n + 3 + Len(Padding(n + 3))
           L == Len(b.bytes)
           C == Check(b)
           z == FlattenSeq(ByteFields(b))
<1>1. k \in 1 .. Len(bs) /\ Mean(bs, k - 1).ok /\ b.type = 0 /\ final = fin /\ out = w /\ ReadsAt(all, Reader, n + 3)
  BY DEF AtKind, Inside, Unwritten, Reading
<1>2. /\ IsBlock(b) /\ n \in Nat /\ Ahead(bs, k) \in Nat /\ Ahead(bs, k) = (n + 3) + Len(Rest(b, n)) /\ Stands(all, n + 3, Rest(b, n))
  BY <1>1, BlockIs
<1>3. Carries(all) /\ Supply \in Nat /\ Len(all) \in Nat /\ Len(src) \in Nat /\ GoodBlocks(bs) BY GivenIs
<1>4. src' = src /\ out' = out
  <2>1. src' = src BY DEF Stored, input
  <2>2. out' = out BY DEF Stored, Error
  <2> QED BY <2>1, <2>2
<1>5. \/ /\ nlen.ok /\ len.v + nlen.v = Pow(m) - 1 /\ nlen.pos + len.v <= Len(src)
         /\ mode' = "bytes" /\ copying' = len.v /\ At(nlen) /\ final' = final
      \/ /\ ~(nlen.ok /\ len.v + nlen.v = Pow(m) - 1 /\ nlen.pos + len.v <= Len(src)) /\ mode' = "error"
  BY DEF Stored, Error, Goes
<1>6. /\ m \in Nat /\ L \in Nat /\ L < Pow(m) /\ b.check \in BOOLEAN /\ b.bytes \in Seq(Nat)
      /\ C \in Nat /\ C < Pow(m) /\ (b.check <=> L + C = Pow(m) - 1)
      /\ ByteFields(b) \in Seq(Words)
  BY <1>1, <1>2, StoredIs
<1>7. /\ Stands(all, q, Low(L, m)) /\ Stands(all, q + m, Low(C, m)) /\ Stands(all, q + m + m, z)
      /\ (n + 3) + Len(Rest(b, n)) = q + m + m + Len(z) /\ Len(z) = L * d
  <2>1. b.type = 0 /\ IsBlock(b) /\ n \in Nat /\ Len(all) \in Nat /\ Stands(all, n + 3, Rest(b, n)) BY <1>1, <1>2, <1>3
  <2> HIDE DEF n, all
  <2> QED BY <2>1, StoredStands DEF q, m, z, L, C, d
<1>8. ReadsAt(all, Aligned, q) /\ q \in Nat /\ q = pos * d /\ pos \in Nat
  <2>1. /\ ReadsAt(all, Aligned, (n + 3) + Len(Padding(n + 3))) /\ n + 3 \in Nat /\ Len(Padding(n + 3)) \in Nat
        /\ (n + 3) + Len(Padding(n + 3)) = pos * OCTET /\ pos \in Nat
    BY <1>1, <1>3, AlignedIs
  <2> QED BY <2>1
<1>9. d \in Nat \ {0} /\ m = 2 * d BY Sizes
<1> HIDE DEF all, n, fin, w, q, L, C, z, m, d
<1>10. Got(all, len, q + m) /\ (q + m <= Supply => len.v = L)
  <2>1. Got(all, Aligned, q) BY <1>3, <1>8, GotIs
  <2>2. Got(all, bits(Aligned, m), q + m) /\ (q + m <= Supply => bits(Aligned, m).v = L) BY <1>3, <1>6, <1>7, <1>8, <2>1, GotField
  <2> QED BY <2>2 DEF m
<1> HIDE DEF len
<1>11. Got(all, nlen, q + m + m) /\ (q + m + m <= Supply => nlen.v = C)
  <2>1. q + m \in Nat BY <1>6, <1>8
  <2>2. Got(all, bits(len, m), q + m + m) /\ (q + m + m <= Supply => bits(len, m).v = C) BY <1>3, <1>6, <1>7, <1>10, <2>1, GotField
  <2> QED BY <2>2 DEF m
<1> HIDE DEF nlen
<1> DEFINE x == L * d
           A == Ahead(bs, k)
<1>12. x \in Nat /\ A = q + m + m + x /\ A \in Nat BY <1>2, <1>6, <1>7, <1>9
<1>13. CASE ~(q + m + m <= Supply)
  <2>1. nlen.ok = FALSE BY <1>11, <1>13 DEF Got
  <2>2. Supply < A
    <3> HIDE DEF x, A
    <3> QED BY <1>3, <1>6, <1>8, <1>12, <1>13
  <2>3. ~Accepts(s) BY <1>1, <2>2, Refused
  <2>4. mode' = "error" BY <1>5, <2>1
  <2> QED BY <1>4, <2>3, <2>4, Errs
<1>14. CASE q + m + m <= Supply
  <2>1. nlen.ok = TRUE /\ nlen.v = C /\ ReadsAt(all, nlen, q + m + m) BY <1>11, <1>14 DEF Got, ReadsAt
  <2>2. len.v = L
    <3>1. q + m <= Supply BY <1>3, <1>6, <1>8, <1>14
    <3> QED BY <1>10, <3>1
  <2>3. nlen.pos \in Nat /\ nlen.pos = pos + 4
    <3> DEFINE c == Len(nlen.buf)
               a == nlen.pos
    <3>1. a \in 0 .. Len(src) /\ c < d /\ c \in Nat /\ q + m + m + c = a * d BY <2>1, LenProperties DEF ReadsAt, d
    <3>2. a \in Nat BY <1>3, <3>1
    <3> DEFINE P == pos * d
    <3>3. q + m + m = (pos + 4) * d
      <4>1. P \in Nat /\ (pos + 4) * d = P + 4 * d BY <1>8, <1>9
      <4>2. q = P BY <1>8
      <4> HIDE DEF P
      <4> QED BY <1>9, <4>1, <4>2
    <3> DEFINE e == pos + 4
    <3>4. e \in Nat /\ e * d + c = a * d
      <4>1. e \in Nat BY <1>8
      <4>2. q + m + m \in Nat BY <1>6, <1>8
      <4> QED BY <3>1, <3>3, <4>1, <4>2
    <3> HIDE DEF e, a, c
    <3>5. CASE a < e
      <4> DEFINE y == (e - a - 1) * d
                 v == a * d
      <4>1. y \in Nat /\ v \in Nat /\ e * d = v + d + y BY <1>9, <3>2, <3>4, <3>5
      <4> HIDE DEF y, v
      <4> QED BY <1>9, <3>1, <3>4, <4>1 DEF v
    <3>6. CASE a > e
      <4> DEFINE y == (a - e - 1) * d
                 v == e * d
      <4>1. y \in Nat /\ v \in Nat /\ a * d = v + d + y BY <1>9, <3>2, <3>4, <3>6
      <4>2. v + c = v + d + y BY <3>4, <4>1
      <4> HIDE DEF y, v
      <4> QED BY <1>9, <3>1, <4>1, <4>2
    <3>7. CASE a = e BY <3>2, <3>7 DEF a, e
    <3>8. a < e \/ a > e \/ a = e
      <4>1. a \in Nat /\ e \in Nat BY <3>2, <3>4
      <4> HIDE DEF P
      <4> QED BY <4>1
    <3> QED BY <3>5, <3>6, <3>7, <3>8
  <2>4. nlen.pos + L <= Len(src) <=> A <= Supply
    <3> DEFINE e == pos + 4 + L
               N == Len(src)
    <3>1. e \in Nat /\ N \in Nat BY <1>3, <1>6, <1>8
    <3>2. A = e * d
      <4> DEFINE P == pos * d
      <4>1. P \in Nat /\ e * d = P + 4 * d + x BY <1>6, <1>8, <1>9
      <4>2. q = P BY <1>8
      <4> HIDE DEF P, x, e, A
      <4> QED BY <1>9, <1>12, <4>1, <4>2
    <3>3. Supply = N * d BY DEF Supply, d
    <3> HIDE DEF e, N, A
    <3>4. e <= N <=> e * d <= N * d
      <4>1. CASE e <= N
        <5> DEFINE y == (N - e) * d
                   v == e * d
        <5>1. y \in Nat /\ v \in Nat /\ N * d = v + y BY <1>9, <3>1, <4>1
        <5> HIDE DEF y, v
        <5>2. v <= N * d BY <5>1
        <5> QED BY <4>1, <5>2 DEF v
      <4>2. CASE ~(e <= N)
        <5> DEFINE y == (e - N - 1) * d
                   v == N * d
        <5>1. e - N - 1 \in Nat BY <3>1, <4>2
        <5>2. y \in Nat /\ v \in Nat /\ e * d = v + d + y BY <1>9, <3>1, <5>1
        <5> HIDE DEF y, v
        <5>3. ~(e * d <= v) BY <1>9, <5>2
        <5> QED BY <4>2, <5>3 DEF v
      <4> QED BY <4>1, <4>2
    <3>5. nlen.pos + L = e BY <2>3 DEF e
    <3> QED BY <3>2, <3>3, <3>4, <3>5 DEF N
  <2>5. CASE ~b.check
    <3>1. mode' = "error" BY <1>5, <1>6, <2>1, <2>2, <2>5
    <3>2. BlockMeans(b, w) = Bad BY <1>1, <2>5 DEF BlockMeans
    <3>3. ~Within(BlockMeans(b, w), s.room) BY <3>2, MeaningIs DEF Within
    <3>4. ~Accepts(s) BY <1>1, <3>3, Refused DEF w
    <3> QED BY <1>4, <3>1, <3>4, Errs
  <2>6. CASE ~(A <= Supply)
    <3>1. mode' = "error" BY <1>5, <2>2, <2>4, <2>6
    <3>2. Supply < A
      <4> HIDE DEF A
      <4> QED BY <1>3, <1>12, <2>6
    <3>3. ~Accepts(s) BY <1>1, <3>2, Refused
    <3> QED BY <1>4, <3>1, <3>3, Errs
  <2>7. CASE b.check /\ A <= Supply
    <3>1. mode' = "bytes" /\ copying' = L /\ At(nlen) /\ final' = final BY <1>5, <1>6, <2>1, <2>2, <2>4, <2>7
    <3> DEFINE p == q + m + m
    <3>2. Offsets(ByteFields(b))[0] = 0 BY <1>6, OffsetsStep DEF Words
    <3>3. p + Offsets(ByteFields(b))[0] = p BY <1>6, <1>8, <3>2
    <3>4. Reading(s, p + Offsets(ByteFields(b))[0])'
      <4>1. ReadsAt(AllBits(s.blocks), nlen, p) BY <2>1 DEF all
      <4>2. Reading(s, p)' BY <1>4, <3>1, <4>1, ReadingMoves
      <4> QED BY <3>3, <4>2
    <3>5. Stands(all, p, z) /\ p + Len(z) = A BY <1>2, <1>7
    <3>6. Supply' = Supply BY <1>4 DEF Supply
    <3>7. SubSeq(b.bytes, 1, 0) = <<>> /\ w \o <<>> = w
      <4>1. SubSeq(b.bytes, 1, 0) = <<>> BY SubSeqEmpty
      <4>2. Mean(bs, k - 1) \in Meaning BY <1>1, <1>3, BlocksAre
      <4>3. w \in Seq(Nat) BY <4>2, MeaningIs DEF w
      <4> QED BY <4>1, <4>3, ConcatEmptySeq
    <3>8. 0 \in 0 .. L /\ L - 0 = L BY <1>6
    <3>9. Inside(s, k, 0)' BY <1>1, <3>1 DEF Inside, fin
    <3>10. out' = w \o SubSeq(b.bytes, 1, 0) BY <1>1, <1>4, <3>7
    <3>11. copying' = L - 0 BY <3>1, <3>8
    <3> HIDE DEF p
    <3>12. AtBytes(s, k, p, 0)' BY <2>7, <3>1, <3>4, <3>5, <3>6, <3>8, <3>9, <3>10, <3>11 DEF AtBytes, all, L, z, w
    <3> QED BY <1>4, <3>12 DEF Somewhere
  <2> QED BY <1>6, <2>5, <2>6, <2>7
<1> QED BY <1>13, <1>14


\* No piece begins behind the end of the last.
LEMMA OffsetsGrow ==
  ASSUME NEW ss \in Seq(Words)
  PROVE  \A k \in 0 .. Len(ss) : Offsets(ss)[k] \in Nat /\ Offsets(ss)[k] <= Offsets(ss)[Len(ss)]
<1>1. /\ Len(ss) \in Nat
      /\ \A k \in 0 .. Len(ss) : Offsets(ss)[k] \in Nat
      /\ \A k \in 1 .. Len(ss) : k - 1 \in 0 .. Len(ss) /\ Offsets(ss)[k] = Offsets(ss)[k - 1] + Len(ss[k]) /\ Len(ss[k]) \in Nat
  BY OffsetsStep DEF Words
<1> DEFINE S == {k \in 0 .. Len(ss) : Offsets(ss)[k] <= Offsets(ss)[Len(ss)]}
<1>2. Len(ss) \in S
  <2>1. Len(ss) \in 0 .. Len(ss) BY <1>1
  <2>2. Offsets(ss)[Len(ss)] \in Nat BY <1>1, <2>1
  <2> QED BY <2>1, <2>2
<1>3. \A k \in 1 .. Len(ss) : k \in S => k - 1 \in S
  <2> TAKE k \in 1 .. Len(ss)
  <2> HAVE k \in S
  <2> DEFINE x == Offsets(ss)[k - 1]
             y == Offsets(ss)[k]
             z == Offsets(ss)[Len(ss)]
             l == Len(ss[k])
  <2>1. k - 1 \in 0 .. Len(ss) /\ k \in 0 .. Len(ss) /\ Len(ss) \in 0 .. Len(ss) BY <1>1
  <2>2. x \in Nat /\ y \in Nat /\ z \in Nat /\ l \in Nat /\ y = x + l /\ y <= z BY <1>1, <2>1
  <2>3. x <= z
    <3> HIDE DEF x, y, z, l
    <3> QED BY <2>2
  <2> QED BY <2>1, <2>3
<1> HIDE DEF S
<1>4. \A k \in 0 .. Len(ss) : k \in S BY <1>1, <1>2, <1>3, Backwards
<1> QED BY <1>1, <1>4 DEF S

\* Text is written if there is room for it, and is refused if not.
LEMMA Wrote ==
  ASSUME out \in Seq(Nat), NEW w \in Seq(Nat), NEW m, Put(w, m), NEW s, stream = s
  PROVE  /\ Len(out \o w) = Len(out) + Len(w)
         /\ \/ mode' = m /\ out' = out \o w /\ Len(out \o w) <= s.room
            \/ mode' = "error" /\ out' = out /\ ~(Len(out \o w) <= s.room)
<1>1. Len(out \o w) = Len(out) + Len(w) BY ConcatProperties
<1> QED BY <1>1 DEF Put, Goes

\* A byte of a stored block is passed on, or the block ends.
LEMMA StoredByteMoves ==
  ASSUME NEW s, Given(s), s.zlib, Len(out) <= s.room, NEW k, NEW p, NEW j, AtBytes(s, k, p, j), StoredByte
  PROVE  Somewhere(s)' /\ Len(out') <= s.room
<1> DEFINE bs == s.blocks
           all == AllBits(bs)
           b == bs[k]
           w == Mean(bs, k - 1).text
           F == ByteFields(b)
           L == Len(b.bytes)
           A == Ahead(bs, k)
           q == p + Offsets(F)[j]
           u == SubSeq(b.bytes, 1, j)
<1>1. /\ k \in 1 .. Len(bs) /\ Mean(bs, k - 1).ok /\ b.type = 0 /\ b.check /\ final = (k = Len(bs))
      /\ Stands(all, p, FlattenSeq(F)) /\ p + Len(FlattenSeq(F)) = A /\ A <= Supply
      /\ j \in 0 .. L /\ copying = L - j /\ out = w \o u /\ ReadsAt(all, Reader, q)
  BY DEF AtBytes, Inside, Reading
<1>2. Carries(all) /\ Supply \in Nat /\ Len(all) \in Nat /\ GoodBlocks(bs) BY GivenIs
<1>3. IsBlock(b) /\ A \in Nat BY <1>1, BlockIs
<1>4. k - 1 \in 0 .. Len(bs) /\ k \in 0 .. Len(bs) /\ Mean(bs, k) = BlockMeans(b, w) BY <1>1, <1>2, BlocksAre
<1>5. w \in Seq(Nat) BY <1>2, <1>4, BlocksAre, MeaningIs
<1>6. /\ L \in Nat /\ b.bytes \in Seq(Nat) /\ F \in Seq(Words) /\ Len(F) = L
      /\ \A i \in 1 .. L : b.bytes[i] \in Nat /\ b.bytes[i] < Pow(OCTET) /\ F[i] = Low(b.bytes[i], OCTET)
  <2>1. 0 \in Nat OBVIOUS
  <2> QED BY <1>1, <1>3, <2>1, StoredIs
<1>7. Mean(bs, k) = [ok |-> TRUE, text |-> w \o b.bytes]
  BY <1>1, <1>3, <1>4, <1>5, BlockMeansIs
<1>15. Mean(bs, k).ok /\ Mean(bs, k).text = w \o b.bytes
  <2> DEFINE t == w \o b.bytes
  <2>1. t \in Seq(Nat) BY <1>5, <1>6, ConcatProperties
  <2>2. Mean(bs, k) = [ok |-> TRUE, text |-> t] BY <1>7
  <2> HIDE DEF t, bs
  <2>3. Mean(bs, k).ok /\ Mean(bs, k).text = t BY <2>1, <2>2, MeaningIs
  <2> QED BY <2>3 DEF t
<1>8. p \in Nat BY <1>1 DEF Stands
<1>9. \A i \in 0 .. L : Offsets(F)[i] \in Nat /\ Offsets(F)[i] <= Offsets(F)[L] BY <1>6, OffsetsGrow
<1>10. A = p + Offsets(F)[L]
  <2>1. Len(FlattenSeq(F)) = Offsets(F)[Len(F)] BY <1>6, Flattened DEF Words
  <2> QED BY <1>1, <1>6, <2>1
<1>11. src' = src /\ final' = final BY DEF StoredByte, input
<1>12. stream = s BY DEF Given
<1>13. CASE j = L
  <2>1. copying = 0 BY <1>1, <1>6, <1>13
  <2>2. mode' = AfterBlock /\ pos' = pos /\ bitbuf' = bitbuf /\ out' = out BY <2>1 DEF StoredByte, Goes
  <2>3. u = b.bytes BY <1>6, <1>13, SubSeqFull
  <2>4. out' = Mean(bs, k).text /\ Mean(bs, k).ok BY <1>1, <1>15, <2>2, <2>3
  <2>5. q = A BY <1>10, <1>13
  <2>6. Reading(s, Ahead(s.blocks, k))'
    <3>1. Reading(s, A) BY <1>1, <2>5 DEF Reading
    <3> QED BY <1>11, <2>2, <3>1, ReadingStays
  <2>7. Len(out') <= s.room BY <2>2
  <2>8. Len(Mean(bs, k).text) <= s.room BY <2>4, <2>7
  <2>9. Somewhere(s)' BY <1>1, <2>2, <2>4, <2>6, <2>8, PastBlock
  <2> QED BY <2>7, <2>9
<1>14. CASE j # L
  <2> DEFINE i == j + 1
             v == b.bytes[i]
             r == bits(Reader, OCTET)
  <2>1. i \in 1 .. L /\ i \in 0 .. L /\ i - 1 = j /\ j \in 0 .. L
    <3>1. L \in Nat BY <1>6
    <3>2. j \in 0 .. L BY <1>1
    <3> HIDE DEF L
    <3> QED BY <1>14, <3>1, <3>2
  <2>2. ~(copying = 0) /\ copying - 1 = L - i BY <1>1, <1>6, <1>14
  <2>3. At(r) /\ copying' = copying - 1 /\ Put(<<r.v>>, "bytes") BY <2>2 DEF StoredByte
  <2>4. Stands(all, q, Low(v, OCTET))
    <3>1. F \in Seq(Seq(Bit)) BY <1>6 DEF Words
    <3>2. \A x \in 1 .. Len(F) : Stands(all, p + Offsets(F)[x - 1], F[x]) BY <1>1, <1>2, <3>1, StandsFlattened
    <3>3. Stands(all, p + Offsets(F)[i - 1], F[i]) BY <1>6, <2>1, <3>2
    <3> QED BY <1>6, <2>1, <3>3
  <2>5. v \in Nat /\ v < Pow(OCTET) /\ OCTET \in Nat BY <1>6, <2>1, Sizes
  <2>6. Offsets(F)[i] = Offsets(F)[j] + OCTET
    <3>1. Offsets(F)[i] = Offsets(F)[i - 1] + Len(F[i]) BY <1>6, <2>1, OffsetsStep DEF Words
    <3>2. Len(F[i]) = OCTET BY <1>6, <2>1, <2>5, FieldBits
    <3> QED BY <2>1, <3>1, <3>2
  <2>7. q \in Nat /\ q + OCTET = p + Offsets(F)[i] /\ q + OCTET <= Supply
    <3> DEFINE x == Offsets(F)[j]
               y == Offsets(F)[i]
               z == Offsets(F)[L]
               d == OCTET
    <3>1. x \in Nat /\ y \in Nat /\ y <= z
      <4>1. x \in Nat BY <1>9, <2>1
      <4>2. y \in Nat /\ y <= z BY <1>9, <2>1
      <4> QED BY <4>1, <4>2
    <3>2. y = x + d /\ d \in Nat /\ A = p + z /\ q = p + x BY <1>10, <2>5, <2>6
    <3>3. z \in Nat
      <4>1. L \in 0 .. L BY <1>6
      <4> QED BY <1>9, <4>1
    <3>4. A <= Supply BY <1>1
    <3> HIDE DEF x, y, z, d, A, q
    <3>5. q \in Nat /\ q + d = p + y /\ q + d <= Supply BY <1>2, <1>8, <3>1, <3>2, <3>3, <3>4
    <3> QED BY <3>5 DEF y, d
  <2>8. r.v = v /\ ReadsAt(all, r, q + OCTET)
    <3> HIDE DEF all, q, v
    <3>1. Got(all, Reader, q) BY <1>1, <1>2, GotIs
    <3>2. Got(all, r, q + OCTET) /\ (q + OCTET <= Supply => r.v = v) BY <1>2, <2>4, <2>5, <2>7, <3>1, GotField
    <3> QED BY <2>7, <3>2 DEF Got
  <2>9. u \in Seq(Nat) /\ SubSeq(b.bytes, 1, i) = u \o <<v>> /\ <<v>> \in Seq(Nat)
    <3>1. <<v>> \in Seq(Nat) BY <2>5
    <3>2. \A x \in 1 .. j : b.bytes[x] \in Nat
      <4>1. \A x \in 1 .. j : x \in 1 .. L BY <1>6, <2>1
      <4> QED BY <1>6, <4>1
    <3>3. 1 \in Int /\ j \in Int BY <2>1
    <3>4. u \in Seq(Nat) BY <3>2, <3>3, SubSeqProperties
    <3>5. 1 \in 1 .. Len(b.bytes) /\ i \in 1 .. Len(b.bytes) BY <1>6, <2>1
    <3>6. SubSeq(b.bytes, 1, i) = SubSeq(b.bytes, 1, i - 1) \o <<b.bytes[i]>> BY <1>6, <3>5, SubSeqRecursiveSecond
    <3> QED BY <2>1, <3>1, <3>4, <3>6
  <2>10. out \in Seq(Nat) /\ out \o <<v>> = w \o SubSeq(b.bytes, 1, i)
    <3> HIDE DEF u, v, w
    <3>1. out \in Seq(Nat) BY <1>1, <1>5, <2>9, ConcatProperties
    <3>2. (w \o u) \o <<v>> = w \o (u \o <<v>>) BY <1>5, <2>9, ConcatAssociative
    <3> QED BY <1>1, <2>9, <3>1, <3>2
  <2>11. Put(<<v>>, "bytes") BY <2>3, <2>8
  <2>12. /\ Len(out \o <<v>>) = Len(out) + Len(<<v>>)
         /\ \/ mode' = "bytes" /\ out' = out \o <<v>> /\ Len(out \o <<v>>) <= s.room
            \/ mode' = "error" /\ out' = out /\ ~(Len(out \o <<v>>) <= s.room)
    BY <1>12, <2>9, <2>10, <2>11, Wrote
  <2>13. CASE mode' = "bytes" /\ out' = out \o <<v>> /\ Len(out \o <<v>>) <= s.room
    <3>1. Reading(s, q + OCTET)' BY <1>11, <2>3, <2>8, ReadingMoves
    <3>2. Reading(s, p + Offsets(F)[i])' BY <2>7, <3>1
    <3>3. Inside(s, k, 0)' BY <1>1, <1>11 DEF Inside
    <3>4. copying' = L - i BY <2>2, <2>3
    <3>5. Supply' = Supply BY <1>11 DEF Supply
    <3>6. out' = w \o SubSeq(b.bytes, 1, i) BY <2>10, <2>13
    <3> HIDE DEF i
    <3>7. AtBytes(s, k, p, i)' BY <1>1, <2>1, <2>13, <3>2, <3>3, <3>4, <3>5, <3>6 DEF AtBytes
    <3>8. Somewhere(s)' BY <3>7 DEF Somewhere
    <3> QED BY <2>13, <3>8
  <2>14. CASE mode' = "error" /\ out' = out /\ ~(Len(out \o <<v>>) <= s.room)
    <3>1. Len(out \o <<v>>) <= Len(w \o b.bytes)
      <4>1. Len(w \o b.bytes) = Len(w) + L /\ Len(w) \in Nat BY <1>5, <1>6, ConcatProperties, LenProperties
      <4>2. SubSeq(b.bytes, 1, i) \in Seq(Nat) /\ Len(SubSeq(b.bytes, 1, i)) = i
        <5>1. \A x \in 1 .. i : b.bytes[x] \in Nat
          <6>1. \A x \in 1 .. i : x \in 1 .. L BY <1>6, <2>1
          <6> QED BY <1>6, <6>1
        <5>2. 1 \in Int /\ i \in Int /\ 1 <= i /\ i - 1 + 1 = i BY <2>1
        <5> HIDE DEF i
        <5>3. SubSeq(b.bytes, 1, i) \in Seq(Nat) /\ Len(SubSeq(b.bytes, 1, i)) = IF 1 <= i THEN i - 1 + 1 ELSE 0
          BY <5>1, <5>2, SubSeqProperties
        <5> QED BY <5>2, <5>3
      <4>3. Len(w \o SubSeq(b.bytes, 1, i)) = Len(w) + i BY <1>5, <4>2, ConcatProperties
      <4>4. i <= L BY <2>1
      <4>5. Len(out \o <<v>>) = Len(w) + i BY <2>10, <4>3
      <4> HIDE DEF w, L
      <4> QED BY <1>6, <2>1, <4>1, <4>4, <4>5
    <3>2. Mean(bs, k).text = w \o b.bytes BY <1>15
    <3>3. ~Within(Mean(bs, k), s.room)
      <4>1. Len(out \o <<v>>) \in Nat /\ Len(w \o b.bytes) \in Nat
        <5>1. out \o <<v>> \in Seq(Nat) /\ w \o b.bytes \in Seq(Nat) BY <1>5, <1>6, <2>9, <2>10, ConcatProperties
        <5> QED BY <5>1, LenProperties
      <4>2. s.room \in Nat BY GivenIs
      <4> DEFINE x == Len(out \o <<v>>)
                 y == Len(w \o b.bytes)
                 z == s.room
      <4>3. ~(y <= z)
        <5>1. x \in Nat /\ y \in Nat /\ z \in Nat /\ x <= y /\ ~(x <= z) BY <2>14, <3>1, <4>1, <4>2
        <5> HIDE DEF x, y, z
        <5> QED BY <5>1
      <4> QED BY <3>2, <4>3 DEF Within
    <3>4. ~Accepts(s) BY <1>1, <3>3, Refused
    <3> QED BY <2>14, <3>4, Errs
  <2> QED BY <2>12, <2>13, <2>14
<1> QED BY <1>13, <1>14

----------------------------------------------------------------------------
(* Tokens. *)

\* Where each token stands, and the end of the block behind them.
TokensLie(all, p, l, d, ts) ==
  LET O == Offsets(TokenParts(l, d, ts))
      n == Len(ts)
  IN  /\ p \in Nat /\ n \in Nat /\ O[0] = 0
      /\ \A k \in 0 .. n : O[k] \in Nat /\ O[k] <= O[n]
      /\ \A k \in 1 .. n :
           /\ k - 1 \in 0 .. n /\ TokenBits(l, d, ts[k]) \in Words /\ Len(TokenBits(l, d, ts[k])) \in Nat
           /\ Stands(all, p + O[k - 1], TokenBits(l, d, ts[k])) /\ O[k] = O[k - 1] + Len(TokenBits(l, d, ts[k]))
      /\ Stands(all, p + O[n], Code(l, END)) /\ Len(Code(l, END)) \in Nat
      /\ p + Len(TokensBits(l, d, ts)) = (p + O[n]) + Len(Code(l, END))

\* The tokens of a block, each at its offset.
LEMMA TokensStand ==
  ASSUME NEW all, Len(all) \in Nat, NEW p, NEW l, IsLens(l), NEW d, IsLens(d), NEW ts, AllFit(d, ts),
         Stands(all, p, TokensBits(l, d, ts))
  PROVE  TokensLie(all, p, l, d, ts)
<1> DEFINE F == TokenParts(l, d, ts)
           O == Offsets(F)
           n == Len(ts)
           f == FlattenSeq(F)
           c == Code(l, END)
<1>1. F \in Seq(Words) /\ Len(F) = n /\ n \in Nat /\ TokensBits(l, d, ts) = f \o c /\ f \in Words BY TokensAreBits
<1>2. \A k \in 1 .. n : F[k] = TokenBits(l, d, ts[k]) BY <1>1 DEF TokenParts
<1>3. c \in Words /\ Len(c) \in Nat BY CodeBits, WordsJoin
<1> HIDE DEF F, c, n
<1>4. F \in Seq(Seq(Bit)) /\ f \in Seq(Bit) /\ c \in Seq(Bit) BY <1>1, <1>3 DEF Words
<1>5. Len(f) = O[n] BY <1>1, <1>4, Flattened
<1> HIDE DEF f
<1>6. Stands(all, p, f) /\ Stands(all, p + Len(f), c) /\ p + Len(f \o c) = (p + Len(f)) + Len(c)
  <2>1. Stands(all, p, f \o c) BY <1>1 DEF f
  <2>2. Stands(all, p, f) /\ Stands(all, p + Len(f), c) BY <1>4, <2>1, StandsJoined
  <2> DEFINE x == Len(f)
             y == Len(c)
  <2>3. f \in Words BY <1>1 DEF f
  <2>4. x \in Nat /\ y \in Nat /\ Len(f \o c) = x + y /\ p \in Nat BY <1>3, <2>1, <2>3, WordsJoin DEF Stands
  <2> HIDE DEF x, y
  <2>5. p + Len(f \o c) = (p + x) + y BY <2>4
  <2> QED BY <2>2, <2>5 DEF x, y
<1>7. \A k \in 1 .. n : Stands(all, p + O[k - 1], F[k]) BY <1>1, <1>4, <1>6, StandsFlattened DEF f
<1>8. \A k \in 0 .. n : O[k] \in Nat /\ O[k] <= O[n] BY <1>1, OffsetsGrow
<1>9. O[0] = 0 /\ \A k \in 1 .. n : F[k] \in Words /\ Len(F[k]) \in Nat /\ k - 1 \in 0 .. n /\ O[k] = O[k - 1] + Len(F[k])
  BY <1>1, <1>4, OffsetsStep DEF Words
<1>10. p \in Nat BY DEF Stands
<1>11. \A k \in 1 .. n :
         /\ k - 1 \in 0 .. n /\ TokenBits(l, d, ts[k]) \in Words /\ Len(TokenBits(l, d, ts[k])) \in Nat
         /\ Stands(all, p + O[k - 1], TokenBits(l, d, ts[k])) /\ O[k] = O[k - 1] + Len(TokenBits(l, d, ts[k]))
  BY <1>2, <1>7, <1>9
<1>12. Stands(all, p + O[n], c) /\ p + Len(TokensBits(l, d, ts)) = (p + O[n]) + Len(c) BY <1>1, <1>5, <1>6 DEF f
<1> QED BY <1>1, <1>3, <1>8, <1>9, <1>10, <1>11, <1>12 DEF F, c, n, TokensLie

\* The codes of a block are read: its first token is next.
LEMMA CodesBegin ==
  ASSUME NEW s, Given(s), s.zlib, NEW k \in 1 .. Len(s.blocks), Mean(s.blocks, k - 1).ok, final' = (k = Len(s.blocks)),
         Coding(s.blocks[k]), mode' = "codes", out' = Mean(s.blocks, k - 1).text,
         lit' = huff_build(LitFor(s.blocks[k])), dist' = huff_build(DistFor(s.blocks[k])), NEW p,
         Stands(AllBits(s.blocks), p, TokensBits(LitFor(s.blocks[k]), DistFor(s.blocks[k]), s.blocks[k].tokens)),
         p + Len(TokensBits(LitFor(s.blocks[k]), DistFor(s.blocks[k]), s.blocks[k].tokens)) = Ahead(s.blocks, k),
         Reading(s, p)'
  PROVE  Somewhere(s)'
<1> DEFINE bs == s.blocks
           all == AllBits(bs)
           b == bs[k]
           w == Mean(bs, k - 1).text
           l == LitFor(b)
           d == DistFor(b)
           O == Offsets(TokenParts(l, d, b.tokens))
<1>1. GoodBlocks(bs) /\ Len(all) \in Nat BY GivenIs
<1>2. IsBlock(b) /\ k - 1 \in 0 .. Len(bs) BY <1>1, BlocksAre
<1>3. w \in Seq(Nat) BY <1>1, <1>2, BlocksAre, MeaningIs
<1>4. IsLens(l) /\ IsLens(d) /\ AllFit(d, b.tokens) BY <1>2, CodingIs
<1>5. p \in Nat /\ Len(b.tokens) \in Nat /\ O[0] = 0
  <2>1. TokensLie(all, p, l, d, b.tokens) BY <1>1, <1>4, TokensStand
  <2> QED BY <2>1 DEF TokensLie
<1>6. TokenMeaning(s, k, 0) = [ok |-> TRUE, text |-> w]
  <2>1. TokensMean(b.tokens, l, d, w)[0] = [ok |-> TRUE, text |-> w] BY <1>3, <1>4, TokensAre
  <2> QED BY <2>1 DEF TokenMeaning
<1>7. TokenMeaning(s, k, 0).ok /\ TokenMeaning(s, k, 0).text = w
  <2> HIDE DEF w
  <2> QED BY <1>3, <1>6, MeaningIs
<1>8. 0 \in 0 .. Len(b.tokens) BY <1>5
<1>9. Reading(s, p + O[0])'
  <2>1. p + O[0] = p BY <1>5
  <2> QED BY <2>1
<1>10. Inside(s, k, b.type)' BY DEF Inside
<1> HIDE DEF w, O
<1>11. out' = w BY DEF w
<1>12. AtCodes(s, k, p, 0)' BY <1>7, <1>8, <1>9, <1>10, <1>11 DEF AtCodes, O
<1> QED BY <1>12 DEF Somewhere

\* A block with the fixed tables goes on to its tokens.
LEMMA FixedMoves ==
  ASSUME NEW s, Given(s), s.zlib, NEW k, AtKind(s, k, 1), Fixed
  PROVE  Somewhere(s)' /\ out' = out
<1> DEFINE bs == s.blocks
           all == AllBits(bs)
           b == bs[k]
           n == Ahead(bs, k - 1)
           w == Mean(bs, k - 1).text
<1>1. k \in 1 .. Len(bs) /\ Mean(bs, k - 1).ok /\ b.type = 1 /\ final = (k = Len(bs)) /\ out = w /\ Reading(s, n + 3)
  BY DEF AtKind, Inside, Unwritten
<1>2. n \in Nat /\ Ahead(bs, k) = (n + 3) + Len(Rest(b, n)) /\ Stands(all, n + 3, Rest(b, n)) BY <1>1, BlockIs
<1>3. /\ mode' = "codes" /\ src' = src /\ pos' = pos /\ bitbuf' = bitbuf /\ out' = out /\ final' = final
      /\ lit' = huff_build(FixedLit) /\ dist' = huff_build(FixedDist)
  BY DEF Fixed, Goes, input
<1>4. Coding(b) /\ LitFor(b) = FixedLit /\ DistFor(b) = FixedDist BY <1>1 DEF Coding, LitFor, DistFor
<1>5. Rest(b, n) = TokensBits(LitFor(b), DistFor(b), b.tokens) BY <1>1, <1>4 DEF Rest
<1>6. Reading(s, n + 3)' BY <1>1, <1>3, ReadingStays
<1> DEFINE p == n + 3
<1>7. Stands(all, p, TokensBits(LitFor(b), DistFor(b), b.tokens)) /\ p + Len(TokensBits(LitFor(b), DistFor(b), b.tokens)) = Ahead(bs, k)
  BY <1>2, <1>5
<1>8. Reading(s, p)' BY <1>6
<1> HIDE DEF p
<1>9. final' = (k = Len(bs)) /\ out' = w BY <1>1, <1>3
<1>10. Somewhere(s)' BY <1>1, <1>3, <1>4, <1>7, <1>8, <1>9, CodesBegin
<1> QED BY <1>3, <1>10

\* What is next in a block of tokens, and what it means.
LEMMA CodesAre ==
  ASSUME NEW s, Given(s), s.zlib, NEW k, NEW p, NEW j, AtCodes(s, k, p, j)
  PROVE  LET bs == s.blocks
             all == AllBits(bs)
             b == bs[k]
             l == LitFor(b)
             d == DistFor(b)
             O == Offsets(TokenParts(l, d, b.tokens))
             q == p + O[j]
         IN  /\ k \in 1 .. Len(bs) /\ IsBlock(b) /\ Carries(all) /\ Supply \in Nat /\ Len(all) \in Nat
             /\ IsLens(l) /\ IsLens(d) /\ Weight(l) <= Pow(MAXLBITS) /\ Weight(d) <= Pow(MAXLBITS) /\ Coded(l, END)
             /\ q \in Nat /\ ReadsAt(all, Reader, q) /\ out \in Seq(Nat) /\ Ahead(bs, k) \in Nat
             /\ j = Len(b.tokens) =>
                  /\ Stands(all, q, Code(l, END)) /\ q + Len(Code(l, END)) = Ahead(bs, k) /\ Len(Code(l, END)) \in Nat
                  /\ Mean(bs, k).ok /\ Mean(bs, k).text = out
             /\ j # Len(b.tokens) =>
                  /\ j + 1 \in 1 .. Len(b.tokens) /\ Fits(d, b.tokens[j + 1]) /\ Sparing(l, d, b.tokens[j + 1])
                  /\ Stands(all, q, TokenBits(l, d, b.tokens[j + 1])) /\ Len(TokenBits(l, d, b.tokens[j + 1])) \in Nat
                  /\ q + Len(TokenBits(l, d, b.tokens[j + 1])) = p + O[j + 1]
                  /\ p + O[j + 1] \in Nat /\ p + O[j + 1] <= Ahead(bs, k)
                  /\ TokenMeaning(s, k, j + 1) = TokenMeans(l, d, b.tokens[j + 1], out)
                  /\ ~Within(TokenMeaning(s, k, j + 1), s.room) => ~Accepts(s)
<1> DEFINE bs == s.blocks
           all == AllBits(bs)
           b == bs[k]
           ts == b.tokens
           l == LitFor(b)
           d == DistFor(b)
           O == Offsets(TokenParts(l, d, ts))
           q == p + O[j]
           w == Mean(bs, k - 1).text
           M == TokensMean(ts, l, d, w)
           N == Len(ts)
           A == Ahead(bs, k)
<1>1. /\ k \in 1 .. Len(bs) /\ Mean(bs, k - 1).ok /\ Coding(b)
      /\ Stands(all, p, TokensBits(l, d, ts)) /\ p + Len(TokensBits(l, d, ts)) = A
      /\ j \in 0 .. N /\ M[j].ok /\ out = M[j].text /\ ReadsAt(all, Reader, q)
  BY DEF AtCodes, Inside, Reading, TokenMeaning
<1>2. Carries(all) /\ Supply \in Nat /\ Len(all) \in Nat /\ GoodBlocks(bs) /\ s.room \in Nat BY GivenIs
<1>3. IsBlock(b) /\ A \in Nat BY <1>1, BlockIs
<1>4. k - 1 \in 0 .. Len(bs) /\ Mean(bs, k) = BlockMeans(b, w) BY <1>1, <1>2, BlocksAre
<1>5. w \in Seq(Nat) BY <1>2, <1>4, BlocksAre, MeaningIs
<1>6. /\ IsLens(l) /\ IsLens(d) /\ Weight(l) <= Pow(MAXLBITS) /\ Weight(d) <= Pow(MAXLBITS)
      /\ Coded(l, END) /\ AllFit(d, ts) /\ AllSparing(l, d, ts) /\ BlockMeans(b, w) = M[N]
  BY <1>1, <1>3, CodingIs
<1>9. ~Within(M[N], s.room) => ~Accepts(s)
  <2>1. ~Within(BlockMeans(b, w), s.room) => ~Accepts(s) BY <1>1, Refused
  <2> QED BY <1>6, <2>1
<1>10. \A i : TokenMeaning(s, k, i) = M[i] BY DEF TokenMeaning
<1> HIDE DEF w, l, d, ts, all, b
<1>7. /\ N \in Nat /\ (\A i \in 0 .. N : M[i] \in Meaning)
      /\ \A i \in 1 .. N : i - 1 \in 0 .. N /\ Fits(d, ts[i]) /\ (M[i - 1].ok => M[i] = TokenMeans(l, d, ts[i], M[i - 1].text))
      /\ \A room \in Nat : Within(M[N], room) => \A i \in 0 .. N : Within(M[i], room)
  <2> HIDE DEF M, N
  <2>1. Len(ts) \in Nat /\ \A i \in 0 .. Len(ts) : TokensMean(ts, l, d, w)[i] \in Meaning BY <1>5, <1>6, TokensAre
  <2>2. \A i \in 1 .. Len(ts) :
          /\ i - 1 \in 0 .. Len(ts) /\ Fits(d, ts[i])
          /\ TokensMean(ts, l, d, w)[i - 1].ok => TokensMean(ts, l, d, w)[i] = TokenMeans(l, d, ts[i], TokensMean(ts, l, d, w)[i - 1].text)
    <3> TAKE i \in 1 .. Len(ts)
    <3>1. i - 1 \in 0 .. Len(ts) BY <1>5, <1>6, TokensAre
    <3>2. Fits(d, ts[i]) BY <1>5, <1>6, TokensAre
    <3>3. FollowsToken(l, d, ts, w, i) BY <1>5, <1>6, TokensAre
    <3>4. TokensMean(ts, l, d, w)[i - 1].ok => TokensMean(ts, l, d, w)[i] = TokenMeans(l, d, ts[i], TokensMean(ts, l, d, w)[i - 1].text)
      BY <3>3 DEF FollowsToken
    <3> QED BY <3>1, <3>2, <3>4
  <2>3. \A room \in Nat : Within(TokensMean(ts, l, d, w)[Len(ts)], room)
                            => \A i \in 0 .. Len(ts) : Within(TokensMean(ts, l, d, w)[i], room)
    BY <1>5, <1>6, TokensAre
  <2>4. M = TokensMean(ts, l, d, w) /\ N = Len(ts) BY DEF M, N
  <2> QED BY <2>1, <2>2, <2>3, <2>4
<1>8. /\ p \in Nat
      /\ \A i \in 0 .. N : O[i] \in Nat /\ O[i] <= O[N]
      /\ \A i \in 1 .. N : /\ i - 1 \in 0 .. N /\ Len(TokenBits(l, d, ts[i])) \in Nat
                           /\ Stands(all, p + O[i - 1], TokenBits(l, d, ts[i])) /\ O[i] = O[i - 1] + Len(TokenBits(l, d, ts[i]))
      /\ Stands(all, p + O[N], Code(l, END)) /\ Len(Code(l, END)) \in Nat
      /\ p + Len(TokensBits(l, d, ts)) = (p + O[N]) + Len(Code(l, END))
  <2>1. Stands(all, p, TokensBits(l, d, ts)) /\ Len(all) \in Nat BY <1>1, <1>2
  <2> DEFINE P == Offsets(TokenParts(l, d, ts))
             m == Len(ts)
  <2>2. /\ p \in Nat
        /\ \A i \in 0 .. m : P[i] \in Nat /\ P[i] <= P[m]
        /\ \A i \in 1 .. m : /\ i - 1 \in 0 .. m /\ Len(TokenBits(l, d, ts[i])) \in Nat
                             /\ Stands(all, p + P[i - 1], TokenBits(l, d, ts[i])) /\ P[i] = P[i - 1] + Len(TokenBits(l, d, ts[i]))
        /\ Stands(all, p + P[m], Code(l, END)) /\ Len(Code(l, END)) \in Nat
        /\ p + Len(TokensBits(l, d, ts)) = (p + P[m]) + Len(Code(l, END))
    <3>1. TokensLie(all, p, l, d, ts) BY <1>6, <2>1, TokensStand
    <3> QED BY <3>1 DEF TokensLie
  <2> QED BY <2>2
<1> HIDE DEF all, b, ts, l, d, O, w, M, N, A, bs
<1>11. q \in Nat /\ out \in Seq(Nat)
  <2>1. O[j] \in Nat BY <1>1, <1>8
  <2>2. M[j] \in Meaning BY <1>1, <1>7
  <2> QED BY <1>1, <1>8, <2>1, <2>2, MeaningIs
<1>12. ASSUME j = N
       PROVE  Stands(all, q, Code(l, END)) /\ q + Len(Code(l, END)) = A /\ Mean(bs, k).ok /\ Mean(bs, k).text = out
  BY <1>1, <1>4, <1>6, <1>8, <1>12
<1>13. ASSUME j # N
       PROVE  /\ j + 1 \in 1 .. N /\ Fits(d, ts[j + 1]) /\ Sparing(l, d, ts[j + 1])
              /\ Stands(all, q, TokenBits(l, d, ts[j + 1])) /\ Len(TokenBits(l, d, ts[j + 1])) \in Nat
              /\ q + Len(TokenBits(l, d, ts[j + 1])) = p + O[j + 1]
              /\ p + O[j + 1] \in Nat /\ p + O[j + 1] <= A
              /\ TokenMeaning(s, k, j + 1) = TokenMeans(l, d, ts[j + 1], out)
              /\ ~Within(TokenMeaning(s, k, j + 1), s.room) => ~Accepts(s)
  <2> DEFINE i == j + 1
             t == ts[i]
             c == Len(TokenBits(l, d, t))
  <2>1. i \in 1 .. N /\ i - 1 = j /\ i \in 0 .. N /\ N \in 0 .. N /\ j \in 0 .. N BY <1>1, <1>7, <1>13
  <2> HIDE DEF i
  <2>2. Fits(d, t) /\ TokenMeaning(s, k, i) = TokenMeans(l, d, t, out) BY <1>1, <1>7, <1>10, <2>1
  <2>3. Sparing(l, d, t) BY <1>6, <2>1 DEF AllSparing, N
  <2>4. Stands(all, q, TokenBits(l, d, t)) /\ c \in Nat /\ O[i] = O[j] + c BY <1>8, <2>1
  <2> DEFINE x == O[j]
             y == O[i]
             z == O[N]
             e == Len(Code(l, END))
  <2>5. x \in Nat /\ y \in Nat /\ z \in Nat /\ y <= z BY <1>8, <2>1
  <2>6. e \in Nat /\ A = (p + z) + e /\ p \in Nat /\ y = x + c /\ q = p + x BY <1>1, <1>8, <2>4
  <2> HIDE DEF x, y, z, c, e, q
  <2>7. q + c = p + y /\ p + y \in Nat /\ p + y <= A BY <2>4, <2>5, <2>6
  <2>8. ~Within(M[i], s.room) => ~Accepts(s) BY <1>2, <1>7, <1>9, <2>1
  <2> QED BY <1>10, <2>1, <2>2, <2>3, <2>4, <2>7, <2>8 DEF y, c, i
<1> QED BY <1>1, <1>2, <1>3, <1>6, <1>8, <1>11, <1>12, <1>13 DEF all, b, ts, l, d, O, w, M, N, A, bs

\* The symbol for the end stands behind the literals.
LEMMA EndIs == END \in Nat /\ LITS = END
BY Sizes, PowIs DEF END, LITS

\* A token is read, and what it means is written or there is no room for it.
LEMMA TokenDone ==
  ASSUME NEW s, Given(s), s.zlib, Len(out) <= s.room, NEW k, NEW p, NEW j, AtCodes(s, k, p, j), j # Len(s.blocks[k].tokens),
         src' = src, final' = final, lit' = lit, dist' = dist, NEW r,
         ReadsAt(AllBits(s.blocks), r, p + Offsets(TokenParts(LitFor(s.blocks[k]), DistFor(s.blocks[k]), s.blocks[k].tokens))[j + 1]),
         At(r), NEW v \in Seq(Nat), Put(v, "codes"), TokenMeaning(s, k, j + 1) = [ok |-> TRUE, text |-> out \o v]
  PROVE  Somewhere(s)' /\ Len(out') <= s.room
<1> DEFINE b == s.blocks[k]
           l == LitFor(b)
           d == DistFor(b)
           O == Offsets(TokenParts(l, d, b.tokens))
           i == j + 1
<1>1. k \in 1 .. Len(s.blocks) /\ out \in Seq(Nat) /\ i \in 1 .. Len(b.tokens) /\ (~Within(TokenMeaning(s, k, i), s.room) => ~Accepts(s))
  BY CodesAre
<1>2. out \o v \in Seq(Nat) BY <1>1, ConcatProperties
<1>3. TokenMeaning(s, k, i).ok /\ TokenMeaning(s, k, i).text = out \o v
  <2> DEFINE t == out \o v
  <2>1. t \in Seq(Nat) /\ TokenMeaning(s, k, i) = [ok |-> TRUE, text |-> t] BY <1>2
  <2> HIDE DEF t, i
  <2>2. TokenMeaning(s, k, i).ok /\ TokenMeaning(s, k, i).text = t BY <2>1, MeaningIs
  <2> QED BY <2>2 DEF t
<1>4. stream = s BY DEF Given
<1>5. \/ mode' = "codes" /\ out' = out \o v /\ Len(out \o v) <= s.room
      \/ mode' = "error" /\ out' = out /\ ~(Len(out \o v) <= s.room)
  BY <1>1, <1>4, Wrote
<1>6. CASE mode' = "codes" /\ out' = out \o v /\ Len(out \o v) <= s.room
  <2>1. Reading(s, p + O[i])' BY ReadingMoves
  <2>2. /\ Inside(s, k, b.type) /\ Coding(b) /\ lit = huff_build(l) /\ dist = huff_build(d)
        /\ Stands(AllBits(s.blocks), p, TokensBits(l, d, b.tokens)) /\ p + Len(TokensBits(l, d, b.tokens)) = Ahead(s.blocks, k)
    BY DEF AtCodes
  <2>3. Inside(s, k, b.type)' BY <2>2 DEF Inside
  <2>4. lit' = huff_build(l) /\ dist' = huff_build(d) BY <2>2
  <2>5. i \in 0 .. Len(b.tokens) BY <1>1
  <2>6. out' = TokenMeaning(s, k, i).text BY <1>3, <1>6
  <2> HIDE DEF i
  <2>7. AtCodes(s, k, p, i)' BY <1>3, <1>6, <2>1, <2>2, <2>3, <2>4, <2>5, <2>6 DEF AtCodes
  <2>8. Somewhere(s)' BY <2>7 DEF Somewhere
  <2> QED BY <1>6, <2>8
<1>7. CASE mode' = "error" /\ out' = out /\ ~(Len(out \o v) <= s.room)
  <2>1. ~Within(TokenMeaning(s, k, i), s.room) BY <1>3, <1>7 DEF Within
  <2>2. ~Accepts(s) BY <1>1, <2>1
  <2> QED BY <1>7, <2>2, Errs
<1> QED BY <1>5, <1>6, <1>7

\* The symbol at the end of a block.
LEMMA EndMoves ==
  ASSUME NEW s, Given(s), s.zlib, Len(out) <= s.room, NEW k, NEW p, NEW j, AtCodes(s, k, p, j), j = Len(s.blocks[k].tokens), CodedSymbol
  PROVE  Somewhere(s)' /\ Len(out') <= s.room
<1> DEFINE bs == s.blocks
           all == AllBits(bs)
           b == bs[k]
           l == LitFor(b)
           d == DistFor(b)
           q == p + Offsets(TokenParts(l, d, b.tokens))[j]
           e == Len(Code(l, END))
           A == Ahead(bs, k)
           sym == huff_decode(Reader, lit)
<1>1. /\ k \in 1 .. Len(bs) /\ Carries(all) /\ Supply \in Nat /\ Len(all) \in Nat
      /\ IsLens(l) /\ Weight(l) <= Pow(MAXLBITS) /\ Coded(l, END)
      /\ q \in Nat /\ ReadsAt(all, Reader, q) /\ out \in Seq(Nat) /\ A \in Nat
  BY CodesAre
<1>2. Stands(all, q, Code(l, END)) /\ q + e = A /\ e \in Nat /\ Mean(bs, k).ok /\ Mean(bs, k).text = out BY CodesAre
<1>3. lit = huff_build(l) /\ final = (k = Len(bs)) BY DEF AtCodes, Inside
<1>4. Got(all, sym, A) /\ (A <= Supply => sym.v = END)
  <2> HIDE DEF all, l, q, sym, e
  <2>1. Got(all, Reader, q) BY <1>1, GotIs
  <2>2. /\ Got(all, huff_decode(Reader, huff_build(l)), q + Len(Code(l, END)))
        /\ q + Len(Code(l, END)) <= Supply => huff_decode(Reader, huff_build(l)).v = END
    BY <1>1, <1>2, <2>1, GotSymbol
  <2> QED BY <1>2, <1>3, <2>2 DEF sym, e
<1>5. src' = src BY DEF CodedSymbol, input
<1>6. CASE ~(A <= Supply)
  <2>1. sym.ok = FALSE BY <1>4, <1>6 DEF Got
  <2>2. mode' = "error" /\ out' = out BY <2>1 DEF CodedSymbol, Error
  <2>3. Supply < A BY <1>1, <1>6
  <2>4. ~Accepts(s) BY <1>1, <2>3, Refused
  <2> QED BY <2>2, <2>4, Errs
<1>7. CASE A <= Supply
  <2>1. sym.ok = TRUE /\ sym.v = END /\ ReadsAt(all, sym, A) BY <1>4, <1>7 DEF Got, ReadsAt
  <2>2. At(sym) /\ mode' = AfterBlock /\ out' = out
    <3> HIDE DEF sym
    <3>1. sym.ok /\ sym.v = END /\ ~(sym.v < END) /\ ~(sym.v > END) BY <2>1, EndIs
    <3>2. CASE sym = huff_decode(Reader, lit)
      <4>1. (CASE ~sym.ok -> Error
              [] sym.ok /\ sym.v < END -> At(sym) /\ Put(<<sym.v>>, "codes") /\ UNCHANGED <<final, copying, table, header>>
              [] sym.ok /\ sym.v = END -> At(sym) /\ Goes(AfterBlock) /\ UNCHANGED <<out, final, copying, table, header>>
              [] sym.ok /\ sym.v > END -> Match(sym))
        BY <3>2 DEF CodedSymbol
      <4> QED BY <3>1, <4>1 DEF Goes
    <3> QED BY <3>2 DEF sym
  <2>3. Reading(s, A)' BY <1>5, <2>1, <2>2, ReadingMoves
  <2>4. Len(Mean(bs, k).text) <= s.room /\ out' = Mean(bs, k).text BY <1>2, <2>2
  <2> HIDE DEF A
  <2>5. Ahead(s.blocks, k) <= Supply /\ Reading(s, Ahead(s.blocks, k))' BY <1>7, <2>3 DEF A
  <2>6. Somewhere(s)' BY <1>1, <1>2, <1>3, <2>2, <2>4, <2>5, PastBlock
  <2> QED BY <2>2, <2>6
<1> QED BY <1>6, <1>7

\* What the decoder does with a symbol, by its value.
LEMMA SymbolRead ==
  ASSUME CodedSymbol, NEW sym, sym = huff_decode(Reader, lit), NEW v \in Nat, sym.ok = TRUE => sym.v = v, sym.ok \in BOOLEAN
  PROVE  /\ src' = src
         /\ ~sym.ok => mode' = "error" /\ out' = out
         /\ sym.ok /\ v < END => At(sym) /\ Put(<<v>>, "codes") /\ final' = final /\ lit' = lit /\ dist' = dist
         /\ sym.ok /\ v > END => Match(sym)
<1>1. (CASE ~sym.ok -> Error
        [] sym.ok /\ sym.v < END -> At(sym) /\ Put(<<sym.v>>, "codes") /\ UNCHANGED <<final, copying, table, header>>
        [] sym.ok /\ sym.v = END -> At(sym) /\ Goes(AfterBlock) /\ UNCHANGED <<out, final, copying, table, header>>
        [] sym.ok /\ sym.v > END -> Match(sym))
  BY DEF CodedSymbol
<1>2. src' = src BY DEF CodedSymbol, input
<1>3. CASE ~sym.ok BY <1>1, <1>2, <1>3 DEF Error
<1>4. CASE sym.ok
  <2>1. sym.v = v BY <1>4
  <2>2. v < END => ~(v = END) /\ ~(v > END) BY EndIs
  <2>3. v > END => ~(v = END) /\ ~(v < END) BY EndIs
  <2> QED BY <1>1, <1>2, <1>4, <2>1, <2>2, <2>3 DEF table
<1> QED BY <1>3, <1>4

\* A literal is written, or refused where it has no code or no room.
LEMMA LiteralMoves ==
  ASSUME NEW s, Given(s), s.zlib, Len(out) <= s.room, NEW k, NEW p, NEW j, AtCodes(s, k, p, j), j # Len(s.blocks[k].tokens),
         s.blocks[k].tokens[j + 1].kind = "lit", CodedSymbol
  PROVE  Somewhere(s)' /\ Len(out') <= s.room
<1> DEFINE bs == s.blocks
           all == AllBits(bs)
           b == bs[k]
           l == LitFor(b)
           d == DistFor(b)
           O == Offsets(TokenParts(l, d, b.tokens))
           q == p + O[j]
           t == b.tokens[j + 1]
           c == Code(l, t.lit)
           z == p + O[j + 1]
           sym == huff_decode(Reader, lit)
<1>1. /\ k \in 1 .. Len(bs) /\ Carries(all) /\ Supply \in Nat /\ Len(all) \in Nat
      /\ IsLens(l) /\ IsLens(d) /\ Weight(l) <= Pow(MAXLBITS)
      /\ q \in Nat /\ ReadsAt(all, Reader, q) /\ out \in Seq(Nat) /\ Ahead(bs, k) \in Nat
  BY CodesAre
<1>2. /\ Fits(d, t) /\ Sparing(l, d, t) /\ Stands(all, q, TokenBits(l, d, t)) /\ q + Len(TokenBits(l, d, t)) = z
      /\ z \in Nat /\ z <= Ahead(bs, k) /\ TokenMeaning(s, k, j + 1) = TokenMeans(l, d, t, out)
      /\ ~Within(TokenMeaning(s, k, j + 1), s.room) => ~Accepts(s)
  BY CodesAre
<1>3. lit = huff_build(l) BY DEF AtCodes
<1>4. t.lit \in 0 .. LITS - 1 /\ TokenBits(l, d, t) = c BY <1>1, <1>2, TokenIsBits
<1>5. t.lit \in Nat /\ t.lit < END BY <1>4, EndIs
<1>10. t.kind = "lit" OBVIOUS
<1> HIDE DEF all, l, d, q, z, t, c
<1>6. /\ ~Coded(l, t.lit) => TokenMeans(l, d, t, out) = Bad
      /\ Coded(l, t.lit) => TokenMeans(l, d, t, out) = [ok |-> TRUE, text |-> Append(out, t.lit)]
  <2>1. IsLens(l) /\ IsLens(d) /\ Fits(d, t) /\ out \in Seq(Nat) BY <1>1, <1>2
  <2>2. ~Coded(l, t.lit) => TokenMeans(l, d, t, out) = Bad BY <1>10, <2>1, TokenMeansIs
  <2>3. Coded(l, t.lit) => TokenMeans(l, d, t, out) = [ok |-> TRUE, text |-> Append(out, t.lit)] BY <1>10, <2>1, TokenMeansIs
  <2> QED BY <2>2, <2>3
<1>7. Got(all, Reader, q) BY <1>1, GotIs
<1>8. CASE ~Coded(l, t.lit)
  <2>1. Weight(l) < Pow(MAXLBITS)
    <3>1. Spare(l, t.lit) BY <1>2 DEF Sparing, t
    <3> QED BY <1>8, <3>1 DEF Spare
  <2>2. sym.ok = FALSE
    <3>1. Stands(all, q, Code(l, t.lit)) BY <1>2, <1>4 DEF c
    <3>2. huff_decode(Reader, huff_build(l)).ok = FALSE BY <1>1, <1>7, <1>8, <2>1, <3>1, GotNothing
    <3> QED BY <1>3, <3>2
  <2>3. mode' = "error" /\ out' = out
    <3> HIDE DEF sym
    <3>1. sym = huff_decode(Reader, lit) /\ sym.ok \in BOOLEAN /\ (sym.ok = TRUE => sym.v = 0) /\ 0 \in Nat BY <2>2 DEF sym
    <3> QED BY <2>2, <3>1, SymbolRead
  <2>4. ~Within(TokenMeaning(s, k, j + 1), s.room) BY <1>2, <1>6, <1>8, MeaningIs DEF Within
  <2>5. ~Accepts(s) BY <1>2, <2>4
  <2> QED BY <2>3, <2>5, Errs
<1>9. CASE Coded(l, t.lit)
  <2>1. Got(all, sym, z) /\ (z <= Supply => sym.v = t.lit)
    <3> HIDE DEF sym
    <3>1. Stands(all, q, Code(l, t.lit)) BY <1>2, <1>4 DEF c
    <3>2. /\ Got(all, huff_decode(Reader, huff_build(l)), q + Len(Code(l, t.lit)))
          /\ q + Len(Code(l, t.lit)) <= Supply => huff_decode(Reader, huff_build(l)).v = t.lit
      BY <1>1, <1>7, <1>9, <3>1, GotSymbol
    <3>3. q + Len(Code(l, t.lit)) = z BY <1>2, <1>4 DEF c
    <3>4. sym = huff_decode(Reader, huff_build(l)) BY <1>3 DEF sym
    <3> QED BY <3>2, <3>3, <3>4
  <2>2. CASE ~(z <= Supply)
    <3>1. sym.ok = FALSE BY <2>1, <2>2 DEF Got
    <3>2. mode' = "error" /\ out' = out
      <4> HIDE DEF sym
      <4>1. sym = huff_decode(Reader, lit) /\ sym.ok \in BOOLEAN /\ (sym.ok = TRUE => sym.v = 0) /\ 0 \in Nat BY <3>1 DEF sym
      <4> QED BY <3>1, <4>1, SymbolRead
    <3>3. Supply < Ahead(bs, k) BY <1>1, <1>2, <2>2
    <3>4. ~Accepts(s) BY <1>1, <3>3, Refused
    <3> QED BY <3>2, <3>4, Errs
  <2>3. CASE z <= Supply
    <3>1. sym.ok = TRUE /\ sym.v = t.lit /\ ReadsAt(all, sym, z) BY <2>1, <2>3 DEF Got, ReadsAt
    <3>2. At(sym) /\ Put(<<t.lit>>, "codes") /\ final' = final /\ lit' = lit /\ dist' = dist /\ src' = src
      <4> HIDE DEF sym
      <4>1. sym = huff_decode(Reader, lit) /\ sym.ok \in BOOLEAN /\ (sym.ok = TRUE => sym.v = t.lit) BY <3>1 DEF sym
      <4> QED BY <1>5, <3>1, <4>1, SymbolRead
    <3>3. <<t.lit>> \in Seq(Nat) BY <1>5
    <3>4. Append(out, t.lit) = out \o <<t.lit>> BY <1>1, <1>5, AppendIsConcat
    <3>5. TokenMeaning(s, k, j + 1) = [ok |-> TRUE, text |-> out \o <<t.lit>>] BY <1>2, <1>6, <1>9, <3>4
    <3> DEFINE v == <<t.lit>>
    <3>6. v \in Seq(Nat) /\ Put(v, "codes") /\ TokenMeaning(s, k, j + 1) = [ok |-> TRUE, text |-> out \o v] BY <3>2, <3>3, <3>5
    <3> HIDE DEF sym, v
    <3>7. ReadsAt(AllBits(s.blocks), sym, p + Offsets(TokenParts(LitFor(s.blocks[k]), DistFor(s.blocks[k]), s.blocks[k].tokens))[j + 1])
      BY <3>1 DEF all, z, l, d
    <3> QED BY <3>2, <3>6, <3>7, TokenDone
  <2> QED BY <2>2, <2>3
<1> QED BY <1>8, <1>9

\* The four parts of a match, as far as it has them.
MatchLies(all, q, l, d, t) ==
  LET y == END + 1 + t.len
      e == LengthTable[t.len + 1].ext
      z1 == q + Len(Code(l, y))
      z2 == z1 + e
      z3 == z2 + Len(Code(d, t.dist))
      f == DistTable[t.dist + 1].ext
  IN  /\ t.len \in Nat /\ y \in Nat /\ y > END /\ y - END = t.len + 1
      /\ Stands(all, q, Code(l, y)) /\ Len(Code(l, y)) \in Nat /\ z1 <= q + Len(TokenBits(l, d, t))
      /\ t.len < Len(LengthTable) =>
           /\ e \in Nat /\ t.lx \in Nat /\ t.lx < Pow(e) /\ Stands(all, z1, Low(t.lx, e))
           /\ Stands(all, z2, Code(d, t.dist)) /\ Len(Code(d, t.dist)) \in Nat
           /\ Coded(d, t.dist) =>
                /\ t.dist \in Nat /\ t.dist < Len(DistTable) /\ f \in Nat /\ t.dx \in Nat /\ t.dx < Pow(f)
                /\ Stands(all, z3, Low(t.dx, f)) /\ z3 + f = q + Len(TokenBits(l, d, t))

\* The fields of a match, one behind the other.
LEMMA MatchStands ==
  ASSUME NEW all, Len(all) \in Nat, NEW q, NEW l, IsLens(l), NEW d, IsLens(d), NEW t, Fits(d, t), t.kind # "lit",
         Stands(all, q, TokenBits(l, d, t))
  PROVE  MatchLies(all, q, l, d, t)
<1> DEFINE y == END + 1 + t.len
           B == TokenBits(l, d, t)
           c == Code(l, y)
           e == LengthTable[t.len + 1].ext
           x == Low(t.lx, e)
           g == Code(d, t.dist)
           f == DistTable[t.dist + 1].ext
           w == Low(t.dx, f)
           m == MatchBits(d, t)
<1>1. t.len \in Nat /\ (~(t.len < Len(LengthTable)) => B = c) BY TokenIsBits
<1>2. y \in Nat /\ y > END /\ y - END = t.len + 1 BY <1>1, EndIs
<1>3. c \in Words /\ Len(c) \in Nat /\ g \in Words /\ Len(g) \in Nat
  <2> HIDE DEF y
  <2> QED BY CodeBits, WordsJoin
<1>4. q \in Nat BY DEF Stands
<1>5. CASE ~(t.len < Len(LengthTable))
  <2>1. B = c BY <1>1, <1>5
  <2>2. Stands(all, q, c) BY <2>1
  <2>3. q + Len(c) <= q + Len(B) BY <1>3, <1>4, <2>1
  <2> QED BY <1>1, <1>2, <1>3, <1>5, <2>2, <2>3 DEF MatchLies
<1>6. CASE t.len < Len(LengthTable)
  <2>1. t.len + 1 \in 1 .. Len(LengthTable) /\ t.lx \in Nat /\ t.lx < Pow(e) /\ t.dist \in Nat /\ B = c \o m BY <1>6, TokenIsBits
  <2>2. e \in Nat BY <2>1, TablesAre
  <2>3. x \in Words /\ Len(x) = e BY <2>1, <2>2, FieldBits
  <2>4. Coded(d, t.dist) => /\ t.dist < Len(DistTable) /\ t.dist + 1 \in 1 .. Len(DistTable) /\ t.dx \in Nat /\ t.dx < Pow(f)
                            /\ f \in Nat
    BY <1>6, TokenIsBits, TablesAre
  <2>5. Coded(d, t.dist) => w \in Words /\ Len(w) = f BY <2>4, FieldBits
  <2> DEFINE u == IF Coded(d, t.dist) THEN w ELSE <<>>
             xg == x \o g
  <2>6. m = xg \o u BY DEF MatchBits
  <2>7. u \in Words /\ Len(u) \in Nat
    <3>1. u \in Words BY <2>5, WordsJoin
    <3> QED BY <3>1, WordsJoin
  <2>8. Coded(d, t.dist) => u = w OBVIOUS
  <2> HIDE DEF y, c, x, g, m, B, u, w, e, f
  <2>9. xg \in Words /\ Len(xg) = e + Len(g) BY <1>3, <2>3, WordsJoin
  <2> HIDE DEF xg
  <2>10. m \in Words /\ Len(m) = e + Len(g) + Len(u)
    <3>1. m \in Words /\ Len(m) = Len(xg) + Len(u) BY <2>6, <2>7, <2>9, WordsJoin
    <3> QED BY <2>9, <3>1
  <2>11. Len(B) = Len(c) + Len(m) /\ Len(m) \in Nat BY <1>3, <2>1, <2>10, WordsJoin
  <2>12. c \in Seq(Bit) /\ x \in Seq(Bit) /\ g \in Seq(Bit) /\ u \in Seq(Bit) /\ xg \in Seq(Bit) /\ m \in Seq(Bit)
    BY <1>3, <2>3, <2>7, <2>9, <2>10 DEF Words
  <2>13. Stands(all, q, c) /\ Stands(all, q + Len(c), m)
    <3>1. Stands(all, q, c \o m) BY <2>1 DEF B
    <3> QED BY <2>12, <3>1, StandsJoined
  <2> DEFINE z1 == q + Len(c)
  <2>14. Stands(all, z1, m) /\ z1 \in Nat BY <1>3, <1>4, <2>13
  <2>15. z1 <= q + Len(B)
    <3> DEFINE a1 == Len(c)
               a2 == Len(m)
               a3 == Len(B)
    <3>1. a1 \in Nat /\ a2 \in Nat /\ a3 = a1 + a2 BY <1>3, <2>11
    <3> HIDE DEF a1, a2, a3
    <3>2. q + a1 <= q + a3 BY <1>4, <3>1
    <3> QED BY <3>2 DEF a1, a3
  <2> HIDE DEF z1
  <2>16. Stands(all, z1, xg) /\ Stands(all, z1 + Len(xg), u)
    <3>1. Stands(all, z1, xg \o u) BY <2>6, <2>14
    <3> QED BY <2>12, <3>1, StandsJoined
  <2>17. Stands(all, z1, x) /\ Stands(all, z1 + Len(x), g)
    <3>1. Stands(all, z1, x \o g) BY <2>16 DEF xg
    <3> QED BY <2>12, <3>1, StandsJoined
  <2> DEFINE z2 == z1 + e
             z3 == z2 + Len(g)
  <2>18. Stands(all, z2, g) BY <2>3, <2>17
  <2>19. z1 + Len(xg) = z3 BY <1>3, <2>2, <2>9, <2>14
  <2>20. Stands(all, z3, u) BY <2>16, <2>19
  <2>21. Coded(d, t.dist) => Stands(all, z3, w) /\ z3 + f = q + Len(B)
    <3> SUFFICES ASSUME Coded(d, t.dist)
                 PROVE  Stands(all, z3, w) /\ z3 + f = q + Len(B)
      OBVIOUS
    <3>1. u = w /\ Len(u) = f /\ f \in Nat BY <2>4, <2>5, <2>8
    <3> DEFINE a1 == Len(c)
               a2 == Len(g)
               a3 == Len(B)
    <3>2. a1 \in Nat /\ a2 \in Nat /\ a3 = a1 + (e + a2 + f) BY <1>3, <2>10, <2>11, <3>1
    <3>3. z3 = q + a1 + e + a2 BY DEF z1
    <3> HIDE DEF a1, a2, a3, z3
    <3>4. z3 + f = q + a3 BY <1>4, <2>2, <3>1, <3>2, <3>3
    <3> QED BY <2>20, <3>1, <3>4 DEF a3
  <2>22. /\ Coded(d, t.dist) => t.dist < Len(DistTable) /\ f \in Nat /\ t.dx \in Nat /\ t.dx < Pow(f)
         /\ Stands(all, z1, x)
    BY <2>4, <2>17
  <2> QED BY <1>1, <1>2, <1>3, <2>1, <2>2, <2>13, <2>15, <2>18, <2>21, <2>22 DEF MatchLies, y, c, e, x, g, f, w, B, z1
<1> QED BY <1>5, <1>6

\* A match is read as a length and a reach, and copied; or refused where a code of it, its reach or the room is wanting.
LEMMA MatchMoves ==
  ASSUME NEW s, Given(s), s.zlib, Len(out) <= s.room, NEW k, NEW p, NEW j, AtCodes(s, k, p, j), j # Len(s.blocks[k].tokens),
         s.blocks[k].tokens[j + 1].kind # "lit", CodedSymbol
  PROVE  Somewhere(s)' /\ Len(out') <= s.room
<1> DEFINE bs == s.blocks
           all == AllBits(bs)
           b == bs[k]
           l == LitFor(b)
           d == DistFor(b)
           O == Offsets(TokenParts(l, d, b.tokens))
           q == p + O[j]
           t == b.tokens[j + 1]
           z == p + O[j + 1]
           y == END + 1 + t.len
           A == Ahead(bs, k)
           N == Len(LengthTable)
           D == Len(DistTable)
           sym == huff_decode(Reader, lit)
           row == LengthTable[sym.v - END]
           length == bits(sym, row.ext)
           far == huff_decode(length, dist)
           drow == DistTable[far.v + 1]
           extra == bits(far, drow.ext)
           way == drow.base + extra.v
           ok == sym.v - END <= N /\ far.ok /\ far.v < D /\ extra.ok /\ way <= Len(out)
           e == LengthTable[t.len + 1].ext
           f == DistTable[t.dist + 1].ext
           z1 == q + Len(Code(l, y))
           z2 == z1 + e
           z3 == z2 + Len(Code(d, t.dist))
<1>1. /\ k \in 1 .. Len(bs) /\ Carries(all) /\ Supply \in Nat /\ Len(all) \in Nat
      /\ IsLens(l) /\ IsLens(d) /\ Weight(l) <= Pow(MAXLBITS) /\ Weight(d) <= Pow(MAXLBITS)
      /\ q \in Nat /\ ReadsAt(all, Reader, q) /\ out \in Seq(Nat) /\ A \in Nat
  BY CodesAre
<1>2. /\ Fits(d, t) /\ Sparing(l, d, t) /\ Stands(all, q, TokenBits(l, d, t)) /\ q + Len(TokenBits(l, d, t)) = z
      /\ z \in Nat /\ z <= A /\ TokenMeaning(s, k, j + 1) = TokenMeans(l, d, t, out)
      /\ ~Within(TokenMeaning(s, k, j + 1), s.room) => ~Accepts(s)
  BY CodesAre
<1>3. lit = huff_build(l) /\ dist = huff_build(d) BY DEF AtCodes
<1>4. t.kind # "lit" OBVIOUS
<1>5. /\ sym.ok \in BOOLEAN => src' = src
      /\ (sym.ok \in BOOLEAN /\ ~sym.ok) => mode' = "error" /\ out' = out
      /\ (sym.ok = TRUE /\ sym.v = y /\ y \in Nat /\ y > END) => Match(sym)
  <2> DEFINE x == sym
  <2>1. x = huff_decode(Reader, lit) OBVIOUS
  <2> HIDE DEF sym, x, y
  <2>2. ASSUME x.ok \in BOOLEAN
        PROVE  src' = src
    BY DEF CodedSymbol, input
  <2>3. ASSUME x.ok \in BOOLEAN, ~x.ok
        PROVE  mode' = "error" /\ out' = out
    <3>1. 0 \in Nat /\ (x.ok = TRUE => x.v = 0) BY <2>3
    <3> QED BY <2>1, <2>3, <3>1, SymbolRead
  <2>4. ASSUME x.ok = TRUE, x.v = y, y \in Nat, y > END
        PROVE  Match(x)
    <3>1. x.ok \in BOOLEAN /\ (x.ok = TRUE => x.v = y) BY <2>4
    <3> QED BY <2>1, <2>4, <3>1, SymbolRead
  <2> QED BY <2>2, <2>3, <2>4 DEF x
<1>6. Match(sym) =>
        \/ /\ ok /\ At(extra) /\ Put(Copied(row.base + length.v, way), "codes")
           /\ final' = final /\ lit' = lit /\ dist' = dist
        \/ ~ok /\ mode' = "error" /\ out' = out
  BY DEF Match, Error, table
<1> HIDE DEF all, l, d, q, t, z, A, sym
<1>7. /\ ~Whole(l, d, t) => TokenMeans(l, d, t, out) = Bad
      /\ Whole(l, d, t) =>
           /\ Long(t) \in Nat /\ Far(t) \in Nat \ {0}
           /\ Far(t) > Len(out) => TokenMeans(l, d, t, out) = Bad
           /\ ~(Far(t) > Len(out)) =>
                /\ Far(t) \in 1 .. Len(out)
                /\ TokenMeans(l, d, t, out) = [ok |-> TRUE, text |-> out \o Repeated(out, Long(t), Far(t))]
  <2>1. IsLens(l) /\ IsLens(d) /\ Fits(d, t) /\ out \in Seq(Nat) BY <1>1, <1>2
  <2>2. ~Whole(l, d, t) => TokenMeans(l, d, t, out) = Bad BY <1>4, <2>1, TokenMeansIs
  <2>3. Whole(l, d, t) => Long(t) \in Nat /\ Far(t) \in Nat \ {0} /\ (Far(t) > Len(out) => TokenMeans(l, d, t, out) = Bad)
    BY <1>4, <2>1, TokenMeansIs
  <2>4. Whole(l, d, t) /\ ~(Far(t) > Len(out)) =>
          /\ Far(t) \in 1 .. Len(out)
          /\ TokenMeans(l, d, t, out) = [ok |-> TRUE, text |-> out \o Repeated(out, Long(t), Far(t))]
    BY <1>4, <2>1, TokenMeansIs
  <2> QED BY <2>2, <2>3, <2>4
<1>8. MatchLies(all, q, l, d, t) BY <1>1, <1>2, <1>4, MatchStands
<1>9. /\ t.len \in Nat /\ y \in Nat /\ y > END /\ y - END = t.len + 1
      /\ Stands(all, q, Code(l, y)) /\ Len(Code(l, y)) \in Nat /\ z1 <= q + Len(TokenBits(l, d, t))
      /\ t.len < N =>
           /\ e \in Nat /\ t.lx \in Nat /\ t.lx < Pow(e) /\ Stands(all, z1, Low(t.lx, e))
           /\ Stands(all, z2, Code(d, t.dist)) /\ Len(Code(d, t.dist)) \in Nat
           /\ Coded(d, t.dist) =>
                /\ t.dist \in Nat /\ t.dist < D /\ f \in Nat /\ t.dx \in Nat /\ t.dx < Pow(f)
                /\ Stands(all, z3, Low(t.dx, f)) /\ z3 + f = q + Len(TokenBits(l, d, t))
  BY <1>8 DEF MatchLies
<1>10. Got(all, Reader, q) BY <1>1, GotIs
\* A stream that is refused: out of input, or a token that means nothing.
<1>11. ASSUME mode' = "error", out' = out, Supply < A \/ TokenMeans(l, d, t, out) = Bad
       PROVE  Somewhere(s)' /\ Len(out') <= s.room
  <2>1. CASE Supply < A
    <3>1. ~Accepts(s) BY <1>1, <2>1, Refused DEF A
    <3> QED BY <1>11, <3>1, Errs
  <2>2. CASE TokenMeans(l, d, t, out) = Bad
    <3>1. ~Within(TokenMeaning(s, k, j + 1), s.room) BY <1>2, <2>2, MeaningIs DEF Within
    <3>2. ~Accepts(s) BY <1>2, <3>1
    <3> QED BY <1>11, <3>2, Errs
  <2> QED BY <1>11, <2>1, <2>2
<1>12. CASE ~Coded(l, y)
  <2>1. Weight(l) < Pow(MAXLBITS)
    <3>1. t.kind = "match" BY <1>1, <1>2, <1>4, TokenIsBits
    <3>2. Spare(l, y) BY <1>2, <3>1 DEF Sparing
    <3> QED BY <1>12, <3>2 DEF Spare
  <2>2. sym.ok = FALSE
    <3> HIDE DEF y
    <3>1. huff_decode(Reader, huff_build(l)).ok = FALSE BY <1>1, <1>9, <1>10, <1>12, <2>1, GotNothing
    <3> QED BY <1>3, <3>1 DEF sym
  <2>3. TokenMeans(l, d, t, out) = Bad BY <1>7, <1>12 DEF Whole
  <2> QED BY <1>5, <1>11, <2>2, <2>3
<1>13. CASE Coded(l, y)
  <2> HIDE DEF y, e, f
  <2>1. Got(all, sym, z1) /\ (z1 <= Supply => sym.v = y)
    <3>1. /\ Got(all, huff_decode(Reader, huff_build(l)), q + Len(Code(l, y)))
          /\ q + Len(Code(l, y)) <= Supply => huff_decode(Reader, huff_build(l)).v = y
      <4>1. Carries(all) /\ q \in Nat /\ Supply \in Nat BY <1>1
      <4>2. IsLens(l) /\ Weight(l) <= Pow(MAXLBITS) /\ Coded(l, y) BY <1>1, <1>13
      <4>3. Stands(all, q, Code(l, y)) BY <1>9
      <4> HIDE DEF z1, z2, z3
      <4> QED BY <1>10, <4>1, <4>2, <4>3, GotSymbol
    <3> QED BY <1>3, <3>1 DEF sym
  <2>2. z1 \in Nat /\ z1 <= A
    <3>1. z1 \in Nat BY <1>1, <1>9
    <3> HIDE DEF z1
    <3> QED BY <1>1, <1>2, <1>9, <3>1
  <2>3. CASE ~(z1 <= Supply)
    <3>1. sym.ok = FALSE BY <2>1, <2>3 DEF Got
    <3>2. Supply < A
      <4> HIDE DEF z1
      <4> QED BY <1>1, <2>2, <2>3
    <3> QED BY <1>5, <1>11, <3>1, <3>2
  <2>4. CASE z1 <= Supply
    <3>1. sym.ok = TRUE /\ sym.v = y BY <2>1, <2>4 DEF Got, ReadsAt
    <3>2. Match(sym) /\ src' = src BY <1>5, <1>9, <3>1
    <3>3. \/ /\ ok /\ At(extra) /\ Put(Copied(row.base + length.v, way), "codes")
             /\ final' = final /\ lit' = lit /\ dist' = dist
          \/ ~ok /\ mode' = "error" /\ out' = out
      <4> HIDE DEF row, length, way, extra, ok
      <4> QED BY <1>6, <3>2
    <3>4. CASE ~(t.len < N)
      <4>1. ~(sym.v - END <= N)
        <5>1. N \in Nat BY TablesAre
        <5>2. sym.v - END = t.len + 1 BY <1>9, <3>1
        <5> HIDE DEF N
        <5> QED BY <1>9, <3>4, <5>1, <5>2
      <4>2. mode' = "error" /\ out' = out BY <3>3, <4>1
      <4>3. TokenMeans(l, d, t, out) = Bad BY <1>7, <3>4 DEF Whole
      <4> QED BY <1>11, <4>2, <4>3
    <3>5. CASE t.len < N
      <4>1. row = LengthTable[t.len + 1] /\ row.ext = e
        <5>1. sym.v - END = t.len + 1 BY <1>9, <3>1
        <5> QED BY <5>1 DEF e
      <4>2. Got(all, length, z2) /\ (z2 <= Supply => length.v = t.lx) /\ z2 \in Nat
        <5>1. length = bits(sym, e) BY <4>1
        <5> HIDE DEF length, z1
        <5>2. Got(all, bits(sym, e), z1 + e) /\ (z1 + e <= Supply => bits(sym, e).v = t.lx)
          BY <1>1, <1>9, <2>1, <2>2, <3>5, GotField
        <5> QED BY <1>9, <2>2, <3>5, <5>1, <5>2
      <4> HIDE DEF row, length
      <4>3. CASE ~Coded(d, t.dist)
        <5>1. Weight(d) < Pow(MAXLBITS)
          <6>1. t.kind = "match" BY <1>1, <1>2, <1>4, TokenIsBits
          <6>2. Spare(d, t.dist) BY <1>2, <3>5, <6>1 DEF Sparing
          <6> QED BY <4>3, <6>2 DEF Spare
        <5>2. far.ok = FALSE
          <6> HIDE DEF z1
          <6>1. huff_decode(length, huff_build(d)).ok = FALSE
            <7> HIDE DEF z2
            <7> QED BY <1>1, <1>9, <3>5, <4>2, <4>3, <5>1, GotNothing
          <6> QED BY <1>3, <6>1
        <5>3. mode' = "error" /\ out' = out
          <6> HIDE DEF far
          <6> QED BY <3>3, <5>2
        <5>4. TokenMeans(l, d, t, out) = Bad BY <1>7, <4>3 DEF Whole
        <5> QED BY <1>11, <5>3, <5>4
      <4>4. CASE Coded(d, t.dist)
        <5>1. /\ e \in Nat /\ t.lx \in Nat /\ Stands(all, z2, Code(d, t.dist)) /\ Len(Code(d, t.dist)) \in Nat
              /\ t.dist \in Nat /\ t.dist < D /\ f \in Nat /\ t.dx \in Nat /\ t.dx < Pow(f)
              /\ Stands(all, z3, Low(t.dx, f)) /\ z3 + f = z
          BY <1>2, <1>9, <3>5, <4>4
        <5> HIDE DEF z2, N
        <5>2. Got(all, far, z3) /\ (z3 <= Supply => far.v = t.dist) /\ z3 \in Nat
          <6>1. /\ Got(all, huff_decode(length, huff_build(d)), z2 + Len(Code(d, t.dist)))
                /\ z2 + Len(Code(d, t.dist)) <= Supply => huff_decode(length, huff_build(d)).v = t.dist
            BY <1>1, <4>2, <4>4, <5>1, GotSymbol
          <6>2. z2 + Len(Code(d, t.dist)) \in Nat BY <4>2, <5>1
          <6> QED BY <1>3, <6>1, <6>2
        <5> HIDE DEF far, z3
        <5>3. CASE ~(z3 <= Supply)
          <6>1. far.ok = FALSE BY <5>2, <5>3 DEF Got
          <6>2. mode' = "error" /\ out' = out BY <3>3, <6>1
          <6>3. Supply < A BY <1>1, <1>2, <5>1, <5>2, <5>3
          <6> QED BY <1>11, <6>2, <6>3
        <5>4. CASE z3 <= Supply
          <6>1. far.ok = TRUE /\ far.v = t.dist BY <5>2, <5>4 DEF Got, ReadsAt
          <6>2. drow = DistTable[t.dist + 1] /\ drow.ext = f BY <6>1 DEF f
          <6>3. Got(all, extra, z) /\ (z <= Supply => extra.v = t.dx)
            <7>1. extra = bits(far, f) BY <6>2
            <7> HIDE DEF extra
            <7>2. Got(all, bits(far, f), z3 + f) /\ (z3 + f <= Supply => bits(far, f).v = t.dx) BY <1>1, <5>1, <5>2, GotField
            <7> QED BY <5>1, <7>1, <7>2
          <6> HIDE DEF drow, extra
          <6>4. CASE ~(z <= Supply)
            <7>1. extra.ok = FALSE BY <6>3, <6>4 DEF Got
            <7>2. mode' = "error" /\ out' = out BY <3>3, <7>1
            <7>3. Supply < A BY <1>1, <1>2, <6>4
            <7> QED BY <1>11, <7>2, <7>3
          <6>5. CASE z <= Supply
            <7>1. extra.ok = TRUE /\ extra.v = t.dx /\ ReadsAt(all, extra, z) BY <6>3, <6>5 DEF Got, ReadsAt
            <7>2. length.v = t.lx
              <8>1. z2 <= Supply
                <9> DEFINE g == Len(Code(d, t.dist))
                <9>1. g \in Nat /\ z3 = z2 + g BY <5>1 DEF z3
                <9> HIDE DEF g
                <9> QED BY <1>1, <4>2, <5>4, <9>1
              <8> QED BY <4>2, <8>1
            <7>3. row.base + length.v = Long(t) BY <4>1, <7>2 DEF Long
            <7>4. way = Far(t) BY <6>2, <7>1 DEF Far
            <7> HIDE DEF way
            <7>5. Whole(l, d, t) BY <1>13, <3>5, <4>4 DEF Whole, y, N
            <7>6. Long(t) \in Nat /\ Far(t) \in Nat \ {0} BY <1>7, <7>5
            <7>7. Len(out) \in Nat BY <1>1, LenProperties
            <7>8. CASE Far(t) > Len(out)
              <8>1. ~(way <= Len(out)) BY <7>4, <7>6, <7>7, <7>8
              <8>2. mode' = "error" /\ out' = out BY <3>3, <8>1
              <8>3. TokenMeans(l, d, t, out) = Bad BY <1>7, <7>5, <7>8
              <8> QED BY <1>11, <8>2, <8>3
            <7>9. CASE ~(Far(t) > Len(out))
              <8>1. Far(t) \in 1 .. Len(out) /\ TokenMeans(l, d, t, out) = [ok |-> TRUE, text |-> out \o Repeated(out, Long(t), Far(t))]
                BY <1>7, <7>5, <7>9
              <8>2. way <= Len(out) BY <7>4, <8>1
              <8>3. sym.v - END <= N /\ far.v < D
                <9>1. N \in Nat BY TablesAre DEF N
                <9>2. sym.v - END = t.len + 1 BY <1>9, <3>1
                <9> QED BY <1>9, <3>5, <5>1, <6>1, <9>1, <9>2
              <8>4. ok BY <6>1, <7>1, <8>2, <8>3
              <8> HIDE DEF ok
              <8>5. At(extra) /\ Put(Copied(Long(t), Far(t)), "codes") /\ final' = final /\ lit' = lit /\ dist' = dist
                BY <3>3, <7>3, <7>4, <8>4
              <8> DEFINE v == Repeated(out, Long(t), Far(t))
              <8>6. Copied(Long(t), Far(t)) = v BY <1>1, <7>6, <8>1, CopiedIs
              <8>7. v \in Seq(Nat) BY <1>1, <7>6, <8>1, RepeatedIs
              <8>8. Put(v, "codes") /\ TokenMeaning(s, k, j + 1) = [ok |-> TRUE, text |-> out \o v] BY <1>2, <8>1, <8>5, <8>6
              <8>9. ReadsAt(AllBits(s.blocks), extra, p + Offsets(TokenParts(LitFor(s.blocks[k]), DistFor(s.blocks[k]), s.blocks[k].tokens))[j + 1])
                BY <7>1 DEF all, z, l, d
              <8> HIDE DEF v
              <8> QED BY <3>2, <8>5, <8>7, <8>8, <8>9, TokenDone
            <7> QED BY <7>8, <7>9
          <6> QED BY <6>4, <6>5
        <5> QED BY <5>3, <5>4
      <4> QED BY <4>3, <4>4
    <3> QED BY <3>4, <3>5
  <2> QED BY <2>3, <2>4
<1> QED BY <1>12, <1>13

\* Every symbol of a block: a literal, the end, a match.
LEMMA CodedSymbolMoves ==
  ASSUME NEW s, Given(s), s.zlib, Len(out) <= s.room, NEW k, NEW p, NEW j, AtCodes(s, k, p, j), CodedSymbol
  PROVE  Somewhere(s)' /\ Len(out') <= s.room
<1>1. CASE j = Len(s.blocks[k].tokens) BY <1>1, EndMoves
<1>2. CASE j # Len(s.blocks[k].tokens) /\ s.blocks[k].tokens[j + 1].kind = "lit" BY <1>2, LiteralMoves
<1>3. CASE j # Len(s.blocks[k].tokens) /\ s.blocks[k].tokens[j + 1].kind # "lit" BY <1>3, MatchMoves
<1> QED BY <1>1, <1>2, <1>3

----------------------------------------------------------------------------
(* The header of a dynamic block. *)

\* Where its parts stand.
DynamicLies(all, n, b) ==
  LET p1 == n + Field.lit
      p2 == p1 + Field.dist
      p3 == p2 + Field.code
      p4 == p3 + Len(FlattenSeq(LensFields(b)))
  IN  /\ n \in Nat /\ p4 \in Nat
      /\ Stands(all, n, Low(b.nlit - (END + 1), Field.lit)) /\ Stands(all, p1, Low(b.ndist - 1, Field.dist))
      /\ Stands(all, p2, Low(b.ncode - MinCode, Field.code)) /\ Stands(all, p3, FlattenSeq(LensFields(b)))
      /\ Stands(all, p4, ListPart(b)) /\ n + Len(DynamicBits(b)) = p4 + Len(ListPart(b)) /\ Len(ListPart(b)) \in Nat

\* The fields of the header of a dynamic block, one behind the other.
LEMMA DynamicStands ==
  ASSUME NEW all, Len(all) \in Nat, NEW n, NEW b, IsTable(b), AllFit(DistOf(b), b.tokens), Stands(all, n, DynamicBits(b))
  PROVE  DynamicLies(all, n, b)
<1> DEFINE w == Low(b.nlit - (END + 1), Field.lit)
           x == Low(b.ndist - 1, Field.dist)
           y == Low(b.ncode - MinCode, Field.code)
           z == FlattenSeq(LensFields(b))
           i == FlattenSeq(Items(b.clens, b.list))
           t == TokenPart(b)
           e1 == Field.lit
           e2 == Field.dist
           e3 == Field.code
           D == DynamicBits(b)
           P == ListPart(b)
<1>1. D = w \o x \o y \o z \o i \o t /\ t \in Words /\ P \in Words BY DynamicIsBits
<1>2. P = i \o t BY DEF ListPart
<1>3. e1 \in Nat /\ e2 \in Nat /\ e3 \in Nat BY TableIs
<1>4. w \in Words /\ Len(w) = e1 /\ x \in Words /\ Len(x) = e2 /\ y \in Words /\ Len(y) = e3 BY TableIs, FieldBits
<1>5. z \in Words /\ Len(z) \in Nat
  <2>1. z \in Words BY LensFieldsAre
  <2> QED BY <2>1, WordsJoin
<1>6. i \in Words
  <2>1. IsLens(b.clens) /\ IsList(b.list) BY TableIs, TablesOf
  <2> QED BY <2>1, ItemsAre
<1>7. Stands(all, n, D) /\ n \in Nat BY DEF Stands
<1> HIDE DEF w, x, y, z, i, t, e1, e2, e3, D, P
<1> DEFINE wx == w \o x
           wxy == wx \o y
           wxyz == wxy \o z
<1>8. wx \in Words /\ Len(wx) = e1 + e2 BY <1>4, WordsJoin
<1> HIDE DEF wx
<1>9. wxy \in Words /\ Len(wxy) = e1 + e2 + e3
  <2>1. wxy \in Words /\ Len(wxy) = Len(wx) + Len(y) BY <1>4, <1>8, WordsJoin
  <2> QED BY <1>3, <1>4, <1>8, <2>1
<1> HIDE DEF wxy
<1>10. wxyz \in Words /\ Len(wxyz) = Len(wxy) + Len(z) BY <1>5, <1>9, WordsJoin
<1> HIDE DEF wxyz
<1>11. /\ w \in Seq(Bit) /\ x \in Seq(Bit) /\ y \in Seq(Bit) /\ z \in Seq(Bit) /\ i \in Seq(Bit) /\ t \in Seq(Bit) /\ P \in Seq(Bit)
       /\ wx \in Seq(Bit) /\ wxy \in Seq(Bit) /\ wxyz \in Seq(Bit)
  BY <1>1, <1>4, <1>5, <1>6, <1>8, <1>9, <1>10 DEF Words
<1>12. D = wxyz \o P
  <2>1. D = (wxyz \o i) \o t BY <1>1 DEF wx, wxy, wxyz
  <2>2. (wxyz \o i) \o t = wxyz \o (i \o t)
    <3>1. wxyz \in Seq(Bit) /\ i \in Seq(Bit) /\ t \in Seq(Bit) BY <1>11
    <3> QED BY <3>1, ConcatAssociative
  <2> QED BY <1>2, <2>1, <2>2
<1>13. Stands(all, n, wxyz) /\ Stands(all, n + Len(wxyz), P)
  <2>1. Stands(all, n, wxyz \o P) BY <1>7, <1>12
  <2> QED BY <1>11, <2>1, StandsJoined
<1>14. Stands(all, n, wxy) /\ Stands(all, n + Len(wxy), z)
  <2>1. Stands(all, n, wxy \o z) BY <1>13 DEF wxyz
  <2> QED BY <1>11, <2>1, StandsJoined
<1>15. Stands(all, n, wx) /\ Stands(all, n + Len(wx), y)
  <2>1. Stands(all, n, wx \o y) BY <1>14 DEF wxy
  <2> QED BY <1>11, <2>1, StandsJoined
<1>16. Stands(all, n, w) /\ Stands(all, n + Len(w), x)
  <2>1. Stands(all, n, w \o x) BY <1>15 DEF wx
  <2> QED BY <1>11, <2>1, StandsJoined
<1> DEFINE p1 == n + e1
           p2 == p1 + e2
           p3 == p2 + e3
           p4 == p3 + Len(z)
<1>17. Stands(all, p1, x) BY <1>4, <1>16
<1>18. Stands(all, p2, y)
  <2>1. n + Len(wx) = p2 BY <1>3, <1>7, <1>8
  <2> QED BY <1>15, <2>1
<1>19. Stands(all, p3, z)
  <2>1. n + Len(wxy) = p3 BY <1>3, <1>7, <1>9
  <2> QED BY <1>14, <2>1
<1>20. n + Len(wxyz) = p4 /\ p4 \in Nat
  <2> DEFINE c == Len(z)
             d == Len(wxyz)
  <2>1. c \in Nat /\ d = e1 + e2 + e3 + c BY <1>5, <1>9, <1>10
  <2> HIDE DEF c, d
  <2>2. n + d = p3 + c /\ p3 + c \in Nat BY <1>3, <1>7, <2>1
  <2> QED BY <2>2 DEF c, d
<1>21. Stands(all, p4, P) BY <1>13, <1>20
<1>22. n + Len(D) = p4 + Len(P) /\ Len(P) \in Nat
  <2> DEFINE c == Len(P)
             d == Len(wxyz)
  <2>1. c \in Nat /\ d \in Nat /\ Len(D) = d + c
    <3>1. wxyz \in Words /\ P \in Words BY <1>1, <1>10
    <3> HIDE DEF D, P
    <3> QED BY <1>12, <3>1, WordsJoin
  <2> HIDE DEF c, d
  <2>2. n + Len(D) = (n + d) + c BY <1>7, <2>1
  <2>3. (n + d) + c = p4 + c BY <1>20 DEF d
  <2> QED BY <2>1, <2>2, <2>3 DEF c
<1> QED BY <1>7, <1>16, <1>17, <1>18, <1>19, <1>20, <1>21, <1>22 DEF DynamicLies, w, x, y, z, e1, e2, e3, D, P

\* Readers as they come to be: of those that have not failed each stands somewhere.
Cursors(all) == {r \in [ok : BOOLEAN, v : Nat, pos : Nat, buf : Seq(Bit)] : r.ok => \E p : ReadsAt(all, r, p)}

\* Reading takes a reader from one place in the bits to another.
LEMMA CursorMoves ==
  ASSUME NEW all, Carries(all), NEW n \in Nat, NEW r \in Cursors(all)
  PROVE  bits(r, n) \in Cursors(all)
<1> DEFINE R == [ok : BOOLEAN, v : Nat, pos : Nat, buf : Seq(Bit)]
           x == [r EXCEPT !.ok = FALSE]
<1>1. r \in R /\ (r.ok => \E p : ReadsAt(all, r, p)) BY DEF Cursors
<1>2. x \in R /\ x.ok = FALSE BY <1>1
<1>3. x \in Cursors(all) BY <1>2 DEF Cursors
<1>4. CASE ~Enough(r, n)
  <2>1. bits(r, n) = x BY <1>4 DEF bits
  <2> QED BY <1>3, <2>1
<1>5. CASE Enough(r, n)
  <2>1. PICK p : ReadsAt(all, r, p) BY <1>1, <1>5 DEF Enough
  <2> DEFINE v == LowFirst(SubSeq(Buffer(r, n), 1, n))
             y == Taken(r, n, v)
  <2>2. ReadsAt(all, y, p + n) /\ SubSeq(Buffer(r, n), 1, n) = [i \in 1 .. n |-> all[p + i]] BY <1>5, <2>1, Takes
  <2>3. bits(r, n) = y BY <1>5 DEF bits
  <2>4. v \in Nat
    <3> DEFINE w == [i \in 1 .. n |-> all[p + i]]
    <3>1. p + n <= Supply BY <1>5, <2>1, Takes
    <3>2. \A i \in 1 .. n : all[p + i] \in Nat
      <4> TAKE i \in 1 .. n
      <4>1. p \in Nat BY <2>1 DEF ReadsAt
      <4>2. Len(src) \in Nat /\ OCTET \in Nat /\ Supply <= Len(all) /\ all \in Seq(Bit) BY LenProperties, Sizes DEF Carries
      <4>3. Supply \in Nat BY <4>2 DEF Supply
      <4>4. Len(all) \in Nat BY <4>2, LenProperties
      <4>5. p + i \in 1 .. Len(all) BY <3>1, <4>1, <4>2, <4>3, <4>4
      <4>6. all[p + i] \in Bit BY <4>2, <4>5, ElementOfSeq
      <4> QED BY <4>6 DEF Bit
    <3>3. w \in [1 .. n -> Nat] BY <3>2
    <3> HIDE DEF w
    <3>4. w \in Seq(Nat) /\ Len(w) = n BY <3>3, FunSeq
    <3> DEFINE u == [i \in 1 .. n |-> w[i] * Pow(i - 1)]
    <3>5. LowFirst(w) = SumOf(u) BY <3>4 DEF LowFirst
    <3>6. \A i \in 1 .. n : w[i] * Pow(i - 1) \in Nat
      <4> TAKE i \in 1 .. n
      <4>1. i - 1 \in Nat OBVIOUS
      <4>2. Pow(i - 1) \in Nat BY <4>1, PowIs
      <4>3. w[i] \in Nat BY <3>3
      <4> QED BY <4>2, <4>3
    <3>7. u \in [1 .. n -> Nat] BY <3>6
    <3> HIDE DEF u
    <3>8. u \in Seq(Nat) BY <3>7, FunSeq
    <3>9. LowFirst(w) \in Nat BY <3>5, <3>8, SumNat
    <3> QED BY <2>2, <3>9 DEF w
  <2> HIDE DEF v
  <2> DEFINE a == y.pos
             c == y.buf
  <2>5. y = [ok |-> TRUE, v |-> v, pos |-> a, buf |-> c] BY DEF Taken
  <2>6. y.pos \in Nat /\ y.buf \in Seq(Bit)
    <3> HIDE DEF y
    <3>1. y.pos \in 0 .. Len(src) /\ y.buf \in Seq(Bit) BY <2>2 DEF ReadsAt
    <3>2. Len(src) \in Nat BY LenProperties DEF Carries
    <3> QED BY <3>1, <3>2
  <2> HIDE DEF y
  <2>9. a \in Nat /\ c \in Seq(Bit) BY <2>6
  <2> HIDE DEF a, c
  <2>7. y \in R BY <2>4, <2>5, <2>9
  <2>8. y \in Cursors(all) BY <2>2, <2>7 DEF Cursors
  <2> QED BY <2>3, <2>8
<1> QED BY <1>4, <1>5

\* The decoder's own reader is one of them.
LEMMA CursorHere ==
  ASSUME NEW all, Carries(all), NEW p, ReadsAt(all, Reader, p)
  PROVE  Reader \in Cursors(all)
<1>1. Reader = [ok |-> TRUE, v |-> 0, pos |-> pos, buf |-> bitbuf] BY DEF Reader
<1>2. pos \in 0 .. Len(src) /\ bitbuf \in Seq(Bit) BY DEF ReadsAt, Reader
<1>3. Len(src) \in Nat BY LenProperties DEF Carries
<1>4. pos \in Nat BY <1>2, <1>3
<1>5. Reader \in [ok : BOOLEAN, v : Nat, pos : Nat, buf : Seq(Bit)] BY <1>1, <1>2, <1>4
<1> QED BY <1>5 DEF Cursors

\* Fields of one size, one after the other.
ReadOn(r, n, m) == LET read[i \in 0 .. n] == IF i = 0 THEN r ELSE bits(read[i - 1], m) IN read


\* Each field is read behind the one before.
LEMMA ReadsStep ==
  ASSUME NEW all, Carries(all), NEW r \in Cursors(all), NEW n \in Nat, NEW m \in Nat
  PROVE  /\ ReadOn(r, n, m) \in [0 .. n -> Cursors(all)] /\ ReadOn(r, n, m)[0] = r
         /\ \A k \in 1 .. n : k - 1 \in 0 .. n /\ ReadOn(r, n, m)[k - 1] \in Cursors(all) /\ ReadOn(r, n, m)[k] = bits(ReadOn(r, n, m)[k - 1], m)
<1> DEFINE e == CHOOSE e : e = [k \in 0 .. n |-> IF k = 0 THEN r ELSE bits(e[k - 1], m)]
           g == [k \in 1 .. n |-> [v \in Cursors(all) |-> bits(v, m)]]
<1>1. n \in Nat /\ r \in Cursors(all) /\ \A k \in 1 .. n : \A v \in Cursors(all) : bits(v, m) \in Cursors(all)
  BY CursorMoves
<1>2. g \in [1 .. n -> [Cursors(all) -> Cursors(all)]] BY <1>1
<1>3. PICK f \in [0 .. n -> Cursors(all)] : f[0] = r /\ \A k \in 1 .. n : f[k] = g[k][f[k - 1]]
  <2>1. Recursions(n, Cursors(all), r, g) # {}
    <3> HIDE DEF g
    <3> QED BY <1>1, <1>2, Recursive
  <2> QED BY <2>1 DEF Recursions
<1>4. \A k \in 1 .. n : k \in 0 .. n /\ k # 0 /\ k - 1 \in 0 .. n BY <1>1
<1>5. \A k \in 1 .. n : f[k - 1] \in Cursors(all) /\ f[k] = bits(f[k - 1], m)
  <2>1. \A k \in 1 .. n : f[k - 1] \in Cursors(all) BY <1>3, <1>4
  <2> QED BY <1>3, <2>1
<1> HIDE DEF g
<1>6. f = [k \in 0 .. n |-> IF k = 0 THEN r ELSE bits(f[k - 1], m)]
  <2>1. \A k \in 0 .. n : k # 0 => k \in 1 .. n BY <1>1
  <2>2. \A k \in 0 .. n : f[k] = IF k = 0 THEN r ELSE bits(f[k - 1], m) BY <1>3, <1>5, <2>1, Zenon
  <2> QED BY <1>3, <2>2
<1>7. e = [k \in 0 .. n |-> IF k = 0 THEN r ELSE bits(e[k - 1], m)]
  <2>1. \E x : x = [k \in 0 .. n |-> IF k = 0 THEN r ELSE bits(x[k - 1], m)] BY <1>6, Zenon
  <2> QED BY <2>1, Zenon
<1>8. ReadOn(r, n, m) = e BY Zenon DEF ReadOn
<1> HIDE DEF e
<1>9. 0 \in 0 .. n BY <1>1
<1>10. e[0] = r /\ \A k \in 1 .. n : e[k] = bits(e[k - 1], m) BY <1>4, <1>7, <1>9, Zenon
<1>11. \A k \in 1 .. n : f[k - 1] = e[k - 1] => f[k] = e[k] BY <1>5, <1>10, Zenon
<1>12. \A k \in 0 .. n : f[k] = e[k]
  <2> DEFINE S == {k \in 0 .. n : f[k] = e[k]}
  <2>1. 0 \in S BY <1>3, <1>9, <1>10
  <2>2. \A k \in 1 .. n : k - 1 \in S => k \in S BY <1>4, <1>11
  <2>3. n \in Nat BY <1>1
  <2>4. 0 .. n \subseteq S
    <3> HIDE DEF S
    <3> QED BY <2>1, <2>2, <2>3, InductTo
  <2> QED BY <2>4
<1>13. e \in [0 .. n -> Cursors(all)]
  <2>1. e = [k \in 0 .. n |-> e[k]] BY <1>7
  <2>2. \A k \in 0 .. n : e[k] \in Cursors(all) BY <1>3, <1>12
  <2> QED BY <2>1, <2>2
<1> QED BY <1>4, <1>8, <1>10, <1>13


NextRead(r, n, m, k) == k - 1 \in 0 .. n /\ ReadOn(r, n, m)[k] = bits(ReadOn(r, n, m)[k - 1], m)

\* A row of fields is read one after the other.
LEMMA ReadsAre ==
  ASSUME NEW all, Carries(all), NEW r \in Cursors(all), NEW n \in Nat, NEW m \in Nat
  PROVE  ReadOn(r, n, m)[0] = r /\ \A k \in 1 .. n : NextRead(r, n, m, k)
BY ReadsStep DEF NextRead

\* The lengths of the code that the lengths are in, as they are read.
LensCome(all, r, q, b) ==
  LET R == ReadOn(r, b.ncode, Field.len)
      O == Offsets(LensFields(b))
  IN  /\ \A i \in 0 .. b.ncode : O[i] \in Nat /\ O[i] <= O[b.ncode] /\ Got(all, R[i], q + O[i])
      /\ \A i \in 1 .. b.ncode : q + O[i] <= Supply => R[i].v = b.clens[Order[i] + 1]
      /\ Len(FlattenSeq(LensFields(b))) = O[b.ncode]

\* The lengths of the code for lengths are read as they were written.
LEMMA LensRead ==
  ASSUME NEW all, Carries(all), Supply \in Nat, Len(all) \in Nat, NEW b, IsTable(b), NEW r \in Cursors(all), NEW q \in Nat,
         Got(all, r, q), Stands(all, q, FlattenSeq(LensFields(b)))
  PROVE  LensCome(all, r, q, b)
<1> DEFINE n == b.ncode
           m == Field.len
           R == ReadOn(r, n, m)
           F == LensFields(b)
           O == Offsets(F)
<1>1. /\ F \in Seq(Words) /\ Len(F) = n
      /\ \A i \in 1 .. n : i \in 1 .. Len(Order) /\ F[i] = Low(b.clens[Order[i] + 1], m)
  BY LensFieldsAre
<1>2. /\ n \in Nat /\ m \in Nat /\ Len(Order) \in Nat
      /\ (\A i \in 1 .. Len(Order) : Order[i] + 1 \in 1 .. Len(Order))
      /\ \A i \in 1 .. Len(Order) : b.clens[i] \in Nat /\ b.clens[i] < Pow(m)
  BY TableIs, TablesAre
<1>3. R[0] = r /\ \A i \in 1 .. n : i - 1 \in 0 .. n /\ R[i] = bits(R[i - 1], m)
  <2> HIDE DEF n, m
  <2>1. ReadOn(r, n, m)[0] = r /\ \A i \in 1 .. n : i - 1 \in 0 .. n /\ ReadOn(r, n, m)[i] = bits(ReadOn(r, n, m)[i - 1], m)
    <3>1. n \in Nat /\ m \in Nat BY <1>2
    <3>2. ReadOn(r, n, m)[0] = r BY <3>1, ReadsStep
    <3>3. \A i \in 1 .. n : i - 1 \in 0 .. n BY <3>1
    <3>4. \A i \in 1 .. n : ReadOn(r, n, m)[i] = bits(ReadOn(r, n, m)[i - 1], m)
      <4>1. \A k \in 1 .. n : NextRead(r, n, m, k) BY <3>1, ReadsAre
      <4> QED BY <4>1 DEF NextRead
    <3> QED BY <3>2, <3>3, <3>4
  <2> QED BY <2>1
<1> HIDE DEF n, m, R, F
<1>4. F \in Seq(Seq(Bit)) BY <1>1 DEF Words
<1>5. O[0] = 0 /\ \A i \in 0 .. n : O[i] \in Nat BY <1>1, <1>4, OffsetsStep
<1>6. \A i \in 1 .. n : O[i] = O[i - 1] + Len(F[i]) BY <1>1, <1>4, OffsetsStep
<1>7. \A i \in 0 .. n : O[i] <= O[n] BY <1>1, OffsetsGrow
<1>8. \A i \in 1 .. n : Stands(all, q + O[i - 1], F[i])
  <2>1. Stands(all, q, FlattenSeq(F)) BY DEF F
  <2> QED BY <1>1, <1>4, <2>1, StandsFlattened
<1>9. Len(FlattenSeq(F)) = O[n] BY <1>1, <1>4, Flattened
<1>10. ASSUME NEW i \in 1 .. n, Got(all, R[i - 1], q + O[i - 1])
       PROVE  Got(all, R[i], q + O[i]) /\ (q + O[i] <= Supply => R[i].v = b.clens[Order[i] + 1])
  <2> DEFINE v == b.clens[Order[i] + 1]
             x == R[i - 1]
             z == q + O[i - 1]
  <2>1. F[i] = Low(v, m) /\ v \in Nat /\ v < Pow(m) BY <1>1, <1>2
  <2>2. O[i - 1] \in Nat /\ O[i] \in Nat BY <1>3, <1>5
  <2>3. z \in Nat BY <2>2
  <2>4. Stands(all, z, Low(v, m)) BY <1>8, <2>1
  <2>5. Len(F[i]) = m BY <1>2, <2>1, FieldBits
  <2>6. z + m = q + O[i] BY <1>2, <1>6, <2>2, <2>5
  <2>7. Got(all, x, z) BY <1>10
  <2> HIDE DEF x, z, v
  <2>8. Got(all, bits(x, m), z + m) /\ (z + m <= Supply => bits(x, m).v = v) BY <1>2, <2>1, <2>3, <2>4, <2>7, GotField
  <2> QED BY <1>3, <2>6, <2>8 DEF x, v
<1> DEFINE S == {i \in 0 .. n : Got(all, R[i], q + O[i])}
<1>11. 0 \in S
  <2>1. q + O[0] = q BY <1>5
  <2> QED BY <1>2, <1>3, <2>1
<1>12. \A i \in 1 .. n : i - 1 \in S => i \in S BY <1>2, <1>10
<1> HIDE DEF S
<1>13. 0 .. n \subseteq S BY <1>2, <1>11, <1>12, InductTo
<1>14. \A i \in 0 .. n : Got(all, R[i], q + O[i]) BY <1>13 DEF S
<1>15. \A i \in 1 .. n : q + O[i] <= Supply => R[i].v = b.clens[Order[i] + 1] BY <1>3, <1>10, <1>14
<1> QED BY <1>5, <1>7, <1>9, <1>14, <1>15 DEF LensCome, n, m, R, F

ReadClens(read, n) ==
  [s \in 1 .. Len(Order) |-> LET i == CHOOSE i \in 1 .. Len(Order) : Order[i] + 1 = s IN IF i <= n THEN read[i].v ELSE 0]

\* And put to their places.
LEMMA ClensRead ==
  ASSUME NEW b, IsTable(b), NEW read, \A i \in 1 .. b.ncode : read[i].v = b.clens[Order[i] + 1]
  PROVE  ReadClens(read, b.ncode) = b.clens
<1> DEFINE n == b.ncode
           N == Len(Order)
<1>1. n \in Nat /\ N \in Nat BY TableIs, TablesAre
<1>2. b.clens = [x \in 1 .. N |-> b.clens[x]]
  <2>1. b.clens \in [1 .. N -> 0 .. Pow(Field.len) - 1] BY DEF IsTable
  <2> DEFINE T == 0 .. Pow(Field.len) - 1
  <2>2. b.clens \in [1 .. N -> T] BY <2>1
  <2> HIDE DEF T
  <2> QED BY <2>2
<1>3. \A k \in n + 1 .. N : b.clens[Order[k] + 1] = 0 BY DEF IsTable
<1>4. ASSUME NEW x \in 1 .. N
      PROVE  ReadClens(read, n)[x] = b.clens[x]
  <2> DEFINE c == CHOOSE i \in 1 .. N : Order[i] + 1 = x
  <2>1. \E i \in 1 .. N : Order[i] + 1 = x
    <3>1. x - 1 \in 0 .. N - 1 BY <1>1
    <3>2. \E k \in 1 .. N : \A j \in 1 .. N : Order[j] = x - 1 <=> j = k BY <3>1, FormatAssumption
    <3>3. PICK k \in 1 .. N : Order[k] = x - 1 BY <3>2
    <3>4. Order[k] + 1 = x BY <3>3, <1>1
    <3> QED BY <3>4
  <2>2. c \in 1 .. N /\ Order[c] + 1 = x BY <2>1
  <2>3. ReadClens(read, n)[x] = IF c <= n THEN read[c].v ELSE 0 BY DEF ReadClens
  <2> HIDE DEF c
  <2>4. CASE c <= n
    <3>1. c \in 1 .. n BY <1>1, <2>2, <2>4
    <3>2. read[c].v = b.clens[Order[c] + 1] BY <3>1
    <3> QED BY <2>2, <2>3, <2>4, <3>2
  <2>5. CASE ~(c <= n)
    <3>1. c \in n + 1 .. N BY <1>1, <2>2, <2>5
    <3>2. b.clens[Order[c] + 1] = 0 BY <1>3, <3>1
    <3> QED BY <2>2, <2>3, <2>5, <3>2
  <2> QED BY <2>4, <2>5
<1>5. ReadClens(read, n) = [x \in 1 .. N |-> ReadClens(read, n)[x]] BY DEF ReadClens
<1> QED BY <1>2, <1>4, <1>5

\* A table that does not make sense makes the stream one that is refused.
LEMMA RefusedTable ==
  ASSUME NEW s, Given(s), s.zlib, NEW k \in 1 .. Len(s.blocks), s.blocks[k].type = 2, Mean(s.blocks, k - 1).ok, ~DynamicOk(s.blocks[k])
  PROVE  ~Accepts(s)
<1> DEFINE w == Mean(s.blocks, k - 1).text
           b == s.blocks[k]
<1>1. BlockMeans(b, w) = Bad BY DEF BlockMeans
<1>2. ~Within(BlockMeans(b, w), s.room) BY <1>1, MeaningIs DEF Within
<1> QED BY <1>2, Refused

\* What the decoder does with the fields, by what it has read.
LEMMA FieldsStep ==
  ASSUME Dynamic
  PROVE  LET n1 == bits(Reader, Field.lit)
             n2 == bits(n1, Field.dist)
             n3 == bits(n2, Field.code)
             c == MinCode + n3.v
             R == ReadOn(n3, c, Field.len)
             l == ReadClens(R, c)
         IN  IF n3.ok /\ END + 1 + n1.v <= MaxLit /\ 1 + n2.v <= MaxDist /\ R[c].ok /\ ~Fails(l)
             THEN /\ nlit' = END + 1 + n1.v /\ ndist' = 1 + n2.v /\ lenc' = huff_build(l) /\ lengths' = <<>>
                  /\ At(R[c]) /\ Goes("lengths") /\ UNCHANGED <<out, final, copying, table>>
             ELSE Error
BY Zenon DEF Dynamic, ReadOn, ReadClens

\* What the step for a dynamic header does, with the readers between its fields named.
LEMMA FieldsRead ==
  ASSUME Dynamic, NEW n1, n1 = bits(Reader, Field.lit), NEW n2, n2 = bits(n1, Field.dist), NEW n3, n3 = bits(n2, Field.code),
         NEW c, c = MinCode + n3.v, NEW R, R = ReadOn(n3, c, Field.len), NEW l, l = ReadClens(R, c)
  PROVE  /\ src' = src /\ out' = out
         /\ ~(n3.ok /\ END + 1 + n1.v <= MaxLit /\ 1 + n2.v <= MaxDist /\ R[c].ok /\ ~Fails(l)) => mode' = "error"
         /\ n3.ok /\ END + 1 + n1.v <= MaxLit /\ 1 + n2.v <= MaxDist /\ R[c].ok /\ ~Fails(l) =>
              /\ nlit' = END + 1 + n1.v /\ ndist' = 1 + n2.v /\ lenc' = huff_build(l) /\ lengths' = <<>>
              /\ At(R[c]) /\ mode' = "lengths" /\ final' = final
<1> DEFINE ok == n3.ok /\ END + 1 + n1.v <= MaxLit /\ 1 + n2.v <= MaxDist /\ R[c].ok /\ ~Fails(l)
<1>1. src' = src BY DEF Dynamic, input
<1>2. IF ok
      THEN /\ nlit' = END + 1 + n1.v /\ ndist' = 1 + n2.v /\ lenc' = huff_build(l) /\ lengths' = <<>>
           /\ At(R[c]) /\ Goes("lengths") /\ UNCHANGED <<out, final, copying, table>>
      ELSE Error
  BY FieldsStep
<1> HIDE DEF ok
<1>3. CASE ok BY <1>1, <1>2, <1>3 DEF ok, Goes
<1>4. CASE ~ok BY <1>1, <1>2, <1>4 DEF ok, Error
<1> QED BY <1>3, <1>4

\* The header of a dynamic block is read, or refused for its counts or its code.
LEMMA DynamicMoves ==
  ASSUME NEW s, Given(s), s.zlib, NEW k, AtKind(s, k, 2), Dynamic
  PROVE  Somewhere(s)' /\ out' = out
<1> DEFINE bs == s.blocks
           all == AllBits(bs)
           b == bs[k]
           fin == k = Len(bs)
           A == Ahead(bs, k)
           p == Ahead(bs, k - 1) + 3
           e1 == Field.lit
           e2 == Field.dist
           e3 == Field.code
           v1 == b.nlit - (END + 1)
           v2 == b.ndist - 1
           v3 == b.ncode - MinCode
           p1 == p + e1
           p2 == p1 + e2
           p3 == p2 + e3
           z == Len(FlattenSeq(LensFields(b)))
           p4 == p3 + z
           y == Len(ListPart(b))
<1>1. k \in 1 .. Len(bs) /\ Mean(bs, k - 1).ok /\ b.type = 2 /\ final = fin /\ out = Mean(bs, k - 1).text /\ ReadsAt(all, Reader, p)
  BY DEF AtKind, Inside, Unwritten, Reading
<1>2. Carries(all) /\ Supply \in Nat /\ Len(all) \in Nat BY GivenIs
<1>3. /\ IsBlock(b) /\ p \in Nat /\ A \in Nat /\ A = p + Len(DynamicBits(b)) /\ Stands(all, p, DynamicBits(b))
  <2> DEFINE n == Ahead(bs, k - 1)
  <2>1. IsBlock(b) /\ n \in Nat /\ A \in Nat /\ A = (n + 3) + Len(Rest(b, n)) /\ Stands(all, n + 3, Rest(b, n)) BY <1>1, BlockIs
  <2>2. Rest(b, n) = DynamicBits(b) BY <1>1 DEF Rest
  <2> QED BY <2>1, <2>2
<1>4. IsTable(b) /\ AllFit(DistOf(b), b.tokens) BY <1>1, <1>3 DEF IsBlock
<1>5. DynamicLies(all, p, b) BY <1>2, <1>3, <1>4, DynamicStands
<1>6. /\ p4 \in Nat /\ y \in Nat /\ A = p4 + y
      /\ Stands(all, p, Low(v1, e1)) /\ Stands(all, p1, Low(v2, e2))
      /\ Stands(all, p2, Low(v3, e3)) /\ Stands(all, p3, FlattenSeq(LensFields(b))) /\ Stands(all, p4, ListPart(b))
  BY <1>3, <1>5 DEF DynamicLies
<1>7. /\ e1 \in Nat /\ e2 \in Nat /\ e3 \in Nat /\ MinCode \in Nat /\ b.ncode \in Nat /\ IsLens(b.clens)
      /\ v1 \in Nat /\ v1 < Pow(e1) /\ v2 \in Nat /\ v2 < Pow(e2) /\ v3 \in Nat /\ v3 < Pow(e3)
  BY <1>4, TableIs
<1>8. z \in Nat
  <2>1. FlattenSeq(LensFields(b)) \in Words BY <1>4, LensFieldsAre
  <2> QED BY <2>1, WordsJoin
<1>9. b.nlit \in Nat /\ b.ndist \in Nat /\ END \in Nat BY <1>4, TablesOf
<1>10. END + 1 + v1 = b.nlit /\ 1 + v2 = b.ndist /\ MinCode + v3 = b.ncode BY <1>7, <1>9
<1> HIDE DEF all, fin, A, p, e1, e2, e3, v1, v2, v3, z, y
<1>11. p \in Nat /\ p1 \in Nat /\ p2 \in Nat /\ p3 \in Nat BY <1>3, <1>7
<1> DEFINE n1 == bits(Reader, e1)
           n2 == bits(n1, e2)
           n3 == bits(n2, e3)
           c == MinCode + n3.v
           R == ReadOn(n3, c, Field.len)
           l == ReadClens(R, c)
           ok == n3.ok /\ END + 1 + n1.v <= MaxLit /\ 1 + n2.v <= MaxDist /\ R[c].ok /\ ~Fails(l)
<1>12. /\ src' = src /\ out' = out
       /\ ~ok => mode' = "error"
       /\ ok =>
            /\ nlit' = END + 1 + n1.v /\ ndist' = 1 + n2.v /\ lenc' = huff_build(l) /\ lengths' = <<>>
            /\ At(R[c]) /\ mode' = "lengths" /\ final' = final
  BY FieldsRead DEF e1, e2, e3
<1> HIDE DEF n1
<1>13. n1 \in Cursors(all) /\ Got(all, n1, p1) /\ (p1 <= Supply => n1.v = v1)
  <2>1. Reader \in Cursors(all) /\ Got(all, Reader, p) BY <1>1, <1>2, CursorHere, GotIs
  <2>2. bits(Reader, e1) \in Cursors(all) BY <1>2, <1>7, <2>1, CursorMoves
  <2>3. Got(all, bits(Reader, e1), p + e1) /\ (p + e1 <= Supply => bits(Reader, e1).v = v1) BY <1>2, <1>6, <1>7, <1>11, <2>1, GotField
  <2> QED BY <2>2, <2>3 DEF n1
<1> HIDE DEF n2, p1
<1>14. n2 \in Cursors(all) /\ Got(all, n2, p2) /\ (p2 <= Supply => n2.v = v2)
  <2>1. bits(n1, e2) \in Cursors(all) BY <1>2, <1>7, <1>13, CursorMoves
  <2>2. Got(all, bits(n1, e2), p1 + e2) /\ (p1 + e2 <= Supply => bits(n1, e2).v = v2) BY <1>2, <1>6, <1>7, <1>11, <1>13, GotField
  <2> QED BY <2>1, <2>2 DEF n2
<1> HIDE DEF n3, p2
<1>15. n3 \in Cursors(all) /\ Got(all, n3, p3) /\ (p3 <= Supply => n3.v = v3)
  <2>1. bits(n2, e3) \in Cursors(all) BY <1>2, <1>7, <1>14, CursorMoves
  <2>2. Got(all, bits(n2, e3), p2 + e3) /\ (p2 + e3 <= Supply => bits(n2, e3).v = v3) BY <1>2, <1>6, <1>7, <1>11, <1>14, GotField
  <2> QED BY <2>1, <2>2 DEF n3
<1>16. p1 <= p3 /\ p2 <= p3 /\ p3 <= p4
  <2>1. p1 \in Nat /\ p2 \in Nat /\ p3 \in Nat /\ e2 \in Nat /\ e3 \in Nat /\ z \in Nat BY <1>7, <1>8, <1>11
  <2>2. p2 = p1 + e2 BY DEF p2
  <2>3. p3 = p2 + e3 OBVIOUS
  <2>4. p4 = p3 + z OBVIOUS
  <2> HIDE DEF p3, p4
  <2> QED BY <2>1, <2>2, <2>3, <2>4
<1> HIDE DEF p3, c, R, l, p4
<1>17. CASE ~(p3 <= Supply)
  <2>1. n3.ok = FALSE BY <1>15, <1>17 DEF Got
  <2>2. mode' = "error" BY <1>12, <2>1
  <2>3. Supply < A BY <1>2, <1>6, <1>11, <1>16, <1>17
  <2>4. ~Accepts(s) BY <1>1, <2>3, Refused DEF A
  <2> QED BY <1>12, <2>2, <2>4, Errs
<1>18. CASE p3 <= Supply
  <2>1. n1.v = v1 /\ n2.v = v2 /\ n3.v = v3 BY <1>2, <1>11, <1>13, <1>14, <1>15, <1>16, <1>18
  <2>2. n3.ok = TRUE BY <1>15, <1>18 DEF Got, ReadsAt
  <2>3. c = b.ncode BY <1>10, <2>1 DEF c
  <2>4. LensCome(all, n3, p3, b) BY <1>2, <1>4, <1>6, <1>11, <1>15, LensRead
  <2> DEFINE O == Offsets(LensFields(b))
  <2>5. /\ \A i \in 0 .. b.ncode : O[i] \in Nat /\ O[i] <= O[b.ncode] /\ Got(all, R[i], p3 + O[i])
        /\ \A i \in 1 .. b.ncode : p3 + O[i] <= Supply => R[i].v = b.clens[Order[i] + 1]
        /\ z = O[b.ncode]
    BY <2>3, <2>4 DEF LensCome, R, z
  <2> HIDE DEF O
  <2>6. Got(all, R[c], p4)
    <3>1. b.ncode \in 0 .. b.ncode BY <1>7
    <3>2. Got(all, R[b.ncode], p3 + O[b.ncode]) BY <2>5, <3>1
    <3> QED BY <2>3, <2>5, <3>2 DEF p4
  <2>7. CASE ~(p4 <= Supply)
    <3>1. R[c].ok = FALSE BY <2>6, <2>7 DEF Got
    <3>2. mode' = "error" BY <1>12, <3>1
    <3>3. Supply < A BY <1>2, <1>6, <2>7
    <3>4. ~Accepts(s) BY <1>1, <3>3, Refused DEF A
    <3> QED BY <1>12, <3>2, <3>4, Errs
  <2>8. CASE p4 <= Supply
    <3>1. R[c].ok = TRUE /\ ReadsAt(all, R[c], p4) BY <2>6, <2>8 DEF Got, ReadsAt
    <3>2. l = b.clens
      <4>1. \A i \in 1 .. b.ncode : R[i].v = b.clens[Order[i] + 1]
        <5> TAKE i \in 1 .. b.ncode
        <5>1. i \in 0 .. b.ncode /\ b.ncode \in 0 .. b.ncode BY <1>7
        <5> DEFINE x == O[i]
        <5>2. x \in Nat /\ x <= z BY <2>5, <5>1
        <5> HIDE DEF x
        <5>3. p3 + x <= Supply BY <1>2, <1>8, <1>11, <2>8, <5>2 DEF p4
        <5>4. p3 + O[i] <= Supply BY <5>3 DEF x
        <5> QED BY <2>5, <5>4
      <4>2. ReadClens(R, b.ncode) = b.clens BY <1>4, <4>1, ClensRead
      <4> QED BY <2>3, <4>2 DEF l
    <3>3. Fails(l) <=> ~IsCode(b.clens) BY <1>7, <3>2, FailsUnlessCode
    <3>4. END + 1 + n1.v = b.nlit /\ 1 + n2.v = b.ndist BY <1>10, <2>1
    <3>5. ok <=> b.nlit <= MaxLit /\ b.ndist <= MaxDist /\ IsCode(b.clens) BY <2>2, <3>1, <3>3, <3>4
    <3> HIDE DEF ok
    <3>6. CASE ~ok
      <4>1. ~DynamicOk(b) BY <3>5, <3>6 DEF DynamicOk
      <4>2. ~Accepts(s) BY <1>1, <4>1, RefusedTable
      <4> QED BY <1>12, <3>6, <4>2, Errs
    <3>7. CASE ok
      <4>1. nlit' = b.nlit /\ ndist' = b.ndist /\ lenc' = huff_build(b.clens) /\ lengths' = <<>> /\ mode' = "lengths" /\ final' = final /\ At(R[c])
        BY <1>12, <3>2, <3>4, <3>7
      <4> DEFINE F == Items(b.clens, b.list)
      <4>2. IsList(b.list) BY <1>4, TablesOf
      <4>3. F \in Seq(Words) BY <1>7, <4>2, ItemsAre
      <4>4. Offsets(F)[0] = 0
        <5> HIDE DEF F
        <5>1. F \in Seq(Seq(Bit)) BY <4>3 DEF Words
        <5> QED BY <5>1, OffsetsStep
      <4>5. Reading(s, p4)' BY <1>12, <3>1, <4>1, ReadingMoves DEF all
      <4>6. p4 + Offsets(F)[0] = p4 BY <1>6, <4>4
      <4>7. Reading(s, p4 + Offsets(F)[0])' BY <4>5, <4>6
      <4>8. lengths' = LengthsUpTo(b.list)[0] /\ Len(b.list) \in Nat BY <4>1, <4>2, LengthsAre
      <4>9. Len(lengths') = 0 /\ 0 <= nlit' + ndist' BY <1>9, <4>1, EmptySeq
      <4>10. nlit' <= MaxLit /\ ndist' <= MaxDist /\ IsCode(b.clens) BY <3>5, <3>7, <4>1
      <4>11. Inside(s, k, 2)' /\ Unwritten(s, k)' BY <1>1, <1>12, <4>1 DEF Inside, Unwritten, fin
      <4>12. Stands(AllBits(s.blocks), p4, ListPart(b)) /\ p4 + Len(ListPart(b)) = Ahead(s.blocks, k) BY <1>6 DEF all, A, y
      <4>13. 0 \in 0 .. Len(b.list) BY <4>8
      <4>14. Len(lengths') <= nlit' + ndist' BY <4>9
      <4> HIDE DEF F
      <4>15. AtLengths(s, k, p4, 0)' BY <4>1, <4>7, <4>8, <4>10, <4>11, <4>12, <4>13, <4>14 DEF AtLengths, F
      <4>16. Somewhere(s)' BY <4>15 DEF Somewhere
      <4> QED BY <1>12, <4>16
    <3> QED BY <3>6, <3>7
  <2> QED BY <2>7, <2>8
<1> QED BY <1>17, <1>18

----------------------------------------------------------------------------
(* The lengths of the two tables. *)

\* What is known at an item of the list of lengths.
LEMMA ListIs ==
  ASSUME NEW s, Given(s), s.zlib, NEW k, NEW p, NEW j, AtLengths(s, k, p, j)
  PROVE  LET bs == s.blocks
             all == AllBits(bs)
             b == bs[k]
             O == Offsets(Items(b.clens, b.list))
             q == p + O[j]
         IN  /\ k \in 1 .. Len(bs) /\ b.type = 2 /\ Mean(bs, k - 1).ok /\ IsTable(b) /\ AllFit(DistOf(b), b.tokens)
             /\ Carries(all) /\ Supply \in Nat /\ Len(all) \in Nat /\ Ahead(bs, k) \in Nat
             /\ IsLens(b.clens) /\ Weight(b.clens) <= Pow(MAXLBITS) /\ IsList(b.list) /\ Len(b.list) \in Nat /\ j \in 0 .. Len(b.list)
             /\ p \in Nat /\ q \in Nat /\ ReadsAt(all, Reader, q) /\ lengths \in Lens /\ Len(lengths) \in Nat /\ b.nlit + b.ndist \in Nat
             /\ j # 0 => lengths # <<>>
             /\ j = Len(b.list) =>
                  /\ Stands(all, q, TokenPart(b)) /\ q + Len(TokenPart(b)) = Ahead(bs, k) /\ lengths = Lengths(b.list)
                  /\ Len(lengths) = b.nlit + b.ndist
<1> DEFINE bs == s.blocks
           all == AllBits(bs)
           b == bs[k]
           F == Items(b.clens, b.list)
           O == Offsets(F)
           q == p + O[j]
           f == FlattenSeq(F)
           t == TokenPart(b)
           A == Ahead(bs, k)
           n == Len(b.list)
<1>1. /\ k \in 1 .. Len(bs) /\ b.type = 2 /\ Mean(bs, k - 1).ok /\ nlit = b.nlit /\ ndist = b.ndist /\ IsCode(b.clens)
      /\ Stands(all, p, ListPart(b)) /\ p + Len(ListPart(b)) = A
      /\ j \in 0 .. n /\ lengths = LengthsUpTo(b.list)[j] /\ Len(lengths) <= nlit + ndist
      /\ ReadsAt(all, Reader, q)
  BY DEF AtLengths, Inside, Reading
<1>2. Carries(all) /\ Supply \in Nat /\ Len(all) \in Nat BY GivenIs
<1>3. IsBlock(b) /\ A \in Nat BY <1>1, BlockIs
<1>4. IsTable(b) /\ AllFit(DistOf(b), b.tokens) BY <1>1, <1>3 DEF IsBlock
<1>5. IsLens(b.clens) /\ IsList(b.list) /\ b.nlit + b.ndist \in Nat BY <1>4, TableIs, TablesOf
<1>6. Weight(b.clens) <= Pow(MAXLBITS) BY <1>1 DEF IsCode
<1>7. F \in Seq(Words) /\ Len(F) = n /\ f \in Words BY <1>5, ItemsAre
<1>8. t \in Words BY <1>4, DynamicIsBits
<1>9. /\ n \in Nat /\ lengths \in Lens /\ Len(lengths) \in Nat /\ Lengths(b.list) = LengthsUpTo(b.list)[n]
      /\ j # 0 => lengths # <<>>
  <2>1. /\ n \in Nat /\ (\A i \in 0 .. n : LengthsUpTo(b.list)[i] \in Lens /\ Len(LengthsUpTo(b.list)[i]) \in Nat)
        /\ Lengths(b.list) = LengthsUpTo(b.list)[n] /\ \A i \in 1 .. n : LengthsUpTo(b.list)[i] # <<>>
    BY <1>5, LengthsAre
  <2>2. j # 0 => j \in 1 .. n BY <1>1, <2>1
  <2> QED BY <1>1, <2>1, <2>2
<1>10. ListPart(b) = f \o t BY DEF ListPart
<1>11. Len(Lengths(b.list)) >= b.nlit + b.ndist BY <1>4 DEF IsTable
<1> HIDE DEF F, f, t, A, all
<1>12. f \in Seq(Bit) /\ t \in Seq(Bit) /\ F \in Seq(Seq(Bit)) BY <1>7, <1>8 DEF Words
<1>13. p \in Nat /\ O[j] \in Nat
  <2>1. p \in Nat BY <1>1 DEF Stands
  <2>2. O[j] \in Nat BY <1>1, <1>7, <1>12, OffsetsStep
  <2> QED BY <2>1, <2>2
<1>14. q \in Nat BY <1>13
<1>15. ASSUME j = n
       PROVE  /\ Stands(all, q, t) /\ q + Len(t) = A /\ lengths = Lengths(b.list) /\ Len(lengths) = b.nlit + b.ndist
  <2>1. O[j] = Len(f)
    <3>1. Len(FlattenSeq(F)) = Offsets(F)[Len(F)] BY <1>12, Flattened
    <3> QED BY <1>7, <1>15, <3>1 DEF f
  <2>2. Stands(all, p, f \o t) BY <1>1, <1>10
  <2>3. Stands(all, p + Len(f), t) BY <1>2, <1>12, <2>2, StandsJoined
  <2>4. Len(f \o t) = Len(f) + Len(t) /\ Len(f) \in Nat /\ Len(t) \in Nat BY <1>7, <1>8, WordsJoin
  <2> DEFINE c == Len(f)
             e == Len(t)
  <2>5. p + (c + e) = (p + c) + e BY <1>13, <2>4
  <2>6. q + Len(t) = A BY <1>1, <1>10, <2>1, <2>4, <2>5
  <2>7. lengths = Lengths(b.list) BY <1>1, <1>9, <1>15
  <2>8. Len(lengths) = b.nlit + b.ndist BY <1>1, <1>5, <1>9, <1>11, <2>7
  <2> QED BY <2>1, <2>3, <2>6, <2>7, <2>8
<1> QED BY <1>1, <1>2, <1>3, <1>4, <1>5, <1>6, <1>9, <1>13, <1>14, <1>15 DEF F, t, A, all

\* The next entry of the list, its code and the extra bits of a run.
NextItem(s, k, p, j) ==
  LET bs == s.blocks
      all == AllBits(bs)
      b == bs[k]
      O == Offsets(Items(b.clens, b.list))
      q == p + O[j]
      i == j + 1
      c == Code(b.clens, b.list[i].s)
      e == Extra(b.list, i)
  IN  /\ i \in 1 .. Len(b.list) /\ Stands(all, q, c) /\ Stands(all, q + Len(c), e) /\ Len(c) \in Nat /\ Len(e) \in Nat
      /\ (q + Len(c)) + Len(e) = p + O[i] /\ p + O[i] <= Ahead(bs, k)
      /\ Spare(b.clens, b.list[i].s)
      /\ b.list[i].s > MAXLBITS => b.list[i].x < Pow(Runs[b.list[i].s - MAXLBITS].ext)
      /\ LengthsUpTo(b.list)[i] = AfterItem(b.list, i, lengths)
      /\ i = Len(b.list) => Len(LengthsUpTo(b.list)[i]) = Len(Lengths(b.list))
      /\ i # Len(b.list) => Len(LengthsUpTo(b.list)[i]) < b.nlit + b.ndist

\* The next item, and where it stands.
LEMMA ItemStands ==
  ASSUME NEW s, Given(s), s.zlib, NEW k, NEW p, NEW j, AtLengths(s, k, p, j), j # Len(s.blocks[k].list)
  PROVE  NextItem(s, k, p, j)
<1> DEFINE bs == s.blocks
           all == AllBits(bs)
           b == bs[k]
           F == Items(b.clens, b.list)
           O == Offsets(F)
           q == p + O[j]
           f == FlattenSeq(F)
           t == TokenPart(b)
           A == Ahead(bs, k)
           n == Len(b.list)
           i == j + 1
           c == Code(b.clens, b.list[i].s)
           e == Extra(b.list, i)
<1>1. /\ IsTable(b) /\ AllFit(DistOf(b), b.tokens) /\ Len(all) \in Nat /\ IsLens(b.clens) /\ IsList(b.list) /\ n \in Nat /\ j \in 0 .. n /\ p \in Nat
  BY ListIs
<1>2. /\ IsCode(b.clens) /\ Stands(all, p, ListPart(b)) /\ p + Len(ListPart(b)) = A /\ lengths = LengthsUpTo(b.list)[j]
  BY DEF AtLengths
<1>3. F \in Seq(Words) /\ Len(F) = n /\ f \in Words BY <1>1, ItemsAre
<1>4. \A x \in 1 .. n : F[x] = Item(b.clens, b.list, x) /\ Code(b.clens, b.list[x].s) \in Words /\ Extra(b.list, x) \in Words BY <1>1, ItemsAre
<1>5. t \in Words BY <1>1, DynamicIsBits
<1>6. i \in 1 .. n /\ i - 1 = j BY <1>1
<1>7. F[i] = c \o e /\ c \in Words /\ e \in Words BY <1>4, <1>6 DEF Item
<1>8. ListPart(b) = f \o t BY DEF ListPart
<1>9. /\ Spare(b.clens, b.list[i].s)
      /\ b.list[i].s > MAXLBITS => b.list[i].x < Pow(Runs[b.list[i].s - MAXLBITS].ext)
  BY <1>1, <1>2, <1>6 DEF IsTable
<1>10. LengthsUpTo(b.list)[i] = AfterItem(b.list, i, lengths) BY <1>1, <1>2, <1>6, LengthsAre
<1>11. i = n => Len(LengthsUpTo(b.list)[i]) = Len(Lengths(b.list)) BY DEF Lengths
<1>12. i # n => Len(LengthsUpTo(b.list)[i]) < b.nlit + b.ndist
  <2>1. \A x \in 1 .. n : Len(LengthsUpTo(b.list)[x - 1]) < b.nlit + b.ndist BY <1>1 DEF IsTable
  <2>2. i # n => i + 1 \in 1 .. n /\ (i + 1) - 1 = i BY <1>1, <1>6
  <2> HIDE DEF i
  <2> QED BY <2>1, <2>2
<1> HIDE DEF F, f, t, A, all, c, e
<1>13. f \in Seq(Bit) /\ t \in Seq(Bit) /\ F \in Seq(Seq(Bit)) /\ c \in Seq(Bit) /\ e \in Seq(Bit) BY <1>3, <1>5, <1>7 DEF Words
<1>14. Stands(all, p, f)
  <2>1. Stands(all, p, f \o t) BY <1>2, <1>8
  <2> QED BY <1>1, <1>13, <2>1, StandsJoined
<1>15. Stands(all, q, c \o e)
  <2>1. \A x \in 1 .. Len(F) : Stands(all, p + Offsets(F)[x - 1], F[x]) BY <1>1, <1>13, <1>14, StandsFlattened DEF f
  <2>2. Stands(all, p + Offsets(F)[i - 1], F[i]) BY <1>3, <1>6, <2>1
  <2> QED BY <1>6, <1>7, <2>2
<1>16. Stands(all, q, c) /\ Stands(all, q + Len(c), e) BY <1>1, <1>13, <1>15, StandsJoined
<1>17. Len(c \o e) = Len(c) + Len(e) /\ Len(c) \in Nat /\ Len(e) \in Nat BY <1>7, WordsJoin
<1>18. O[i] = O[i - 1] + Len(F[i]) BY <1>3, <1>6, <1>13, OffsetsStep
<1>19. O[i] \in Nat /\ O[i] <= O[n] /\ O[j] \in Nat
  <2>1. \A x \in 0 .. Len(F) : Offsets(F)[x] \in Nat /\ Offsets(F)[x] <= Offsets(F)[Len(F)] BY <1>3, OffsetsGrow
  <2>2. i \in 0 .. Len(F) /\ j \in 0 .. Len(F) BY <1>1, <1>3, <1>6
  <2> QED BY <1>3, <2>1, <2>2
<1>20. (q + Len(c)) + Len(e) = p + O[i]
  <2> DEFINE x == Len(c)
             y == Len(e)
             z == O[j]
  <2>1. O[i] = z + (x + y) BY <1>6, <1>7, <1>17, <1>18
  <2>2. x \in Nat /\ y \in Nat /\ z \in Nat BY <1>17, <1>19
  <2>3. q = p + z OBVIOUS
  <2> HIDE DEF x, y, z, q
  <2>4. (q + x) + y = p + (z + (x + y)) BY <1>1, <2>2, <2>3
  <2> QED BY <2>1, <2>4 DEF x, y
<1>21. p + O[i] <= A
  <2>1. O[n] = Len(f)
    <3>1. Len(FlattenSeq(F)) = Offsets(F)[Len(F)] BY <1>13, Flattened
    <3> QED BY <1>3, <3>1 DEF f
  <2>2. Len(f \o t) = Len(f) + Len(t) /\ Len(f) \in Nat /\ Len(t) \in Nat BY <1>3, <1>5, WordsJoin
  <2> DEFINE x == Len(f)
             y == Len(t)
             z == O[i]
  <2>3. A = p + (x + y) /\ z <= x /\ z \in Nat BY <1>2, <1>8, <1>19, <2>1, <2>2
  <2>4. x \in Nat /\ y \in Nat BY <2>2
  <2> HIDE DEF x, y, z
  <2>5. p + z <= A BY <1>1, <2>3, <2>4
  <2> QED BY <2>5 DEF z
<1> QED BY <1>6, <1>9, <1>10, <1>11, <1>12, <1>16, <1>17, <1>20, <1>21 DEF NextItem, F, A, all, c, e

\* An item that was read as it was written leaves the decoder at the next one.
LEMMA ItemDone ==
  ASSUME NEW s, Given(s), s.zlib, NEW k, NEW p, NEW j, AtLengths(s, k, p, j), j + 1 \in 1 .. Len(s.blocks[k].list),
         src' = src, out' = out, final' = final, mode' = "lengths", nlit' = nlit, ndist' = ndist, lenc' = lenc, NEW r,
         ReadsAt(AllBits(s.blocks), r, p + Offsets(Items(s.blocks[k].clens, s.blocks[k].list))[j + 1]), At(r),
         lengths' = LengthsUpTo(s.blocks[k].list)[j + 1], Len(lengths') <= nlit + ndist,
         Coded(s.blocks[k].clens, s.blocks[k].list[j + 1].s), s.blocks[k].list[j + 1].s = COPY => j # 0
  PROVE  Somewhere(s)' /\ out' = out
<1> DEFINE b == s.blocks[k]
           i == j + 1
<1>1. Inside(s, k, 2)' /\ Unwritten(s, k)' BY DEF AtLengths, Inside, Unwritten
<1>2. /\ nlit = b.nlit /\ ndist = b.ndist /\ nlit <= MaxLit /\ ndist <= MaxDist
      /\ IsCode(b.clens) /\ lenc = huff_build(b.clens)
      /\ Stands(AllBits(s.blocks), p, ListPart(b)) /\ p + Len(ListPart(b)) = Ahead(s.blocks, k)
      /\ j \in 0 .. Len(b.list) /\ (\A x \in 1 .. j : Coded(b.clens, b.list[x].s)) /\ (j > 0 => b.list[1].s # COPY)
  BY DEF AtLengths
<1>3. Reading(s, p + Offsets(Items(b.clens, b.list))[i])' BY ReadingMoves
<1>4. Len(b.list) \in Nat BY ListIs
<1>5. i \in 0 .. Len(b.list) BY <1>2, <1>4
<1>6. \A x \in 1 .. i : Coded(b.clens, b.list[x].s)
  <2> TAKE x \in 1 .. i
  <2>1. CASE x = i BY <2>1
  <2>2. CASE x # i
    <3>1. x \in 1 .. j BY <1>2, <1>4, <2>2
    <3> QED BY <1>2, <3>1
  <2> QED BY <2>1, <2>2
<1>7. b.list[1].s # COPY
  <2>1. CASE j = 0
    <3>1. i = 1 BY <2>1
    <3> QED BY <2>1, <3>1
  <2>2. CASE j # 0
    <3>1. j > 0 BY <1>2, <1>4, <2>2
    <3> QED BY <1>2, <3>1
  <2> QED BY <2>1, <2>2
<1>8. nlit' = b.nlit /\ ndist' = b.ndist /\ nlit' <= MaxLit /\ ndist' <= MaxDist /\ lenc' = huff_build(b.clens) /\ Len(lengths') <= nlit' + ndist'
  BY <1>2
<1>9. lengths' = LengthsUpTo(b.list)[i] OBVIOUS
<1> HIDE DEF i
<1>10. AtLengths(s, k, p, i)' BY <1>1, <1>2, <1>3, <1>5, <1>6, <1>7, <1>8, <1>9 DEF AtLengths
<1>11. Somewhere(s)' BY <1>10 DEF Somewhere
<1> QED BY <1>11

\* A run of v of the length before or of zeros, where there is one and room for it.
RunRead(v, row, rep) ==
  LET ok == ~(v = COPY /\ lengths = <<>>) /\ rep.ok /\ Len(lengths) + row.base + rep.v <= nlit + ndist
  IN  /\ ~ok => mode' = "error"
      /\ ok => /\ lengths' = lengths \o [i \in 1 .. row.base + rep.v |-> IF v = COPY THEN lengths[Len(lengths)] ELSE 0] /\ At(rep)
               /\ mode' = "lengths" /\ final' = final /\ nlit' = nlit /\ ndist' = ndist /\ lenc' = lenc

\* What the decoder does with an entry, by its value.
LEMMA LengthRead ==
  ASSUME Length, NEW sym, sym = huff_decode(Reader, lenc), NEW v \in Nat, sym.ok = TRUE => sym.v = v, sym.ok \in BOOLEAN,
         NEW row, row = Runs[v - MAXLBITS], NEW rep, rep = bits(sym, row.ext)
  PROVE  /\ src' = src /\ out' = out
         /\ ~sym.ok => mode' = "error"
         /\ sym.ok /\ v <= MAXLBITS =>
              /\ lengths' = Append(lengths, v) /\ At(sym)
              /\ mode' = "lengths" /\ final' = final /\ nlit' = nlit /\ ndist' = ndist /\ lenc' = lenc
         /\ sym.ok /\ v > MAXLBITS => RunRead(v, row, rep)
<1>1. src' = src /\ mode = "lengths" BY DEF Length, input
<1>2. (CASE ~sym.ok -> Error
         [] sym.ok /\ sym.v <= MAXLBITS ->
               /\ lengths' = Append(lengths, sym.v) /\ At(sym)
               /\ UNCHANGED <<mode, out, final, copying, table, nlit, ndist, lenc>>
         [] sym.ok /\ sym.v > MAXLBITS ->
               IF ~(sym.v = COPY /\ lengths = <<>>) /\ bits(sym, Runs[sym.v - MAXLBITS].ext).ok
                  /\ Len(lengths) + Runs[sym.v - MAXLBITS].base + bits(sym, Runs[sym.v - MAXLBITS].ext).v <= nlit + ndist
               THEN /\ lengths' = lengths \o [i \in 1 .. Runs[sym.v - MAXLBITS].base + bits(sym, Runs[sym.v - MAXLBITS].ext).v |->
                                    IF sym.v = COPY THEN lengths[Len(lengths)] ELSE 0]
                    /\ At(bits(sym, Runs[sym.v - MAXLBITS].ext))
                    /\ UNCHANGED <<mode, out, final, copying, table, nlit, ndist, lenc>>
               ELSE Error)
  BY DEF Length
<1>3. CASE ~sym.ok BY <1>1, <1>2, <1>3 DEF Error
<1>4. CASE sym.ok
  <2>1. sym.v = v /\ MAXLBITS \in Nat BY <1>4, Sizes
  <2>2. CASE v <= MAXLBITS
    <3>1. ~(v > MAXLBITS) BY <2>1, <2>2
    <3>2. /\ lengths' = Append(lengths, v) /\ At(sym) /\ UNCHANGED <<mode, out, final, copying, table, nlit, ndist, lenc>>
      BY <1>2, <1>4, <2>1, <2>2, <3>1
    <3> QED BY <1>1, <1>4, <2>2, <3>1, <3>2
  <2>3. CASE v > MAXLBITS
    <3>1. ~(v <= MAXLBITS) BY <2>1, <2>3
    <3> DEFINE ok == ~(v = COPY /\ lengths = <<>>) /\ rep.ok /\ Len(lengths) + row.base + rep.v <= nlit + ndist
    <3>2. IF ok
          THEN /\ lengths' = lengths \o [i \in 1 .. row.base + rep.v |-> IF v = COPY THEN lengths[Len(lengths)] ELSE 0]
               /\ At(rep) /\ UNCHANGED <<mode, out, final, copying, table, nlit, ndist, lenc>>
          ELSE Error
      BY <1>2, <1>4, <2>1, <2>3, <3>1
    <3> HIDE DEF ok
    <3>3. CASE ok BY <1>1, <1>4, <3>1, <3>2, <3>3 DEF ok, RunRead
    <3>4. CASE ~ok BY <1>1, <1>4, <3>1, <3>2, <3>4 DEF ok, Error, RunRead
    <3> QED BY <3>3, <3>4
  <2>4. v <= MAXLBITS \/ v > MAXLBITS BY <2>1
  <2> QED BY <2>2, <2>3, <2>4
<1> QED BY <1>3, <1>4

\* A list that is too long, that begins with a copy or has a symbol without a code makes no table.
LEMMA BadList ==
  ASSUME NEW s, Given(s), s.zlib, NEW k, NEW p, NEW j, AtLengths(s, k, p, j), NEW i \in 1 .. Len(s.blocks[k].list),
         \/ ~Coded(s.blocks[k].clens, s.blocks[k].list[i].s)
         \/ s.blocks[k].list[1].s = COPY
         \/ Len(Lengths(s.blocks[k].list)) # s.blocks[k].nlit + s.blocks[k].ndist
  PROVE  ~Accepts(s)
<1>1. k \in 1 .. Len(s.blocks) /\ s.blocks[k].type = 2 /\ Mean(s.blocks, k - 1).ok BY ListIs
<1>2. ~DynamicOk(s.blocks[k]) BY DEF DynamicOk
<1> QED BY <1>1, <1>2, RefusedTable

\* An item is read, or refused where it has no code, repeats nothing or says too many.
LEMMA LengthMoves ==
  ASSUME NEW s, Given(s), s.zlib, NEW k, NEW p, NEW j, AtLengths(s, k, p, j), Length
  PROVE  Somewhere(s)' /\ out' = out
<1> DEFINE bs == s.blocks
           all == AllBits(bs)
           b == bs[k]
           c == b.clens
           a == b.list
           O == Offsets(Items(c, a))
           q == p + O[j]
           i == j + 1
           A == Ahead(bs, k)
           n == b.nlit + b.ndist
           v == a[i].s
           e == Len(Code(c, v))
           f == Len(Extra(a, i))
           sym == huff_decode(Reader, lenc)
           row == Runs[v - MAXLBITS]
           rep == bits(sym, row.ext)
<1>1. /\ k \in 1 .. Len(bs) /\ Carries(all) /\ Supply \in Nat /\ Len(all) \in Nat /\ A \in Nat
      /\ IsLens(c) /\ Weight(c) <= Pow(MAXLBITS) /\ IsList(a) /\ Len(a) \in Nat /\ j \in 0 .. Len(a)
      /\ q \in Nat /\ ReadsAt(all, Reader, q) /\ lengths \in Lens /\ Len(lengths) \in Nat /\ n \in Nat
      /\ (j # 0 => lengths # <<>>) /\ (j = Len(a) => Len(lengths) = n)
  BY ListIs
<1>2. nlit + ndist = n /\ lenc = huff_build(c) BY DEF AtLengths
<1>3. Len(lengths) < n BY <1>2 DEF Length
<1>4. j # Len(a) BY <1>1, <1>3
<1>5. NextItem(s, k, p, j) BY <1>4, ItemStands
<1>6. /\ i \in 1 .. Len(a) /\ Stands(all, q, Code(c, v)) /\ Stands(all, q + e, Extra(a, i)) /\ e \in Nat /\ f \in Nat
      /\ (q + e) + f = p + O[i] /\ p + O[i] <= A
      /\ Spare(c, v)
      /\ v > MAXLBITS => a[i].x < Pow(row.ext)
      /\ LengthsUpTo(a)[i] = AfterItem(a, i, lengths)
      /\ i = Len(a) => Len(LengthsUpTo(a)[i]) = Len(Lengths(a))
      /\ i # Len(a) => Len(LengthsUpTo(a)[i]) < n
  BY <1>5 DEF NextItem
<1>7. /\ v \in Nat /\ a[i].x \in Nat
      /\ v > MAXLBITS => /\ row.base \in Nat \ {0} /\ row.ext \in Nat /\ Run(a, i) \in Nat \ {0} /\ Run(a, i) = row.base + a[i].x
  BY <1>1, <1>6, ItemIs
<1>8. /\ v <= MAXLBITS => AfterItem(a, i, lengths) = Append(lengths, v) /\ Len(AfterItem(a, i, lengths)) = Len(lengths) + 1
      /\ v > MAXLBITS => Len(AfterItem(a, i, lengths)) = Len(lengths) + Run(a, i)
      /\ v = COPY /\ lengths # <<>> => AfterItem(a, i, lengths) = lengths \o [x \in 1 .. Run(a, i) |-> lengths[Len(lengths)]]
      /\ v > MAXLBITS /\ v # COPY => AfterItem(a, i, lengths) = lengths \o [x \in 1 .. Run(a, i) |-> 0]
  BY <1>1, <1>6, AfterItemIs
<1>9. ~Coded(c, v) => ~Accepts(s) BY <1>6, BadList
<1>10. i = 1 /\ v = COPY => ~Accepts(s) BY <1>6, BadList
<1>11. Len(Lengths(a)) # n => ~Accepts(s) BY <1>6, BadList
<1>12. Extra(a, i) = IF v > MAXLBITS THEN Low(a[i].x, row.ext) ELSE <<>> BY DEF Extra
<1> HIDE DEF all, q, A, n, e, f, sym, rep, row
<1>13. Got(all, Reader, q) BY <1>1, GotIs
<1>14. sym = huff_decode(Reader, lenc) /\ rep = bits(sym, row.ext) /\ row = Runs[v - MAXLBITS] BY DEF sym, rep, row
<1>18. ASSUME ~Coded(c, v)
       PROVE  sym.ok = FALSE
  <2>1. Weight(c) < Pow(MAXLBITS) BY <1>6, <1>18 DEF Spare
  <2>2. Stands(all, q, Code(c, v)) BY <1>6
  <2>3. q \in Nat /\ Carries(all) /\ Supply \in Nat /\ IsLens(c) BY <1>1
  <2> HIDE DEF v, c
  <2>4. huff_decode(Reader, huff_build(c)).ok = FALSE BY <1>13, <1>18, <2>1, <2>2, <2>3, GotNothing
  <2> QED BY <1>2, <1>14, <2>4 DEF c
<1>19. ASSUME Coded(c, v)
       PROVE  Got(all, sym, q + e) /\ (q + e <= Supply => sym.v = v)
  <2>1. Stands(all, q, Code(c, v)) BY <1>6
  <2>2. q \in Nat /\ Carries(all) /\ Supply \in Nat /\ IsLens(c) /\ Weight(c) <= Pow(MAXLBITS) BY <1>1
  <2>3. e = Len(Code(c, v)) /\ lenc = huff_build(c) BY <1>2 DEF e
  <2> HIDE DEF v, c
  <2>4. /\ Got(all, huff_decode(Reader, huff_build(c)), q + Len(Code(c, v)))
        /\ q + Len(Code(c, v)) <= Supply => huff_decode(Reader, huff_build(c)).v = v
    BY <1>13, <1>19, <2>1, <2>2, GotSymbol
  <2> QED BY <1>14, <2>3, <2>4
<1>20. sym.ok \in BOOLEAN /\ (sym.ok = TRUE => sym.v = v)
  <2>1. CASE ~Coded(c, v) BY <1>18, <2>1
  <2>2. CASE Coded(c, v)
    <3>1. CASE q + e <= Supply
      <4>1. sym.ok = TRUE BY <1>19, <2>2, <3>1 DEF Got, ReadsAt
      <4> QED BY <1>19, <2>2, <3>1, <4>1
    <3>2. CASE ~(q + e <= Supply)
      <4>1. sym.ok = FALSE BY <1>19, <2>2, <3>2 DEF Got
      <4> QED BY <4>1
    <3> QED BY <3>1, <3>2
  <2> QED BY <2>1, <2>2
<1>15. src' = src /\ out' = out BY <1>7, <1>14, <1>20, LengthRead
<1>16. CASE ~Coded(c, v)
  <2>1. sym.ok = FALSE BY <1>16, <1>18
  <2>2. mode' = "error" BY <1>7, <1>14, <1>20, <2>1, LengthRead
  <2> QED BY <1>9, <1>15, <1>16, <2>2, Errs
<1>17. CASE Coded(c, v)
  <2> DEFINE q1 == q + e
             q2 == q1 + f
  <2>0. q1 \in Nat /\ q2 \in Nat /\ q2 = p + O[i] /\ q2 <= A /\ q1 <= q2 BY <1>1, <1>6
  <2>1. Got(all, sym, q1) /\ (q1 <= Supply => sym.v = v) BY <1>17, <1>19
  <2> HIDE DEF q1
  <2>2. CASE ~(q1 <= Supply)
    <3>1. sym.ok = FALSE BY <2>1, <2>2 DEF Got
    <3>2. mode' = "error" BY <1>7, <1>14, <1>20, <3>1, LengthRead
    <3>3. Supply < A
      <4> HIDE DEF q2
      <4> QED BY <1>1, <2>0, <2>2
    <3>4. ~Accepts(s) BY <1>1, <3>3, Refused DEF A
    <3> QED BY <1>15, <3>2, <3>4, Errs
  <2>3. CASE q1 <= Supply
    <3>1. sym.ok = TRUE /\ sym.v = v /\ ReadsAt(all, sym, q1) BY <2>1, <2>3 DEF Got, ReadsAt
    <3>2. CASE v <= MAXLBITS
      <4>1. ~(v > MAXLBITS) BY <1>7, <3>2, Sizes
      <4>2. f = 0 BY <1>12, <4>1, EmptySeq DEF f
      <4>3. q1 = p + O[i] BY <2>0, <4>2
      <4>4. /\ lengths' = Append(lengths, v) /\ At(sym) /\ mode' = "lengths" /\ final' = final /\ nlit' = nlit /\ ndist' = ndist /\ lenc' = lenc
        <5>1. sym.ok \in BOOLEAN BY <3>1
        <5> QED BY <1>7, <1>14, <3>1, <3>2, <5>1, LengthRead
      <4>5. lengths' = LengthsUpTo(a)[i] /\ Len(lengths') <= nlit + ndist
        <5>1. lengths' = LengthsUpTo(a)[i] BY <1>6, <1>8, <3>2, <4>4
        <5>2. Len(lengths') = Len(lengths) + 1 BY <1>6, <1>8, <3>2, <5>1
        <5> DEFINE d == Len(lengths)
        <5>3. d \in Nat /\ d < n /\ n \in Nat BY <1>1, <1>3
        <5> HIDE DEF d
        <5>4. d + 1 <= n BY <5>3
        <5> QED BY <1>2, <5>1, <5>2, <5>4 DEF d
      <4>6. v # COPY
        <5>1. MAXLBITS \in Nat BY Sizes
        <5> QED BY <1>7, <3>2, <5>1 DEF COPY
      <4>7. ReadsAt(AllBits(s.blocks), sym, p + Offsets(Items(s.blocks[k].clens, s.blocks[k].list))[j + 1]) BY <3>1, <4>3 DEF all
      <4> QED BY <1>6, <1>15, <1>17, <4>4, <4>5, <4>6, <4>7, ItemDone
    <3>3. CASE v > MAXLBITS
      <4>1. Extra(a, i) = Low(a[i].x, row.ext) /\ f = row.ext
        <5>1. Extra(a, i) = Low(a[i].x, row.ext) BY <1>12, <3>3
        <5> QED BY <1>7, <3>3, <5>1, FieldBits DEF f
      <4>2. Got(all, rep, q2) /\ (q2 <= Supply => rep.v = a[i].x)
        <5>1. Stands(all, q1, Low(a[i].x, row.ext)) BY <1>6, <4>1 DEF q1
        <5>2. Got(all, bits(sym, row.ext), q1 + row.ext) /\ (q1 + row.ext <= Supply => bits(sym, row.ext).v = a[i].x)
          BY <1>1, <1>6, <1>7, <2>0, <2>1, <3>3, <5>1, GotField
        <5> QED BY <1>14, <4>1, <5>2
      <4> DEFINE first == v = COPY /\ lengths = <<>>
                 ok == ~first /\ rep.ok /\ Len(lengths) + row.base + rep.v <= nlit + ndist
      <4>3. /\ ~ok => mode' = "error"
            /\ ok => /\ lengths' = lengths \o [x \in 1 .. row.base + rep.v |-> IF v = COPY THEN lengths[Len(lengths)] ELSE 0] /\ At(rep)
                     /\ mode' = "lengths" /\ final' = final /\ nlit' = nlit /\ ndist' = ndist /\ lenc' = lenc
        <5>1. RunRead(v, row, rep)
          <6>1. v \in Nat /\ sym.ok = TRUE BY <1>7, <3>1
          <6> HIDE DEF v, ok, first
          <6> QED BY <1>14, <1>20, <3>3, <6>1, LengthRead
        <5> QED BY <5>1 DEF RunRead
      <4> HIDE DEF q2
      <4>4. CASE ~(q2 <= Supply)
        <5>1. rep.ok = FALSE BY <4>2, <4>4 DEF Got
        <5>2. mode' = "error" BY <4>3, <5>1
        <5>3. Supply < A BY <1>1, <2>0, <4>4
        <5>4. ~Accepts(s) BY <1>1, <5>3, Refused DEF A
        <5> QED BY <1>15, <5>2, <5>4, Errs
      <4>5. CASE q2 <= Supply
        <5>1. rep.ok = TRUE /\ rep.v = a[i].x /\ ReadsAt(all, rep, q2) BY <4>2, <4>5 DEF Got, ReadsAt
        <5> DEFINE m == Run(a, i)
                   d == Len(lengths)
        <5>2. m \in Nat \ {0} /\ row.base + rep.v = m BY <1>7, <3>3, <5>1
        <5>3. d + row.base + rep.v = d + m
          <6> DEFINE x == row.base
                     y == rep.v
          <6>1. x \in Nat /\ y \in Nat /\ x + y = m /\ d \in Nat BY <1>1, <1>7, <3>3, <5>1, <5>2
          <6> HIDE DEF x, y, d, m
          <6>2. d + x + y = d + m BY <6>1
          <6> QED BY <6>2 DEF x, y
        <5>4. Len(LengthsUpTo(a)[i]) = d + m BY <1>6, <1>8, <3>3
        <5>5. ok <=> ~first /\ d + m <= n BY <1>2, <5>1, <5>3
        <5>6. CASE first
          <6>1. j = 0 /\ v = COPY BY <1>1, <5>6
          <6>2. i = 1 BY <6>1
          <6>3. ~Accepts(s) BY <1>10, <6>1, <6>2
          <6>4. mode' = "error" BY <4>3, <5>5, <5>6
          <6> QED BY <1>15, <6>3, <6>4, Errs
        <5>7. CASE ~(d + m <= n)
          <6>1. mode' = "error" BY <4>3, <5>5, <5>7
          <6>2. i = Len(a) /\ Len(Lengths(a)) = d + m
            <7> DEFINE z == Len(LengthsUpTo(a)[i])
            <7>1. z = d + m /\ d \in Nat /\ m \in Nat BY <1>1, <5>2, <5>4
            <7>2. i # Len(a) => z < n BY <1>6
            <7>3. i = Len(a) => z = Len(Lengths(a)) BY <1>6
            <7> HIDE DEF z, d, m, i
            <7> QED BY <1>1, <5>7, <7>1, <7>2, <7>3
          <6>3. Len(Lengths(a)) # n
            <7>1. d + m \in Nat BY <1>1, <5>2
            <7> HIDE DEF d, m
            <7> QED BY <1>1, <5>7, <6>2, <7>1
          <6>4. ~Accepts(s) BY <1>11, <6>3
          <6> QED BY <1>15, <6>1, <6>4, Errs
        <5>8. CASE ~first /\ d + m <= n
          <6>1. ok BY <5>5, <5>8
          <6>2. /\ lengths' = lengths \o [x \in 1 .. m |-> IF v = COPY THEN lengths[Len(lengths)] ELSE 0] /\ At(rep)
                /\ mode' = "lengths" /\ final' = final /\ nlit' = nlit /\ ndist' = ndist /\ lenc' = lenc
            BY <4>3, <5>2, <6>1
          <6>3. lengths' = AfterItem(a, i, lengths)
            <7>1. CASE v = COPY
              <8>1. lengths # <<>> BY <5>8, <7>1
              <8> QED BY <1>8, <6>2, <7>1, <8>1
            <7>2. CASE v # COPY BY <1>8, <3>3, <6>2, <7>2
            <7> QED BY <7>1, <7>2
          <6>4. lengths' = LengthsUpTo(a)[i] BY <1>6, <6>3
          <6>5. Len(lengths') <= nlit + ndist BY <1>2, <5>4, <5>8, <6>4
          <6>6. v = COPY => j # 0
            <7> SUFFICES ASSUME v = COPY, j = 0
                         PROVE  FALSE
              OBVIOUS
            <7>1. lengths = LengthsUpTo(a)[0] BY DEF AtLengths
            <7>2. lengths = <<>> BY <1>1, <7>1, LengthsAre
            <7> QED BY <5>8, <7>2
          <6>7. ReadsAt(AllBits(s.blocks), rep, p + Offsets(Items(s.blocks[k].clens, s.blocks[k].list))[j + 1]) BY <2>0, <5>1 DEF all, q2
          <6> QED BY <1>6, <1>15, <1>17, <6>2, <6>4, <6>5, <6>6, <6>7, ItemDone
        <5> QED BY <5>6, <5>7, <5>8
      <4> QED BY <4>4, <4>5
    <3>4. v <= MAXLBITS \/ v > MAXLBITS BY <1>7, Sizes
    <3> QED BY <3>2, <3>3, <3>4
  <2> QED BY <2>2, <2>3
<1> QED BY <1>16, <1>17

\* The full list makes the two tables, or is refused where one of them is over-full or has no end.
LEMMA TablesMoves ==
  ASSUME NEW s, Given(s), s.zlib, NEW k, NEW p, NEW j, AtLengths(s, k, p, j), Tables
  PROVE  Somewhere(s)' /\ out' = out
<1> DEFINE bs == s.blocks
           all == AllBits(bs)
           b == bs[k]
           c == b.clens
           a == b.list
           n == b.nlit + b.ndist
           q == p + Offsets(Items(c, a))[j]
           l == LitOf(b)
           d == DistOf(b)
           ok == l[END + 1] # 0 /\ ~Fails(l) /\ (Fails(d) => ndist <= 1)
<1>1. /\ k \in 1 .. Len(bs) /\ b.type = 2 /\ Mean(bs, k - 1).ok /\ IsTable(b) /\ AllFit(DistOf(b), b.tokens)
      /\ IsList(a) /\ Len(a) \in Nat /\ j \in 0 .. Len(a) /\ q \in Nat /\ ReadsAt(all, Reader, q)
      /\ Len(lengths) \in Nat /\ n \in Nat
  BY ListIs
<1>2. j = Len(a) => Stands(all, q, TokenPart(b)) /\ q + Len(TokenPart(b)) = Ahead(bs, k) /\ lengths = Lengths(a) /\ Len(lengths) = n
  BY ListIs
<1>3. /\ nlit = b.nlit /\ ndist = b.ndist /\ nlit <= MaxLit /\ ndist <= MaxDist /\ IsCode(c) /\ final = (k = Len(bs))
      /\ lengths = LengthsUpTo(a)[j] /\ (\A i \in 1 .. j : Coded(c, a[i].s)) /\ (j > 0 => a[1].s # COPY) /\ out = Mean(bs, k - 1).text
  BY DEF AtLengths, Inside, Unwritten
<1>4. Len(lengths) >= nlit + ndist /\ src' = src BY DEF Tables, input
<1>5. j = Len(a)
  <2> SUFFICES ASSUME j # Len(a)
               PROVE  FALSE
    OBVIOUS
  <2>1. j + 1 \in 1 .. Len(a) /\ (j + 1) - 1 = j BY <1>1
  <2>2. Len(LengthsUpTo(a)[(j + 1) - 1]) < n BY <1>1, <2>1 DEF IsTable
  <2> QED BY <1>1, <1>3, <1>4, <2>1, <2>2
<1>6. Stands(all, q, TokenPart(b)) /\ q + Len(TokenPart(b)) = Ahead(bs, k) /\ lengths = Lengths(a) /\ Len(lengths) = n BY <1>2, <1>5
<1>7. /\ b.nlit \in Nat /\ b.ndist \in Nat /\ IsLens(l) /\ IsLens(d) /\ Len(l) = b.nlit /\ Len(d) = b.ndist /\ END \in Nat /\ END + 1 <= b.nlit
  BY <1>1, TablesOf
<1>8. b.ndist >= 1
  <2>1. b.ndist \in 1 .. Pow(Field.dist) BY <1>1 DEF IsTable
  <2>2. Pow(Field.dist) \in Nat
    <3>1. Field.dist \in Nat BY <1>1, TableIs
    <3> QED BY <3>1, PowIs
  <2> QED BY <2>1, <2>2
<1>9. j > 0
  <2> SUFFICES ASSUME ~(j > 0)
               PROVE  FALSE
    OBVIOUS
  <2>1. j = 0 BY <1>1
  <2>2. lengths = <<>> BY <1>1, <1>3, <2>1, LengthsAre
  <2>3. Len(lengths) = 0 BY <2>2, EmptySeq
  <2> QED BY <1>6, <1>7, <1>8, <2>3
<1>10. SubSeq(lengths, 1, nlit) = l /\ SubSeq(lengths, nlit + 1, nlit + ndist) = d BY <1>3, <1>6 DEF LitOf, DistOf
<1>11. /\ ok => /\ lit' = huff_build(l) /\ dist' = huff_build(d) /\ mode' = "codes"
                /\ pos' = pos /\ bitbuf' = bitbuf /\ out' = out /\ final' = final
       /\ ~ok => mode' = "error" /\ out' = out
  <2>1. IF ok
        THEN /\ lit' = huff_build(l) /\ dist' = huff_build(d) /\ Goes("codes") /\ UNCHANGED <<pos, bitbuf, out, final, copying, header>>
        ELSE Error
    <3> HIDE DEF l, d
    <3> QED BY <1>10 DEF Tables
  <2> HIDE DEF ok
  <2> QED BY <2>1 DEF Goes, Error
<1>12. Coded(l, END) <=> l[END + 1] # 0
  <2>1. END \in 0 .. Len(l) - 1 BY <1>7
  <2> QED BY <2>1 DEF Coded, Used
<1>13. (Fails(l) <=> ~IsCode(l)) /\ (Fails(d) <=> ~IsCode(d)) BY <1>7, FailsUnlessCode
<1>14. ok <=> DynamicOk(b)
  <2>1. ndist <= 1 <=> b.ndist = 1 BY <1>3, <1>7, <1>8
  <2>2. ok <=> Coded(l, END) /\ IsCode(l) /\ (IsCode(d) \/ b.ndist = 1) BY <1>12, <1>13, <2>1
  <2>3. b.nlit <= MaxLit /\ b.ndist <= MaxDist /\ IsCode(c) /\ a[1].s # COPY /\ (\A i \in 1 .. Len(a) : Coded(c, a[i].s)) /\ Len(Lengths(a)) = n
    BY <1>3, <1>5, <1>6, <1>9
  <2> HIDE DEF ok
  <2> QED BY <2>2, <2>3 DEF DynamicOk
<1> HIDE DEF ok
<1>15. CASE ~ok
  <2>1. ~Accepts(s) BY <1>1, <1>14, <1>15, RefusedTable
  <2> QED BY <1>11, <1>15, <2>1, Errs
<1>16. CASE ok
  <2>1. DynamicOk(b) BY <1>14, <1>16
  <2>2. LitFor(b) = l /\ DistFor(b) = d BY <1>1 DEF LitFor, DistFor
  <2>3. Coding(b) BY <1>1, <2>1 DEF Coding
  <2>4. TokenPart(b) = TokensBits(l, d, b.tokens)
    <3>1. IsCode(l) /\ Coded(l, END) BY <2>1 DEF DynamicOk
    <3>2. Used(l) # {} BY <3>1 DEF IsCode
    <3> QED BY <1>12, <3>1, <3>2 DEF TokenPart
  <2>5. lit' = huff_build(LitFor(b)) /\ dist' = huff_build(DistFor(b)) /\ mode' = "codes" /\ out' = Mean(bs, k - 1).text /\ final' = (k = Len(bs)) /\ out' = out
    BY <1>3, <1>11, <1>16, <2>2
  <2>6. Stands(all, q, TokensBits(LitFor(b), DistFor(b), b.tokens)) /\ q + Len(TokensBits(LitFor(b), DistFor(b), b.tokens)) = Ahead(bs, k)
    BY <1>6, <2>2, <2>4
  <2>7. Reading(s, q)'
    <3>1. Reading(s, q) BY <1>1 DEF Reading
    <3>2. pos' = pos /\ bitbuf' = bitbuf BY <1>11, <1>16
    <3> QED BY <1>4, <3>1, <3>2, ReadingStays
  <2> HIDE DEF q
  <2>8. Somewhere(s)' BY <1>1, <2>3, <2>5, <2>6, <2>7, CodesBegin
  <2> QED BY <2>5, <2>8
<1> QED BY <1>15, <1>16

----------------------------------------------------------------------------
(* All of it. *)

\* Each step leaves the decoder somewhere in its stream and within its room.
LEMMA DecoderMoves ==
  ASSUME NEW s, Decoding(s), InflateNext
  PROVE  Decoding(s)'
<1>1. Given(s) /\ Len(out) <= s.room BY DEF Decoding
<1>2. stream' = stream /\ src' = src
  BY DEF InflateNext, Header, BlockHeader, Stored, StoredByte, Fixed, CodedSymbol, Dynamic, Length, Tables, Finished, decoder, input
<1>3. Given(s)' BY <1>1, <1>2 DEF Given, BytesOf
<1>4. CASE ~s.zlib
  <2>1. mode \in {"header", "error"} BY <1>4 DEF Decoding
  <2>2. mode' \in {"header", "error"} /\ out' = out
    <3>1. ~stream.zlib BY <1>1, <1>4 DEF Given
    <3>2. Header \/ Finished
      BY <2>1 DEF InflateNext, BlockHeader, Stored, StoredByte, Fixed, CodedSymbol, Dynamic, Length, Tables
    <3>3. CASE Header BY <3>1, <3>3 DEF Header, Goes
    <3>4. CASE Finished BY <2>1, <3>4 DEF Finished, decoder
    <3> QED BY <3>2, <3>3, <3>4
  <2> QED BY <1>1, <1>3, <1>4, <2>2 DEF Decoding
<1>5. CASE s.zlib
  <2>1. Somewhere(s) BY <1>5 DEF Decoding
  <2>2. Somewhere(s)' /\ Len(out') <= s.room
    <3>1. CASE AtHeader(s)
      <4>1. mode = "header" BY <3>1 DEF AtHeader
      <4>2. Header BY <4>1 DEF InflateNext, BlockHeader, Stored, StoredByte, Fixed, CodedSymbol, Dynamic, Length, Tables, Finished
      <4>3. Somewhere(s)' /\ out' = out BY <1>1, <1>5, <3>1, <4>2, HeaderMoves
      <4> QED BY <1>1, <4>3
    <3>2. CASE AtEnd(s)
      <4>1. mode \in {"done", "error"} BY <3>2 DEF AtEnd
      <4>2. Finished BY <4>1 DEF InflateNext, Header, BlockHeader, Stored, StoredByte, Fixed, CodedSymbol, Dynamic, Length, Tables
      <4>3. mode' = mode /\ out' = out BY <4>2 DEF Finished, decoder
      <4>4. AtEnd(s)' BY <3>2, <4>3 DEF AtEnd
      <4>5. Somewhere(s)' BY <4>4 DEF Somewhere
      <4> QED BY <1>1, <4>3, <4>5
    <3>3. CASE \E k : AtBlock(s, k)
      <4>1. PICK k : AtBlock(s, k) BY <3>3
      <4>2. mode = "block" BY <4>1 DEF AtBlock
      <4>3. BlockHeader BY <4>2 DEF InflateNext, Header, Stored, StoredByte, Fixed, CodedSymbol, Dynamic, Length, Tables, Finished
      <4>4. Somewhere(s)' /\ out' = out BY <1>1, <1>5, <4>1, <4>3, BlockHeaderMoves
      <4> QED BY <1>1, <4>4
    <3>4. CASE \E k : \E t \in 0 .. 2 : AtKind(s, k, t)
      <4>5. PICK k : \E t \in 0 .. 2 : AtKind(s, k, t) BY <3>4
      <4>1. PICK t \in 0 .. 2 : AtKind(s, k, t) BY <4>5
      <4>2. CASE t = 0
        <5>1. AtKind(s, k, 0) BY <4>1, <4>2
        <5>2. mode = "stored" BY <5>1 DEF AtKind
        <5>3. Stored BY <5>2 DEF InflateNext, Header, BlockHeader, StoredByte, Fixed, CodedSymbol, Dynamic, Length, Tables, Finished
        <5>4. Somewhere(s)' /\ out' = out BY <1>1, <1>5, <5>1, <5>2, <5>3, StoredMoves
        <5> QED BY <1>1, <5>4
      <4>3. CASE t = 1
        <5>1. AtKind(s, k, 1) BY <4>1, <4>3
        <5>2. mode = "fixed" BY <5>1 DEF AtKind
        <5>3. Fixed BY <5>2 DEF InflateNext, Header, BlockHeader, Stored, StoredByte, CodedSymbol, Dynamic, Length, Tables, Finished
        <5>4. Somewhere(s)' /\ out' = out BY <1>1, <1>5, <5>1, <5>3, FixedMoves
        <5> QED BY <1>1, <5>4
      <4>4. CASE t = 2
        <5>1. AtKind(s, k, 2) BY <4>1, <4>4
        <5>2. mode = "dynamic" BY <5>1 DEF AtKind
        <5>3. Dynamic BY <5>2 DEF InflateNext, Header, BlockHeader, Stored, StoredByte, Fixed, CodedSymbol, Length, Tables, Finished
        <5>4. Somewhere(s)' /\ out' = out BY <1>1, <1>5, <5>1, <5>3, DynamicMoves
        <5> QED BY <1>1, <5>4
      <4> QED BY <4>2, <4>3, <4>4
    <3>5. CASE \E k, p, j : AtBytes(s, k, p, j) \/ AtLengths(s, k, p, j) \/ AtCodes(s, k, p, j)
      <4>1. PICK k, p, j : AtBytes(s, k, p, j) \/ AtLengths(s, k, p, j) \/ AtCodes(s, k, p, j) BY <3>5
      <4>2. CASE AtBytes(s, k, p, j)
        <5>1. mode = "bytes" BY <4>2 DEF AtBytes
        <5>2. StoredByte BY <5>1 DEF InflateNext, Header, BlockHeader, Stored, Fixed, CodedSymbol, Dynamic, Length, Tables, Finished
        <5> QED BY <1>1, <1>5, <4>2, <5>2, StoredByteMoves
      <4>3. CASE AtLengths(s, k, p, j)
        <5>1. mode = "lengths" BY <4>3 DEF AtLengths
        <5>2. Length \/ Tables BY <5>1 DEF InflateNext, Header, BlockHeader, Stored, StoredByte, Fixed, CodedSymbol, Dynamic, Finished
        <5>3. Somewhere(s)' /\ out' = out BY <1>1, <1>5, <4>3, <5>2, LengthMoves, TablesMoves
        <5> QED BY <1>1, <5>3
      <4>4. CASE AtCodes(s, k, p, j)
        <5>1. mode = "codes" BY <4>4 DEF AtCodes
        <5>2. CodedSymbol BY <5>1 DEF InflateNext, Header, BlockHeader, Stored, StoredByte, Fixed, Dynamic, Length, Tables, Finished
        <5> QED BY <1>1, <1>5, <4>4, <5>2, CodedSymbolMoves
      <4> QED BY <4>1, <4>2, <4>3, <4>4
    <3> QED BY <2>1, <3>1, <3>2, <3>3, <3>4, <3>5 DEF Somewhere
  <2> QED BY <1>3, <1>5, <2>2 DEF Decoding
<1> QED BY <1>4, <1>5

\* A step that leaves the decoder alone leaves it where it is.
LEMMA DecoderWaits ==
  ASSUME NEW s, Decoding(s), UNCHANGED decoder
  PROVE  Decoding(s)'
<1>1. /\ stream' = stream /\ src' = src /\ mode' = mode /\ pos' = pos /\ bitbuf' = bitbuf /\ out' = out /\ final' = final
      /\ copying' = copying /\ lit' = lit /\ dist' = dist /\ nlit' = nlit /\ ndist' = ndist /\ lenc' = lenc /\ lengths' = lengths
  BY DEF decoder, input, table, header
<1>2. Given(s)' /\ Len(out') <= s.room BY <1>1 DEF Decoding, Given, BytesOf
<1>3. \A p : Reading(s, p) => Reading(s, p)' BY <1>1, ReadingStays
<1>4. \A k, t : Inside(s, k, t) => Inside(s, k, t)' BY <1>1 DEF Inside
<1>5. \A k : Unwritten(s, k) => Unwritten(s, k)' BY <1>1 DEF Unwritten
<1>6. AtHeader(s) => AtHeader(s)' BY <1>1, <1>3 DEF AtHeader
<1>7. AtEnd(s) => AtEnd(s)' BY <1>1 DEF AtEnd
<1>8. \A k : AtBlock(s, k) => AtBlock(s, k)' BY <1>1, <1>3, <1>5 DEF AtBlock
<1>9. \A k, t : AtKind(s, k, t) => AtKind(s, k, t)' BY <1>1, <1>3, <1>4, <1>5 DEF AtKind
<1>10. \A k, p, j : AtBytes(s, k, p, j) => AtBytes(s, k, p, j)' BY <1>1, <1>3, <1>4 DEF AtBytes, Supply
<1>11. \A k, p, j : AtLengths(s, k, p, j) => AtLengths(s, k, p, j)' BY <1>1, <1>3, <1>4, <1>5 DEF AtLengths
<1>12. \A k, p, j : AtCodes(s, k, p, j) => AtCodes(s, k, p, j)' BY <1>1, <1>3, <1>4 DEF AtCodes
<1>13. Somewhere(s) => Somewhere(s)' BY <1>6, <1>7, <1>8, <1>9, <1>10, <1>11, <1>12 DEF Somewhere
<1> QED BY <1>1, <1>2, <1>13 DEF Decoding

\* The decoder begins before the header.
LEMMA DecoderBegins ==
  ASSUME NEW s, Written(s), stream = s, Begin
  PROVE  Decoding(s)
<1>1. Given(s) BY DEF Given, BytesOf, Begin
<1>2. mode = "header" /\ out = <<>> /\ pos = 0 /\ bitbuf = <<>> BY DEF Begin
<1>3. Len(out) <= s.room
  <2>1. s.room \in Nat BY DEF Written
  <2> QED BY <1>2, <2>1, EmptySeq
<1>4. ASSUME s.zlib
      PROVE  Somewhere(s)
  <2> DEFINE all == AllBits(s.blocks)
             r == Reader
             nothing == <<>>
  <2>1. Carries(all) /\ Len(src) \in Nat BY <1>1, <1>4, GivenIs
  <2>2. nothing \in Seq(Bit) /\ Len(nothing) = 0 BY EmptySeq
  <2>3. bitbuf = nothing BY <1>2
  <2> HIDE DEF nothing
  <2>4. r = [ok |-> TRUE, v |-> 0, pos |-> 0, buf |-> nothing] BY <1>2, <2>3 DEF Reader
  <2>5. r.ok = TRUE /\ r.pos = 0 /\ r.buf = nothing /\ "ok" \in DOMAIN r /\ r = [x \in DOMAIN r |-> r[x]] BY <2>4
  <2> HIDE DEF r
  <2>6. OCTET \in Nat \ {0} BY Sizes
  <2>7. 0 + Len(r.buf) = r.pos * OCTET /\ Len(r.buf) < OCTET BY <2>2, <2>5, <2>6
  <2>8. r.pos \in 0 .. Len(src) /\ \A i \in 1 .. Len(r.buf) : r.buf[i] = all[0 + i] BY <2>1, <2>2, <2>5
  <2>9. ReadsAt(all, r, 0) BY <2>2, <2>5, <2>7, <2>8 DEF ReadsAt, IsReader
  <2>10. AtHeader(s) BY <1>2, <2>9 DEF AtHeader, Reading, r
  <2> QED BY <2>10 DEF Somewhere
<1> QED BY <1>1, <1>2, <1>3, <1>4 DEF Decoding

\* The inductive invariant.
Decodes == \E s \in Streams \cup {NoStream} : Decoding(s)

\* The text comes out, byte for byte, exactly when the stream stands for one that has room; in
\* every other case the decoder ends in an error, and it never writes past the room (inflate.c).
THEOREM InflatesAll == ReadersSpec => []Inflates
<1>1. ReadersInit => Decodes
  <2> SUFFICES ASSUME ReadersInit
               PROVE  Decodes
    OBVIOUS
  <2>1. stream \in Streams \cup {NoStream} /\ Begin BY DEF ReadersInit
  <2>2. Written(stream) BY <2>1, StreamAssumption, NoStreamAssumption
  <2>3. Decoding(stream) BY <2>1, <2>2, DecoderBegins
  <2> QED BY <2>1, <2>3 DEF Decodes
<1>2. Decodes /\ [ReadersNext]_<<vars, decoder>> => Decodes'
  <2> SUFFICES ASSUME Decodes, [ReadersNext]_<<vars, decoder>>
               PROVE  Decodes'
    OBVIOUS
  <2>1. PICK s \in Streams \cup {NoStream} : Decoding(s) BY DEF Decodes
  <2>2. InflateNext \/ UNCHANGED decoder BY DEF ReadersNext
  <2>3. CASE InflateNext
    <3>1. Decoding(s)' BY <2>1, <2>3, DecoderMoves
    <3> QED BY <3>1 DEF Decodes
  <2>4. CASE UNCHANGED decoder
    <3>1. Decoding(s)' BY <2>1, <2>4, DecoderWaits
    <3> QED BY <3>1 DEF Decodes
  <2> QED BY <2>2, <2>3, <2>4
<1>3. Decodes => Inflates
  <2> SUFFICES ASSUME Decodes
               PROVE  Inflates
    OBVIOUS
  <2>1. PICK s \in Streams \cup {NoStream} : Decoding(s) BY DEF Decodes
  <2>2. stream = s /\ Len(out) <= s.room BY <2>1 DEF Decoding, Given
  <2>3. Accepted <=> Accepts(s) BY <2>2 DEF Accepted, Accepts, Within
  <2>4. CASE s.zlib
    <3>1. Somewhere(s) BY <2>1, <2>4 DEF Decoding
    <3>2. mode \in {"done", "error"} => AtEnd(s)
      <4>1. AtHeader(s) => mode \notin {"done", "error"} BY DEF AtHeader
      <4>2. \A k : AtBlock(s, k) => mode \notin {"done", "error"} BY DEF AtBlock
      <4>3. \A k : \A t \in 0 .. 2 : AtKind(s, k, t) => mode \notin {"done", "error"} BY DEF AtKind
      <4>4. \A k, p, j : AtBytes(s, k, p, j) => mode \notin {"done", "error"} BY DEF AtBytes
      <4>5. \A k, p, j : AtLengths(s, k, p, j) => mode \notin {"done", "error"} BY DEF AtLengths
      <4>6. \A k, p, j : AtCodes(s, k, p, j) => mode \notin {"done", "error"} BY DEF AtCodes
      <4> QED BY <3>1, <4>1, <4>2, <4>3, <4>4, <4>5, <4>6, Zenon DEF Somewhere
    <3>3. mode = "done" => Accepted /\ out = StreamMeans(stream.blocks).text BY <2>2, <2>3, <3>2 DEF AtEnd
    <3>4. mode = "error" => ~Accepted BY <2>2, <2>3, <3>2 DEF AtEnd
    <3> QED BY <2>2, <3>3, <3>4 DEF Inflates
  <2>5. CASE ~s.zlib
    <3>1. mode \in {"header", "error"} /\ ~Accepted BY <2>1, <2>2, <2>5 DEF Decoding, Accepted
    <3> QED BY <2>2, <3>1 DEF Inflates
  <2> QED BY <2>4, <2>5
<1> QED BY <1>1, <1>2, <1>3, PTL DEF ReadersSpec
==============================================================================
