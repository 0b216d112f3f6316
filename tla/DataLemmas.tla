------------------------------- MODULE DataLemmas -------------------------------
(***************************************************************************)
(* Lemmas about numbers and sequences that the proofs of several modules   *)
(* need: induction, as an argument about a least number, division, powers  *)
(* of two, and what it means to join a sequence of sequences.              *)
(***************************************************************************)
EXTENDS Integers, SequencesExt, FiniteSetTheorems, SequenceTheorems, WellFoundedInduction,
        TLAPS

-----------------------------------------------------------------------------
(* Least numbers and induction. *)

\* A set of natural numbers that is not empty has a least one.
LEMMA Least ==
  ASSUME NEW S, S \subseteq Nat, S # {}
  PROVE  \E n \in S : \A m \in S : n <= m
<1> DEFINE R == OpToRel(<, Nat)
<1>1. IsWellFoundedOn(R, Nat)
  BY NatLessThanWellFounded, Zenon
<1>2. \A x, y \in Nat : x < y => <<x, y>> \in R
  BY SMT DEF OpToRel
<1> HIDE DEF R
<1>3. PICK n \in S : \A m \in S : <<m, n>> \notin R
  BY <1>1, WFMin
<1>4. \A m \in S : n <= m
  <2> TAKE m \in S
  <2>1. n \in Nat /\ m \in Nat
    OBVIOUS
  <2>2. ~(m < n)
    BY <1>2, <1>3
  <2> QED
    BY <2>1, <2>2
<1> QED
  BY <1>4

\* Induction up to n, for a set of numbers.
LEMMA Upwards ==
  ASSUME NEW n \in Nat, NEW S, 0 \in S, \A m \in 0..(n - 1) : m \in S => m + 1 \in S
  PROVE  0..n \subseteq S
<1> SUFFICES ASSUME NEW j \in 0..n, j \notin S PROVE FALSE
  OBVIOUS
<1> DEFINE Out == {m \in 0..n : m \notin S}
<1>1. Out # {} /\ Out \subseteq Nat
  OBVIOUS
<1> HIDE DEF Out
<1>2. PICK m \in Out : \A k \in Out : m <= k
  BY <1>1, Least
<1>3. m \in 0..n /\ m \notin S
  BY DEF Out
<1>4. m # 0 /\ m - 1 \in 0..(n - 1) /\ (m - 1) + 1 = m
  BY <1>3
<1>5. m - 1 \in S
  BY <1>2, <1>4 DEF Out
<1>. QED
  BY <1>3, <1>4, <1>5

-----------------------------------------------------------------------------
(* Functions that are defined from one number to the next. *)

\* f starts with a and goes on from one number to the next as step says, up to n.
GoesOn(n, A, a, step, f) ==
  f \in [0..n -> A] /\ f[0] = a /\ \A k \in 1..n : f[k] = step[k][f[k - 1]]

\* There is such a function.
LEMMA GoingOn ==
  ASSUME NEW n \in Nat, NEW A, NEW a \in A, NEW step \in [1..n -> [A -> A]]
  PROVE  \E f : GoesOn(n, A, a, step, f)
<1> DEFINE Can(m) == \E f : GoesOn(m, A, a, step, f)
           T == {m \in 0..n : Can(m)}
<1>1. Can(0)
  <2>1. GoesOn(0, A, a, step, [k \in 0..0 |-> a])
    BY DEF GoesOn
  <2> QED
    BY <2>1
<1>2. ASSUME NEW m \in 0..(n - 1), Can(m) PROVE Can(m + 1)
  <2>1. PICK f : GoesOn(m, A, a, step, f)
    BY <1>2
  <2> DEFINE x == step[m + 1][f[m]]
             g == [k \in 0..(m + 1) |-> IF k = m + 1 THEN x ELSE f[k]]
  <2>2. f \in [0..m -> A] /\ f[0] = a /\ m \in 0..m
    BY <2>1 DEF GoesOn
  <2>3. x \in A
    <3>1. m + 1 \in 1..n
      OBVIOUS
    <3>2. step[m + 1] \in [A -> A]
      BY <3>1
    <3> QED
      BY <2>2, <3>2
  <2>4. \A k \in 1..(m + 1) : g[k] = step[k][g[k - 1]]
    <3> TAKE k \in 1..(m + 1)
    <3>1. CASE k = m + 1
      <4>1. g[k] = x /\ k - 1 = m /\ g[m] = f[m]
        BY <3>1
      <4> QED
        BY <3>1, <4>1
    <3>2. CASE k # m + 1
      <4>1. k \in 1..m /\ g[k] = f[k] /\ g[k - 1] = f[k - 1]
        BY <3>2
      <4>2. f[k] = step[k][f[k - 1]]
        BY <2>1, <4>1 DEF GoesOn
      <4> QED
        BY <4>1, <4>2
    <3> QED
      BY <3>1, <3>2
  <2> HIDE DEF x
  <2>5. g \in [0..(m + 1) -> A] /\ g[0] = a
    BY <2>2, <2>3
  <2> HIDE DEF g
  <2>6. GoesOn(m + 1, A, a, step, g)
    BY <2>4, <2>5 DEF GoesOn
  <2> QED
    BY <2>6
<1> HIDE DEF Can
<1>3. 0 \in T /\ \A m \in 0..(n - 1) : m \in T => m + 1 \in T
  BY <1>1, <1>2
<1>4. n \in T
  <2>1. 0..n \subseteq T
    <3> HIDE DEF T
    <3> QED
      BY <1>3, Upwards
  <2> QED
    BY <2>1
<1> QED
  BY <1>4 DEF Can

-----------------------------------------------------------------------------
(* Division. *)

\* The only quotient and rest of a number.
LEMMA OnlyDivision ==
  ASSUME NEW q \in Nat \ {0}, NEW d \in Nat, NEW r \in 0..(q - 1), NEW a \in Nat,
         a = q * d + r
  PROVE  a \div q = d /\ a % q = r
<1> DEFINE z == a \div q
           c == a % q
<1>1. z \in Nat /\ c \in 0..(q - 1) /\ a = q * z + c
  OBVIOUS
<1> HIDE DEF z, c
<1>2. (z < d => q * z + q <= q * d) /\ (d < z => q * d + q <= q * z)
  BY <1>1
<1>3. q * z \in Nat /\ q * d \in Nat
  BY <1>1
<1>4. z = d
  BY <1>1, <1>2, <1>3
<1>5. c = r
  BY <1>1, <1>3, <1>4
<1> QED
  BY <1>4, <1>5 DEF z, c

\* q times d and the rest r are a.  (A name of its own for the provers to look for.)
Splits(a, d, q, r) == a = d * q + r /\ q \in Nat /\ r \in Nat /\ r < d

\* A number is split by its quotient and rest, and by nothing else.
LEMMA SplitIs ==
  ASSUME NEW a \in Nat, NEW d \in Nat \ {0}, NEW q \in Nat, NEW r \in Nat, Splits(a, d, q, r)
  PROVE  q = a \div d /\ r = a % d
<1>1. r \in 0..(d - 1) /\ a = d * q + r
  BY DEF Splits
<1> QED
  BY <1>1, OnlyDivision

\* Every number is split so.
LEMMA Splitting ==
  ASSUME NEW a \in Nat, NEW d \in Nat \ {0}
  PROVE  Splits(a, d, a \div d, a % d) /\ a \div d \in Nat /\ a % d \in Nat
BY DEF Splits

\* A rest is told by the quotient it comes with, also that of a negative number.
LEMMA RestTold ==
  ASSUME NEW a \in Int, NEW d \in Nat \ {0}, NEW q \in Int, NEW r \in 0..(d - 1),
         a = d * q + r
  PROVE  a % d = r
<1> DEFINE z == a \div d
           c == a % d
<1>1. z \in Int /\ c \in 0..(d - 1) /\ a = d * z + c
  OBVIOUS
<1> HIDE DEF z, c
<1>2. (z < q => d * z + d <= d * q) /\ (q < z => d * q + d <= d * z)
  BY <1>1
<1>3. d * z \in Int /\ d * q \in Int
  BY <1>1
<1>4. z = q
  BY <1>1, <1>2, <1>3
<1> QED
  BY <1>1, <1>3, <1>4 DEF c

\* Every number is so many times the divisor and a rest.
LEMMA Division ==
  ASSUME NEW a \in Nat, NEW d \in Nat \ {0}
  PROVE  \E x \in Nat, c \in 0..(d - 1) : x = a \div d /\ c = a % d /\ a = d * x + c
OBVIOUS

\* The only quotient is the one that leaves less than the divisor.
LEMMA OnlyQuotient ==
  ASSUME NEW a \in Nat, NEW d \in Nat \ {0}, NEW y \in Nat, a - d * y \in 0..(d - 1)
  PROVE  a \div d = y /\ a % d = a - d * y
<1>1. PICK z \in Nat : z = a \div d /\ a - d * z \in 0..(d - 1) /\ a % d = a - d * z
  OBVIOUS
<1>2. z < y => d * z + d <= d * y
  BY <1>1
<1>3. y < z => d * y + d <= d * z
  BY <1>1
<1>4. d * y \in Nat /\ d * z \in Nat
  BY <1>1
<1>. QED
  BY <1>1, <1>2, <1>3, <1>4

\* Two divisions are one by the product.
LEMMA Twice ==
  ASSUME NEW a \in Nat, NEW q \in Nat \ {0}, NEW r \in Nat \ {0}
  PROVE  a \div (q * r) = (a \div q) \div r
<1>1. PICK x \in Nat, c \in 0..(q - 1) : x = a \div q /\ a = q * x + c
  BY Division
<1>2. PICK y \in Nat, d \in 0..(r - 1) : y = x \div r /\ x = r * y + d
  BY Division
<1>3. a = (q * r) * y + (q * d + c)
  BY <1>1, <1>2
<1>4. q * d + c \in 0..(q * r - 1)
  <2>1. q * d \in Nat /\ q * d <= q * (r - 1)
    BY <1>2
  <2>2. q * (r - 1) = q * r - q /\ q * r \in Nat
    OBVIOUS
  <2>. QED
    BY <1>1, <2>1, <2>2
<1>5. q * r \in Nat \ {0}
  OBVIOUS
<1>6. a - (q * r) * y = q * d + c
  <2>1. (q * r) * y \in Nat /\ q * d + c \in Nat
    BY <1>4, <1>5
  <2>. QED
    BY <1>3, <2>1
<1>7. a \div (q * r) = y
  BY <1>4, <1>5, <1>6, OnlyQuotient
<1>. QED
  BY <1>1, <1>2, <1>7

\* The quotient by a larger number is zero.
LEMMA DivNone ==
  ASSUME NEW a \in Nat, NEW d \in Nat, a < d
  PROVE  a \div d = 0 /\ a % d = a
<1>1. Splits(a, d, 0, a)
  BY DEF Splits
<1> QED
  BY <1>1, SplitIs

\* The rest of a product of three is that of the first two, or the last two, first.
AnyOrder(q, u, v, w) == (((u * v) % q) * w) % q = (u * ((v * w) % q)) % q

\* Three numbers are multiplied in any order, by the rests the products leave.
LEMMA RestOfThree ==
  ASSUME NEW q \in Nat \ {0}, NEW u \in Nat, NEW v \in Nat, NEW w \in Nat
  PROVE  AnyOrder(q, u, v, w)
<1>a. PICK p \in Nat, s \in Nat : p = u * v /\ s = v * w
  OBVIOUS
<1>1. PICK a \in Nat, b \in Nat : Splits(p, q, a, b) /\ b = p % q
  BY Splitting
<1>2. PICK c \in Nat, d \in Nat : Splits(s, q, c, d) /\ d = s % q
  BY Splitting
<1>b. PICK t \in Nat : t = b * w
  OBVIOUS
<1>3. PICK e \in Nat, f \in Nat : Splits(t, q, e, f) /\ f = t % q
  BY Splitting
<1>4. p = q * a + b /\ s = q * c + d /\ t = q * e + f /\ f \in 0..(q - 1)
  BY <1>1, <1>2, <1>3 DEF Splits
<1>5. u * d = q * (a * w + e - u * c) + f
  <2>1. p * w = u * s
    BY <1>a
  <2>2. p * w = q * (a * w) + t
    BY <1>b, <1>4
  <2>3. u * s = q * (u * c) + u * d
    <3>1. u * s = u * (q * c + d)
      BY <1>4
    <3>2. u * (q * c + d) = q * (u * c) + u * d
      OBVIOUS
    <3> QED
      BY <3>1, <3>2
  <2>4. PICK x \in Nat, y \in Nat, z \in Nat : x = a * w /\ y = u * c /\ z = u * d
    OBVIOUS
  <2>5. q * x + (q * e + f) = q * y + z
    BY <1>4, <2>1, <2>2, <2>3, <2>4
  <2>6. q * (x + e - y) = q * x + q * e - q * y
    BY <2>4
  <2>7. q * x \in Nat /\ q * e \in Nat /\ q * y \in Nat
    BY <2>4
  <2>8. z = q * (x + e - y) + f
    BY <2>4, <2>5, <2>6, <2>7
  <2> QED
    BY <2>4, <2>8
<1>6. PICK z \in Nat, h \in Int : z = u * d /\ h = a * w + e - u * c
  OBVIOUS
<1>7. z = q * h + f
  BY <1>5, <1>6
<1>8. h \in Nat
  <2>1. h < 0 => q * h + q <= 0
    BY <1>6
  <2>2. q * h \in Int
    BY <1>6
  <2> QED
    BY <1>4, <1>6, <1>7, <2>1, <2>2
<1>9. f = z % q
  <2>1. Splits(z, q, h, f)
    BY <1>4, <1>7, <1>8 DEF Splits
  <2> QED
    BY <1>6, <1>8, <2>1, SplitIs
<1> QED
  BY <1>a, <1>b, <1>1, <1>2, <1>3, <1>6, <1>9, Zenon DEF AnyOrder

-----------------------------------------------------------------------------
(* Powers of two. *)

\* A power of two is a positive number.
LEMMA Power ==
  ASSUME NEW n \in Nat
  PROVE  2^n \in Nat /\ 2^n > 0
<1>1. IsFiniteSet(1..n) /\ Cardinality(1..n) = n
  BY FS_Interval
<1>2. IsFiniteSet(SUBSET (1..n)) /\ Cardinality(SUBSET (1..n)) = 2^n
  BY <1>1, FS_SUBSET
<1>3. 2^n \in Nat
  BY <1>2, FS_CardinalityType
<1>4. SUBSET (1..n) # {}
  OBVIOUS
<1>5. Cardinality(SUBSET (1..n)) # 0
  BY <1>2, <1>4, FS_EmptySet
<1> QED
  BY <1>2, <1>3, <1>5

\* The next one is twice as much: a set with one element more has twice as many
\* subsets.
LEMMA PowerStep ==
  ASSUME NEW n \in Nat
  PROVE  2^(n + 1) = 2 * 2^n
<1> DEFINE A == SUBSET (1..n)
           B == SUBSET (1..(n + 1))
           with(T) == T \cup {n + 1}
           C == {with(T) : T \in A}
           f == [T \in A |-> with(T)]
<1>1. IsFiniteSet(A) /\ Cardinality(A) = 2^n
  <2>1. IsFiniteSet(1..n) /\ Cardinality(1..n) = n
    BY FS_Interval
  <2> QED
    BY <2>1, FS_SUBSET
<1>2. IsFiniteSet(B) /\ Cardinality(B) = 2^(n + 1)
  <2>1. IsFiniteSet(1..(n + 1)) /\ Cardinality(1..(n + 1)) = n + 1
    BY FS_Interval
  <2> QED
    BY <2>1, FS_SUBSET
<1>3. n + 1 \notin 1..n /\ 1..(n + 1) = (1..n) \cup {n + 1}
  OBVIOUS
<1>4. f \in Bijection(A, C)
  <2>1. f \in Surjection(A, C)
    BY DEF Surjection
  <2>2. \A S, T \in A : f[S] = f[T] => S = T
    BY <1>3
  <2> QED
    BY <2>1, <2>2 DEF Bijection, Injection, IsInjective, Surjection
<1>5. IsFiniteSet(C) /\ Cardinality(C) = 2^n
  BY <1>1, <1>4, FS_Bijection DEF ExistsBijection
<1>6. B = A \cup C
  <2>1. ASSUME NEW S \in B
        PROVE  S \in A \cup C
    <3>1. CASE n + 1 \in S
      <4>1. S \ {n + 1} \in A /\ S = with(S \ {n + 1})
        BY <1>3, <3>1
      <4> QED
        BY <4>1
    <3>2. CASE n + 1 \notin S
      BY <1>3, <3>2
    <3> QED
      BY <3>1, <3>2
  <2>2. \A S \in A \cup C : S \in B
    BY <1>3
  <2> QED
    BY <2>1, <2>2
<1>7. A \cap C = {}
  BY <1>3
<1> HIDE DEF A, B, C
<1>8. Cardinality(A \cup C) = Cardinality(A) + Cardinality(C) - Cardinality(A \cap C)
  BY <1>1, <1>5, FS_Union
<1>9. Cardinality(A \cap C) = 0
  BY <1>7, FS_EmptySet
<1>10. 2^n \in Nat
  BY Power
<1> QED
  BY <1>1, <1>2, <1>5, <1>6, <1>8, <1>9, <1>10

\* Exponents add up.
LEMMA PowerSum ==
  ASSUME NEW a \in Nat, NEW b \in Nat
  PROVE  2^(a + b) = 2^a * 2^b
<1> DEFINE S == {n \in Nat : 2^(a + n) # 2^a * 2^n}
<1>1. SUFFICES ASSUME S # {}
               PROVE  FALSE
  OBVIOUS
<1>2. PICK n \in S : \A m \in S : n <= m
  BY <1>1, Least
<1>3. CASE n = 0
  <2>1. 2^a \in Nat /\ 2^0 = 1 /\ a + n = a
    BY <1>3, Power
  <2> QED
    BY <1>2, <1>3, <2>1
<1>4. CASE n # 0
  <2>1. n - 1 \in Nat /\ n - 1 \notin S
    BY <1>2, <1>4
  <2>2. 2^(a + (n - 1)) = 2^a * 2^(n - 1)
    BY <2>1
  <2>3. 2^((n - 1) + 1) = 2 * 2^(n - 1) /\ 2^((a + (n - 1)) + 1) = 2 * 2^(a + (n - 1))
    BY <2>1, PowerStep
  <2>4. (n - 1) + 1 = n /\ (a + (n - 1)) + 1 = a + n
    OBVIOUS
  <2>5. 2^a \in Nat /\ 2^(n - 1) \in Nat
    BY <2>1, Power
  <2>6. 2^(a + n) = 2^a * (2 * 2^(n - 1))
    BY <2>2, <2>3, <2>4, <2>5
  <2> QED
    BY <2>3, <2>4, <2>6
<1> QED
  BY <1>3, <1>4

\* A larger exponent gives a power that is not smaller.
LEMMA PowerGrows ==
  ASSUME NEW a \in Nat, NEW b \in Nat, a <= b
  PROVE  2^a <= 2^b
<1>1. PICK c \in Nat : c = b - a
  OBVIOUS
<1>2. 2^b = 2^a * 2^c
  <2>1. b = a + c
    BY <1>1
  <2> QED
    BY <2>1, PowerSum
<1>3. 2^a \in Nat /\ 2^c \in Nat /\ 2^c > 0
  BY Power
<1>4. PICK p \in Nat, q \in Nat : p = 2^a /\ q = 2^c /\ q > 0
  BY <1>3
<1>5. p * q >= p
  BY <1>4
<1> QED
  BY <1>2, <1>4, <1>5

\* The quotient by a power of two is not larger.
LEMMA DivNotLarger ==
  ASSUME NEW a \in Nat, NEW i \in Nat
  PROVE  a \div 2^i \in Nat /\ a \div 2^i <= a
<1>1. PICK p \in Nat \ {0} : p = 2^i
  BY Power
<1>2. PICK z \in Nat, r \in Nat : z = a \div p /\ Splits(a, p, z, r)
  BY <1>1, Splitting
<1>3. a = z * p + r
  BY <1>2 DEF Splits
<1>4. z * p >= z
  BY <1>1
<1>5. z * p \in Nat
  BY <1>1
<1>6. z <= a
  BY <1>3, <1>4, <1>5
<1> QED
  BY <1>1, <1>2, <1>6, Zenon

\* r is the digit of j bits behind the lowest i bits of a, y the number that ends in it,
\* z the number in front of it.
DigitAt(a, i, j, y, z, r) == y = a \div 2^i /\ z = a \div 2^(i + j) /\ r = y % 2^j

\* The digit and the number in front of it make the number that ends in it.
LEMMA DigitOff ==
  ASSUME NEW a \in Nat, NEW i \in Nat, NEW j \in Nat,
         NEW y, NEW z, NEW r, DigitAt(a, i, j, y, z, r)
  PROVE  y \in Nat /\ z \in Nat /\ z = y \div 2^j /\ y = z * 2^j + r /\ r \in 0..(2^j - 1)
<1>1. PICK p \in Nat \ {0}, q \in Nat \ {0} : p = 2^i /\ q = 2^j /\ 2^(i + j) = p * q
  BY Power, PowerSum
<1>2. a \div (p * q) = (a \div p) \div q
  BY Twice
<1>3. y \in Nat /\ y = a \div p
  BY <1>1, Splitting, Zenon DEF DigitAt
<1>4. z = y \div q /\ r = y % q
  BY <1>1, <1>2, <1>3, Zenon DEF DigitAt
<1>5. Splits(y, q, z, r) /\ z \in Nat /\ r \in Nat
  BY <1>3, <1>4, Splitting
<1>6. y = z * q + r /\ r \in 0..(q - 1)
  BY <1>3, <1>5 DEF Splits
<1> QED
  BY <1>1, <1>3, <1>4, <1>5, <1>6, Zenon

-----------------------------------------------------------------------------
(* Sequences that are joined. *)

\* u is s and t, one behind the other.
OneBehind(u, s, t) ==
  /\ Len(u) = Len(s) + Len(t)
  /\ \A j \in 1..Len(s) : u[j] = s[j]
  /\ \A k \in 1..Len(t) : u[Len(s) + k] = t[k]

\* What it means to join two sequences.
LEMMA Concatenated ==
  ASSUME NEW S, NEW s \in Seq(S), NEW t \in Seq(S), NEW u, u = s \o t
  PROVE  u \in Seq(S) /\ OneBehind(u, s, t)
<1>1. u \in Seq(S) /\ Len(u) = Len(s) + Len(t)
  OBVIOUS
<1>2. \A j \in 1..Len(s) : u[j] = s[j]
  OBVIOUS
<1>3. \A k \in 1..Len(t) : u[Len(s) + k] = t[k]
  OBVIOUS
<1> QED
  BY <1>1, <1>2, <1>3 DEF OneBehind

\* F[k] is the first k of the sequences P, joined, up to the n-th.
JoinedUpTo(n, P, F, S) ==
  /\ F \in [0..n -> Seq(S)]
  /\ F[0] = <<>>
  /\ \A k \in 1..n : F[k] = F[k - 1] \o P[k]

\* One more sequence can be joined.
LEMMA JoinedNext ==
  ASSUME NEW S, NEW P, NEW m \in Nat, NEW f, JoinedUpTo(m, P, f, S), P[m + 1] \in Seq(S)
  PROVE  \E g : JoinedUpTo(m + 1, P, g, S)
<1> DEFINE x == f[m] \o P[m + 1]
           g == [k \in 0..(m + 1) |-> IF k = m + 1 THEN x ELSE f[k]]
<1>1. f \in [0..m -> Seq(S)] /\ f[0] = <<>> /\ m \in 0..m
  BY DEF JoinedUpTo
<1>2. x \in Seq(S)
  BY <1>1
<1> HIDE DEF x
<1>3. g \in [0..(m + 1) -> Seq(S)] /\ g[0] = <<>>
  BY <1>1, <1>2
<1>4. ASSUME NEW k \in 1..(m + 1) PROVE g[k] = g[k - 1] \o P[k]
  <2>1. CASE k = m + 1
    <3>1. g[k] = x /\ k - 1 = m /\ g[m] = f[m]
      BY <2>1
    <3>. QED
      BY <2>1, <3>1 DEF x
  <2>2. CASE k # m + 1
    <3>1. k \in 1..m /\ g[k] = f[k] /\ g[k - 1] = f[k - 1]
      BY <2>2
    <3>2. f[k] = f[k - 1] \o P[k]
      BY <3>1 DEF JoinedUpTo
    <3>. QED
      BY <3>1, <3>2
  <2>. QED
    BY <2>1, <2>2
<1> HIDE DEF g
<1>5. JoinedUpTo(m + 1, P, g, S)
  BY <1>3, <1>4 DEF JoinedUpTo
<1>. QED
  BY <1>5

\* Every sequence of sequences can be joined.
LEMMA JoinedExists ==
  ASSUME NEW S, NEW P \in Seq(Seq(S))
  PROVE  \E F : JoinedUpTo(Len(P), P, F, S)
<1> DEFINE n == Len(P)
           Can(m) == \E f : JoinedUpTo(m, P, f, S)
           T == {m \in 0..n : Can(m)}
<1>0. n \in Nat /\ \A k \in 1..n : P[k] \in Seq(S)
  OBVIOUS
<1> HIDE DEF n
<1>1. Can(0)
  <2>1. <<>> \in Seq(S)
    OBVIOUS
  <2>2. JoinedUpTo(0, P, [k \in 0..0 |-> <<>>], S)
    BY <2>1 DEF JoinedUpTo
  <2>. QED
    BY <2>2
<1>2. ASSUME NEW m \in 0..(n - 1), Can(m) PROVE Can(m + 1)
  <2>1. m \in Nat /\ P[m + 1] \in Seq(S)
    BY <1>0
  <2>2. PICK f : JoinedUpTo(m, P, f, S)
    BY <1>2
  <2>. QED
    BY <2>1, <2>2, JoinedNext
<1> HIDE DEF Can
<1>3. 0 \in T /\ \A m \in 0..(n - 1) : m \in T => m + 1 \in T
  BY <1>0, <1>1, <1>2
<1>4. n \in T
  <2>1. 0..n \subseteq T
    <3> HIDE DEF T
    <3>. QED
      BY <1>0, <1>3, Upwards
  <2>. QED
    BY <1>0, <2>1
<1>. QED
  BY <1>4 DEF Can, n

\* FlattenSeq joins them all.
LEMMA Flattened ==
  ASSUME NEW S, NEW P \in Seq(Seq(S))
  PROVE  \E F : JoinedUpTo(Len(P), P, F, S) /\ FlattenSeq(P) = F[Len(P)]
<1> DEFINE Body(f) == [i \in 1..Len(P) |-> IF i = 1 THEN P[i] ELSE f[i-1] \o P[i]]
           g == CHOOSE f : f = Body(f)
<1>0. Len(P) \in Nat /\ \A k \in 1..Len(P) : P[k] \in Seq(S)
  OBVIOUS
<1>1. FlattenSeq(P) = IF Len(P) = 0 THEN P ELSE g[Len(P)]
  BY DEF FlattenSeq
<1>2. PICK F : JoinedUpTo(Len(P), P, F, S)
  BY JoinedExists
<1>3. PICK n \in Nat : n = Len(P)
  BY <1>0
<1>4. \E f : f = Body(f)
  <2> DEFINE h == [k \in 1..n |-> F[k]]
  <2>1. \A k \in 1..n : h[k] = IF k = 1 THEN P[k] ELSE h[k - 1] \o P[k]
    <3> TAKE k \in 1..n
    <3>1. F[k] = F[k - 1] \o P[k] /\ F[0] = <<>> /\ P[k] \in Seq(S)
      BY <1>0, <1>2, <1>3 DEF JoinedUpTo
    <3>2. CASE k = 1
      <4>1. <<>> \o P[k] = P[k] /\ k - 1 = 0
        BY <3>1, <3>2, ConcatEmptySeq
      <4>2. F[k] = P[k]
        BY <3>1, <4>1
      <4>. QED
        BY <3>2, <4>2
    <3>3. CASE k # 1
      <4>1. k - 1 \in 1..n
        BY <3>3
      <4>. QED
        BY <3>1, <3>3, <4>1
    <3>. QED
      BY <3>2, <3>3
  <2>2. h = Body(h)
    BY <1>3, <2>1
  <2>. QED
    BY <2>2
<1>5. g = Body(g)
  <2> HIDE DEF Body
  <2>. QED
    BY <1>4
<1>6. \A k \in 1..n : g[k] = IF k = 1 THEN P[k] ELSE g[k - 1] \o P[k]
  BY <1>3, <1>5
<1> HIDE DEF g
<1>7. \A k \in 0..n : k = 0 \/ g[k] = F[k]
  <2> DEFINE T == {k \in 0..n : k = 0 \/ g[k] = F[k]}
  <2>1. 0 \in T
    OBVIOUS
  <2>2. ASSUME NEW m \in 0..(n - 1), m \in T PROVE m + 1 \in T
    <3>1. m + 1 \in 1..n /\ (m + 1) - 1 = m
      OBVIOUS
    <3>2. F[m + 1] = F[m] \o P[m + 1] /\ F[0] = <<>> /\ P[m + 1] \in Seq(S)
      BY <1>0, <1>2, <1>3, <3>1 DEF JoinedUpTo
    <3>3. <<>> \o P[m + 1] = P[m + 1]
      BY <3>2, ConcatEmptySeq
    <3>4. g[m + 1] = IF m = 0 THEN P[m + 1] ELSE g[m] \o P[m + 1]
      BY <1>6, <3>1
    <3>5. m = 0 \/ g[m] = F[m]
      BY <2>2
    <3>6. g[m + 1] = F[m + 1]
      BY <3>2, <3>3, <3>4, <3>5
    <3>. QED
      BY <3>1, <3>6
  <2>3. 0..n \subseteq T
    <3> HIDE DEF T
    <3>. QED
      BY <2>1, <2>2, Upwards
  <2>. QED
    BY <2>3
<1>8. FlattenSeq(P) = F[Len(P)]
  <2>1. CASE n = 0
    <3>1. P = <<>>
      BY <1>3, <2>1, EmptySeq
    <3>2. F[0] = <<>>
      BY <1>2 DEF JoinedUpTo
    <3>. QED
      BY <1>1, <1>3, <2>1, <3>1, <3>2
  <2>2. CASE n # 0
    <3>1. n \in 0..n
      OBVIOUS
    <3>. QED
      BY <1>1, <1>3, <1>7, <2>2, <3>1
  <2>. QED
    BY <2>1, <2>2
<1>. QED
  BY <1>2, <1>8

\* A sequence has its elements at the numbers up to its length.
LEMMA SeqPlaces ==
  ASSUME NEW S, NEW s \in Seq(S)
  PROVE  \E n \in Nat : n = Len(s) /\ DOMAIN s = 1..n /\ \A k \in 1..n : s[k] \in S
<1>1. Len(s) \in Nat /\ DOMAIN s = 1..Len(s) /\ \A k \in 1..Len(s) : s[k] \in S
  OBVIOUS
<1> QED
  BY <1>1

\* Where the parts stand in what is joined.
Laid(n, P, F, S) ==
  /\ \A k \in 0..n : F[k] \in Seq(S) /\ Len(F[k]) \in Nat
  /\ \A k \in 1..n : Len(F[k]) = Len(F[k - 1]) + Len(P[k])
  /\ \A j \in 0..n : Len(F[j]) <= Len(F[n])
  /\ \A k \in 1..n : \A j \in 1..Len(P[k]) : F[n][Len(F[k - 1]) + j] = P[k][j]

\* The first parts stand in front, and the others behind them.
LEMMA JoinedAt ==
  ASSUME NEW S, NEW n \in Nat, NEW P, \A k \in 1..n : P[k] \in Seq(S),
         NEW F, JoinedUpTo(n, P, F, S)
  PROVE  Laid(n, P, F, S)
<1>1. F \in [0..n -> Seq(S)] /\ \A k \in 1..n : F[k] = F[k - 1] \o P[k]
  BY DEF JoinedUpTo
<1>2. \A k \in 0..n : F[k] \in Seq(S) /\ Len(F[k]) \in Nat
  BY <1>1
<1>9. \A k \in 1..n : Len(P[k]) \in Nat
  OBVIOUS
<1>3. ASSUME NEW k \in 1..n PROVE OneBehind(F[k], F[k - 1], P[k])
  <2>1. k - 1 \in 0..n
    OBVIOUS
  <2>2. PICK s \in Seq(S), t \in Seq(S) : s = F[k - 1] /\ t = P[k]
    BY <1>2, <2>1
  <2> QED
    BY <1>1, <2>2, Concatenated
<1>4. \A k \in 1..n : Len(F[k]) = Len(F[k - 1]) + Len(P[k])
  BY <1>3 DEF OneBehind
<1> DEFINE Before(j, m) == Len(F[j]) <= Len(F[m]) /\ \A p \in 1..Len(F[j]) : F[m][p] = F[j][p]
           T == {m \in 0..n : \A j \in 0..m : Before(j, m)}
<1>5. 0 \in T
  <2>1. \A j \in 0..0 : j = 0
    OBVIOUS
  <2>2. Before(0, 0)
    BY <1>2
  <2> QED
    BY <2>1, <2>2
<1>6. ASSUME NEW m \in 0..(n - 1), m \in T PROVE m + 1 \in T
  <2>1. m + 1 \in 1..n /\ (m + 1) - 1 = m /\ m \in 0..n /\ m + 1 \in 0..n
    OBVIOUS
  <2>2. OneBehind(F[m + 1], F[m], P[m + 1])
    BY <1>3, <2>1
  <2>3. PICK x \in Nat, y \in Nat, l \in Nat :
          x = Len(F[m]) /\ l = Len(P[m + 1]) /\ y = Len(F[m + 1]) /\ y = x + l
    <3>1. Len(F[m]) \in Nat /\ Len(P[m + 1]) \in Nat /\ Len(F[m + 1]) \in Nat
      BY <1>2, <1>9, <2>1
    <3>2. Len(F[m + 1]) = Len(F[m]) + Len(P[m + 1])
      BY <2>2 DEF OneBehind
    <3> QED
      BY <3>1, <3>2
  <2>4. ASSUME NEW j \in 0..(m + 1) PROVE Before(j, m + 1)
    <3>1. CASE j = m + 1
      BY <3>1, <2>3
    <3>2. CASE j # m + 1
      <4>1. j \in 0..m /\ j \in 0..n
        BY <3>2
      <4>2. Before(j, m)
        BY <1>6, <4>1
      <4>3. PICK z \in Nat : z = Len(F[j])
        BY <1>2, <4>1
      <4>4. z <= x /\ z <= y
        <5>1. z <= x
          BY <2>3, <4>2, <4>3
        <5>2. z <= x + l
          BY <5>1
        <5> QED
          BY <2>3, <5>1, <5>2
      <4>5. ASSUME NEW p \in 1..z PROVE F[m + 1][p] = F[j][p]
        <5>1. p \in 1..x
          BY <4>4
        <5>2. F[m + 1][p] = F[m][p]
          BY <2>2, <2>3, <5>1 DEF OneBehind
        <5> QED
          BY <4>2, <4>3, <5>2
      <4> QED
        BY <2>3, <4>3, <4>4, <4>5
    <3> QED
      BY <3>1, <3>2
  <2> HIDE DEF Before
  <2> QED
    BY <2>1, <2>4
<1>7. 0..n \subseteq T
  <2> HIDE DEF T
  <2> QED
    BY <1>5, <1>6, Upwards
<1>8. ASSUME NEW k \in 1..n, NEW j \in 1..Len(P[k])
      PROVE  F[n][Len(F[k - 1]) + j] = P[k][j]
  <2>1. OneBehind(F[k], F[k - 1], P[k])
    BY <1>3
  <2>2. k \in 0..n /\ k - 1 \in 0..n /\ n \in 0..n
    OBVIOUS
  <2>3. PICK x \in Nat, l \in Nat : x = Len(F[k - 1]) /\ l = Len(P[k]) /\ Len(F[k]) = x + l
    <3>1. Len(F[k - 1]) \in Nat /\ Len(P[k]) \in Nat
      BY <1>2, <1>9, <2>2
    <3> QED
      BY <1>4, <3>1
  <2>4. F[k][x + j] = P[k][j]
    BY <2>1, <2>3 DEF OneBehind
  <2>5. PICK p \in 1..Len(F[k]) : p = x + j
    <3>1. PICK i \in 1..l : i = j
      BY <2>3
    <3>2. x + i \in 1..(x + l)
      OBVIOUS
    <3> QED
      BY <2>3, <3>1, <3>2
  <2>6. F[n][p] = F[k][p]
    BY <1>7, <2>2, <2>5
  <2> QED
    BY <2>3, <2>4, <2>5, <2>6
<1> QED
  <2>1. n \in T
    BY <1>7
  <2>2. \A j \in 0..n : Len(F[j]) <= Len(F[n])
    BY <2>1
  <2> HIDE DEF T, Before
  <2> QED
    BY <1>2, <1>4, <1>8, <2>2 DEF Laid

\* A sequence is what its elements make, joined one by one.
LEMMA JoinedOnes ==
  ASSUME NEW S, NEW s \in Seq(S)
  PROVE  FlattenSeq([k \in DOMAIN s |-> <<s[k]>>]) = s
<1>1. PICK n \in Nat : n = Len(s) /\ DOMAIN s = 1..n
  <2>1. Len(s) \in Nat /\ DOMAIN s = 1..Len(s)
    OBVIOUS
  <2> QED
    BY <2>1
<1>2. PICK P : P = [k \in 1..n |-> <<s[k]>>]
  OBVIOUS
<1>3. ASSUME NEW k \in 1..n PROVE P[k] \in Seq(S) /\ Len(P[k]) = 1 /\ P[k][1] = s[k]
  <2>1. PICK x \in S : x = s[k]
    BY <1>1
  <2>2. <<x>> \in Seq(S) /\ Len(<<x>>) = 1 /\ <<x>>[1] = x
    OBVIOUS
  <2> QED
    BY <1>2, <2>1, <2>2
<1>4. P \in Seq(Seq(S)) /\ Len(P) = n
  BY <1>2, <1>3
<1>5. PICK F : JoinedUpTo(n, P, F, S) /\ FlattenSeq(P) = F[n]
  BY <1>4, Flattened
<1>6. Laid(n, P, F, S)
  BY <1>3, <1>5, JoinedAt
<1> DEFINE T == {k \in 0..n : Len(F[k]) = k}
<1>7. 0 \in T
  BY <1>5 DEF JoinedUpTo
<1>8. ASSUME NEW m \in 0..(n - 1), m \in T PROVE m + 1 \in T
  <2>1. m + 1 \in 1..n /\ (m + 1) - 1 = m /\ m + 1 \in 0..n
    OBVIOUS
  <2>2. Len(F[m + 1]) = Len(F[m]) + Len(P[m + 1])
    BY <1>6, <2>1 DEF Laid
  <2> QED
    BY <1>3, <1>8, <2>1, <2>2
<1>9. 0..n \subseteq T
  <2> HIDE DEF T
  <2> QED
    BY <1>7, <1>8, Upwards
<1>10. PICK u \in Seq(S) : u = F[n] /\ Len(u) = n
  <2>1. n \in T /\ F[n] \in Seq(S)
    BY <1>6, <1>9 DEF Laid
  <2> QED
    BY <2>1
<1>11. ASSUME NEW k \in 1..n PROVE u[k] = s[k]
  <2>1. k - 1 \in T
    BY <1>9
  <2>2. Len(F[k - 1]) + 1 = k
    BY <2>1
  <2>3. 1 \in 1..Len(P[k])
    BY <1>3
  <2>4. F[n][Len(F[k - 1]) + 1] = P[k][1]
    BY <1>6, <2>3 DEF Laid
  <2> QED
    BY <1>3, <1>10, <2>2, <2>4
<1>12. u = s
  <2>1. u = [k \in 1..n |-> u[k]] /\ s = [k \in 1..n |-> s[k]]
    BY <1>1, <1>10
  <2> QED
    BY <1>11, <2>1
<1> QED
  BY <1>1, <1>2, <1>5, <1>10, <1>12

\* One sequence, joined, is this sequence.
LEMMA JoinedOne ==
  ASSUME NEW S, NEW P \in Seq(Seq(S)), Len(P) = 1
  PROVE  FlattenSeq(P) = P[1]
<1>1. PICK F : JoinedUpTo(1, P, F, S) /\ FlattenSeq(P) = F[1]
  BY Flattened
<1>2. P[1] \in Seq(S)
  OBVIOUS
<1>3. F[0] = <<>> /\ F[1] = F[1 - 1] \o P[1] /\ 1 - 1 = 0
  <2>1. 1 \in 1..1 /\ 1 - 1 = 0
    OBVIOUS
  <2> QED
    BY <1>1, <2>1 DEF JoinedUpTo
<1>4. F[1] = <<>> \o P[1]
  BY <1>3
<1>5. \A p \in Seq(S) : <<>> \o p = p
  OBVIOUS
<1> QED
  BY <1>1, <1>2, <1>4, <1>5
=============================================================================
