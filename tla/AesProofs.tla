-------------------------------- MODULE AesProofs -------------------------------
(***************************************************************************)
(* Proofs about an aes256 object and its caller (Aes), for every size of a *)
(* block and of a byte, every file, key and one to one cipher; and about   *)
(* the rotations (AesRotate), for every matrix and round.                  *)
(***************************************************************************)
EXTENDS Aes, AesRotate, DataLemmas

-----------------------------------------------------------------------------
(* Arithmetic of the counter. *)

\* A number divided by q and then by two is divided by twice q.
LEMMA DivTwice ==
  ASSUME NEW a \in Nat, NEW q \in Nat \ {0}
  PROVE  a \div (2 * q) = (a \div q) \div 2
<1> DEFINE x == a \div q
           y == x \div 2
<1>1. x \in Nat /\ a - q * x \in 0..(q - 1)
  OBVIOUS
<1>2. y \in Nat /\ (x = 2 * y \/ x = 2 * y + 1)
  BY <1>1
<1> HIDE DEF x, y
<1>3. a - (2 * q) * y \in 0..(2 * q - 1)
  <2>1. CASE x = 2 * y
    <3>1. q * x = (2 * q) * y
      BY <1>2, <2>1
    <3> QED
      BY <1>1, <1>2, <3>1
  <2>2. CASE x = 2 * y + 1
    <3>1. q * x = (2 * q) * y + q
      BY <1>2, <2>2
    <3> QED
      BY <1>1, <1>2, <3>1
  <2> QED
    BY <1>2, <2>1, <2>2
<1>4. a \div (2 * q) = y
  <2> DEFINE r == 2 * q
             z == a \div r
  <2>1. r \in Nat \ {0}
    OBVIOUS
  <2>2. z \in Nat /\ a - r * z \in 0..(r - 1)
    BY <2>1
  <2>3. a - r * y \in 0..(r - 1)
    BY <1>3
  <2> HIDE DEF r, z
  <2>4. z = y
    <3>1. z < y => r * z + r <= r * y
      BY <1>2, <2>1, <2>2
    <3>2. y < z => r * y + r <= r * z
      BY <1>2, <2>1, <2>2
    <3>3. r * y \in Nat /\ r * z \in Nat
      BY <1>2, <2>1, <2>2
    <3> QED
      BY <1>2, <2>1, <2>2, <2>3, <3>1, <3>2, <3>3
  <2> QED
    BY <2>4 DEF r, z
<1> QED
  BY <1>4 DEF x, y

\* What is added to a byte can be told from the sum, although it wraps.
LEMMA SumTold ==
  ASSUME NEW q \in Nat \ {0}, NEW a \in Nat, NEW x \in 0..(q - 1), NEW y \in 0..(q - 1),
         (a + x) % q = (a + y) % q
  PROVE  x = y
<1> DEFINE u == (a + x) \div q
           v == (a + y) \div q
<1>1. u \in Nat /\ a + x = q * u + ((a + x) % q)
  OBVIOUS
<1>2. v \in Nat /\ a + y = q * v + ((a + y) % q)
  OBVIOUS
<1> HIDE DEF u, v
<1>3. x - y = q * u - q * v
  BY <1>1, <1>2
<1>4. (u < v => q * u + q <= q * v) /\ (v < u => q * v + q <= q * u)
  BY <1>1, <1>2
<1>5. q * u \in Nat /\ q * v \in Nat
  BY <1>1, <1>2
<1> QED
  BY <1>1, <1>2, <1>3, <1>4, <1>5

\* Numbers with the same half and the same low bits are the same.
LEMMA HalfAndRest ==
  ASSUME NEW r \in Nat \ {0}, NEW x \in Nat, NEW y \in Nat,
         x \div 2 = y \div 2, x % (2 * r) = y % (2 * r)
  PROVE  x = y
<1> DEFINE q == 2 * r
           u == x \div q
           v == y \div q
           c == x % q
<1>1. u \in Nat /\ v \in Nat /\ c \in Nat /\ x = q * u + c /\ y = q * v + c
  <2>1. q \in Nat \ {0} /\ c = y % q
    OBVIOUS
  <2> HIDE DEF q
  <2> QED
    BY <2>1
<1> HIDE DEF q, u, v, c
<1>2. x = 2 * (r * u) + c /\ y = 2 * (r * v) + c /\ r * u \in Nat /\ r * v \in Nat
  BY <1>1 DEF q
<1>3. x % 2 = c % 2 /\ y % 2 = c % 2
  <2> DEFINE g == r * u
             h == r * v
  <2> HIDE DEF g, h
  <2>1. x = 2 * g + c /\ y = 2 * h + c /\ g \in Nat /\ h \in Nat
    BY <1>2 DEF g, h
  <2>2. (2 * g + c) % 2 = c % 2 /\ (2 * h + c) % 2 = c % 2
    BY <1>1, <2>1
  <2> QED
    BY <2>1, <2>2
<1> QED
  BY <1>3

-----------------------------------------------------------------------------
(* Counters of blocks. *)

\* Half of what is left at a byte is what is left at the byte before it.
LEMMA LeftHalf ==
  ASSUME NEW n \in Nat, NEW k \in Nat
  PROVE  n \div 2^(k + 1) = (n \div 2^k) \div 2
<1>1. 2^k \in Nat \ {0} /\ 2^(k + 1) = 2 * 2^k
  BY Power, PowerStep
<1> QED
  BY <1>1, DivTwice

\* Bytes have values, at least two.
LEMMA ByteFacts ==
  /\ Dim \in Nat /\ Dim >= 2 /\ Dim <= 2^Width
  /\ 2^Width \in Nat \ {0} /\ Byte = 0..(2^Width - 1)
  /\ \E r \in Nat \ {0} : 2^Width = 2 * r
<1>1. Dim \in Nat \ {0, 1} /\ Width \in Nat \ {0} /\ Dim <= 2^Width
  BY SizeAssumption
<1>2. 2^Width \in Nat /\ 2^Width > 0
  BY <1>1, Power
<1>3. Width - 1 \in Nat /\ (Width - 1) + 1 = Width
  BY <1>1
<1>4. 2^(Width - 1) \in Nat \ {0} /\ 2^Width = 2 * 2^(Width - 1)
  BY <1>3, Power, PowerStep
<1> QED
  BY <1>1, <1>2, <1>4 DEF Byte

\* What is added to a byte of the counter is a byte.
LEMMA DigitIsByte ==
  ASSUME NEW n \in Nat, NEW i \in 1..Dim
  PROVE  /\ 2^(Dim - i) \in Nat \ {0}
         /\ n \div 2^(Dim - i) \in Nat
         /\ Digit(n, i) \in Byte
<1>1. Dim - i \in Nat
  BY ByteFacts
<1>2. 2^(Dim - i) \in Nat \ {0}
  BY <1>1, Power
<1>3. n \div 2^(Dim - i) \in Nat
  BY <1>2
<1>4. Digit(n, i) \in Byte
  BY <1>3, ByteFacts DEF Digit
<1> QED
  BY <1>2, <1>3, <1>4

\* The counter of a block is a block.
LEMMA CounterIsBlock ==
  ASSUME NEW s \in Block, NEW n \in Nat
  PROVE  SumW128(s, n) \in Block
<1>1. ASSUME NEW i \in 1..Dim
      PROVE  (s[i] + Digit(n, i) + IF Carries(s, n, i) THEN 1 ELSE 0) % 2^Width \in Byte
  <2>1. s[i] \in Byte /\ Digit(n, i) \in Byte
    BY DigitIsByte DEF Block
  <2> QED
    BY <2>1, ByteFacts
<1> QED
  BY <1>1 DEF SumW128, Block

\* Two blocks with the same counter add the same to each byte, from the last one on,
\* whatever the carries: a carry is decided by the byte behind.
LEMMA SameDigits ==
  ASSUME NEW s \in Block, NEW n \in Nat, NEW m \in Nat, SumW128(s, n) = SumW128(s, m)
  PROVE  \A i \in 1..Dim : Digit(n, i) = Digit(m, i)
<1> DEFINE S == {k \in 0..(Dim - 1) : Digit(n, Dim - k) # Digit(m, Dim - k)}
<1>0. \A h : h \in S <=> h \in 0..(Dim - 1) /\ Digit(n, Dim - h) # Digit(m, Dim - h)
  OBVIOUS
<1> HIDE DEF S
<1>1. ASSUME S # {}
      PROVE  FALSE
  <2>1. PICK k \in S : \A h \in S : k <= h
    <3>1. S \subseteq Nat
      BY <1>0
    <3> QED
      BY <1>1, <3>1, Least
  <2> DEFINE i == Dim - k
  <2>2. i \in 1..Dim /\ k \in 0..(Dim - 1)
    BY <1>0, ByteFacts
  <2>3. i < Dim => i + 1 \in 1..Dim /\ Digit(n, i + 1) = Digit(m, i + 1)
    <3>1. SUFFICES ASSUME i < Dim
                   PROVE  i + 1 \in 1..Dim /\ Digit(n, i + 1) = Digit(m, i + 1)
      OBVIOUS
    <3>2. k - 1 \in 0..(Dim - 1) /\ k - 1 \notin S /\ Dim - (k - 1) = i + 1
      BY <2>1, <2>2, <3>1, ByteFacts
    <3>3. Digit(n, Dim - (k - 1)) = Digit(m, Dim - (k - 1))
      BY <1>0, <3>2
    <3>4. i + 1 \in 1..Dim
      BY <2>2, <3>1, ByteFacts
    <3> QED
      BY <3>2, <3>3, <3>4
  <2>4. Carries(s, n, i) <=> Carries(s, m, i)
    BY <2>3 DEF Carries
  <2> DEFINE c == IF Carries(s, n, i) THEN 1 ELSE 0
  <2>5. (s[i] + Digit(n, i) + c) % 2^Width = (s[i] + Digit(m, i) + c) % 2^Width
    <3>1. SumW128(s, n)[i] = (s[i] + Digit(n, i) + c) % 2^Width
      BY <2>2 DEF SumW128
    <3>2. SumW128(s, m)[i] = (s[i] + Digit(m, i) + c) % 2^Width
      BY <2>2, <2>4 DEF SumW128
    <3> QED
      BY <3>1, <3>2
  <2>6. s[i] \in Nat /\ c \in Nat /\ Digit(n, i) \in 0..(2^Width - 1) /\ Digit(m, i) \in 0..(2^Width - 1)
    <3>1. s[i] \in Byte
      BY <2>2 DEF Block
    <3>2. Digit(n, i) \in Byte /\ Digit(m, i) \in Byte
      BY <2>2, DigitIsByte
    <3> QED
      BY <3>1, <3>2, ByteFacts
  <2>7. Digit(n, i) # Digit(m, i)
    BY <1>0
  <2> HIDE DEF c, i
  <2>8. ((s[i] + c) + Digit(n, i)) % 2^Width = ((s[i] + c) + Digit(m, i)) % 2^Width
    <3>1. s[i] + Digit(n, i) + c = (s[i] + c) + Digit(n, i) /\ s[i] + Digit(m, i) + c = (s[i] + c) + Digit(m, i)
      BY <2>6
    <3> QED
      BY <2>5, <3>1
  <2>9. s[i] + c \in Nat
    BY <2>6
  <2> QED
    BY <2>6, <2>7, <2>8, <2>9, SumTold, ByteFacts
<1>2. ASSUME NEW i \in 1..Dim
      PROVE  Digit(n, i) = Digit(m, i)
  <2>1. Dim - i \in 0..(Dim - 1) /\ Dim - (Dim - i) = i
    BY ByteFacts
  <2>2. Digit(n, Dim - (Dim - i)) = Digit(m, Dim - (Dim - i))
    BY <1>0, <1>1, <2>1
  <2> QED
    BY <2>1, <2>2
<1> QED
  BY <1>2

\* Block numbers below Period that add the same to each byte are the same: the first
\* byte has all that is left, each further one tells its lowest bit.
LEMMA DigitsTell ==
  ASSUME NEW n \in 0..(Period - 1), NEW m \in 0..(Period - 1),
         \A i \in 1..Dim : Digit(n, i) = Digit(m, i)
  PROVE  n = m
<1> DEFINE left(x, k) == x \div 2^((Dim - 1) - k)
           S == {k \in 0..(Dim - 1) : left(n, k) # left(m, k)}
<1>1. n \in Nat /\ m \in Nat
  OBVIOUS
<1>0. \A h : h \in S <=> h \in 0..(Dim - 1) /\ left(n, h) # left(m, h)
  OBVIOUS
<1> HIDE DEF S
<1>2. ASSUME S # {}
      PROVE  FALSE
  <2>1. PICK k \in S : \A h \in S : k <= h
    <3>1. S \subseteq Nat
      BY <1>0
    <3> QED
      BY <1>2, <3>1, Least
  <2>2. k \in 0..(Dim - 1) /\ left(n, k) # left(m, k)
    BY <1>0
  <2> DEFINE e == (Dim - 1) - k
  <2>3. e \in Nat /\ k + 1 \in 1..Dim /\ Dim - (k + 1) = e
    BY <2>2, ByteFacts
  <2>4. (n \div 2^e) % 2^Width = (m \div 2^e) % 2^Width
    <3>1. Digit(n, k + 1) = Digit(m, k + 1)
      BY <2>3
    <3> QED
      BY <2>3, <3>1 DEF Digit
  <2>5. n \div 2^e \in Nat /\ m \div 2^e \in Nat /\ 2^e \in Nat \ {0}
    <3>1. 2^e \in Nat \ {0}
      BY <2>3, Power
    <3> HIDE DEF e
    <3> QED
      BY <1>1, <3>1
  <2>6. n \div 2^e # m \div 2^e
    BY <2>2
  <2>7. CASE k = 0
    <3>1. Period = 2^Width * 2^e
      <4>1. Width \in Nat /\ Width + e = Width + Dim - 1
        BY <2>7, SizeAssumption
      <4> HIDE DEF e
      <4> QED
        BY <2>3, <4>1, PowerSum DEF Period
    <3> HIDE DEF e
    <3>2. ASSUME NEW x \in 0..(Period - 1)
          PROVE  (x \div 2^e) % 2^Width = x \div 2^e
      <4> DEFINE p == 2^e
                 q == 2^Width
                 y == x \div p
      <4>1. p \in Nat \ {0} /\ q \in Nat \ {0} /\ x \in Nat /\ x < q * p
        BY <2>5, <3>1, ByteFacts
      <4> HIDE DEF p, q
      <4>2. y \in Nat /\ p * y <= x
        BY <4>1
      <4>3. y < q
        <5> HIDE DEF y
        <5>1. q <= y => q * p <= p * y
          BY <4>1, <4>2
        <5> QED
          BY <4>1, <4>2, <5>1
      <4>4. y % q = y
        BY <4>1, <4>2, <4>3
      <4> QED
        BY <4>4 DEF p, q
    <3> QED
      BY <2>4, <2>6, <3>2
  <2>8. CASE k # 0
    <3>1. k - 1 \in 0..(Dim - 1) /\ (Dim - 1) - (k - 1) = e + 1
      BY <2>2, <2>8, ByteFacts
    <3>2. k - 1 \notin S
      BY <2>1, <2>2, <2>8
    <3>3. left(n, k - 1) = left(m, k - 1)
      BY <1>0, <3>1, <3>2
    <3>4. n \div 2^(e + 1) = m \div 2^(e + 1)
      BY <3>1, <3>3
    <3> HIDE DEF e
    <3>5. (n \div 2^e) \div 2 = (m \div 2^e) \div 2
      BY <1>1, <2>3, <3>4, LeftHalf
    <3>6. PICK r \in Nat \ {0} : 2^Width = 2 * r
      BY ByteFacts
    <3> QED
      BY <2>4, <2>5, <2>6, <3>5, <3>6, HalfAndRest
  <2> QED
    BY <2>7, <2>8
<1>3. Dim - 1 \in 0..(Dim - 1) /\ (Dim - 1) - (Dim - 1) = 0 /\ 2^0 = 1
  BY ByteFacts
<1>4. left(n, Dim - 1) = left(m, Dim - 1)
  BY <1>0, <1>2, <1>3
<1>5. n \div 1 = m \div 1
  BY <1>3, <1>4
<1> QED
  BY <1>1, <1>5

\* The counters of the first Period blocks are different.
LEMMA FreshCounters == AllFresh
<1> DEFINE N == 0..(Period - 1)
<1>1. Period \in Nat
  <2>1. Width + Dim - 1 \in Nat
    BY SizeAssumption
  <2> QED
    BY <2>1, Power DEF Period
<1>2. IsFiniteSet(N) /\ Cardinality(N) = Period
  BY <1>1, FS_Interval
<1>3. ASSUME NEW s \in Block
      PROVE  Cardinality({SumW128(s, n) : n \in N}) = Period
  <2> DEFINE f == [n \in N |-> SumW128(s, n)]
             T == {SumW128(s, n) : n \in N}
  <2>1. \A n \in N, m \in N : f[n] = f[m] => n = m
    <3> SUFFICES ASSUME NEW n \in N, NEW m \in N, SumW128(s, n) = SumW128(s, m)
                 PROVE  n = m
      OBVIOUS
    <3>1. n \in Nat /\ m \in Nat
      BY <1>1
    <3> QED
      BY <3>1, SameDigits, DigitsTell
  <2>2. f \in Surjection(N, T)
    BY DEF Surjection
  <2>3. f \in Bijection(N, T)
    BY <2>1, <2>2 DEF Bijection, Injection, IsInjective, Surjection
  <2> QED
    BY <1>2, <2>3, FS_Bijection DEF ExistsBijection
<1> QED
  BY <1>3 DEF AllFresh

-----------------------------------------------------------------------------
(* Blocks and padding. *)

\* The place of byte j of block n, and the block and the byte at a place.
At(n, j) == (n - 1) * Dim + j

\* Places and blocks: one for each.
LEMMA Places ==
  ASSUME NEW n \in Nat \ {0}, NEW j \in 1..Dim
  PROVE  /\ At(n, j) \in Nat \ {0}
         /\ (At(n, j) - 1) \div Dim = n - 1
         /\ ((At(n, j) - 1) % Dim) + 1 = j
<1> DEFINE d == n - 1
           r == j - 1
<1>1. d \in Nat /\ r \in 0..(Dim - 1) /\ Dim \in Nat \ {0}
  BY ByteFacts
<1>2. At(n, j) - 1 = Dim * d + r /\ Dim * d \in Nat
  BY <1>1 DEF At
<1> DEFINE a == At(n, j) - 1
<1>3. a \in Nat /\ a = Dim * d + r
  BY <1>1, <1>2
<1>4. At(n, j) = a + 1 /\ j = r + 1
  <2>1. At(n, j) \in Int
    BY <1>1 DEF At
  <2> HIDE DEF At
  <2> QED
    BY <2>1
<1>5. a \div Dim = d /\ a % Dim = r
  <2> HIDE DEF a, d, r
  <2> QED
    BY <1>1, <1>3, OnlyDivision
<1>6. At(n, j) \in Nat \ {0}
  <2> HIDE DEF a
  <2> QED
    BY <1>3, <1>4
<1> QED
  BY <1>4, <1>5, <1>6

\* Every place is that of a byte of a block.
LEMMA PlaceOf ==
  ASSUME NEW c \in Nat \ {0}
  PROVE  \E n \in Nat \ {0}, j \in 1..Dim :
           /\ c = At(n, j)
           /\ n = ((c - 1) \div Dim) + 1 /\ j = ((c - 1) % Dim) + 1
<1> DEFINE d == (c - 1) \div Dim
           r == (c - 1) % Dim
<1>1. Dim \in Nat \ {0}
  BY ByteFacts
<1>2. d \in Nat /\ r \in 0..(Dim - 1) /\ c - 1 = Dim * d + r
  BY <1>1
<1> HIDE DEF d, r
<1>3. d + 1 \in Nat \ {0} /\ r + 1 \in 1..Dim /\ c = At(d + 1, r + 1)
  BY <1>1, <1>2 DEF At
<1> QED
  BY <1>3 DEF d, r

\* The whole blocks of a file, the bytes behind them, and those that are missing.
LEMMA Lengths ==
  ASSUME NEW x \in Seq(Byte)
  PROVE  /\ Len(x) \in Nat
         /\ Len(x) % Dim \in 0..(Dim - 1)
         /\ Len(x) \div Dim \in Nat
         /\ Whole(x) = Dim * (Len(x) \div Dim)
         /\ Whole(x) \in 0..Len(x)
         /\ Len(x) = Whole(x) + (Len(x) % Dim)
         /\ Missing(x) = IF Len(x) % Dim = 0 THEN 0 ELSE Dim - (Len(x) % Dim)
         /\ Missing(x) \in 0..(Dim - 1)
<1> DEFINE l == Len(x)
           d == l \div Dim
           r == l % Dim
<1>1. Dim \in Nat \ {0} /\ l \in Nat
  BY ByteFacts
<1>2. d \in Nat /\ r \in 0..(Dim - 1) /\ l = Dim * d + r
  <2> HIDE DEF l
  <2> QED
    BY <1>1
<1>3. Whole(x) = l - r /\ Missing(x) = (Dim - r) % Dim
  BY DEF Whole, Missing
<1> HIDE DEF l, d, r
<1>4. Dim * d \in Nat
  BY <1>1, <1>2
<1>5. (Dim - r) % Dim = IF r = 0 THEN 0 ELSE Dim - r
  <2>1. CASE r = 0
    <3>1. Dim - r = Dim * 1 + 0 /\ Dim - r \in Nat /\ 0 \in 0..(Dim - 1)
      BY <1>1, <2>1
    <3> QED
      BY <1>1, <2>1, <3>1, OnlyDivision
  <2>2. CASE r # 0
    <3>1. Dim - r = Dim * 0 + (Dim - r) /\ Dim - r \in 0..(Dim - 1)
      BY <1>1, <1>2, <2>2
    <3> QED
      BY <1>1, <2>2, <3>1, OnlyDivision
  <2> QED
    BY <2>1, <2>2
<1>6. /\ l \in Nat /\ r \in 0..(Dim - 1) /\ d \in Nat
      /\ Whole(x) = Dim * d /\ Whole(x) \in 0..l /\ l = Whole(x) + r
      /\ Missing(x) = IF r = 0 THEN 0 ELSE Dim - r
      /\ Missing(x) \in 0..(Dim - 1)
  BY <1>1, <1>2, <1>3, <1>4, <1>5
<1> QED
  BY <1>6 DEF l, d, r

\* The padding of the standard adds what the constructor counts as missing.
LEMMA PaddedIs ==
  ASSUME NEW x \in Seq(Byte)
  PROVE  /\ Padded(x) \in Seq(Byte)
         /\ Len(Padded(x)) = Len(x) + Missing(x)
         /\ \A i \in 1..Len(x) : Padded(x)[i] = x[i]
         /\ \A i \in (Len(x) + 1)..(Len(x) + Missing(x)) : Padded(x)[i] = Missing(x)
<1> DEFINE l == Len(x)
           m == CHOOSE n \in 0..(Dim - 1) : (Len(x) + n) % Dim = 0
           t == [j \in 1..m |-> m]
<1>1. /\ l \in Nat /\ l % Dim \in 0..(Dim - 1) /\ l \div Dim \in Nat
      /\ l = Dim * (l \div Dim) + (l % Dim)
      /\ Missing(x) = IF l % Dim = 0 THEN 0 ELSE Dim - (l % Dim)
      /\ Missing(x) \in 0..(Dim - 1)
  BY Lengths
<1>2. Dim \in Nat \ {0} /\ Dim <= 2^Width /\ Byte = 0..(2^Width - 1) /\ 2^Width \in Nat
  BY ByteFacts
<1>3. \A n \in 0..(Dim - 1) : (l + n) % Dim = 0 <=> n = Missing(x)
  <2> DEFINE d == l \div Dim
             r == l % Dim
  <2>1. /\ d \in Nat /\ r \in 0..(Dim - 1) /\ l = Dim * d + r /\ l \in Nat
        /\ Missing(x) = IF r = 0 THEN 0 ELSE Dim - r
    BY <1>1
  <2> HIDE DEF d, r, l
  <2> SUFFICES ASSUME NEW n \in 0..(Dim - 1)
               PROVE  (l + n) % Dim = 0 <=> n = Missing(x)
    OBVIOUS
  <2>2. CASE r + n < Dim
    <3> DEFINE a == l + n
               c == r + n
    <3>1. a = Dim * d + c /\ c \in 0..(Dim - 1) /\ a \in Nat /\ d \in Nat
      BY <1>2, <2>1, <2>2
    <3>2. a % Dim = c
      <4> HIDE DEF a, c
      <4> QED
        BY <1>2, <3>1, OnlyDivision
    <3> QED
      BY <1>2, <2>1, <2>2, <3>2
  <2>3. CASE r + n >= Dim
    <3>1. Dim * (d + 1) = Dim * d + Dim
      BY <1>2, <2>1
    <3> DEFINE a == l + n
               c == r + n - Dim
               e == d + 1
    <3>2. a = Dim * e + c /\ c \in 0..(Dim - 1) /\ a \in Nat /\ e \in Nat
      BY <1>2, <2>1, <2>3, <3>1
    <3>3. a % Dim = c
      <4> HIDE DEF a, c, e
      <4> QED
        BY <1>2, <3>2, OnlyDivision
    <3> QED
      BY <1>2, <2>1, <2>3, <3>3
  <2> QED
    BY <1>2, <2>1, <2>2, <2>3
<1>4. m = Missing(x)
  BY <1>1, <1>3
<1>5. Padded(x) = x \o t
  BY DEF Padded
<1>6. m \in 0..(Dim - 1)
  BY <1>1, <1>4
<1> HIDE DEF m
<1>7. t \in Seq(Byte) /\ Len(t) = m /\ \A j \in 1..m : t[j] = m
  <2>1. m \in Byte /\ m \in Nat
    BY <1>2, <1>6
  <2>2. t \in [1..m -> Byte]
    BY <2>1
  <2> QED
    BY <2>1, <2>2
<1> HIDE DEF t
<1>8. /\ x \o t \in Seq(Byte) /\ Len(x \o t) = l + m
      /\ \A i \in 1..(l + m) : (x \o t)[i] = IF i <= l THEN x[i] ELSE t[i - l]
  BY <1>7, ConcatProperties
<1>9. \A i \in 1..l : (x \o t)[i] = x[i]
  BY <1>1, <1>6, <1>8
<1>10. \A i \in (l + 1)..(l + m) : (x \o t)[i] = m
  <2> SUFFICES ASSUME NEW i \in (l + 1)..(l + m)
               PROVE  (x \o t)[i] = m
    OBVIOUS
  <2>1. i \in 1..(l + m) /\ ~(i <= l) /\ i - l \in 1..m
    BY <1>1, <1>6
  <2> QED
    BY <1>7, <1>8, <2>1
<1> QED
  BY <1>4, <1>5, <1>8, <1>9, <1>10

\* final_pad holds the padded bytes behind the whole blocks.  (the constructor)
LEMMA PadOfIs ==
  ASSUME NEW x \in Seq(Byte)
  PROVE  /\ PadOf(x) \in Block
         /\ Missing(x) # 0 =>
              /\ Whole(x) + Dim = Len(Padded(x))
              /\ \A j \in 1..Dim : PadOf(x)[j] = Padded(x)[Whole(x) + j]
<1> DEFINE l == Len(x)
           r == l % Dim
           w == Whole(x)
           m == Missing(x)
<1>1. /\ l \in Nat /\ r \in 0..(Dim - 1) /\ w \in 0..l /\ l = w + r
      /\ m = IF r = 0 THEN 0 ELSE Dim - r
      /\ m \in 0..(Dim - 1)
  BY Lengths
<1>2. Dim \in Nat \ {0} /\ 0..Dim \subseteq Byte \cup {Dim}
  BY ByteFacts
<1>3. PadOf(x) = [j \in 1..Dim |-> IF j <= r THEN x[w + j] ELSE m]
  BY DEF PadOf
<1>4. /\ Len(Padded(x)) = l + m
      /\ \A i \in 1..l : Padded(x)[i] = x[i]
      /\ \A i \in (l + 1)..(l + m) : Padded(x)[i] = m
  BY PaddedIs
<1>5. m \in Byte /\ \A i \in 1..l : x[i] \in Byte
  BY <1>1, <1>2
<1> HIDE DEF l, r, w, m
<1>6. PadOf(x) \in Block
  <2>1. \A j \in 1..Dim : j <= r => w + j \in 1..l
    BY <1>1
  <2> QED
    BY <1>3, <1>5, <2>1 DEF Block
<1>7. ASSUME m # 0
      PROVE  w + Dim = Len(Padded(x)) /\ \A j \in 1..Dim : PadOf(x)[j] = Padded(x)[w + j]
  <2>1. w + Dim = l + m
    BY <1>1, <1>2, <1>7
  <2>2. ASSUME NEW j \in 1..Dim
        PROVE  PadOf(x)[j] = Padded(x)[w + j]
    <3>1. CASE j <= r
      <4>1. w + j \in 1..l
        BY <1>1, <3>1
      <4> QED
        BY <1>3, <1>4, <3>1, <4>1
    <3>2. CASE ~(j <= r)
      <4>1. w + j \in (l + 1)..(l + m)
        BY <1>1, <1>2, <2>1, <3>2
      <4> QED
        BY <1>3, <1>4, <3>2, <4>1
    <3> QED
      BY <3>1, <3>2
  <2> QED
    BY <1>4, <2>1, <2>2
<1> QED
  BY <1>6, <1>7 DEF w, m

\* Exclusive or is of bytes, and undone by itself.
LEMMA XorFacts ==
  ASSUME NEW a \in Byte, NEW b \in Byte
  PROVE  ByteXor[<<a, b>>] \in Byte /\ ByteXor[<<ByteXor[<<a, b>>], b>>] = a
BY XorAssumption

\* The stream that block number n of the file is xored with.
Stream(k, n) == BlockOf[<<k, SumW128(StartOf[k], n)>>]

\* It is one of bytes.
LEMMA StreamIsBytes ==
  ASSUME NEW k \in Keys, NEW n \in Nat
  PROVE  Stream(k, n) \in Block
<1>1. StartOf[k] \in Block
  BY KeyAssumption
<1>2. SumW128(StartOf[k], n) \in Block
  BY <1>1, CounterIsBlock
<1> QED
  BY <1>2, KeyAssumption DEF Stream

\* The reference cipher, block by block.
LEMMA CipherIs ==
  ASSUME NEW x \in Seq(Byte), NEW k \in Keys
  PROVE  /\ Cipher(x, k) \in Seq(Byte)
         /\ Len(Cipher(x, k)) = Len(Padded(x))
         /\ \A n \in Nat \ {0}, j \in 1..Dim : At(n, j) <= Len(Padded(x)) =>
              /\ Padded(x)[At(n, j)] \in Byte
              /\ Stream(k, n - 1)[j] \in Byte
              /\ Cipher(x, k)[At(n, j)] = ByteXor[<<Padded(x)[At(n, j)], Stream(k, n - 1)[j]>>]
<1> DEFINE p == Padded(x)
           c == Cipher(x, k)
<1>1. p \in Seq(Byte)
  BY PaddedIs
<1>2. Len(p) \in Nat /\ DOMAIN p = 1..Len(p) /\ \A i \in 1..Len(p) : p[i] \in Byte
  BY <1>1
<1>3. /\ DOMAIN c = 1..Len(p)
      /\ \A i \in 1..Len(p) : c[i] = ByteXor[<<p[i], Stream(k, (i - 1) \div Dim)[((i - 1) % Dim) + 1]>>]
      /\ c = [i \in 1..Len(p) |-> c[i]]
  BY <1>2 DEF Cipher, Stream
<1> HIDE DEF p, c
<1>4. ASSUME NEW n \in Nat \ {0}, NEW j \in 1..Dim, At(n, j) <= Len(p)
      PROVE  /\ p[At(n, j)] \in Byte
             /\ Stream(k, n - 1)[j] \in Byte
             /\ c[At(n, j)] = ByteXor[<<p[At(n, j)], Stream(k, n - 1)[j]>>]
             /\ c[At(n, j)] \in Byte
  <2>1. At(n, j) \in 1..Len(p) /\ (At(n, j) - 1) \div Dim = n - 1 /\ ((At(n, j) - 1) % Dim) + 1 = j
    BY <1>2, <1>4, Places
  <2>2. Stream(k, n - 1)[j] \in Byte
    <3>1. n - 1 \in Nat
      OBVIOUS
    <3>2. Stream(k, n - 1) \in Block
      BY <3>1, StreamIsBytes
    <3> QED
      BY <3>2 DEF Block
  <2>3. p[At(n, j)] \in Byte
    BY <1>2, <2>1
  <2>4. c[At(n, j)] = ByteXor[<<p[At(n, j)], Stream(k, n - 1)[j]>>]
    BY <1>3, <2>1
  <2> QED
    BY <2>2, <2>3, <2>4, XorFacts
<1>5. \A i \in 1..Len(p) : c[i] \in Byte
  <2> SUFFICES ASSUME NEW i \in 1..Len(p)
               PROVE  c[i] \in Byte
    OBVIOUS
  <2>1. i \in Nat \ {0} /\ i <= Len(p)
    BY <1>2
  <2>2. PICK n \in Nat \ {0}, j \in 1..Dim : i = At(n, j)
    BY <2>1, PlaceOf
  <2> QED
    BY <1>4, <2>1, <2>2
<1>6. c \in Seq(Byte) /\ Len(c) = Len(p)
  <2>1. c \in [1..Len(p) -> Byte]
    BY <1>3, <1>5
  <2> QED
    BY <1>2, <2>1
<1> QED
  BY <1>4, <1>6 DEF p, c

-----------------------------------------------------------------------------
(* Types. *)

\* The blocks that have a thread lie in the payload, and the last one ends with it or
\* less than a block before it.
LEMMA BlocksInside ==
  ASSUME TypeOK
  PROVE  /\ Blocks \in Nat
         /\ len >= 0 => Blocks * Dim <= len /\ len < Blocks * Dim + Dim /\ Blocks * Dim \in Nat
         /\ \A n \in 1..Blocks, j \in 1..Dim : At(n, j) \in 1..len /\ At(n, j) \in 1..Len(buf)
<1>1. len \in Int /\ Len(buf) \in Nat /\ len <= Len(buf) /\ Dim \in Nat \ {0}
  BY ByteFacts DEF TypeOK
<1>2. CASE len < Dim
  <2>1. Blocks = 0
    BY <1>2 DEF Blocks
  <2> QED
    BY <1>1, <1>2, <2>1
<1>3. CASE len >= Dim
  <2> DEFINE d == len \div Dim
  <2>1. Blocks = d
    BY <1>1, <1>3 DEF Blocks
  <2>2. d \in Nat /\ Dim * d <= len /\ len < Dim * d + Dim
    BY <1>1, <1>3
  <2> HIDE DEF d
  <2>3. ASSUME NEW n \in 1..d, NEW j \in 1..Dim
        PROVE  At(n, j) \in 1..len
    <3>1. Dim * n <= Dim * d
      BY <1>1, <2>2
    <3>2. At(n, j) = Dim * n - Dim + j /\ Dim * n \in Nat
      BY <1>1, <2>2 DEF At
    <3>3. n >= 1 => Dim * n >= Dim
      BY <1>1, <2>2
    <3>4. Dim * d \in Nat
      BY <1>1, <2>2
    <3> QED
      BY <1>1, <2>2, <3>1, <3>2, <3>3, <3>4
  <2>4. d * Dim = Dim * d /\ Dim * d \in Nat
    BY <1>1, <2>2
  <2> QED
    BY <1>1, <2>1, <2>2, <2>3, <2>4
<1> QED
  BY <1>1, <1>2, <1>3

\* A new object for a file.
LEMMA ConstructTyped ==
  ASSUME NEW x \in Seq(Byte), NEW k \in Keys, Construct(x, k)
  PROVE  /\ buf' \in Seq(Byte) /\ key' \in Keys /\ ctr' \in Counters
         /\ len' \in Int /\ len' <= Len(buf')
         /\ cms' \in 0..(Dim - 1) /\ pad' \in Block /\ enc' \in BOOLEAN
<1>1. Len(x) \in Nat /\ Whole(x) \in 0..Len(x) /\ Missing(x) \in 0..(Dim - 1)
  BY Lengths
<1>2. PadOf(x) \in Block
  BY PadOfIs
<1>3. [i \in 1..Dim |-> 0] \in Block
  BY ByteFacts DEF Block
<1>4. StartOf[k] \in Counters
  BY KeyAssumption
<1>5. buf' = x /\ key' = k /\ ctr' = StartOf[k] /\ len' = Whole(x) /\ cms' = Missing(x) /\ enc' = FALSE
  BY DEF Construct
<1>6. pad' = [i \in 1..Dim |-> 0] \/ pad' = PadOf(x)
  BY DEF Construct
<1>7. pad' \in Block
  BY <1>2, <1>3, <1>6
<1>8. len' \in Int /\ len' <= Len(x)
  BY <1>1, <1>5
<1> QED
  BY <1>1, <1>4, <1>5, <1>7, <1>8

\* What a thread xors its block with.
LEMMA KeyStreamIsBytes ==
  ASSUME TypeOK, NEW n \in Nat
  PROVE  KeyStream(n) \in Block
<1>1. key \in Keys /\ ctr \in Block
  BY KeyAssumption DEF TypeOK
<1>2. SumW128(ctr, n) \in Block
  BY <1>1, CounterIsBlock
<1> QED
  BY <1>1, <1>2, KeyAssumption DEF KeyStream

\* A thread changes one byte, of the payload or of final_pad, inside its bounds.
LEMMA XorByteIs ==
  ASSUME TypeOK, NEW n \in DOMAIN done, XorByte(n)
  PROVE  /\ n \in Nat \ {0} /\ done[n] + 1 \in 1..Dim
         /\ n - 1 \in Nat /\ KeyStream(n - 1)[done[n] + 1] \in Byte
         /\ done' \in Seq(0..Dim) /\ Len(done') = Len(done)
         /\ \A m \in DOMAIN done : done'[m] = IF m = n THEN done[n] + 1 ELSE done[m]
         /\ buf' \in Seq(Byte) /\ Len(buf') = Len(buf) /\ pad' \in Block
         /\ n <= Blocks =>
              /\ pad' = pad
              /\ At(n, done[n] + 1) \in 1..Len(buf)
              /\ \A c \in 1..Len(buf) :
                   buf'[c] = IF c = At(n, done[n] + 1)
                             THEN ByteXor[<<buf[c], KeyStream(n - 1)[done[n] + 1]>>] ELSE buf[c]
         /\ n > Blocks =>
              /\ buf' = buf
              /\ \A j \in 1..Dim :
                   pad'[j] = IF j = done[n] + 1
                             THEN ByteXor[<<pad[j], KeyStream(n - 1)[done[n] + 1]>>] ELSE pad[j]
<1> DEFINE i == done[n] + 1
           k == KeyStream(n - 1)[i]
<1>1. /\ done \in Seq(0..Dim) /\ Len(done) \in Nat /\ DOMAIN done = 1..Len(done)
      /\ buf \in Seq(Byte) /\ Len(buf) \in Nat /\ DOMAIN buf = 1..Len(buf)
      /\ pad \in [1..Dim -> Byte]
  BY DEF TypeOK, Block
<1>2. n \in Nat \ {0} /\ n - 1 \in Nat /\ done[n] \in 0..Dim /\ n \in 1..Len(done)
  <2>1. n \in 1..Len(done)
    BY <1>1
  <2>2. done[n] \in 0..Dim
    BY <1>1, <2>1, ElementOfSeq
  <2> QED
    BY <1>1, <2>1, <2>2
<1>3. i \in 1..Dim /\ i \in 0..Dim /\ done' = [done EXCEPT ![n] = i]
  BY <1>2, ByteFacts DEF XorByte
<1>4. k \in Byte
  <2>1. KeyStream(n - 1) \in Block
    BY <1>2, KeyStreamIsBytes
  <2> QED
    BY <1>3, <2>1 DEF Block
<1>5. n <= Blocks => buf' = [buf EXCEPT ![At(n, i)] = ByteXor[<<buf[At(n, i)], k>>]] /\ pad' = pad
  BY DEF XorByte, At
<1>6. ~(n <= Blocks) => pad' = [pad EXCEPT ![i] = ByteXor[<<pad[i], k>>]] /\ buf' = buf
  BY DEF XorByte
<1>7. Blocks \in Nat
  BY BlocksInside
<1> HIDE DEF i, k
<1>8. /\ done' \in Seq(0..Dim) /\ Len(done') = Len(done)
      /\ \A m \in DOMAIN done : done'[m] = IF m = n THEN i ELSE done[m]
  BY <1>1, <1>2, <1>3, ExceptSeq
<1>9. CASE n <= Blocks
  <2> DEFINE c == At(n, i)
             b == ByteXor[<<buf[c], k>>]
  <2>1. c \in 1..Len(buf)
    <3>1. n \in 1..Blocks
      BY <1>2, <1>7, <1>9
    <3> QED
      BY <1>3, <3>1, BlocksInside
  <2>2. b \in Byte
    <3>1. buf[c] \in Byte
      BY <1>1, <2>1
    <3> QED
      BY <1>4, <3>1, XorFacts
  <2>3. buf' = [buf EXCEPT ![c] = b] /\ pad' = pad
    BY <1>5, <1>9
  <2> HIDE DEF b
  <2>4. buf' \in Seq(Byte) /\ Len(buf') = Len(buf)
        /\ \A d \in 1..Len(buf) : buf'[d] = IF d = c THEN b ELSE buf[d]
    BY <1>1, <2>1, <2>2, <2>3, ExceptSeq
  <2>5. ~(n > Blocks)
    BY <1>2, <1>7, <1>9
  <2>6. buf' \in Seq(Byte) /\ Len(buf') = Len(buf) /\ pad' \in Block /\ c \in 1..Len(buf)
        /\ \A d \in 1..Len(buf) : buf'[d] = IF d = c THEN ByteXor[<<buf[d], k>>] ELSE buf[d]
    BY <1>1, <2>1, <2>3, <2>4 DEF b, Block
  <2> QED
    BY <1>2, <1>3, <1>4, <1>8, <2>3, <2>5, <2>6 DEF i, k
<1>10. CASE ~(n <= Blocks)
  <2>1. \A j \in 1..Dim : pad[j] \in Byte /\ ByteXor[<<pad[j], k>>] \in Byte
    BY <1>1, <1>4, XorFacts
  <2>2. pad' = [pad EXCEPT ![i] = ByteXor[<<pad[i], k>>]] /\ buf' = buf
    BY <1>6, <1>10
  <2>3. pad' \in Block /\ \A j \in 1..Dim : pad'[j] = IF j = i THEN ByteXor[<<pad[j], k>>] ELSE pad[j]
    BY <1>1, <1>3, <2>1, <2>2 DEF Block
  <2> QED
    BY <1>1, <1>2, <1>3, <1>4, <1>8, <1>10, <2>2, <2>3 DEF i, k
<1> QED
  BY <1>9, <1>10

\* A guess of the length of the padding is less than a block.
LEMMA GuessIsNumber ==
  ASSUME NEW p \in 0..(Dim - 1)
  PROVE  p \in Nat /\ p <= Dim - 1
BY ByteFacts

\* A byte of the last block that is no padding is one of the bytes in front of it.
LEMMA NotPadded ==
  ASSUME NEW d \in Nat, NEW c \in Int, NEW i \in 1..d, ~(i > d - c)
  PROVE  i \in 1..(d - c)
OBVIOUS

\* The end of decrypt keeps the types: final_pad is made of bytes of the buffer, of
\* bytes next to it, and of the number of missing bytes.
LEMMA DecryptedTyped ==
  ASSUME TypeOK, NEW p \in 0..(Dim - 1), Decrypted(p)
  PROVE  TypeOK'
<1>1. /\ buf \in Seq(Byte) /\ Len(buf) \in Nat /\ DOMAIN buf = 1..Len(buf)
      /\ len \in Int /\ len <= Len(buf) /\ cms \in 0..(Dim - 1) /\ pad \in Block
  BY DEF TypeOK
<1>2. cms' \in 0..(Dim - 1) /\ len' \in Int /\ len' <= Len(buf)
  BY <1>1, GuessIsNumber DEF Decrypted
<1>3. pad' \in Block
  <2>1. CASE cms' = 0
    BY <1>1, <2>1 DEF Decrypted
  <2>2. CASE cms' # 0
    <3>1. PICK outside \in [Outside(len', cms') -> Byte] :
            pad' = [i \in 1..Dim |-> IF i > Dim - cms' THEN cms'
                                     ELSE IF i \in DOMAIN outside THEN outside[i]
                                     ELSE buf[len' + i]]
      BY <2>2 DEF Decrypted
    <3>2. ASSUME NEW i \in 1..Dim
          PROVE  pad'[i] \in Byte
      <4>1. CASE i > Dim - cms'
        <5>1. cms' \in Byte
          BY <1>2, ByteFacts
        <5>2. pad'[i] = cms'
          BY <3>1, <4>1
        <5> QED
          BY <5>1, <5>2
      <4>2. CASE ~(i > Dim - cms') /\ i \in DOMAIN outside
        <5>1. outside[i] \in Byte
          BY <4>2
        <5>2. pad'[i] = outside[i]
          BY <3>1, <4>2
        <5> QED
          BY <5>1, <5>2
      <4>3. CASE ~(i > Dim - cms') /\ i \notin DOMAIN outside
        <5>1. i \in 1..(Dim - cms')
          <6>1. Dim \in Nat /\ cms' \in Int
            BY <1>2, ByteFacts
          <6>2. ~(i > Dim - cms')
            BY <4>3
          <6> QED
            BY <6>1, <6>2, NotPadded
        <5>2. DOMAIN outside = Outside(len', cms')
          OBVIOUS
        <5>4. len' + i \in DOMAIN buf
          BY <4>3, <5>1, <5>2 DEF Outside
        <5>3. pad'[i] = buf[len' + i]
          BY <3>1, <4>3
        <5> QED
          BY <1>1, <5>4, <5>3
      <4> QED
        BY <4>1, <4>2, <4>3
    <3>3. pad' = [i \in 1..Dim |-> pad'[i]]
      BY <3>1
    <3> QED
      BY <3>2, <3>3 DEF Block
  <2> QED
    BY <2>1, <2>2
<1> QED
  BY <1>1, <1>2, <1>3 DEF TypeOK, Decrypted

\* The variables have their types: counters, lengths, blocks and the threads' places, for
\* every size of the block and of the counters.  (the members of class aes256)
THEOREM TypeCorrect == Spec => []TypeOK
<1>1. Init => TypeOK
  <2> SUFFICES ASSUME Init
               PROVE  TypeOK
    OBVIOUS
  <2>1. key \in Keys /\ ctr \in Counters
    BY KeyAssumption DEF Init
  <2>2. pad \in Block /\ 0 \in 0..(Dim - 1)
    BY ByteFacts DEF Init, Block
  <2>3. buf \in Seq(Byte) /\ Len(buf) = 0 /\ file \in Seq(Byte) /\ done \in Seq(0..Dim)
        /\ story \in Seq({"encrypt", "decrypt", "save", "reload", "copy"})
    BY DEF Init
  <2>4. plain \in [data : Inputs \union {<<>>}, key : Keys]
    BY <2>1 DEF Init
  <2>5. len = 0 /\ cms = 0 /\ enc = FALSE /\ pc = "none"
    BY DEF Init
  <2>6. len \in Int /\ len <= Len(buf) /\ cms \in 0..(Dim - 1)
    BY <2>2, <2>3, <2>5
  <2>7. enc \in BOOLEAN
    BY <2>5
  <2> QED
    BY <2>1, <2>2, <2>3, <2>4, <2>5, <2>6, <2>7 DEF TypeOK
<1>2. TypeOK /\ [Next]_vars => TypeOK'
  <2> SUFFICES ASSUME TypeOK, [Next]_vars
               PROVE  TypeOK'
    OBVIOUS
  <2> DEFINE Ops == {"encrypt", "decrypt", "save", "reload", "copy"}
  <2>1. \A op \in Ops : Append(story, op) \in Seq(Ops)
    BY AppendProperties DEF TypeOK
  <2>2. ASSUME NEW x \in Inputs, NEW k \in Keys, Load(x, k)
        PROVE  TypeOK'
    <3>1. x \in Seq(Byte)
      BY InputsAssumption
    <3>2. Construct(x, k)
      BY <2>2 DEF Load
    <3>3. /\ buf' \in Seq(Byte) /\ key' \in Keys /\ ctr' \in Counters
          /\ len' \in Int /\ len' <= Len(buf')
          /\ cms' \in 0..(Dim - 1) /\ pad' \in Block /\ enc' \in BOOLEAN
      BY <3>1, <3>2, ConstructTyped
    <3>4. /\ pc' = "idle" /\ file' = <<>> /\ plain' = [data |-> x, key |-> k] /\ story' = <<>>
          /\ done' = done
      BY <2>2 DEF Load
    <3>5. file' \in Seq(Byte) /\ story' \in Seq(Ops)
      BY <3>4
    <3> QED
      BY <3>3, <3>4, <3>5 DEF TypeOK
  <2>3. ASSUME NEW op \in {"encrypt", "decrypt"}, Start(op)
        PROVE  TypeOK'
    <3>1. done' = <<>> /\ story' = Append(story, op) /\ pc' = op
          /\ UNCHANGED <<buf, key, ctr, len, cms, pad, enc, file, plain>>
      BY <2>3 DEF Start, Does, object
    <3>2. done' \in Seq(0..Dim) /\ story' \in Seq(Ops)
      BY <2>1, <3>1
    <3> QED
      BY <3>1, <3>2 DEF TypeOK
  <2>4. CASE Spawn
    <3>1. done' = Append(done, 0)
          /\ UNCHANGED <<buf, key, ctr, len, cms, pad, enc, pc, file, plain, story>>
      BY <2>4 DEF Spawn, object
    <3>2. 0 \in 0..Dim
      BY ByteFacts
    <3>3. done' \in Seq(0..Dim)
      BY <3>1, <3>2, AppendProperties DEF TypeOK
    <3> QED
      BY <3>1, <3>3 DEF TypeOK
  <2>5. ASSUME NEW n \in DOMAIN done, XorByte(n)
        PROVE  TypeOK'
    <3>1. done' \in Seq(0..Dim) /\ buf' \in Seq(Byte) /\ Len(buf') = Len(buf) /\ pad' \in Block
      BY <2>5, XorByteIs
    <3>2. UNCHANGED <<key, ctr, len, cms, enc, pc, file, plain, story>>
      BY <2>5 DEF XorByte
    <3> QED
      BY <3>1, <3>2 DEF TypeOK
  <2>6. CASE Encrypted
    BY <2>6 DEF Encrypted, TypeOK
  <2>7. ASSUME NEW p \in 0..(Dim - 1), Decrypted(p)
        PROVE  TypeOK'
    BY <2>7, DecryptedTyped
  <2>8. ASSUME NEW p \in 0..(Dim - 1), DecryptCrashes(p)
        PROVE  TypeOK'
    BY <2>8 DEF DecryptCrashes, TypeOK, object
  <2>9. CASE Save
    <3>1. UNCHANGED <<buf, key, ctr, len, cms, pad, enc, pc, done, plain>> /\ story' = Append(story, "save")
          /\ file' = IF len <= 0 THEN <<>> ELSE SubSeq(buf, 1, len) \o FinalBlock
      BY <2>9 DEF Save, Does, object
    <3>2. file' \in Seq(Byte)
      <4>1. \A n \in 0..Dim : SubSeq(pad, 1, n) \in Seq(Byte)
        <5> SUFFICES ASSUME NEW n \in 0..Dim
                     PROVE  SubSeq(pad, 1, n) \in Seq(Byte)
          OBVIOUS
        <5>1. \A i \in 1..n : pad[i] \in Byte
          BY ByteFacts DEF TypeOK, Block
        <5> QED
          BY <5>1, SubSeqProperties
      <4>2. FinalBlockSize \in 0..Dim
        BY ByteFacts DEF FinalBlockSize, TypeOK
      <4>3. FinalBlock \in Seq(Byte)
        BY <4>1, <4>2 DEF FinalBlock
      <4>4. SubSeq(buf, 1, len) \in Seq(Byte)
        <5>1. len \in Int /\ \A i \in 1..len : buf[i] \in Byte
          BY DEF TypeOK
        <5> QED
          BY <5>1, SubSeqProperties
      <4>5. SubSeq(buf, 1, len) \o FinalBlock \in Seq(Byte)
        BY <4>3, <4>4, ConcatProperties
      <4> QED
        BY <3>1, <4>5
    <3>3. story' \in Seq(Ops)
      BY <2>1, <3>1
    <3> QED
      BY <3>1, <3>2, <3>3 DEF TypeOK
  <2>10. ASSUME NEW k \in Keys, Reload(k)
         PROVE  TypeOK'
    <3>1. Construct(file, k) /\ UNCHANGED <<pc, done, file, plain>> /\ story' = Append(story, "reload")
      BY <2>10 DEF Reload, Does
    <3>2. file \in Seq(Byte)
      BY DEF TypeOK
    <3>3. /\ buf' \in Seq(Byte) /\ key' \in Keys /\ ctr' \in Counters
          /\ len' \in Int /\ len' <= Len(buf')
          /\ cms' \in 0..(Dim - 1) /\ pad' \in Block /\ enc' \in BOOLEAN
      BY <3>1, <3>2, ConstructTyped
    <3>4. story' \in Seq(Ops)
      BY <2>1, <3>1
    <3> QED
      BY <3>1, <3>3, <3>4 DEF TypeOK
  <2>11. CASE Copy
    <3>1. UNCHANGED <<buf, key, len, cms, pad, pc, done, file, plain>> /\ story' = Append(story, "copy")
          /\ ctr' \in Counters /\ enc' \in BOOLEAN
      BY <2>11 DEF Copy, Does
    <3>2. story' \in Seq(Ops)
      BY <2>1, <3>1
    <3> QED
      BY <3>1, <3>2 DEF TypeOK
  <2>12. CASE UNCHANGED vars
    BY <2>12 DEF vars, object, TypeOK
  <2> QED
    BY <2>2, <2>3, <2>4, <2>5, <2>6, <2>7, <2>8, <2>9, <2>10, <2>11, <2>12 DEF Next
<1> QED
  BY <1>1, <1>2, PTL DEF Spec

\* Blocks of an encryption are xored with different bytes of the key stream, whatever
\* the start counter.
THEOREM CountersFreshAlways == Spec => []CountersFresh
<1>1. CountersFresh
  BY FreshCounters DEF CountersFresh
<1>2. Spec => CountersFresh
  BY <1>1
<1>3. CountersFresh'
  BY FreshCounters DEF CountersFresh
<1> QED
  BY <1>1, <1>3, PTL DEF Spec

-----------------------------------------------------------------------------
(***************************************************************************)
(* What an object does to the file, as long as the caller's operations are *)
(* those of CipherSaved, InPlace or RoundTrip: the inductive invariant     *)
(* says for each of them, byte by byte, what the buffer and final_pad hold *)
(* while the threads run and when they are joined.                         *)
(***************************************************************************)

\* Byte j of the block of thread n, in the payload or in final_pad.
Cell(n, j) == IF n <= Blocks THEN buf[At(n, j)] ELSE pad[j]

Passed(n, j) == n \in DOMAIN done /\ j <= done[n]

\* The threads turn x into x xored with the stream of k: done, each byte, or not yet.
Running(x, k) ==
  /\ Len(done) <= Threads
  /\ \A n \in 1..Threads, j \in 1..Dim :
       Cell(n, j) = IF Passed(n, j) THEN ByteXor[<<x[At(n, j)], Stream(k, n - 1)[j]>>]
                                    ELSE x[At(n, j)]

\* The blocks of encrypt: the whole ones and final_pad.
Parts == Blocks + IF cms # 0 THEN 1 ELSE 0

Holds(x) == \A n \in 1..Parts, j \in 1..Dim : Cell(n, j) = x[At(n, j)]

\* The object is still the one of the first load.
FirstObject ==
  /\ key = plain.key /\ ctr = StartOf[key]
  /\ len = Whole(plain.data) /\ cms = Missing(plain.data) /\ Len(buf) = Len(plain.data)

\* The bytes behind the whole blocks stay in the buffer as they were.
TailKept == \A i \in (Whole(plain.data) + 1)..Len(plain.data) : buf[i] = plain.data[i]

Ready == FirstObject /\ buf = plain.data /\ (cms # 0 => pad = PadOf(plain.data))

Encrypting ==
  /\ FirstObject /\ TailKept
  /\ \/ pc = "encrypt" /\ Running(Padded(plain.data), plain.key)
     \/ pc = "idle" /\ enc /\ Holds(Cipher(plain.data, plain.key))

\* A new object for the encrypted file.
SecondObject ==
  /\ ctr = StartOf[key] /\ Whole(plain.data) # 0
  /\ len = Len(Padded(plain.data)) /\ Len(buf) = len /\ cms = 0

\* A file that the object finds again: with whole blocks that do not end like a padding.
Stable == Whole(plain.data) # 0 /\ ~EndsLikePadding(plain.data)

FreshInv == story = <<>> /\ pc # "none" => pc = "idle" /\ Ready

EncryptInv == story = <<"encrypt">> => Encrypting

SaveInv ==
  story = <<"encrypt", "save">> =>
    /\ pc = "idle"
    /\ file = IF Whole(plain.data) = 0 THEN <<>> ELSE Cipher(plain.data, plain.key)

ReloadInv ==
  story = <<"encrypt", "save", "reload">> /\ key = plain.key =>
    pc = "idle" /\ SecondObject /\ buf = Cipher(plain.data, plain.key)

DecryptInv ==
  story = <<"encrypt", "save", "reload", "decrypt">> /\ key = plain.key =>
    \/ pc = "decrypt" /\ SecondObject /\ Running(Cipher(plain.data, plain.key), plain.key)
    \/ pc = "idle" /\ buf = Padded(plain.data)
         /\ (~Aligned(plain.data) => len = Len(plain.data))
    \/ pc = "crashed"

InPlaceInv ==
  story = <<"encrypt", "decrypt">> =>
    \/ /\ pc = "decrypt" /\ FirstObject /\ TailKept
       /\ Running(Cipher(plain.data, plain.key), plain.key)
    \/ pc = "idle" /\ buf = plain.data /\ (Stable => Ready)
    \/ pc = "crashed"

AgainInv == story = <<"encrypt", "decrypt", "encrypt">> /\ Stable => Encrypting

SavedAgainInv ==
  story = <<"encrypt", "decrypt", "encrypt", "save">> /\ Stable =>
    pc = "idle" /\ file = Cipher(plain.data, plain.key)

\* The threads of an operation that has ended are done with their blocks.
DoneInv == pc \notin {"encrypt", "decrypt"} => \A n \in DOMAIN done : done[n] = Dim

StoryInv ==
  /\ DoneInv
  /\ FreshInv /\ EncryptInv /\ SaveInv /\ ReloadInv /\ DecryptInv
  /\ InPlaceInv /\ AgainInv /\ SavedAgainInv

IInv == TypeOK /\ StoryInv

\* What the story was before an operation is appended.
LEMMA StoryBefore ==
  ASSUME TypeOK, NEW op \in {"encrypt", "decrypt", "save", "reload", "copy"},
         story' = Append(story, op)
  PROVE  /\ story' # <<>>
         /\ story' = <<"encrypt">> => story = <<>> /\ op = "encrypt"
         /\ story' = <<"encrypt", "save">> => story = <<"encrypt">> /\ op = "save"
         /\ story' = <<"encrypt", "save", "reload">> =>
              story = <<"encrypt", "save">> /\ op = "reload"
         /\ story' = <<"encrypt", "save", "reload", "decrypt">> =>
              story = <<"encrypt", "save", "reload">> /\ op = "decrypt"
         /\ story' = <<"encrypt", "decrypt">> => story = <<"encrypt">> /\ op = "decrypt"
         /\ story' = <<"encrypt", "decrypt", "encrypt">> =>
              story = <<"encrypt", "decrypt">> /\ op = "encrypt"
         /\ story' = <<"encrypt", "decrypt", "encrypt", "save">> =>
              story = <<"encrypt", "decrypt", "encrypt">> /\ op = "save"
<1> DEFINE Ops == {"encrypt", "decrypt", "save", "reload", "copy"}
<1>1. story \in Seq(Ops) /\ op \in Ops
  BY DEF TypeOK
<1> HIDE DEF Ops
<1>2. \A t \in Seq(Ops), f \in Ops : story' = Append(t, f) => story = t /\ op = f
  <2> SUFFICES ASSUME NEW t \in Seq(Ops), NEW f \in Ops, Append(story, op) = Append(t, f)
               PROVE  story = t /\ op = f
    OBVIOUS
  <2> QED
    BY <1>1, AppendInjective
<1>3. /\ <<>> \in Seq(Ops) /\ <<"encrypt">> \in Seq(Ops)
      /\ <<"encrypt", "save">> \in Seq(Ops) /\ <<"encrypt", "save", "reload">> \in Seq(Ops)
      /\ <<"encrypt", "decrypt">> \in Seq(Ops) /\ <<"encrypt", "decrypt", "encrypt">> \in Seq(Ops)
  BY DEF Ops
<1>4. /\ <<"encrypt">> = Append(<<>>, "encrypt")
      /\ <<"encrypt", "save">> = Append(<<"encrypt">>, "save")
      /\ <<"encrypt", "save", "reload">> = Append(<<"encrypt", "save">>, "reload")
      /\ <<"encrypt", "save", "reload", "decrypt">> = Append(<<"encrypt", "save", "reload">>, "decrypt")
      /\ <<"encrypt", "decrypt">> = Append(<<"encrypt">>, "decrypt")
      /\ <<"encrypt", "decrypt", "encrypt">> = Append(<<"encrypt", "decrypt">>, "encrypt")
      /\ <<"encrypt", "decrypt", "encrypt", "save">> = Append(<<"encrypt", "decrypt", "encrypt">>, "save")
  OBVIOUS
<1>5. story' # <<>>
  BY <1>1, AppendProperties
<1>6. "encrypt" \in Ops /\ "decrypt" \in Ops /\ "save" \in Ops /\ "reload" \in Ops
  BY DEF Ops
<1> QED
  BY <1>2, <1>3, <1>4, <1>5, <1>6

\* The first file is one, with one of the keys.
LEMMA PlainTyped ==
  ASSUME TypeOK
  PROVE  plain.data \in Seq(Byte) /\ plain.key \in Keys
<1>1. plain.data \in Inputs \union {<<>>} /\ plain.key \in Keys
  BY DEF TypeOK
<1>2. <<>> \in Seq(Byte)
  OBVIOUS
<1> QED
  BY <1>1, <1>2, InputsAssumption

\* The blocks that fit into a number of whole blocks.
LEMMA BlocksOf ==
  ASSUME NEW d \in Nat, len = Dim * d
  PROVE  /\ Blocks = d
         /\ \A n \in 1..d, j \in 1..Dim : At(n, j) \in 1..len
         /\ \A c \in 1..len : \E n \in 1..d, j \in 1..Dim : c = At(n, j)
<1>1. Dim \in Nat \ {0}
  BY ByteFacts
<1>2. Blocks = d
  <2>1. CASE d = 0
    BY <1>1, <2>1 DEF Blocks
  <2>2. CASE d # 0
    <3>1. len = Dim * d + 0 /\ 0 \in 0..(Dim - 1) /\ len \in Nat
      BY <1>1
    <3>2. len \div Dim = d
      BY <1>1, <3>1, OnlyDivision
    <3>3. Dim <= Dim * d
      BY <1>1, <2>2
    <3> QED
      BY <1>1, <3>1, <3>2, <3>3 DEF Blocks
  <2> QED
    BY <2>1, <2>2
<1>3. ASSUME NEW n \in 1..d, NEW j \in 1..Dim
      PROVE  At(n, j) \in 1..len
  <2>1. At(n, j) = Dim * n - Dim + j
    BY <1>1 DEF At
  <2>2. Dim * n <= Dim * d /\ Dim <= Dim * n
    BY <1>1
  <2>3. Dim * n \in Nat /\ Dim * d \in Nat
    BY <1>1
  <2> QED
    BY <1>1, <2>1, <2>2, <2>3
<1>4. ASSUME NEW c \in 1..len
      PROVE  \E n \in 1..d, j \in 1..Dim : c = At(n, j)
  <2>1. Dim * d \in Nat
    BY <1>1
  <2>2. c \in Nat \ {0} /\ c <= Dim * d
    BY <2>1
  <2>3. PICK n \in Nat \ {0}, j \in 1..Dim : c = At(n, j)
    BY <2>2, PlaceOf
  <2>4. n <= d
    <3>1. At(n, j) = Dim * (n - 1) + j
      BY <1>1 DEF At
    <3>2. d <= n - 1 => Dim * d <= Dim * (n - 1)
      BY <1>1
    <3>3. Dim * (n - 1) \in Nat
      BY <1>1
    <3> QED
      BY <1>1, <2>1, <2>2, <2>3, <3>1, <3>2, <3>3
  <2> QED
    BY <2>3, <2>4
<1> QED
  BY <1>2, <1>3, <1>4

\* The blocks of encrypt are those of the padded file.
LEMMA PartsOfFile ==
  ASSUME TypeOK, FirstObject
  PROVE  /\ Blocks \in Nat /\ Parts \in Nat /\ Parts \in {Blocks, Blocks + 1}
         /\ Parts = Blocks <=> cms = 0
         /\ \A n \in 1..Blocks, j \in 1..Dim : At(n, j) \in 1..len
         /\ \A c \in 1..len : \E n \in 1..Blocks, j \in 1..Dim : c = At(n, j)
         /\ \A j \in 1..Dim : At(Blocks + 1, j) = len + j
         /\ len \in Nat /\ len <= Len(plain.data)
         /\ Len(Padded(plain.data)) = IF cms = 0 THEN len ELSE len + Dim
         /\ cms = 0 => Len(plain.data) = len
<1> DEFINE x == plain.data
           d == Len(x) \div Dim
<1>1. x \in Seq(Byte)
  BY PlainTyped
<1>2. /\ Len(x) \in Nat /\ d \in Nat /\ Whole(x) = Dim * d /\ Whole(x) \in 0..Len(x)
      /\ Missing(x) = 0 => Len(x) = Whole(x)
      /\ Missing(x) # 0 => Len(x) + Missing(x) = Whole(x) + Dim
  <2> DEFINE r == Len(x) % Dim
  <2>1. /\ Len(x) \in Nat /\ d \in Nat /\ Whole(x) = Dim * d /\ Whole(x) \in 0..Len(x)
        /\ r \in 0..(Dim - 1) /\ Len(x) = Whole(x) + r
        /\ Missing(x) = IF r = 0 THEN 0 ELSE Dim - r
    BY <1>1, Lengths
  <2>2. Dim \in Nat
    BY ByteFacts
  <2> HIDE DEF r, d, x
  <2>3. Missing(x) = 0 => Len(x) = Whole(x)
    BY <2>1, <2>2
  <2>4. Missing(x) # 0 => Len(x) + Missing(x) = Whole(x) + Dim
    BY <2>1, <2>2
  <2> QED
    BY <2>1, <2>3, <2>4
<1>3. Len(Padded(x)) = Len(x) + Missing(x)
  BY <1>1, PaddedIs
<1>4. len = Whole(x) /\ cms = Missing(x) /\ cms \in 0..(Dim - 1)
  BY DEF FirstObject, TypeOK
<1>5. Dim \in Nat \ {0}
  BY ByteFacts
<1> HIDE DEF x, d
<1>6. /\ Blocks = d
      /\ \A n \in 1..d, j \in 1..Dim : At(n, j) \in 1..len
      /\ \A c \in 1..len : \E n \in 1..d, j \in 1..Dim : c = At(n, j)
  BY <1>2, <1>4, BlocksOf
<1>7. \A j \in 1..Dim : At(d + 1, j) = len + j
  BY <1>2, <1>4, <1>5 DEF At
<1>8. Parts = d + IF cms # 0 THEN 1 ELSE 0
  BY <1>6 DEF Parts
<1>9. /\ len \in Nat /\ len <= Len(x)
      /\ Len(Padded(x)) = IF cms = 0 THEN len ELSE len + Dim
      /\ cms = 0 => Len(x) = len
  <2> DEFINE w == Whole(x)
  <2>1. /\ Len(x) \in Nat /\ w \in 0..Len(x)
        /\ (cms = 0 => Len(x) = w) /\ (cms # 0 => Len(x) + cms = w + Dim)
        /\ Len(Padded(x)) = Len(x) + cms /\ len = w
    BY <1>2, <1>3, <1>4
  <2>2. cms \in Nat /\ Dim \in Nat
    BY <1>4, <1>5
  <2> HIDE DEF w
  <2>3. CASE cms = 0
    BY <2>1, <2>2, <2>3
  <2>4. CASE cms # 0
    BY <2>1, <2>2, <2>4
  <2> QED
    BY <2>3, <2>4
<1>10. Parts \in Nat /\ Parts \in {d, d + 1} /\ (Parts = d <=> cms = 0)
  BY <1>2, <1>8
<1>11. Blocks \in Nat /\ Parts \in {Blocks, Blocks + 1} /\ (Parts = Blocks <=> cms = 0)
  BY <1>2, <1>6, <1>10
<1>12. \A j \in 1..Dim : At(Blocks + 1, j) = len + j
  BY <1>6, <1>7
<1>13. /\ \A n \in 1..Blocks, j \in 1..Dim : At(n, j) \in 1..len
       /\ \A c \in 1..len : \E n \in 1..Blocks, j \in 1..Dim : c = At(n, j)
  BY <1>6
<1> QED
  BY <1>9, <1>10, <1>11, <1>12, <1>13 DEF x

-----------------------------------------------------------------------------
(* The threads of an operation. *)

\* A thread that is started has done nothing yet.
LEMMA RunSpawn ==
  ASSUME TypeOK, NEW x, NEW k, Running(x, k), Spawn
  PROVE  Running(x, k)'
<1>1. /\ UNCHANGED <<buf, key, ctr, len, cms, pad, enc, pc>> /\ done' = Append(done, 0)
      /\ Len(done) < Threads
  BY DEF Spawn, object
<1>2. done \in Seq(0..Dim) /\ 0 \in 0..Dim
  BY ByteFacts DEF TypeOK
<1>3. /\ Len(done) \in Nat /\ DOMAIN done = 1..Len(done)
      /\ Len(done') = Len(done) + 1 /\ DOMAIN done' = 1..(Len(done) + 1)
      /\ \A n \in 1..Len(done) : done'[n] = done[n]
      /\ done'[Len(done) + 1] = 0
  BY <1>1, <1>2, AppendProperties
<1>4. Threads' = Threads /\ Blocks' = Blocks
  BY <1>1 DEF Threads, Blocks
<1>5. Threads \in Nat
  BY BlocksInside DEF Threads
<1>6. \A n, j : Cell(n, j)' = Cell(n, j)
  BY <1>1, <1>4 DEF Cell, At
<1>7. \A n, j : j \in 1..Dim => (Passed(n, j)' <=> Passed(n, j))
  <2> SUFFICES ASSUME NEW n, NEW j \in 1..Dim
               PROVE  Passed(n, j)' <=> Passed(n, j)
    OBVIOUS
  <2>1. CASE n \in 1..Len(done)
    BY <1>3, <2>1 DEF Passed
  <2>2. CASE n = Len(done) + 1
    BY <1>3, <2>2 DEF Passed
  <2>3. CASE n \notin 1..(Len(done) + 1)
    BY <1>3, <2>3 DEF Passed
  <2> QED
    BY <1>3, <2>1, <2>2, <2>3
<1>8. Len(done') <= Threads'
  BY <1>1, <1>3, <1>4, <1>5
<1>9. ASSUME NEW n \in 1..Threads', NEW j \in 1..Dim
      PROVE  Cell(n, j)' = IF Passed(n, j)' THEN ByteXor[<<x[At(n, j)], Stream(k, n - 1)[j]>>]
                                            ELSE x[At(n, j)]
  BY <1>4, <1>6, <1>7 DEF Running
<1> QED
  BY <1>8, <1>9 DEF Running

\* A thread that xors the next byte of its block changes no other byte of any block.
LEMMA RunXor ==
  ASSUME TypeOK, NEW x, NEW k, Running(x, k), key = k, ctr = StartOf[k],
         pc \in {"encrypt", "decrypt"},
         NEW m \in DOMAIN done, XorByte(m)
  PROVE  /\ Running(x, k)'
         /\ \A c \in 1..Len(buf) : c > len => buf'[c] = buf[c]
<1> DEFINE i == done[m] + 1
<1>1. /\ m \in Nat \ {0} /\ i \in 1..Dim /\ m - 1 \in Nat
      /\ done' \in Seq(0..Dim) /\ Len(done') = Len(done)
      /\ \A n \in DOMAIN done : done'[n] = IF n = m THEN i ELSE done[n]
  BY XorByteIs
<1>2. /\ m <= Blocks => /\ pad' = pad
                        /\ At(m, i) \in 1..Len(buf)
                        /\ \A c \in 1..Len(buf) :
                             buf'[c] = IF c = At(m, i)
                                       THEN ByteXor[<<buf[c], KeyStream(m - 1)[i]>>] ELSE buf[c]
      /\ m > Blocks => /\ buf' = buf
                       /\ \A j \in 1..Dim :
                            pad'[j] = IF j = i THEN ByteXor[<<pad[j], KeyStream(m - 1)[i]>>] ELSE pad[j]
  BY XorByteIs
<1>3. UNCHANGED <<key, ctr, len, cms, enc, pc, file, plain, story>>
  BY DEF XorByte
<1>4. KeyStream(m - 1) = Stream(k, m - 1)
  BY DEF KeyStream, Stream
<1>5. Threads' = Threads /\ Blocks' = Blocks
  BY <1>3 DEF Threads, Blocks
<1>6. /\ Blocks \in Nat /\ Threads \in {Blocks, Blocks + 1}
      /\ \A n \in 1..Blocks, j \in 1..Dim : At(n, j) \in 1..len /\ At(n, j) \in 1..Len(buf)
  BY BlocksInside DEF Threads
<1>7. /\ done \in Seq(0..Dim) /\ Len(done) \in Nat /\ DOMAIN done = 1..Len(done)
      /\ DOMAIN done' = 1..Len(done) /\ m \in 1..Len(done) /\ Len(done) <= Threads
  BY <1>1 DEF TypeOK, Running
<1>8. \A n, j : j \in 1..Dim => (Passed(n, j)' <=> Passed(n, j) \/ (n = m /\ j = i))
  <2> SUFFICES ASSUME NEW n, NEW j \in 1..Dim
               PROVE  Passed(n, j)' <=> Passed(n, j) \/ (n = m /\ j = i)
    OBVIOUS
  <2>1. CASE n = m
    <3>1. done[m] \in 0..Dim
      BY <1>7, ElementOfSeq
    <3>2. j <= i <=> j <= done[m] \/ j = i
      BY <3>1
    <3> QED
      BY <1>1, <1>7, <2>1, <3>2 DEF Passed
  <2>2. CASE n # m
    BY <1>1, <1>7, <2>2 DEF Passed
  <2> QED
    BY <2>1, <2>2
<1>9. ~Passed(m, i)
  <2>1. done[m] \in 0..Dim
    BY <1>7, ElementOfSeq
  <2> QED
    BY <2>1 DEF Passed
<1> HIDE DEF i
<1>10. ASSUME NEW n \in 1..Threads, NEW j \in 1..Dim
       PROVE  Cell(n, j)' = IF n = m /\ j = i THEN ByteXor[<<Cell(n, j), Stream(k, n - 1)[j]>>]
                                              ELSE Cell(n, j)
  <2>1. CASE n <= Blocks
    <3>1. n \in 1..Blocks /\ Cell(n, j) = buf[At(n, j)] /\ Cell(n, j)' = buf'[At(n, j)]
      BY <1>5, <1>6, <2>1 DEF Cell, At
    <3>2. At(n, j) \in 1..Len(buf)
      BY <1>6, <3>1
    <3>3. CASE m <= Blocks
      <4>1. At(n, j) = At(m, i) <=> n = m /\ j = i
        <5>1. n \in Nat \ {0}
          BY <3>1
        <5>2. (At(n, j) - 1) \div Dim = n - 1 /\ ((At(n, j) - 1) % Dim) + 1 = j
          BY <5>1, Places
        <5>3. (At(m, i) - 1) \div Dim = m - 1 /\ ((At(m, i) - 1) % Dim) + 1 = i
          BY <1>1, Places
        <5>4. At(n, j) = At(m, i) => n - 1 = m - 1 /\ j = i
          BY <5>2, <5>3
        <5> QED
          BY <1>1, <5>1, <5>4
      <4> QED
        BY <1>2, <1>4, <3>1, <3>2, <3>3, <4>1
    <3>4. CASE ~(m <= Blocks)
      <4>1. buf' = buf /\ n # m
        BY <1>1, <1>2, <1>6, <2>1, <3>4
      <4> QED
        BY <3>1, <4>1
    <3> QED
      BY <3>3, <3>4
  <2>2. CASE ~(n <= Blocks)
    <3>1. Cell(n, j) = pad[j] /\ Cell(n, j)' = pad'[j] /\ n = Blocks + 1
      BY <1>5, <1>6, <2>2 DEF Cell, At
    <3>2. CASE m <= Blocks
      <4>1. pad' = pad /\ n # m
        BY <1>2, <1>6, <2>2, <3>2
      <4> QED
        BY <3>1, <4>1
    <3>3. CASE ~(m <= Blocks)
      <4>1. m = Blocks + 1 /\ m > Blocks
        BY <1>1, <1>6, <1>7, <3>3
      <4> QED
        BY <1>2, <1>4, <3>1, <4>1
    <3> QED
      BY <3>2, <3>3
  <2> QED
    BY <2>1, <2>2
<1>11. ASSUME NEW n \in 1..Threads, NEW j \in 1..Dim
       PROVE  Cell(n, j)' = IF Passed(n, j)' THEN ByteXor[<<x[At(n, j)], Stream(k, n - 1)[j]>>]
                                             ELSE x[At(n, j)]
  <2>1. Cell(n, j) = IF Passed(n, j) THEN ByteXor[<<x[At(n, j)], Stream(k, n - 1)[j]>>]
                                     ELSE x[At(n, j)]
    BY DEF Running
  <2>2. CASE n = m /\ j = i
    BY <1>8, <1>9, <1>10, <2>1, <2>2
  <2>3. CASE ~(n = m /\ j = i)
    BY <1>8, <1>10, <2>1, <2>3
  <2> QED
    BY <2>2, <2>3
<1>12. Running(x, k)'
  BY <1>1, <1>5, <1>7, <1>11 DEF Running
<1>13. ASSUME NEW c \in 1..Len(buf), c > len
       PROVE  buf'[c] = buf[c]
  <2>1. CASE m <= Blocks
    <3>1. m \in 1..Blocks
      BY <1>1, <1>6, <2>1
    <3>2. At(m, i) \in 1..len
      BY <1>1, <1>6, <3>1
    <3>3. c # At(m, i)
      BY <1>13, <3>2 DEF TypeOK
    <3> QED
      BY <1>2, <2>1, <3>3
  <2>2. CASE ~(m <= Blocks)
    <3>1. m > Blocks
      BY <1>1, <1>6, <2>2
    <3> QED
      BY <1>2, <3>1
  <2> QED
    BY <2>1, <2>2
<1> QED
  BY <1>12, <1>13

\* When all threads are joined every byte has been xored, once.
LEMMA RunJoined ==
  ASSUME TypeOK, NEW x, NEW k, Running(x, k), Joined
  PROVE  \A n \in 1..Threads, j \in 1..Dim :
           Cell(n, j) = ByteXor[<<x[At(n, j)], Stream(k, n - 1)[j]>>]
<1>1. Len(done) = Threads /\ \A n \in DOMAIN done : done[n] = Dim
  BY DEF Joined
<1>2. done \in Seq(0..Dim) /\ DOMAIN done = 1..Len(done)
  BY DEF TypeOK
<1>3. \A n \in 1..Threads, j \in 1..Dim : Passed(n, j)
  <2> SUFFICES ASSUME NEW n \in 1..Threads, NEW j \in 1..Dim
               PROVE  Passed(n, j)
    OBVIOUS
  <2>1. n \in DOMAIN done /\ done[n] = Dim
    BY <1>1, <1>2
  <2>2. j <= Dim
    BY ByteFacts
  <2> QED
    BY <2>1, <2>2 DEF Passed
<1> QED
  BY <1>3 DEF Running

\* The threads of an operation keep on turning the same file into the same result.
LEMMA RunKept ==
  ASSUME TypeOK, NEW x, NEW k, Running(x, k), key = k, ctr = StartOf[k],
         pc \in {"encrypt", "decrypt"},
         Spawn \/ \E m \in DOMAIN done : XorByte(m)
  PROVE  /\ Running(x, k)'
         /\ UNCHANGED <<key, ctr, len, cms, enc, pc, file, plain, story>>
         /\ Len(buf') = Len(buf)
         /\ \A c \in 1..Len(buf) : c > len => buf'[c] = buf[c]
<1>1. CASE Spawn
  <2>1. Running(x, k)'
    BY <1>1, RunSpawn
  <2> QED
    BY <1>1, <2>1 DEF Spawn, object
<1>2. ASSUME NEW m \in DOMAIN done, XorByte(m)
      PROVE  /\ Running(x, k)'
             /\ UNCHANGED <<key, ctr, len, cms, enc, pc, file, plain, story>>
             /\ Len(buf') = Len(buf)
             /\ \A c \in 1..Len(buf) : c > len => buf'[c] = buf[c]
  <2>1. /\ Running(x, k)'
        /\ \A c \in 1..Len(buf) : c > len => buf'[c] = buf[c]
    BY <1>2, RunXor
  <2>2. Len(buf') = Len(buf)
    BY <1>2, XorByteIs
  <2> QED
    BY <1>2, <2>1, <2>2 DEF XorByte
<1> QED
  BY <1>1, <1>2

\* The first object stays so while its threads run.
LEMMA FirstKept ==
  ASSUME TypeOK, FirstObject, TailKept,
         UNCHANGED <<key, ctr, len, cms, plain>>, Len(buf') = Len(buf),
         \A c \in 1..Len(buf) : c > len => buf'[c] = buf[c]
  PROVE  FirstObject' /\ TailKept'
<1>1. FirstObject'
  BY DEF FirstObject
<1>2. ASSUME NEW i \in (Whole(plain.data) + 1)..Len(plain.data)
      PROVE  buf'[i] = plain.data[i]
  <2>1. plain.data \in Seq(Byte)
    BY PlainTyped
  <2>2. Whole(plain.data) \in Nat /\ Len(plain.data) \in Nat
    BY <2>1, Lengths
  <2>3. i \in 1..Len(buf) /\ i > len
    BY <2>2 DEF FirstObject
  <2> QED
    BY <2>3 DEF TailKept
<1>3. TailKept'
  BY <1>2 DEF TailKept
<1> QED
  BY <1>1, <1>3

\* encrypt starts with the padded file in the buffer and in final_pad.
LEMMA EncryptStarts ==
  ASSUME TypeOK, Ready, pc' = "encrypt", done' = <<>>, UNCHANGED <<buf, object, plain>>
  PROVE  Encrypting'
<1> DEFINE x == plain.data
<1>1. UNCHANGED <<buf, key, ctr, len, cms, pad, enc, plain>>
  BY DEF object
<1>2. x \in Seq(Byte) /\ FirstObject
  BY PlainTyped DEF Ready
<1>3. /\ Blocks \in Nat /\ Parts \in Nat /\ Parts \in {Blocks, Blocks + 1}
      /\ Parts = Blocks <=> cms = 0
      /\ \A n \in 1..Blocks, j \in 1..Dim : At(n, j) \in 1..len
      /\ \A j \in 1..Dim : At(Blocks + 1, j) = len + j
      /\ len \in Nat /\ len <= Len(x)
  BY <1>2, PartsOfFile
<1>4. FirstObject' /\ TailKept'
  BY <1>1, <1>2 DEF Ready, FirstObject, TailKept
<1>5. Blocks' = Blocks /\ Threads' = Parts
  BY <1>1 DEF Blocks, Threads, Parts
<1>6. ASSUME NEW n \in 1..Parts, NEW j \in 1..Dim
      PROVE  Cell(n, j)' = Padded(x)[At(n, j)] /\ ~Passed(n, j)'
  <2>1. ~Passed(n, j)'
    BY DEF Passed
  <2>2. CASE n <= Blocks
    <3>1. Cell(n, j)' = buf[At(n, j)]
      BY <1>1, <1>5, <2>2 DEF Cell, At
    <3>2. At(n, j) \in 1..Len(x)
      BY <1>3, <2>2
    <3>3. Padded(x)[At(n, j)] = x[At(n, j)]
      BY <1>2, <3>2, PaddedIs
    <3> QED
      BY <2>1, <3>1, <3>3 DEF Ready
  <2>3. CASE ~(n <= Blocks)
    <3>1. n = Blocks + 1 /\ cms # 0
      BY <1>3, <2>3
    <3>2. Cell(n, j)' = pad[j]
      BY <1>1, <1>5, <2>3 DEF Cell
    <3>3. At(n, j) = Whole(x) + j /\ Missing(x) # 0
      BY <1>2, <1>3, <3>1 DEF FirstObject
    <3>4. pad[j] = Padded(x)[Whole(x) + j]
      BY <1>2, <3>1, <3>3, PadOfIs DEF Ready
    <3> QED
      BY <2>1, <3>2, <3>3, <3>4
  <2> QED
    BY <2>2, <2>3
<1>7. Len(done') <= Threads'
  BY <1>3, <1>5
<1>8. Running(Padded(plain.data), plain.key)'
  BY <1>1, <1>5, <1>6, <1>7 DEF Running
<1> QED
  BY <1>4, <1>8 DEF Encrypting

\* What the threads of encrypt leave is the reference cipher.
LEMMA EncryptEnds ==
  ASSUME TypeOK, Encrypting, Encrypted
  PROVE  Encrypting'
<1> DEFINE x == plain.data
           k == plain.key
<1>1. /\ pc = "encrypt" /\ Joined /\ enc' = TRUE /\ pc' = "idle"
      /\ UNCHANGED <<buf, key, ctr, len, cms, pad, done, plain>>
  BY DEF Encrypted
<1>2. FirstObject /\ TailKept /\ Running(Padded(x), k)
  BY <1>1 DEF Encrypting
<1>3. x \in Seq(Byte) /\ k \in Keys
  BY PlainTyped
<1>4. /\ Blocks \in Nat /\ Parts \in {Blocks, Blocks + 1} /\ Parts \in Nat
      /\ Parts = Blocks <=> cms = 0
      /\ \A n \in 1..Blocks, j \in 1..Dim : At(n, j) \in 1..len
      /\ \A j \in 1..Dim : At(Blocks + 1, j) = len + j
      /\ len \in Nat
      /\ Len(Padded(x)) = IF cms = 0 THEN len ELSE len + Dim
  BY <1>2, PartsOfFile
<1>5. FirstObject' /\ TailKept'
  BY <1>1, <1>2 DEF FirstObject, TailKept
<1>6. Blocks' = Blocks /\ Parts' = Parts /\ Threads = Parts
  BY <1>1 DEF Blocks, Parts, Threads
<1>7. \A n \in 1..Threads, j \in 1..Dim :
        Cell(n, j) = ByteXor[<<Padded(x)[At(n, j)], Stream(k, n - 1)[j]>>]
  <2>1. PICK y : y = Padded(x)
    OBVIOUS
  <2>2. Running(y, k)
    BY <1>2, <2>1
  <2>3. \A n \in 1..Threads, j \in 1..Dim :
          Cell(n, j) = ByteXor[<<y[At(n, j)], Stream(k, n - 1)[j]>>]
    BY <1>1, <2>2, RunJoined
  <2> QED
    BY <2>1, <2>3
<1>8. ASSUME NEW n \in 1..Parts, NEW j \in 1..Dim
      PROVE  Cell(n, j)' = Cipher(x, k)[At(n, j)]
  <2>1. n \in Nat \ {0} /\ At(n, j) <= Len(Padded(x))
    <3>1. CASE n <= Blocks
      <4>1. At(n, j) \in 1..len
        BY <1>4, <3>1
      <4> QED
        BY <1>4, <4>1, ByteFacts
    <3>2. CASE ~(n <= Blocks)
      <4>1. n = Blocks + 1 /\ cms # 0
        BY <1>4, <3>2
      <4> QED
        BY <1>4, <4>1, ByteFacts
    <3> QED
      BY <3>1, <3>2
  <2>2. Cipher(x, k)[At(n, j)] = ByteXor[<<Padded(x)[At(n, j)], Stream(k, n - 1)[j]>>]
    BY <1>3, <2>1, CipherIs
  <2>3. Cell(n, j)' = Cell(n, j)
    BY <1>1, <1>6 DEF Cell
  <2> QED
    BY <1>6, <1>7, <2>2, <2>3
<1>9. Holds(Cipher(plain.data, plain.key))'
  BY <1>1, <1>6, <1>8 DEF Holds
<1> QED
  BY <1>1, <1>5, <1>9 DEF Encrypting

\* What is saved is the reference cipher, of a file with a whole block.
LEMMA SavedCipher ==
  ASSUME TypeOK, Encrypting, Save
  PROVE  file' = IF Whole(plain.data) = 0 THEN <<>> ELSE Cipher(plain.data, plain.key)
<1> DEFINE x == plain.data
           c == Cipher(plain.data, plain.key)
<1>1. pc = "idle" /\ file' = IF len <= 0 THEN <<>> ELSE SubSeq(buf, 1, len) \o FinalBlock
  BY DEF Save, Idle
<1>2. FirstObject /\ enc /\ Holds(c)
  BY <1>1 DEF Encrypting
<1>3. x \in Seq(Byte) /\ plain.key \in Keys
  BY PlainTyped
<1>4. /\ Blocks \in Nat /\ Parts \in {Blocks, Blocks + 1} /\ Parts \in Nat
      /\ Parts = Blocks <=> cms = 0
      /\ \A n \in 1..Blocks, j \in 1..Dim : At(n, j) \in 1..len
      /\ \A i \in 1..len : \E n \in 1..Blocks, j \in 1..Dim : i = At(n, j)
      /\ \A j \in 1..Dim : At(Blocks + 1, j) = len + j
      /\ len \in Nat
      /\ Len(Padded(x)) = IF cms = 0 THEN len ELSE len + Dim
  BY <1>2, PartsOfFile
<1>5. c \in Seq(Byte) /\ Len(c) = Len(Padded(x))
  BY <1>3, CipherIs
<1>6. buf \in Seq(Byte) /\ Len(buf) \in Nat /\ len <= Len(buf) /\ pad \in [1..Dim -> Byte] /\ Dim \in Nat
  BY ByteFacts DEF TypeOK, Block
<1>7. CASE len <= 0
  BY <1>1, <1>2, <1>4, <1>7 DEF FirstObject
<1>8. CASE ~(len <= 0)
  <2> DEFINE s == SubSeq(buf, 1, len)
             t == FinalBlock
  <2>1. s \in Seq(Byte) /\ Len(s) = len /\ \A i \in 1..len : s[i] = buf[i]
    <3>1. \A i \in 1..len : buf[i] \in Byte
      BY <1>4, <1>6
    <3> HIDE DEF s
    <3>2. s \in Seq(Byte) /\ Len(s) = (IF 1 <= len THEN len - 1 + 1 ELSE 0)
          /\ \A i \in 1..(len - 1 + 1) : s[i] = buf[1 + i - 1]
      BY <1>4, <3>1, SubSeqProperties DEF s
    <3> QED
      BY <1>4, <1>8, <3>2
  <2>2. \A i \in 1..len : buf[i] = c[i]
    <3> SUFFICES ASSUME NEW i \in 1..len
                 PROVE  buf[i] = c[i]
      OBVIOUS
    <3>1. PICK n \in 1..Blocks, j \in 1..Dim : i = At(n, j)
      BY <1>4
    <3>2. n \in 1..Parts /\ n <= Blocks
      BY <1>4
    <3> QED
      BY <1>2, <3>1, <3>2 DEF Holds, Cell
  <2>3. t \in Seq(Byte) /\ Len(t) = (IF cms = 0 THEN 0 ELSE Dim)
        /\ (cms # 0 => \A j \in 1..Dim : t[j] = pad[j])
    <3>1. CASE cms = 0
      BY <3>1 DEF FinalBlock
    <3>2. CASE cms # 0
      <4>1. t = SubSeq(pad, 1, Dim)
        BY <1>2, <3>2 DEF FinalBlock, FinalBlockSize
      <4>2. \A i \in 1..Dim : pad[i] \in Byte
        BY <1>6
      <4> HIDE DEF t
      <4>3. t \in Seq(Byte) /\ Len(t) = (IF 1 <= Dim THEN Dim - 1 + 1 ELSE 0)
            /\ \A i \in 1..(Dim - 1 + 1) : t[i] = pad[1 + i - 1]
        BY <1>6, <4>1, <4>2, SubSeqProperties
      <4>4. Dim >= 1
        BY ByteFacts
      <4> QED
        BY <1>6, <3>2, <4>3, <4>4
    <3> QED
      BY <3>1, <3>2
  <2>4. cms # 0 => \A j \in 1..Dim : pad[j] = c[len + j]
    <3> SUFFICES ASSUME cms # 0, NEW j \in 1..Dim
                 PROVE  pad[j] = c[len + j]
      OBVIOUS
    <3>1. Parts = Blocks + 1 /\ Blocks + 1 \in 1..Parts /\ ~(Blocks + 1 <= Blocks)
      BY <1>4
    <3>2. Cell(Blocks + 1, j) = pad[j]
      BY <3>1 DEF Cell
    <3>3. Cell(Blocks + 1, j) = c[At(Blocks + 1, j)]
      BY <1>2, <3>1 DEF Holds
    <3> QED
      BY <1>4, <3>2, <3>3
  <2>5. file' = s \o t
    BY <1>1, <1>8
  <2> HIDE DEF s, t, c
  <2>6. /\ s \o t \in Seq(Byte) /\ Len(s \o t) = len + Len(t)
        /\ \A i \in 1..(len + Len(t)) : (s \o t)[i] = IF i <= len THEN s[i] ELSE t[i - len]
    BY <2>1, <2>3, ConcatProperties
  <2>7. ASSUME NEW i \in 1..Len(c)
        PROVE  (s \o t)[i] = c[i]
    <3>1. CASE i <= len
      <4>1. i \in 1..len /\ i \in 1..(len + Len(t))
        BY <1>4, <1>5, <1>6, <2>3, <3>1
      <4> QED
        BY <2>1, <2>2, <2>6, <3>1, <4>1
    <3>2. CASE ~(i <= len)
      <4>1. cms # 0 /\ i - len \in 1..Dim /\ i \in 1..(len + Len(t)) /\ len + (i - len) = i
        BY <1>4, <1>5, <1>6, <2>3, <3>2
      <4>2. (s \o t)[i] = t[i - len] /\ t[i - len] = pad[i - len]
        BY <2>3, <2>6, <3>2, <4>1
      <4> QED
        BY <2>4, <4>1, <4>2
    <3> QED
      BY <3>1, <3>2
  <2>8. Len(s \o t) = Len(c)
    BY <1>4, <1>5, <1>6, <2>3, <2>6
  <2>9. s \o t = c
    BY <1>5, <2>6, <2>7, <2>8, SeqEqual
  <2>10. Whole(plain.data) # 0
    BY <1>2, <1>4, <1>8 DEF FirstObject
  <2> QED
    BY <2>5, <2>9, <2>10 DEF c
<1> QED
  BY <1>7, <1>8

-----------------------------------------------------------------------------
(* decrypt, in a new object and in place. *)

\* A padded file is a number of whole blocks.
LEMMA PaddedBlocks ==
  ASSUME NEW x \in Seq(Byte)
  PROVE  \E d \in Nat : /\ Len(Padded(x)) = Dim * d
                        /\ Whole(x) # 0 => d # 0 /\ Dim <= Len(Padded(x)) /\ Dim <= Whole(x)
<1> DEFINE l == Len(x)
           r == l % Dim
           d == l \div Dim
           w == Whole(x)
           m == Missing(x)
           q == Len(Padded(x))
<1>1. /\ l \in Nat /\ r \in 0..(Dim - 1) /\ d \in Nat
      /\ w = Dim * d /\ w \in 0..l /\ l = w + r
      /\ m = IF r = 0 THEN 0 ELSE Dim - r
  BY Lengths
<1>2. Dim \in Nat \ {0}
  BY ByteFacts
<1>3. q = l + m
  BY PaddedIs
<1> HIDE DEF l, r, d, w, m, q
<1>4. w # 0 => d # 0 /\ Dim <= w
  <2>1. d # 0 => Dim <= Dim * d
    BY <1>1, <1>2
  <2> QED
    BY <1>1, <1>2, <2>1
<1>5. CASE r = 0
  <2>1. q = Dim * d
    BY <1>1, <1>3, <1>5
  <2> QED
    BY <1>1, <1>4, <2>1 DEF w, q
<1>6. CASE r # 0
  <2>1. q = w + Dim
    BY <1>1, <1>2, <1>3, <1>6
  <2>2. Dim * (d + 1) = Dim * d + Dim
    BY <1>1, <1>2
  <2>3. q = Dim * (d + 1) /\ d + 1 \in Nat /\ d + 1 # 0
    BY <1>1, <2>1, <2>2
  <2>4. Dim <= q
    BY <1>1, <1>2, <2>1
  <2> QED
    BY <1>4, <2>3, <2>4 DEF w, q
<1> QED
  BY <1>5, <1>6

\* The blocks of the encrypted file.
LEMMA SecondBlocks ==
  ASSUME TypeOK, SecondObject
  PROVE  /\ Blocks \in Nat /\ len \in Nat /\ Dim <= len
         /\ \A n \in 1..Blocks, j \in 1..Dim : At(n, j) \in 1..len
         /\ \A c \in 1..len : \E n \in 1..Blocks, j \in 1..Dim : c = At(n, j)
<1>1. plain.data \in Seq(Byte)
  BY PlainTyped
<1>2. PICK d \in Nat : /\ Len(Padded(plain.data)) = Dim * d
                       /\ Whole(plain.data) # 0 => d # 0 /\ Dim <= Len(Padded(plain.data))
  BY <1>1, PaddedBlocks
<1>3. len = Dim * d /\ Dim <= len
  BY <1>2 DEF SecondObject
<1>4. len \in Nat
  BY <1>3, ByteFacts
<1>5. /\ Blocks = d
      /\ \A n \in 1..d, j \in 1..Dim : At(n, j) \in 1..len
      /\ \A c \in 1..len : \E n \in 1..d, j \in 1..Dim : c = At(n, j)
  BY <1>3, BlocksOf
<1> QED
  BY <1>3, <1>4, <1>5

\* A new object for a file of the length of the encrypted one has no final block.
LEMMA Reloaded ==
  ASSUME TypeOK, NEW c \in Seq(Byte), NEW k, Construct(c, k), plain' = plain,
         Len(c) = Len(Padded(plain.data)), Whole(plain.data) # 0
  PROVE  SecondObject' /\ buf' = c
<1>1. plain.data \in Seq(Byte)
  BY PlainTyped
<1>2. PICK d \in Nat : Len(c) = Dim * d
  BY <1>1, PaddedBlocks
<1> DEFINE l == Len(c)
<1>3. l \in Nat /\ l = Dim * d + 0 /\ Dim \in Nat \ {0} /\ 0 \in 0..(Dim - 1)
  BY <1>2, ByteFacts
<1>4. l % Dim = 0
  <2> HIDE DEF l
  <2> QED
    BY <1>3, OnlyDivision
<1>5. Missing(c) = 0 /\ l = Whole(c) + 0 /\ Whole(c) \in 0..l
  BY <1>4, Lengths
<1>6. Whole(c) = Len(c)
  BY <1>3, <1>5
<1> QED
  BY <1>5, <1>6 DEF Construct, SecondObject

\* decrypt starts with the encrypted blocks in the buffer.  (the same object)
LEMMA DecryptStarts ==
  ASSUME TypeOK, Encrypting, pc = "idle", pc' = "decrypt", done' = <<>>,
         UNCHANGED <<buf, object, plain>>
  PROVE  FirstObject' /\ TailKept' /\ Running(Cipher(plain.data, plain.key), plain.key)'
<1>1. UNCHANGED <<buf, key, ctr, len, cms, pad, enc, plain>>
  BY DEF object
<1>2. FirstObject /\ TailKept /\ Holds(Cipher(plain.data, plain.key))
  BY DEF Encrypting
<1>3. Blocks \in Nat /\ Parts \in {Blocks, Blocks + 1}
  BY <1>2, PartsOfFile
<1>4. FirstObject' /\ TailKept'
  BY <1>1, <1>2 DEF FirstObject, TailKept
<1>5. Blocks' = Blocks /\ Threads' = Blocks
  BY <1>1, <1>3 DEF Blocks, Threads
<1>6. PICK c : c = Cipher(plain.data, plain.key)
  OBVIOUS
<1>7. PICK k : k = plain.key
  OBVIOUS
<1>8. Cipher(plain.data, plain.key)' = c /\ plain.key' = k
  BY <1>1, <1>6, <1>7
<1>9. ASSUME NEW n \in 1..Blocks, NEW j \in 1..Dim
      PROVE  Cell(n, j)' = c[At(n, j)] /\ ~Passed(n, j)'
  <2>1. n \in 1..Parts
    BY <1>3
  <2>2. Cell(n, j) = c[At(n, j)]
    BY <1>2, <1>6, <2>1 DEF Holds
  <2>3. Cell(n, j)' = Cell(n, j)
    BY <1>1, <1>5 DEF Cell
  <2> QED
    BY <2>2, <2>3 DEF Passed
<1>10. Len(done') <= Threads'
  BY <1>3, <1>5
<1>11. Running(c, k)'
  BY <1>5, <1>9, <1>10 DEF Running
<1> QED
  BY <1>4, <1>8, <1>11

\* The same for the object that loaded the encrypted file.
LEMMA DecryptStartsAgain ==
  ASSUME TypeOK, SecondObject, buf = Cipher(plain.data, plain.key),
         pc' = "decrypt", done' = <<>>, UNCHANGED <<buf, object, plain>>
  PROVE  SecondObject' /\ Running(Cipher(plain.data, plain.key), plain.key)'
<1>1. UNCHANGED <<buf, key, ctr, len, cms, pad, enc, plain>>
  BY DEF object
<1>2. Blocks \in Nat
  BY SecondBlocks
<1>3. SecondObject'
  BY <1>1 DEF SecondObject
<1>4. Blocks' = Blocks /\ Threads' = Blocks
  BY <1>1, <1>2 DEF Blocks, Threads
<1>5. PICK c : c = Cipher(plain.data, plain.key)
  OBVIOUS
<1>6. PICK k : k = plain.key
  OBVIOUS
<1>7. Cipher(plain.data, plain.key)' = c /\ plain.key' = k
  BY <1>1, <1>5, <1>6
<1>8. ASSUME NEW n \in 1..Blocks, NEW j \in 1..Dim
      PROVE  Cell(n, j)' = c[At(n, j)] /\ ~Passed(n, j)'
  <2>1. n <= Blocks
    BY <1>2
  <2> QED
    BY <1>1, <1>4, <1>5, <2>1 DEF Cell, Passed
<1>9. Len(done') <= Threads'
  BY <1>2, <1>4
<1>10. Running(c, k)'
  BY <1>4, <1>8, <1>9 DEF Running
<1> QED
  BY <1>3, <1>7, <1>10

\* What the threads of decrypt leave is the padded file: the same stream again.
LEMMA DecryptedBytes ==
  ASSUME TypeOK, NEW x \in Seq(Byte), NEW k \in Keys, NEW c, c = Cipher(x, k),
         Running(c, k), Joined, pc = "decrypt"
  PROVE  \A n \in 1..Blocks, j \in 1..Dim :
           At(n, j) <= Len(Padded(x)) => buf[At(n, j)] = Padded(x)[At(n, j)]
<1> SUFFICES ASSUME NEW n \in 1..Blocks, NEW j \in 1..Dim, At(n, j) <= Len(Padded(x))
             PROVE  buf[At(n, j)] = Padded(x)[At(n, j)]
  OBVIOUS
<1>1. Blocks \in Nat
  BY BlocksInside
<1>2. Threads = Blocks /\ n <= Blocks /\ n \in Nat \ {0}
  BY <1>1 DEF Threads
<1>3. \A a \in 1..Threads, b \in 1..Dim :
        Cell(a, b) = ByteXor[<<c[At(a, b)], Stream(k, a - 1)[b]>>]
  BY RunJoined
<1>4. buf[At(n, j)] = ByteXor[<<c[At(n, j)], Stream(k, n - 1)[j]>>]
  BY <1>2, <1>3 DEF Cell
<1>5. /\ Padded(x)[At(n, j)] \in Byte
      /\ Stream(k, n - 1)[j] \in Byte
      /\ c[At(n, j)] = ByteXor[<<Padded(x)[At(n, j)], Stream(k, n - 1)[j]>>]
  BY <1>2, CipherIs
<1> QED
  BY <1>4, <1>5, XorFacts

\* A payload that holds a whole block is never left by the search for the padding.
LEMMA SearchStays ==
  ASSUME TypeOK, Dim <= len
  PROVE  ~SearchLeaves
<1>1. len \in Int /\ Dim \in Nat \ {0}
  BY ByteFacts DEF TypeOK
<1>2. len >= 1 /\ (len + 1)..(Dim - 1) = {}
  BY <1>1
<1> QED
  BY <1>1, <1>2 DEF SearchLeaves

\* decrypt of the file that was encrypted finds the padded file, and its padding.
LEMMA DecryptEndsAgain ==
  ASSUME TypeOK, SecondObject, Running(Cipher(plain.data, plain.key), plain.key),
         NEW p \in 0..(Dim - 1), Decrypted(p)
  PROVE  /\ buf' = Padded(plain.data)
         /\ ~Aligned(plain.data) => len' = Len(plain.data)
<1> DEFINE x == plain.data
           m == Missing(x)
           r == Len(x) % Dim
<1>1. /\ pc = "decrypt" /\ Joined /\ p \in Guesses
      /\ buf' = buf /\ len' = len - p
  BY DEF Decrypted
<1>2. x \in Seq(Byte) /\ plain.key \in Keys
  BY PlainTyped
<1>3. /\ Blocks \in Nat /\ len \in Nat /\ Dim <= len
      /\ \A i \in 1..len : \E n \in 1..Blocks, j \in 1..Dim : i = At(n, j)
  BY SecondBlocks
<1>4. len = Len(Padded(x)) /\ Len(buf) = len /\ buf \in Seq(Byte) /\ DOMAIN buf = 1..len
  BY DEF SecondObject, TypeOK
<1>5. PICK c : c = Cipher(x, plain.key)
  OBVIOUS
<1>6. Running(c, plain.key)
  BY <1>5
<1>7. \A n \in 1..Blocks, j \in 1..Dim :
        At(n, j) <= Len(Padded(x)) => buf[At(n, j)] = Padded(x)[At(n, j)]
  BY <1>1, <1>2, <1>5, <1>6, DecryptedBytes
<1>8. \A i \in 1..len : buf[i] = Padded(x)[i]
  <2> SUFFICES ASSUME NEW i \in 1..len
               PROVE  buf[i] = Padded(x)[i]
    OBVIOUS
  <2>1. PICK n \in 1..Blocks, j \in 1..Dim : i = At(n, j)
    BY <1>3
  <2>2. At(n, j) <= Len(Padded(x))
    BY <1>3, <1>4, <2>1
  <2> QED
    BY <1>7, <2>1, <2>2
<1>9. /\ Padded(x) \in Seq(Byte)
      /\ Len(Padded(x)) = Len(x) + m
      /\ \A i \in (Len(x) + 1)..(Len(x) + m) : Padded(x)[i] = m
  BY <1>2, PaddedIs
<1>10. buf = Padded(x)
  BY <1>4, <1>8, <1>9, SeqEqual
<1>11. ASSUME ~Aligned(x)
       PROVE  len' = Len(x)
  <2>1. /\ Len(x) \in Nat /\ r \in 0..(Dim - 1) /\ m = IF r = 0 THEN 0 ELSE Dim - r
    BY <1>2, Lengths
  <2>2. r # 0
    BY <1>11 DEF Aligned
  <2>3. Dim \in Nat \ {0}
    BY ByteFacts
  <2> DEFINE l == Len(x)
  <2> HIDE DEF r, m, l
  <2>4. m \in 1..(Dim - 1) /\ len = l + m /\ l \in Nat
    BY <1>4, <1>9, <2>1, <2>2, <2>3 DEF l
  <2>5. \A j \in 0..(m - 1) : buf[len - j] = m
    <3> SUFFICES ASSUME NEW j \in 0..(m - 1)
                 PROVE  buf[len - j] = m
      OBVIOUS
    <3>1. len - j \in (l + 1)..(l + m)
      BY <2>3, <2>4
    <3> QED
      BY <1>9, <1>10, <3>1 DEF l
  <2>6. IsPadding(m) /\ buf[len] = m
    <3>1. 0 \in 0..(m - 1) /\ len - 0 = len
      BY <2>3, <2>4
    <3>2. buf[len] = m
      BY <2>5, <3>1
    <3> QED
      BY <2>4, <2>5, <3>2 DEF IsPadding
  <2>7. ~SearchLeaves
    BY <1>3, SearchStays
  <2>8. p = m
    BY <1>1, <2>6, <2>7 DEF Guesses
  <2>9. len' = l
    BY <1>1, <2>4, <2>8, <2>3
  <2> QED
    BY <2>9 DEF l
<1> QED
  BY <1>1, <1>10, <1>11

\* decrypt in place finds the file, and the object it was when it was loaded, unless
\* the whole blocks end like a padding.
LEMMA DecryptEndsInPlace ==
  ASSUME TypeOK, FirstObject, TailKept, Running(Cipher(plain.data, plain.key), plain.key),
         NEW p \in 0..(Dim - 1), Decrypted(p)
  PROVE  buf' = plain.data /\ (Stable => Ready')
<1> DEFINE x == plain.data
           m == Missing(x)
           r == Len(x) % Dim
           l == Len(x)
           w == Whole(x)
<1>1. /\ pc = "decrypt" /\ Joined /\ p \in Guesses
      /\ UNCHANGED <<buf, key, ctr, plain>> /\ len' = len - p
      /\ cms' = IF p = 0 THEN cms ELSE p
  BY DEF Decrypted
<1>2. x \in Seq(Byte) /\ plain.key \in Keys
  BY PlainTyped
<1>3. /\ Blocks \in Nat /\ len \in Nat
      /\ \A i \in 1..len : \E n \in 1..Blocks, j \in 1..Dim : i = At(n, j)
      /\ Len(Padded(x)) = IF cms = 0 THEN len ELSE len + Dim
  BY PartsOfFile
<1>4. len = w /\ cms = m /\ Len(buf) = l /\ buf \in Seq(Byte) /\ DOMAIN buf = 1..l
  BY DEF FirstObject, TypeOK
<1>5. PICK c : c = Cipher(x, plain.key)
  OBVIOUS
<1>6. Running(c, plain.key)
  BY <1>5
<1>7. \A n \in 1..Blocks, j \in 1..Dim :
        At(n, j) <= Len(Padded(x)) => buf[At(n, j)] = Padded(x)[At(n, j)]
  BY <1>1, <1>2, <1>5, <1>6, DecryptedBytes
<1>8. \A i \in 1..l : Padded(x)[i] = x[i]
  BY <1>2, PaddedIs
<1>9. /\ l \in Nat /\ r \in 0..(Dim - 1) /\ w \in 0..l /\ l = w + r
      /\ m = IF r = 0 THEN 0 ELSE Dim - r
  BY <1>2, Lengths
<1>10. Dim \in Nat \ {0}
  BY ByteFacts
<1>11. \A i \in 1..l : buf[i] = x[i]
  <2> SUFFICES ASSUME NEW i \in 1..l
               PROVE  buf[i] = x[i]
    OBVIOUS
  <2>1. CASE i <= w
    <3>1. i \in 1..len
      BY <1>4, <1>9, <2>1
    <3>2. PICK n \in 1..Blocks, j \in 1..Dim : i = At(n, j)
      BY <1>3, <3>1
    <3>3. At(n, j) <= Len(Padded(x))
      BY <1>3, <1>10, <3>1, <3>2
    <3> QED
      BY <1>7, <1>8, <3>2, <3>3
  <2>2. CASE ~(i <= w)
    <3>1. i \in (w + 1)..l
      BY <1>9, <2>2
    <3> QED
      BY <3>1 DEF TailKept
  <2> QED
    BY <2>1, <2>2
<1>12. buf = x
  BY <1>2, <1>4, <1>11, SeqEqual
<1>13. ASSUME Stable
       PROVE  Ready'
  <2>1. Dim <= len /\ ~EndsLikePadding(x)
    <3>1. PICK d \in Nat : w # 0 => d # 0 /\ Dim <= Len(Padded(x)) /\ Dim <= w
      BY <1>2, PaddedBlocks
    <3> QED
      BY <1>4, <1>13, <3>1 DEF Stable
  <2>2. ~SearchLeaves
    BY <2>1, SearchStays
  <2>3. ~IsPadding(buf[len])
    <3> SUFFICES ASSUME IsPadding(buf[len])
                 PROVE  EndsLikePadding(x)
      BY <2>1
    <3>1. PICK q : q = buf[len]
      OBVIOUS
    <3>2. q \in 1..(Dim - 1) /\ \A j \in 0..(q - 1) : len - j \in DOMAIN buf => buf[len - j] = q
      BY <3>1 DEF IsPadding
    <3>3. ASSUME NEW j \in 0..(q - 1)
          PROVE  x[Whole(x) - j] = q
      <4> HIDE DEF l, w, r, m
      <4>1. len - j \in 1..l
        BY <1>4, <1>9, <1>10, <2>1, <3>2
      <4>2. buf[len - j] = q
        BY <1>4, <3>2, <4>1
      <4> QED
        BY <1>4, <1>12, <4>2 DEF w
    <3> QED
      BY <3>2, <3>3 DEF EndsLikePadding
  <2>4. p = 0
    BY <1>1, <2>2, <2>3 DEF Guesses
  <2>5. cms' = cms /\ len' = len
    BY <1>1, <1>3, <2>4
  <2>6. FirstObject'
    BY <1>1, <2>5 DEF FirstObject
  <2>7. ASSUME cms # 0
        PROVE  pad' = PadOf(x)
    <3>1. PICK outside \in [Outside(len', cms') -> Byte] :
            pad' = [i \in 1..Dim |-> IF i > Dim - cms' THEN cms'
                                     ELSE IF i \in DOMAIN outside THEN outside[i]
                                     ELSE buf[len' + i]]
      BY <2>5, <2>7 DEF Decrypted
    <3>2. r = Dim - cms /\ r \in Nat
      <4> HIDE DEF r, m, l, w
      <4> QED
        BY <1>4, <1>9, <1>10, <2>7
    <3>3. \A i \in 1..r : len + i \in 1..l
      <4> HIDE DEF r, m, l, w
      <4> QED
        BY <1>3, <1>4, <1>9
    <3>4. Outside(len, cms) = {}
      BY <1>4, <3>2, <3>3 DEF Outside
    <3>5. DOMAIN outside = {}
      BY <2>5, <3>4
    <3>6. ASSUME NEW i \in 1..Dim
          PROVE  (IF i > Dim - cms' THEN cms' ELSE IF i \in DOMAIN outside THEN outside[i]
                  ELSE buf[len' + i])
                 = IF i <= Len(x) % Dim THEN x[Whole(x) + i] ELSE Missing(x)
      <4>1. i > Dim - cms <=> ~(i <= r)
        <5> HIDE DEF r
        <5> QED
          BY <3>2, <1>10
      <4> QED
        BY <1>4, <1>12, <2>5, <3>5, <4>1
    <3> QED
      BY <3>1, <3>6 DEF PadOf
  <2> QED
    BY <1>1, <1>12, <2>5, <2>6, <2>7 DEF Ready
<1> QED
  BY <1>1, <1>12, <1>13

-----------------------------------------------------------------------------
(* The steps. *)

\* A new file: nothing has happened to it.
LEMMA LoadKeeps ==
  ASSUME TypeOK, StoryInv, NEW x \in Inputs, NEW k \in Keys, Load(x, k)
  PROVE  StoryInv'
<1>1. /\ Construct(x, k) /\ pc' = "idle" /\ plain' = [data |-> x, key |-> k]
      /\ story' = <<>> /\ done' = done /\ pc \notin {"encrypt", "decrypt"}
  BY DEF Load
<1>2. DoneInv'
  BY <1>1 DEF DoneInv, StoryInv
<1>3. plain'.data = x /\ plain'.key = k
  BY <1>1
<1>4. FirstObject'
  BY <1>1, <1>3 DEF FirstObject, Construct
<1>5. Ready'
  BY <1>1, <1>3, <1>4 DEF Ready, Construct
<1>6. FreshInv'
  BY <1>1, <1>5 DEF FreshInv
<1>7. /\ story' # <<"encrypt">> /\ story' # <<"encrypt", "save">>
      /\ story' # <<"encrypt", "save", "reload">>
      /\ story' # <<"encrypt", "save", "reload", "decrypt">>
      /\ story' # <<"encrypt", "decrypt">> /\ story' # <<"encrypt", "decrypt", "encrypt">>
      /\ story' # <<"encrypt", "decrypt", "encrypt", "save">>
  BY <1>1
<1> QED
  BY <1>2, <1>6, <1>7 DEF StoryInv, EncryptInv, SaveInv, ReloadInv, DecryptInv,
                          InPlaceInv, AgainInv, SavedAgainInv

\* An operation begins.
LEMMA StartKeeps ==
  ASSUME TypeOK, StoryInv, NEW op \in {"encrypt", "decrypt"}, Start(op)
  PROVE  StoryInv'
<1>1. /\ pc = "idle" /\ pc' = op /\ done' = <<>> /\ story' = Append(story, op)
      /\ UNCHANGED <<buf, object, file, plain>> /\ key' = key
  BY DEF Start, Idle, Does, object
<1>2. op \in {"encrypt", "decrypt", "save", "reload", "copy"}
  OBVIOUS
<1>3. /\ story' # <<>>
      /\ story' = <<"encrypt">> => story = <<>> /\ op = "encrypt"
      /\ story' = <<"encrypt", "save">> => op = "save"
      /\ story' = <<"encrypt", "save", "reload">> => op = "reload"
      /\ story' = <<"encrypt", "save", "reload", "decrypt">> =>
           story = <<"encrypt", "save", "reload">> /\ op = "decrypt"
      /\ story' = <<"encrypt", "decrypt">> => story = <<"encrypt">> /\ op = "decrypt"
      /\ story' = <<"encrypt", "decrypt", "encrypt">> =>
           story = <<"encrypt", "decrypt">> /\ op = "encrypt"
      /\ story' = <<"encrypt", "decrypt", "encrypt", "save">> => op = "save"
  BY <1>1, <1>2, StoryBefore
<1>4. DoneInv' /\ FreshInv'
  BY <1>1, <1>3 DEF DoneInv, FreshInv
<1>5. EncryptInv'
  <2> SUFFICES ASSUME story' = <<"encrypt">>
               PROVE  Encrypting'
    BY DEF EncryptInv
  <2>1. story = <<>> /\ op = "encrypt"
    BY <1>3
  <2>2. Ready
    BY <1>1, <2>1 DEF StoryInv, FreshInv
  <2> QED
    BY <1>1, <2>1, <2>2, EncryptStarts
<1>6. InPlaceInv'
  <2> SUFFICES ASSUME story' = <<"encrypt", "decrypt">>
               PROVE  /\ pc' = "decrypt" /\ FirstObject' /\ TailKept'
                      /\ Running(Cipher(plain.data, plain.key), plain.key)'
    BY DEF InPlaceInv
  <2>1. story = <<"encrypt">> /\ op = "decrypt"
    BY <1>3
  <2>2. Encrypting
    BY <2>1 DEF StoryInv, EncryptInv
  <2> QED
    BY <1>1, <2>1, <2>2, DecryptStarts
<1>7. AgainInv'
  <2> SUFFICES ASSUME story' = <<"encrypt", "decrypt", "encrypt">>, Stable'
               PROVE  Encrypting'
    BY DEF AgainInv
  <2>1. story = <<"encrypt", "decrypt">> /\ op = "encrypt"
    BY <1>3
  <2>2. Stable
    BY <1>1 DEF Stable
  <2>3. Ready
    BY <1>1, <2>1, <2>2 DEF StoryInv, InPlaceInv
  <2> QED
    BY <1>1, <2>1, <2>3, EncryptStarts
<1>8. DecryptInv'
  <2> SUFFICES ASSUME story' = <<"encrypt", "save", "reload", "decrypt">>, key' = plain.key'
               PROVE  /\ pc' = "decrypt" /\ SecondObject'
                      /\ Running(Cipher(plain.data, plain.key), plain.key)'
    BY DEF DecryptInv
  <2>1. story = <<"encrypt", "save", "reload">> /\ op = "decrypt"
    BY <1>3
  <2>2. SecondObject /\ buf = Cipher(plain.data, plain.key)
    BY <1>1, <2>1 DEF StoryInv, ReloadInv
  <2> QED
    BY <1>1, <2>1, <2>2, DecryptStartsAgain
<1>9. SaveInv' /\ ReloadInv' /\ SavedAgainInv'
  BY <1>3 DEF SaveInv, ReloadInv, SavedAgainInv
<1> QED
  BY <1>4, <1>5, <1>6, <1>7, <1>8, <1>9 DEF StoryInv

\* The first object goes on with its operation, with the same file.
LEMMA FirstRuns ==
  ASSUME TypeOK, FirstObject, TailKept, pc \in {"encrypt", "decrypt"},
         NEW x, NEW k, k = plain.key, Running(x, k),
         Spawn \/ \E m \in DOMAIN done : XorByte(m)
  PROVE  FirstObject' /\ TailKept' /\ Running(x, k)' /\ UNCHANGED <<pc, enc, plain>>
<1>1. key = k /\ ctr = StartOf[k]
  BY DEF FirstObject
<1>2. /\ Running(x, k)'
      /\ UNCHANGED <<key, ctr, len, cms, enc, pc, file, plain, story>>
      /\ Len(buf') = Len(buf)
      /\ \A c \in 1..Len(buf) : c > len => buf'[c] = buf[c]
  BY <1>1, RunKept
<1> QED
  BY <1>2, FirstKept

\* The threads run.
LEMMA RunKeeps ==
  ASSUME TypeOK, StoryInv, Spawn \/ \E m \in DOMAIN done : XorByte(m)
  PROVE  StoryInv'
<1>1. pc \in {"encrypt", "decrypt"}
  <2>1. CASE Spawn
    BY <2>1 DEF Spawn
  <2>2. ASSUME NEW m \in DOMAIN done, XorByte(m)
        PROVE  pc \in {"encrypt", "decrypt"}
    <3>1. done[m] + 1 \in 1..Dim
      BY <2>2, XorByteIs
    <3>2. done[m] # Dim
      BY <3>1, ByteFacts
    <3> QED
      BY <3>2 DEF StoryInv, DoneInv
  <2> QED
    BY <2>1, <2>2
<1>2. UNCHANGED <<key, ctr, len, cms, enc, pc, file, plain, story>>
  BY DEF Spawn, XorByte, object
<1>3. DoneInv' /\ FreshInv' /\ SaveInv' /\ ReloadInv' /\ SavedAgainInv'
  <2>1. DoneInv'
    BY <1>1, <1>2 DEF DoneInv
  <2>2. FreshInv'
    BY <1>1, <1>2 DEF StoryInv, FreshInv
  <2>3. SaveInv'
    BY <1>1, <1>2 DEF StoryInv, SaveInv
  <2>4. ReloadInv'
    BY <1>1, <1>2 DEF StoryInv, ReloadInv
  <2>5. SavedAgainInv'
    BY <1>1, <1>2 DEF StoryInv, SavedAgainInv, Stable
  <2> QED
    BY <2>1, <2>2, <2>3, <2>4, <2>5
<1>4. ASSUME Encrypting
      PROVE  Encrypting'
  <2>1. /\ FirstObject /\ TailKept
        /\ \/ pc = "encrypt" /\ Running(Padded(plain.data), plain.key)
           \/ pc = "idle"
    BY <1>4 DEF Encrypting
  <2>2. pc = "encrypt"
    BY <1>1, <2>1
  <2>3. PICK x : x = Padded(plain.data)
    OBVIOUS
  <2>4. PICK k : k = plain.key
    OBVIOUS
  <2>5. Running(x, k)
    BY <2>1, <2>2, <2>3, <2>4
  <2>6. FirstObject' /\ TailKept' /\ Running(x, k)' /\ UNCHANGED <<pc, enc, plain>>
    BY <1>1, <2>1, <2>4, <2>5, FirstRuns
  <2>7. Padded(plain.data)' = x /\ plain.key' = k
    BY <2>3, <2>4, <2>6
  <2>8. Running(Padded(plain.data), plain.key)'
    BY <2>6, <2>7
  <2> QED
    BY <2>2, <2>6, <2>8 DEF Encrypting
<1>5. EncryptInv' /\ AgainInv'
  <2>1. EncryptInv'
    BY <1>2, <1>4 DEF StoryInv, EncryptInv
  <2>2. Stable' => Stable
    BY <1>2 DEF Stable
  <2>3. AgainInv'
    BY <1>2, <1>4, <2>2 DEF StoryInv, AgainInv
  <2> QED
    BY <2>1, <2>3
<1>6. InPlaceInv'
  <2> SUFFICES ASSUME story' = <<"encrypt", "decrypt">>
               PROVE  /\ pc' = "decrypt" /\ FirstObject' /\ TailKept'
                      /\ Running(Cipher(plain.data, plain.key), plain.key)'
    BY DEF InPlaceInv
  <2>1. /\ pc = "decrypt" /\ FirstObject /\ TailKept
        /\ Running(Cipher(plain.data, plain.key), plain.key)
    BY <1>1, <1>2 DEF StoryInv, InPlaceInv
  <2>2. PICK x : x = Cipher(plain.data, plain.key)
    OBVIOUS
  <2>3. PICK k : k = plain.key
    OBVIOUS
  <2>4. Running(x, k)
    BY <2>1, <2>2, <2>3
  <2>5. FirstObject' /\ TailKept' /\ Running(x, k)' /\ UNCHANGED <<pc, enc, plain>>
    BY <1>1, <2>1, <2>3, <2>4, FirstRuns
  <2>6. Cipher(plain.data, plain.key)' = x /\ plain.key' = k
    BY <2>2, <2>3, <2>5
  <2>7. Running(Cipher(plain.data, plain.key), plain.key)'
    BY <2>5, <2>6
  <2> QED
    BY <2>1, <2>5, <2>7
<1>7. DecryptInv'
  <2> SUFFICES ASSUME story' = <<"encrypt", "save", "reload", "decrypt">>, key' = plain.key'
               PROVE  /\ pc' = "decrypt" /\ SecondObject'
                      /\ Running(Cipher(plain.data, plain.key), plain.key)'
    BY DEF DecryptInv
  <2>1. key = plain.key
    BY <1>2
  <2>2. /\ pc = "decrypt" /\ SecondObject
        /\ Running(Cipher(plain.data, plain.key), plain.key)
    BY <1>1, <1>2, <2>1 DEF StoryInv, DecryptInv
  <2>3. PICK x : x = Cipher(plain.data, plain.key)
    OBVIOUS
  <2>4. PICK k : k = plain.key
    OBVIOUS
  <2>5. Running(x, k) /\ key = k /\ ctr = StartOf[k]
    BY <2>1, <2>2, <2>3, <2>4 DEF SecondObject
  <2>6. Running(x, k)' /\ Len(buf') = Len(buf)
    BY <1>1, <2>5, RunKept
  <2>7. SecondObject'
    BY <1>2, <2>2, <2>6 DEF SecondObject
  <2>8. Cipher(plain.data, plain.key)' = x /\ plain.key' = k
    BY <1>2, <2>3, <2>4
  <2>9. Running(Cipher(plain.data, plain.key), plain.key)'
    BY <2>6, <2>8
  <2> QED
    BY <1>2, <2>2, <2>7, <2>9
<1> QED
  BY <1>3, <1>5, <1>6, <1>7 DEF StoryInv

\* The threads of encrypt are joined.
LEMMA EncryptedKeeps ==
  ASSUME TypeOK, StoryInv, Encrypted
  PROVE  StoryInv'
<1>1. /\ pc = "encrypt" /\ Joined /\ pc' = "idle"
      /\ UNCHANGED <<buf, key, len, done, file, plain, story>>
  BY DEF Encrypted
<1>2. DoneInv'
  BY <1>1 DEF DoneInv, Joined
<1>3. FreshInv' /\ SaveInv' /\ ReloadInv' /\ SavedAgainInv'
  <2>1. FreshInv'
    BY <1>1 DEF StoryInv, FreshInv
  <2>2. SaveInv'
    BY <1>1 DEF StoryInv, SaveInv
  <2>3. ReloadInv'
    BY <1>1 DEF StoryInv, ReloadInv
  <2>4. SavedAgainInv'
    BY <1>1 DEF StoryInv, SavedAgainInv, Stable
  <2> QED
    BY <2>1, <2>2, <2>3, <2>4
<1>4. EncryptInv'
  BY <1>1, EncryptEnds DEF StoryInv, EncryptInv
<1>5. AgainInv'
  <2>1. Stable' => Stable
    BY <1>1 DEF Stable
  <2> QED
    BY <1>1, <2>1, EncryptEnds DEF StoryInv, AgainInv
<1>6. InPlaceInv'
  BY <1>1 DEF StoryInv, InPlaceInv
<1>7. DecryptInv'
  BY <1>1 DEF StoryInv, DecryptInv
<1> QED
  BY <1>2, <1>3, <1>4, <1>5, <1>6, <1>7 DEF StoryInv

\* The threads of decrypt are joined and the padding is removed.
LEMMA DecryptedKeeps ==
  ASSUME TypeOK, StoryInv, NEW p \in 0..(Dim - 1), Decrypted(p)
  PROVE  StoryInv'
<1>1. /\ pc = "decrypt" /\ Joined /\ pc' = "idle"
      /\ UNCHANGED <<buf, key, done, file, plain, story>>
  BY DEF Decrypted
<1>2. DoneInv'
  BY <1>1 DEF DoneInv, Joined
<1>3. Stable' => Stable
  BY <1>1 DEF Stable
<1>4. FreshInv' /\ SaveInv' /\ ReloadInv' /\ SavedAgainInv'
  <2>1. FreshInv'
    BY <1>1 DEF StoryInv, FreshInv
  <2>2. SaveInv'
    BY <1>1 DEF StoryInv, SaveInv
  <2>3. ReloadInv'
    BY <1>1 DEF StoryInv, ReloadInv
  <2>4. SavedAgainInv'
    BY <1>1, <1>3 DEF StoryInv, SavedAgainInv
  <2> QED
    BY <2>1, <2>2, <2>3, <2>4
<1>5. EncryptInv'
  BY <1>1 DEF StoryInv, EncryptInv, Encrypting
<1>6. AgainInv'
  BY <1>1, <1>3 DEF StoryInv, AgainInv, Encrypting
<1>7. InPlaceInv'
  <2> SUFFICES ASSUME story' = <<"encrypt", "decrypt">>
               PROVE  pc' = "idle" /\ buf' = plain.data' /\ (Stable' => Ready')
    BY DEF InPlaceInv
  <2>1. FirstObject /\ TailKept /\ Running(Cipher(plain.data, plain.key), plain.key)
    BY <1>1 DEF StoryInv, InPlaceInv
  <2>2. buf' = plain.data /\ (Stable => Ready')
    BY <2>1, DecryptEndsInPlace
  <2> QED
    BY <1>1, <1>3, <2>2
<1>8. DecryptInv'
  <2> SUFFICES ASSUME story' = <<"encrypt", "save", "reload", "decrypt">>, key' = plain.key'
               PROVE  /\ pc' = "idle" /\ buf' = Padded(plain.data)'
                      /\ ~Aligned(plain.data)' => len' = Len(plain.data)'
    BY DEF DecryptInv
  <2>1. SecondObject /\ Running(Cipher(plain.data, plain.key), plain.key)
    BY <1>1 DEF StoryInv, DecryptInv
  <2>2. buf' = Padded(plain.data) /\ (~Aligned(plain.data) => len' = Len(plain.data))
    BY <2>1, DecryptEndsAgain
  <2>3. Padded(plain.data)' = Padded(plain.data) /\ (Aligned(plain.data)' <=> Aligned(plain.data))
    BY <1>1
  <2> QED
    BY <1>1, <2>2, <2>3
<1> QED
  BY <1>2, <1>4, <1>5, <1>6, <1>7, <1>8 DEF StoryInv

\* The program is ended by a read outside the buffer.
LEMMA CrashKeeps ==
  ASSUME TypeOK, StoryInv, NEW p \in 0..(Dim - 1), DecryptCrashes(p)
  PROVE  StoryInv'
<1>1. /\ pc = "decrypt" /\ Joined /\ pc' = "crashed"
      /\ UNCHANGED <<buf, key, done, file, plain, story>>
  BY DEF DecryptCrashes, object
<1>2. DoneInv'
  BY <1>1 DEF DoneInv, Joined
<1>3. Stable' => Stable
  BY <1>1 DEF Stable
<1>4. FreshInv'
  BY <1>1 DEF StoryInv, FreshInv
<1>5. SaveInv'
  BY <1>1 DEF StoryInv, SaveInv
<1>6. ReloadInv'
  BY <1>1 DEF StoryInv, ReloadInv
<1>7. SavedAgainInv'
  BY <1>1, <1>3 DEF StoryInv, SavedAgainInv
<1>8. EncryptInv'
  BY <1>1 DEF StoryInv, EncryptInv, Encrypting
<1>9. AgainInv'
  BY <1>1, <1>3 DEF StoryInv, AgainInv, Encrypting
<1>10. InPlaceInv' /\ DecryptInv'
  BY <1>1 DEF InPlaceInv, DecryptInv
<1> QED
  BY <1>2, <1>4, <1>5, <1>6, <1>7, <1>8, <1>9, <1>10 DEF StoryInv

\* The result is saved.
LEMMA SaveKeeps ==
  ASSUME TypeOK, StoryInv, Save
  PROVE  StoryInv'
<1>1. /\ pc = "idle" /\ pc' = "idle" /\ story' = Append(story, "save")
      /\ UNCHANGED <<done, plain>>
  BY DEF Save, Idle, Does
<1>2. "save" \in {"encrypt", "decrypt", "save", "reload", "copy"}
  OBVIOUS
<1>3. /\ story' # <<>> /\ story' # <<"encrypt">> /\ story' # <<"encrypt", "save", "reload">>
      /\ story' # <<"encrypt", "save", "reload", "decrypt">>
      /\ story' # <<"encrypt", "decrypt">> /\ story' # <<"encrypt", "decrypt", "encrypt">>
      /\ story' = <<"encrypt", "save">> => story = <<"encrypt">>
      /\ story' = <<"encrypt", "decrypt", "encrypt", "save">> =>
           story = <<"encrypt", "decrypt", "encrypt">>
  BY <1>1, <1>2, StoryBefore
<1>4. DoneInv'
  BY <1>1 DEF StoryInv, DoneInv
<1>5. SaveInv'
  <2> SUFFICES ASSUME story' = <<"encrypt", "save">>
               PROVE  file' = IF Whole(plain.data) = 0 THEN <<>> ELSE Cipher(plain.data, plain.key)
    BY <1>1 DEF SaveInv
  <2>1. Encrypting
    BY <1>3 DEF StoryInv, EncryptInv
  <2> QED
    BY <2>1, SavedCipher
<1>6. SavedAgainInv'
  <2> SUFFICES ASSUME story' = <<"encrypt", "decrypt", "encrypt", "save">>, Stable
               PROVE  file' = Cipher(plain.data, plain.key)
    BY <1>1 DEF SavedAgainInv, Stable
  <2>1. Encrypting
    BY <1>3 DEF StoryInv, AgainInv
  <2>2. Whole(plain.data) # 0
    BY DEF Stable
  <2> QED
    BY <2>1, <2>2, SavedCipher
<1> QED
  BY <1>3, <1>4, <1>5, <1>6 DEF StoryInv, FreshInv, EncryptInv, ReloadInv, DecryptInv,
                                InPlaceInv, AgainInv

\* The saved file is loaded.
LEMMA ReloadKeeps ==
  ASSUME TypeOK, StoryInv, NEW k \in Keys, Reload(k)
  PROVE  StoryInv'
<1>1. /\ pc = "idle" /\ pc' = "idle" /\ story' = Append(story, "reload")
      /\ file # <<>> /\ Construct(file, k) /\ UNCHANGED <<done, plain>>
  BY DEF Reload, Idle, Does
<1>2. "reload" \in {"encrypt", "decrypt", "save", "reload", "copy"}
  OBVIOUS
<1>3. /\ story' # <<>> /\ story' # <<"encrypt">> /\ story' # <<"encrypt", "save">>
      /\ story' # <<"encrypt", "save", "reload", "decrypt">>
      /\ story' # <<"encrypt", "decrypt">> /\ story' # <<"encrypt", "decrypt", "encrypt">>
      /\ story' # <<"encrypt", "decrypt", "encrypt", "save">>
      /\ story' = <<"encrypt", "save", "reload">> => story = <<"encrypt", "save">>
  BY <1>1, <1>2, StoryBefore
<1>4. DoneInv'
  BY <1>1 DEF StoryInv, DoneInv
<1>5. ReloadInv'
  <2> SUFFICES ASSUME story' = <<"encrypt", "save", "reload">>
               PROVE  SecondObject' /\ buf' = Cipher(plain.data, plain.key)
    BY <1>1 DEF ReloadInv
  <2>1. file = IF Whole(plain.data) = 0 THEN <<>> ELSE Cipher(plain.data, plain.key)
    BY <1>3 DEF StoryInv, SaveInv
  <2>2. Whole(plain.data) # 0 /\ file = Cipher(plain.data, plain.key)
    BY <1>1, <2>1
  <2>3. file \in Seq(Byte) /\ Len(file) = Len(Padded(plain.data))
    BY <2>2, PlainTyped, CipherIs
  <2> QED
    BY <1>1, <2>2, <2>3, Reloaded
<1> QED
  BY <1>3, <1>4, <1>5 DEF StoryInv, FreshInv, EncryptInv, SaveInv, DecryptInv,
                          InPlaceInv, AgainInv, SavedAgainInv

\* The caller goes on with a copy: none of the stories that are told.
LEMMA CopyKeeps ==
  ASSUME TypeOK, StoryInv, Copy
  PROVE  StoryInv'
<1>1. /\ pc = "idle" /\ pc' = "idle" /\ story' = Append(story, "copy") /\ done' = done
  BY DEF Copy, Idle, Does
<1>2. "copy" \in {"encrypt", "decrypt", "save", "reload", "copy"}
  OBVIOUS
<1>3. /\ story' # <<>> /\ story' # <<"encrypt">> /\ story' # <<"encrypt", "save">>
      /\ story' # <<"encrypt", "save", "reload">>
      /\ story' # <<"encrypt", "save", "reload", "decrypt">>
      /\ story' # <<"encrypt", "decrypt">> /\ story' # <<"encrypt", "decrypt", "encrypt">>
      /\ story' # <<"encrypt", "decrypt", "encrypt", "save">>
  BY <1>1, <1>2, StoryBefore
<1>4. DoneInv'
  BY <1>1 DEF StoryInv, DoneInv
<1> QED
  BY <1>3, <1>4 DEF StoryInv, FreshInv, EncryptInv, SaveInv, ReloadInv, DecryptInv,
                    InPlaceInv, AgainInv, SavedAgainInv

\* Nothing happens.
LEMMA StutterKeeps ==
  ASSUME TypeOK, StoryInv, UNCHANGED vars
  PROVE  StoryInv'
<1>1. UNCHANGED <<buf, key, ctr, len, cms, pad, enc, pc, done, file, plain, story>>
  BY DEF vars, object
<1>2. DoneInv' /\ FreshInv'
  BY <1>1 DEF StoryInv, DoneInv, FreshInv, Ready, FirstObject
<1>3. Encrypting' <=> Encrypting
  BY <1>1 DEF Encrypting, FirstObject, TailKept, Running, Holds, Parts, Passed, Cell,
              Threads, Blocks
<1>4. EncryptInv' /\ AgainInv'
  BY <1>1, <1>3 DEF StoryInv, EncryptInv, AgainInv, Stable
<1>5. SaveInv' /\ SavedAgainInv'
  BY <1>1 DEF StoryInv, SaveInv, SavedAgainInv, Stable
<1>6. ReloadInv'
  BY <1>1 DEF StoryInv, ReloadInv, SecondObject
<1>7. DecryptInv'
  BY <1>1 DEF StoryInv, DecryptInv, SecondObject, Running, Passed, Cell, Threads, Blocks
<1>8. InPlaceInv'
  BY <1>1 DEF StoryInv, InPlaceInv, FirstObject, TailKept, Ready, Stable, Running, Passed,
              Cell, Threads, Blocks
<1> QED
  BY <1>2, <1>4, <1>5, <1>6, <1>7, <1>8 DEF StoryInv

(***************************************************************************)
(* While the caller's operations are those of a story, the buffer holds    *)
(* what the story says, at every step of every thread.                     *)
(***************************************************************************)
THEOREM Inductive == Spec => []IInv
<1>1. Init => StoryInv
  BY DEF Init, StoryInv, DoneInv, FreshInv, EncryptInv, SaveInv, ReloadInv, DecryptInv,
         InPlaceInv, AgainInv, SavedAgainInv
<1>2. ASSUME TypeOK, StoryInv, [Next]_vars
      PROVE  StoryInv'
  <2>1. ASSUME NEW x \in Inputs, NEW k \in Keys, Load(x, k)
        PROVE  StoryInv'
    BY <1>2, <2>1, LoadKeeps
  <2>2. ASSUME NEW op \in {"encrypt", "decrypt"}, Start(op)
        PROVE  StoryInv'
    BY <1>2, <2>2, StartKeeps
  <2>3. CASE Spawn \/ \E n \in DOMAIN done : XorByte(n)
    BY <1>2, <2>3, RunKeeps
  <2>4. CASE Encrypted
    BY <1>2, <2>4, EncryptedKeeps
  <2>5. ASSUME NEW p \in 0..(Dim - 1), Decrypted(p)
        PROVE  StoryInv'
    BY <1>2, <2>5, DecryptedKeeps
  <2>6. ASSUME NEW p \in 0..(Dim - 1), DecryptCrashes(p)
        PROVE  StoryInv'
    BY <1>2, <2>6, CrashKeeps
  <2>7. CASE Save
    BY <1>2, <2>7, SaveKeeps
  <2>8. ASSUME NEW k \in Keys, Reload(k)
        PROVE  StoryInv'
    BY <1>2, <2>8, ReloadKeeps
  <2>9. CASE Copy
    BY <1>2, <2>9, CopyKeeps
  <2>10. CASE UNCHANGED vars
    BY <1>2, <2>10, StutterKeeps
  <2> QED
    BY <1>2, <2>1, <2>2, <2>3, <2>4, <2>5, <2>6, <2>7, <2>8, <2>9, <2>10 DEF Next
<1>3. Spec => []TypeOK
  BY TypeCorrect
<1>4. TypeOK /\ StoryInv => IInv
  BY DEF IInv
<1> QED
  BY <1>1, <1>2, <1>3, <1>4, PTL DEF Spec

\* What is saved after encrypt is the padded file in counter mode, for every file, key
\* and interleaving of the threads.  (aes256::encrypt, button_calc_aes256)
THEOREM CipherSavedAlways == Spec => []CipherSaved
<1>1. IInv => CipherSaved
  BY DEF IInv, StoryInv, SaveInv, CipherSaved, Told
<1> QED
  BY <1>1, Inductive, PTL

\* A second object with the same key finds the file again, with its length when it was
\* padded.  (aes256::decrypt)
THEOREM RoundTripAlways == Spec => []RoundTrip
<1>1. ASSUME IInv, Told(<<"encrypt", "save", "reload", "decrypt">>), key = plain.key
      PROVE  /\ SubSeq(buf, 1, Len(plain.data)) = plain.data
             /\ ~Aligned(plain.data) => len = Len(plain.data)
  <2> DEFINE x == plain.data
             y == SubSeq(buf, 1, Len(plain.data))
  <2>1. buf = Padded(x) /\ (~Aligned(x) => len = Len(x)) /\ x \in Seq(Byte)
    BY <1>1, PlainTyped DEF IInv, StoryInv, DecryptInv, Told, Idle
  <2>2. /\ Padded(x) \in Seq(Byte) /\ Len(x) \in Nat
        /\ \A i \in 1..Len(x) : Padded(x)[i] = x[i]
    BY <2>1, PaddedIs
  <2>3. \A i \in 1..Len(x) : buf[i] \in Byte /\ buf[i] = x[i]
    BY <2>1, <2>2
  <2>4. y \in Seq(Byte) /\ Len(y) = Len(x) /\ \A i \in 1..Len(x) : y[i] = buf[i]
    <3> HIDE DEF y, x
    <3>1. y \in Seq(Byte) /\ Len(y) = (IF 1 <= Len(x) THEN Len(x) - 1 + 1 ELSE 0)
          /\ \A i \in 1..(Len(x) - 1 + 1) : y[i] = buf[1 + i - 1]
      BY <2>2, <2>3, SubSeqProperties DEF y, x
    <3> QED
      BY <2>2, <3>1
  <2> HIDE DEF y
  <2>5. y = x
    BY <2>1, <2>3, <2>4, SeqEqual
  <2> QED
    BY <2>1, <2>5 DEF y
<1>2. IInv => RoundTrip
  BY <1>1 DEF RoundTrip
<1> QED
  BY <1>2, Inductive, PTL

\* The object that encrypted a file finds it again in its buffer, and encrypts it to the
\* same file again unless its whole blocks end like a padding.  (test A and B)
THEOREM InPlaceAlways == Spec => []InPlace
<1>1. IInv => InPlace
  BY DEF IInv, StoryInv, InPlaceInv, SavedAgainInv, Stable, InPlace, Told, Idle
<1> QED
  BY <1>1, Inductive, PTL
-----------------------------------------------------------------------------
(* The rotations: the greatest common divisor. *)

\* a divides b.
Divides(a, b) == \E q \in Nat : b = q * a

\* What divides a and b divides b and the rest of a, and the other way round.
LEMMA SameDivisors ==
  ASSUME NEW a \in Nat, NEW b \in Nat \ {0}, NEW c \in Nat
  PROVE  Divides(c, a) /\ Divides(c, b) <=> Divides(c, b) /\ Divides(c, a % b)
<1>1. PICK x \in Nat, r \in 0..(b - 1) : r = a % b /\ a = b * x + r
  OBVIOUS
<1>2. ASSUME NEW p \in Nat, NEW q \in Nat, a = p * c, b = q * c
      PROVE  Divides(c, r)
  <2>1. b * x = (q * x) * c /\ q * x \in Nat
    BY <1>2
  <2>2. PICK y \in Nat : y = q * x
    BY <2>1
  <2>3. p * c = y * c + r
    BY <1>1, <1>2, <2>1, <2>2
  <2>4. p >= y \/ c = 0
    <3>1. ASSUME p < y, c # 0 PROVE FALSE
      <4>1. y * c >= p * c + c
        <5>1. PICK e \in Nat : y = p + 1 + e
          <6>1. y - p - 1 \in Nat /\ y = p + 1 + (y - p - 1)
            BY <3>1
          <6> QED
            BY <6>1
        <5>2. y * c = p * c + c + e * c /\ e * c \in Nat
          BY <5>1
        <5> QED
          BY <5>2
      <4>2. p * c \in Nat /\ y * c \in Nat
        OBVIOUS
      <4> QED
        BY <2>3, <3>1, <4>1, <4>2
    <3> QED
      BY <3>1
  <2>5. CASE c = 0
    <3>1. p * c = 0 /\ y * c = 0
      BY <2>5
    <3> QED
      BY <2>3, <3>1 DEF Divides
  <2>6. CASE p >= y
    <3>1. PICK e \in Nat : p = y + e
      BY <2>6
    <3>2. p * c = y * c + e * c /\ e * c \in Nat /\ y * c \in Nat
      BY <3>1
    <3>3. r = e * c
      BY <2>3, <3>2
    <3> QED
      BY <3>3 DEF Divides
  <2> QED
    BY <2>4, <2>5, <2>6
<1>3. ASSUME NEW p \in Nat, NEW q \in Nat, r = p * c, b = q * c
      PROVE  Divides(c, a)
  <2>1. b * x = (q * x) * c /\ q * x \in Nat
    BY <1>3
  <2>2. PICK y \in Nat : y = q * x
    BY <2>1
  <2>3. a = (y + p) * c /\ y + p \in Nat
    BY <1>1, <1>3, <2>1, <2>2
  <2> QED
    BY <2>3 DEF Divides
<1>4. Divides(c, a) /\ Divides(c, b) => Divides(c, r)
  BY <1>2 DEF Divides
<1>5. Divides(c, b) /\ Divides(c, r) => Divides(c, a)
  BY <1>3 DEF Divides
<1> QED
  BY <1>1, <1>4, <1>5

\* A number is told by the numbers that divide it.
LEMMA ToldByDivisors ==
  ASSUME NEW d \in Nat, NEW a \in Nat, \A c \in Nat : Divides(c, d) <=> Divides(c, a)
  PROVE  d = a
<1>1. Divides(d, d) /\ Divides(a, a)
  <2>1. d = 1 * d /\ a = 1 * a
    OBVIOUS
  <2> QED
    BY <2>1 DEF Divides
<1>2. PICK p \in Nat, q \in Nat : a = p * d /\ d = q * a
  BY <1>1 DEF Divides
<1>3. p >= 2 => a >= 2 * d
  <2> HAVE p >= 2
  <2>1. PICK e \in Nat : p = 2 + e
    BY <1>2
  <2>2. a = 2 * d + e * d /\ e * d \in Nat
    BY <1>2, <2>1
  <2> QED
    BY <2>2
<1>4. q >= 2 => d >= 2 * a
  <2> HAVE q >= 2
  <2>1. PICK e \in Nat : q = 2 + e
    BY <1>2
  <2>2. d = 2 * a + e * a /\ e * a \in Nat
    BY <1>2, <2>1
  <2> QED
    BY <2>2
<1>5. /\ (p = 0 => a = 0) /\ (p = 1 => a = d) /\ (q = 0 => d = 0) /\ (q = 1 => d = a)
          /\ (d = 0 => a = 0) /\ (a = 0 => d = 0)
  BY <1>2
<1>6. (p = 0 \/ p = 1 \/ p >= 2) /\ (q = 0 \/ q = 1 \/ q >= 2)
  OBVIOUS
<1> QED
  BY <1>3, <1>4, <1>5, <1>6

\* gcd of aes256.cpp is defined for every two numbers by its recursion.
LEMMA GcdIs ==
  ASSUME NEW a \in Nat, NEW b \in Nat
  PROVE  gcd[<<a, b>>] = IF b = 0 THEN a ELSE gcd[<<b, a % b>>]
<1> DEFINE Is(d, x, y) == d \in Nat /\ \A c \in Nat :
                            Divides(c, d) <=> Divides(c, x) /\ Divides(c, y)
           h == [p \in Nat \X Nat |-> CHOOSE d : Is(d, p[1], p[2])]
           Body(f) == [p \in Nat \X Nat |->
                         IF p[2] = 0 THEN p[1] ELSE f[<<p[2], p[1] % p[2]>>]]
<1>1. \A x, y \in Nat : h[<<x, y>>] = CHOOSE d : Is(d, x, y)
  <2> HIDE DEF Is
  <2> QED
    OBVIOUS
<1>2. ASSUME NEW x \in Nat
      PROVE  h[<<x, 0>>] = x
  <2>1. \A c \in Nat : Divides(c, 0)
    <3>1. \A c \in Nat : 0 = 0 * c
      OBVIOUS
    <3> QED
      BY <3>1 DEF Divides
  <2>2. Is(x, x, 0)
    BY <2>1
  <2>3. \A d : Is(d, x, 0) => d = x
    BY <2>1, ToldByDivisors
  <2>4. h[<<x, 0>>] = CHOOSE d : Is(d, x, 0)
    BY <1>1, Zenon
  <2> HIDE DEF Is, h
  <2>5. (CHOOSE d : Is(d, x, 0)) = x
    BY <2>2, <2>3
  <2> QED
    BY <2>4, <2>5
<1>3. ASSUME NEW x \in Nat, NEW y \in Nat, y # 0
      PROVE  h[<<x, y>>] = h[<<y, x % y>>]
  <2>1. x % y \in Nat
    BY <1>3
  <2>2. \A c \in Nat : Divides(c, x) /\ Divides(c, y) <=> Divides(c, y) /\ Divides(c, x % y)
    BY <1>3, SameDivisors
  <2>3. \A d : Is(d, x, y) <=> Is(d, y, x % y)
    BY <2>2
  <2> HIDE DEF Is, h
  <2>4. (CHOOSE d : Is(d, x, y)) = (CHOOSE d : Is(d, y, x % y))
    BY <2>3
  <2> QED
    BY <1>1, <2>1, <2>4
<1>4. h = Body(h)
  <2>1. \A x, y \in Nat : h[<<x, y>>] = IF y = 0 THEN x ELSE h[<<y, x % y>>]
    <3> HIDE DEF h
    <3> QED
      BY <1>2, <1>3
  <2>2. \A p \in Nat \X Nat : p = <<p[1], p[2]>> /\ p[1] \in Nat /\ p[2] \in Nat
    OBVIOUS
  <2>3. \A p \in Nat \X Nat : h[p] = IF p[2] = 0 THEN p[1] ELSE h[<<p[2], p[1] % p[2]>>]
    <3> HIDE DEF h
    <3> TAKE p \in Nat \X Nat
    <3>1. p = <<p[1], p[2]>> /\ p[1] \in Nat /\ p[2] \in Nat
      BY <2>2
    <3>2. h[<<p[1], p[2]>>] = IF p[2] = 0 THEN p[1] ELSE h[<<p[2], p[1] % p[2]>>]
      BY <2>1, <3>1
    <3> QED
      BY <3>1, <3>2
  <2>4. h = [p \in Nat \X Nat |-> h[p]]
    <3> HIDE DEF Is
    <3> QED
      OBVIOUS
  <2> HIDE DEF h
  <2> QED
    BY <2>3, <2>4
<1>5. \E f : f = Body(f)
  <2> HIDE DEF Body
  <2> QED
    BY <1>4
<1>6. gcd = CHOOSE f : f = Body(f)
  BY DEF gcd
<1>7. gcd = Body(gcd)
  <2> HIDE DEF Body
  <2> QED
    BY <1>5, <1>6
<1>8. gcd[<<a, b>>] = Body(gcd)[<<a, b>>]
  <2> HIDE DEF Body
  <2> QED
    BY <1>7, Zenon
<1> QED
  BY <1>8

\* The greatest common divisor of two positive numbers divides both, and is a
\* multiple of one less a multiple of the other.
LEMMA GcdDivides ==
  ASSUME NEW b \in Nat, NEW a \in Nat, a # 0 \/ b # 0
  PROVE  \E d \in Nat \ {0}, p, q \in Nat, u, v \in Int :
           /\ d = gcd[<<a, b>>] /\ a = d * p /\ b = d * q
           /\ d = u * a + v * b
<1> DEFINE Is(x, y) == \E d \in Nat \ {0}, p, q \in Nat, u, v \in Int :
                         /\ d = gcd[<<x, y>>] /\ x = d * p /\ y = d * q
                         /\ d = u * x + v * y
           S == {y \in Nat : \E x \in Nat : (x # 0 \/ y # 0) /\ ~Is(x, y)}
<1>1. SUFFICES ASSUME S # {} PROVE FALSE
  OBVIOUS
<1>2. PICK y \in S : \A m \in S : y <= m
  <2>1. S \subseteq Nat
    OBVIOUS
  <2> HIDE DEF S
  <2> QED
    BY <1>1, <2>1, Least
<1>3. y \in Nat
  OBVIOUS
<1>4. PICK x \in Nat : (x # 0 \/ y # 0) /\ ~Is(x, y)
  BY <1>2
<1>5. CASE y = 0
  <2>1. gcd[<<x, y>>] = x
    BY <1>5, GcdIs
  <2>2. x \in Nat \ {0} /\ x = x * 1 /\ y = x * 0 /\ x = 1 * x + 0 * y
    BY <1>4, <1>5
  <2>3. Is(x, y)
    <3> x \in Nat \ {0}
      BY <2>2
    <3> WITNESS x \in Nat \ {0}, 1 \in Nat, 0 \in Nat, 1 \in Int, 0 \in Int
    <3> QED
      BY <2>1, <2>2
  <2> QED
    BY <1>4, <2>3
<1>6. CASE y # 0
  <2>1. PICK z \in Nat, r \in 0..(y - 1) : r = x % y /\ x = y * z + r
    BY <1>3, <1>6
  <2>2. gcd[<<x, y>>] = gcd[<<y, r>>]
    BY <1>3, <1>6, <2>1, GcdIs
  <2>3. r \in Nat /\ r < y
    BY <1>3, <2>1
  <2>4. r \notin S
    <3> HIDE DEF S
    <3> QED
      BY <1>2, <1>3, <2>3
  <2>5. Is(y, r)
    BY <1>3, <1>6, <2>3, <2>4
  <2>6. PICK d \in Nat \ {0}, p \in Nat, q \in Nat, u \in Int, v \in Int :
          d = gcd[<<y, r>>] /\ y = d * p /\ r = d * q /\ d = u * y + v * r
    BY <2>5
  <2>7. x = d * (p * z + q) /\ p * z + q \in Nat
    BY <2>1, <2>6
  <2>8. d = v * x + (u - v * z) * y /\ u - v * z \in Int
    <3>1. r = x - y * z
      BY <1>3, <2>1
    <3>2. d = u * y + v * (x - y * z)
      BY <2>6, <3>1
    <3> QED
      BY <1>3, <3>2
  <2>9. Is(x, y)
    BY <2>2, <2>6, <2>7, <2>8
  <2> QED
    BY <1>4, <2>9
<1> QED
  BY <1>5, <1>6

-----------------------------------------------------------------------------
(* The rotations: the places that a movement leads to. *)

\* The place after x, when the places of a line of n are followed by m.
After(n, m, x) == IF x + m >= n THEN x + m - n ELSE x + m

\* It is another place of the line, and it is that of no other place.
LEMMA AfterIs ==
  ASSUME NEW n \in Nat, NEW m \in Nat \ {0}, m < n, NEW x \in Nat, x < n
  PROVE  /\ After(n, m, x) \in 0..(n - 1) /\ After(n, m, x) = (x + m) % n
         /\ After(n, m, x) # x
         /\ \A y \in 0..(n - 1) : After(n, m, x) = After(n, m, y) => x = y
<1>1. CASE x + m >= n
  <2>1. PICK z \in 0..(n - 1) : z = x + m - n
    BY <1>1
  <2>2. n \in Nat \ {0} /\ 1 \in Nat /\ x + m \in Nat /\ x + m = n * 1 + z
    BY <2>1
  <2>3. (x + m) % n = z
    BY <2>2, OnlyDivision
  <2> QED
    BY <1>1, <2>1, <2>3 DEF After
<1>2. CASE x + m < n
  <2>1. (x + m) % n = x + m
    BY <1>2
  <2> QED
    BY <1>2, <2>1 DEF After
<1> QED
  BY <1>1, <1>2

\* Every place of the line leads to the one that is t steps behind.
LEMMA Around ==
  ASSUME NEW n \in Nat, NEW m \in Nat \ {0}, m < n, NEW S, S \subseteq 0..(n - 1),
         NEW c \in S, \A x \in S : After(n, m, x) \in S, NEW t \in Nat
  PROVE  (c + t * m) % n \in S
<1> DEFINE Out == {k \in Nat : (c + k * m) % n \notin S}
<1>1. SUFFICES ASSUME Out # {} PROVE FALSE
  OBVIOUS
<1>2. PICK k \in Out : \A j \in Out : k <= j
  <2>1. Out \subseteq Nat
    OBVIOUS
  <2> HIDE DEF Out
  <2> QED
    BY <1>1, <2>1, Least
<1>3. n \in Nat \ {0} /\ k \in Nat /\ c \in 0..(n - 1)
  OBVIOUS
<1>4. CASE k = 0
  <2>1. c + k * m = c /\ c % n = c
    BY <1>3, <1>4
  <2> QED
    BY <1>2, <2>1
<1>5. CASE k # 0
  <2>1. PICK j \in Nat : j = k - 1
    BY <1>3, <1>5
  <2>2. j \notin Out
    <3> HIDE DEF Out
    <3>1. j < k
      BY <1>3, <2>1
    <3> QED
      BY <1>2, <1>3, <2>1, <3>1
  <2>3. PICK a \in Nat : a = c + j * m
    BY <1>3
  <2>4. a % n \in S
    BY <2>2, <2>3
  <2>5. PICK q \in Nat, x \in Nat : x = a % n /\ a = n * q + x /\ x < n
    BY <1>3, Splitting DEF Splits
  <2>6. After(n, m, x) = (x + m) % n /\ After(n, m, x) \in S
    BY <2>4, <2>5, AfterIs
  <2>7. PICK z \in Nat, y \in Nat : y = (x + m) % n /\ x + m = n * z + y /\ y < n
    <3>1. x + m \in Nat
      OBVIOUS
    <3> QED
      BY <1>3, <3>1, Splitting DEF Splits
  <2>8. PICK b \in Nat : b = c + k * m
    BY <1>3
  <2>9. b = a + m
    BY <1>3, <2>1, <2>3, <2>8
  <2>10. Splits(b, n, q + z, y) /\ q + z \in Nat
    BY <1>3, <2>5, <2>7, <2>9 DEF Splits
  <2>11. b % n = y
    BY <1>3, <2>10, SplitIs
  <2> QED
    BY <1>2, <2>6, <2>7, <2>8, <2>11
<1> QED
  BY <1>4, <1>5

\* The rest by a common divisor is the same all the way.
LEMMA RestKept ==
  ASSUME NEW n \in Nat, NEW m \in Nat \ {0}, m < n, NEW x \in Nat, x < n,
         NEW g \in Nat \ {0}, Divides(g, m), Divides(g, n)
  PROVE  After(n, m, x) % g = x % g
<1> PICK p \in Nat, q \in Nat : m = g * p /\ n = g * q
  BY DEF Divides
<1>1. PICK z \in Nat, r \in Nat : r = x % g /\ x = g * z + r /\ r < g
  BY Splitting DEF Splits
<1>2. CASE x + m < n
  <2>1. PICK e \in Nat, f \in Nat : e = z + p /\ f = x + m
    OBVIOUS
  <2>2. Splits(f, g, e, r)
    BY <1>1, <2>1 DEF Splits
  <2>3. f % g = r
    BY <2>2, SplitIs
  <2> QED
    BY <1>1, <1>2, <2>1, <2>3 DEF After
<1>3. CASE x + m >= n
  <2>1. PICK y \in Nat : y = x + m - n
    BY <1>3
  <2>2. y = g * (z + p - q) + r
    BY <1>1, <2>1
  <2>3. z + p - q >= 0
    <3>1. SUFFICES ASSUME z + p < q PROVE FALSE
      OBVIOUS
    <3>2. PICK e \in Nat : q = z + p + 1 + e
      <4>1. q - z - p - 1 \in Nat /\ q = z + p + 1 + (q - z - p - 1)
        BY <3>1
      <4> QED
        BY <4>1
    <3>3. y = r - g - g * e /\ g * e \in Nat
      BY <2>2, <3>2
    <3> QED
      BY <1>1, <2>1, <3>3
  <2>4. PICK e \in Nat : e = z + p - q
    BY <2>3
  <2>5. Splits(y, g, e, r)
    BY <1>1, <2>2, <2>4 DEF Splits
  <2>6. y % g = r
    BY <2>5, SplitIs
  <2> QED
    BY <1>1, <1>3, <2>1, <2>6 DEF After
<1> QED
  BY <1>2, <1>3

\* A set that holds the place after each of its places holds every place that has
\* the same rest by the greatest common divisor as one of them.
LEMMA WholeCycle ==
  ASSUME NEW n \in Nat, NEW m \in Nat \ {0}, m < n, NEW S, S \subseteq 0..(n - 1),
         NEW c \in S, \A x \in S : After(n, m, x) \in S,
         NEW y \in Nat, y < n, y % gcd[<<m, n>>] = c % gcd[<<m, n>>]
  PROVE  y \in S
<1>1. m \in Nat /\ m # 0
  OBVIOUS
<1>2. PICK g \in Nat \ {0}, p \in Nat, q \in Nat, u \in Int, v \in Int :
        g = gcd[<<m, n>>] /\ m = g * p /\ n = g * q /\ g = u * m + v * n
  BY <1>1, GcdDivides
<1>3. PICK r \in Nat, a \in Nat, b \in Nat : y = g * a + r /\ c = g * b + r
  <2>1. y \in Nat /\ c \in Nat
    OBVIOUS
  <2>2. PICK a \in Nat, s \in Nat : s = y % g /\ y = g * a + s /\ s < g
    BY <2>1, Splitting DEF Splits
  <2>3. PICK b \in Nat, r \in Nat : r = c % g /\ c = g * b + r /\ r < g
    BY <2>1, Splitting DEF Splits
  <2> QED
    BY <1>2, <2>2, <2>3
<1>4. PICK k \in Int : k = a - b
  OBVIOUS
<1>5. y = c + k * g
  BY <1>3, <1>4
<1>6. PICK ku \in Int : ku = k * u
  OBVIOUS
<1>7. PICK kv \in Int : kv = k * v
  OBVIOUS
<1>8. y = c + ku * m + kv * n
  <2>1. k * g = k * (u * m + v * n)
    BY <1>2
  <2>2. k * (u * m + v * n) = ku * m + kv * n
    BY <1>6, <1>7
  <2> QED
    BY <1>5, <2>1, <2>2
<1>9. PICK w \in Nat : w >= ku /\ w >= -ku /\ w >= kv /\ w >= -kv
  <2> DEFINE mag(j) == IF j < 0 THEN -j ELSE j
             w == mag(ku) + mag(kv)
  <2>1. w \in Nat /\ w >= ku /\ w >= -ku /\ w >= kv /\ w >= -kv
    OBVIOUS
  <2> HIDE DEF w
  <2> QED
    BY <2>1
<1>10. w * n >= w /\ w * m >= w
  <2>1. PICK e \in Nat, f \in Nat : n = 1 + e /\ m = 1 + f
    <3>1. n - 1 \in Nat /\ m - 1 \in Nat /\ n = 1 + (n - 1) /\ m = 1 + (m - 1)
      OBVIOUS
    <3> QED
      BY <3>1
  <2>2. w * n = w + w * e /\ w * m = w + w * f /\ w * e \in Nat /\ w * f \in Nat
    BY <2>1
  <2> QED
    BY <2>2
<1>11. PICK t \in Nat : t = ku + w * n
  <2>1. ku + w * n >= 0
    <3>1. PICK wn \in Nat : wn = w * n
      OBVIOUS
    <3> QED
      BY <1>9, <1>10, <3>1
  <2> QED
    BY <2>1
<1>12. PICK d \in Nat : d = w * m - kv
  <2>1. w * m - kv >= 0
    <3>1. PICK wm \in Nat : wm = w * m
      OBVIOUS
    <3> QED
      BY <1>9, <1>10, <3>1
  <2> QED
    BY <2>1
<1>13. c + t * m = n * d + y
  <2>1. t * m = ku * m + (w * n) * m
    BY <1>11
  <2>2. n * d = (w * n) * m - kv * n
    BY <1>12
  <2>3. PICK x1 \in Int, x2 \in Int, x3 \in Int :
          x1 = ku * m /\ x2 = (w * n) * m /\ x3 = kv * n
    OBVIOUS
  <2> QED
    BY <1>8, <2>1, <2>2, <2>3
<1>14. (c + t * m) % n = y
  <2>1. c + t * m \in Nat /\ n \in Nat \ {0} /\ c \in Nat
    OBVIOUS
  <2>2. PICK z \in Nat : z = c + t * m
    BY <2>1
  <2>3. z = n * d + y /\ n \in Nat \ {0}
    BY <1>13, <2>1, <2>2
  <2>4. Splits(z, n, d, y)
    BY <2>3 DEF Splits
  <2>5. z % n = y
    BY <2>3, <2>4, SplitIs
  <2> QED
    BY <2>2, <2>5
<1>15. (c + t * m) % n \in S
  BY Around
<1> QED
  BY <1>14, <1>15

-----------------------------------------------------------------------------
(* The rotations: the inductive invariant. *)

\* The matrix is one that the function is right for.
Square == dir = "down" => Rows = Cols

LinePlaces == 0..(Count - 1)
Behind(x)   == After(Count, Movement, x)
Divisor    == gcd[<<Movement, Count>>]

\* Place x holds what it held at first, or what it is to hold at the end.
Kept(x) == arr[Offset(x)] = Offset(x)
Done(x) == arr[Offset(x)] = Offset(Behind(x))

RotateCall ==
  /\ dir \in {"left", "right", "up", "down"} /\ shape \in Shapes /\ round \in Rounds
  /\ line \in 0..((IF Flat THEN Rows ELSE Cols) - 1)

\* The cycles before this one are done, the ones behind it are kept, and in this one
\* what is done reaches from its first place to the place at hand.
Moving ==
  /\ cycle \in Nat /\ cycle < Divisor /\ temp = Offset(cycle)
  /\ place \in LinePlaces /\ place % Divisor = cycle /\ Kept(place)
  /\ place = cycle \/ Done(cycle)
  /\ \A x \in LinePlaces :
       /\ Done(x) \/ Kept(x)
       /\ Done(x) => x % Divisor <= cycle
       /\ x % Divisor < cycle => Done(x)
       /\ Done(x) => Behind(x) = place \/ Done(Behind(x))
       /\ Behind(x) # cycle /\ (Behind(x) = place \/ Done(Behind(x))) => Done(x)

RotateInv ==
  /\ RotateCall
  /\ Square =>
       /\ arr \in [0..(Rows * Cols - 1) -> Int] /\ LineOnly
       /\ stage \in {"moving", "done"}
       /\ Remainder = 0 => stage = "done" /\ \A x \in LinePlaces : Kept(x)
       /\ Remainder # 0 /\ stage = "done" => \A x \in LinePlaces : Done(x)
       /\ stage = "moving" => Moving

\* The row or column has its own places in the matrix.
LEMMA LineIs ==
  ASSUME RotateCall
  PROVE  /\ Rows \in Nat \ {0} /\ Cols \in Nat \ {0} /\ Count \in Nat \ {0}
         /\ Remainder \in Nat
         /\ \A x \in LinePlaces : Offset(x) \in 0..(Rows * Cols - 1)
         /\ \A x, y \in LinePlaces : Offset(x) = Offset(y) => x = y
<1>1. Rows \in Nat \ {0} /\ Cols \in Nat \ {0}
  BY ShapeAssumption DEF RotateCall, Rows, Cols
<1>2. Count \in Nat \ {0}
  BY <1>1 DEF Count
<1>3. Remainder \in Nat
  <2>1. round \in Int /\ Modulus \in Nat \ {0}
    BY RoundAssumption DEF RotateCall
  <2>2. round % Modulus \in Nat
    BY <2>1
  <2> QED
    BY <1>1, <2>2 DEF Remainder
<1>4. ASSUME NEW x \in LinePlaces
      PROVE  Offset(x) \in 0..(Rows * Cols - 1)
  <2>1. PICK r \in Nat \ {0}, c \in Nat \ {0} : r = Rows /\ c = Cols
    BY <1>1
  <2>2. ASSUME NEW k \in 0..(r - 1), NEW i \in 0..(c - 1)
        PROVE  k * c + i \in 0..(r * c - 1)
    <3>1. PICK e \in Nat : r = k + 1 + e
      <4>1. r - k - 1 \in Nat /\ r = k + 1 + (r - k - 1)
        BY <2>2
      <4> QED
        BY <4>1
    <3>2. r * c = k * c + c + e * c /\ e * c \in Nat /\ k * c \in Nat
      BY <3>1
    <3> QED
      BY <3>2
  <2>3. CASE Flat
    <3>1. line \in 0..(r - 1) /\ x \in 0..(c - 1) /\ Offset(x) = line * c + x
      BY <2>1, <2>3 DEF RotateCall, LinePlaces, Count, Offset
    <3> QED
      BY <2>1, <2>2, <3>1
  <2>4. CASE ~Flat
    <3>1. line \in 0..(c - 1) /\ x \in 0..(r - 1) /\ Offset(x) = x * c + line
      BY <2>1, <2>4 DEF RotateCall, LinePlaces, Count, Offset
    <3> QED
      BY <2>1, <2>2, <3>1
  <2> QED
    BY <2>3, <2>4
<1>5. ASSUME NEW x \in LinePlaces, NEW y \in LinePlaces, Offset(x) = Offset(y)
      PROVE  x = y
  <2>1. CASE Flat
    <3>1. PICK k \in Int : k = line * Cols
      BY <1>1 DEF RotateCall
    <3> QED
      BY <1>2, <1>5, <2>1, <3>1 DEF LinePlaces, Offset
  <2>2. CASE ~Flat
    <3>1. PICK c \in Nat \ {0} : c = Cols
      BY <1>1
    <3>2. line \in Int /\ x \in Int /\ y \in Int
      BY <1>1, <1>2 DEF RotateCall, LinePlaces
    <3>3. line + x * c = line + y * c
      BY <1>5, <2>2, <3>1 DEF Offset
    <3>4. x * c = y * c
      BY <3>2, <3>3
    <3>5. ASSUME NEW a \in Int, NEW b \in Int, a * c = b * c, a < b
          PROVE  FALSE
      <4>1. PICK e \in Nat : b = a + 1 + e
        <5>1. b - a - 1 \in Nat /\ b = a + 1 + (b - a - 1)
          BY <3>5
        <5> QED
          BY <5>1
      <4>2. b * c = a * c + c + e * c /\ e * c \in Nat
        BY <4>1
      <4> QED
        BY <3>5, <4>2
    <3> QED
      BY <3>2, <3>4, <3>5
  <2> QED
    BY <2>1, <2>2
<1> QED
  BY <1>1, <1>2, <1>3, <1>4, <1>5

\* The movement is a proper one, and its divisor tells the cycles apart.
LEMMA MovementIs ==
  ASSUME RotateCall, Square, Remainder # 0
  PROVE  /\ Movement \in Nat \ {0} /\ Movement < Count
         /\ Divisor \in Nat \ {0} /\ Divisor <= Movement
         /\ \A x \in LinePlaces :
              /\ Behind(x) \in LinePlaces /\ Behind(x) # x
              /\ Behind(x) = (x + Movement) % Count
              /\ Behind(x) % Divisor = x % Divisor
              /\ x % Divisor \in 0..(Divisor - 1)
         /\ \A x, y \in LinePlaces : Behind(x) = Behind(y) => x = y
<1>1. Movement \in Nat \ {0} /\ Movement < Count
  <2>1. PICK r \in Nat : r = round % Modulus
    BY RoundAssumption DEF RotateCall
  <2>2. Remainder \in Nat \ {0} /\ Remainder < Count
    <3>1. Rows \in Nat \ {0} /\ Cols \in Nat \ {0} /\ Remainder \in Nat \ {0}
      BY LineIs
    <3>2. r % Rows < Rows /\ r % Cols < Cols
      BY <2>1, <3>1
    <3>3. Remainder = IF dir = "up" THEN r % Rows ELSE r % Cols
      BY <2>1 DEF Remainder
    <3> QED
      BY <3>1, <3>2, <3>3 DEF Count, Flat, Square, RotateCall
  <2> QED
    BY <2>2, LineIs DEF Movement
<1>2. Count \in Nat \ {0}
  BY LineIs
<1> HIDE DEF Divisor
<1> PICK m \in Nat, n \in Nat : m = Movement /\ n = Count
  BY <1>1, <1>2
<1>3. PICK d \in Nat \ {0}, p \in Nat, q \in Nat :
        d = Divisor /\ m = d * p /\ n = d * q
  <2>1. Divisor = gcd[<<m, n>>]
    BY DEF Divisor
  <2>2. m # 0 \/ n # 0
    BY <1>1
  <2>3. PICK d \in Nat \ {0}, p \in Nat, q \in Nat, u \in Int, v \in Int :
          /\ d = gcd[<<m, n>>] /\ m = d * p /\ n = d * q
          /\ d = u * m + v * n
    BY <2>2, GcdDivides, Zenon
  <2> QED
    BY <2>1, <2>3
<1> Divides(d, m) /\ Divides(d, n)
  BY <1>3 DEF Divides
<1>4. d <= Movement
  <2>1. p # 0
    BY <1>1, <1>3
  <2>2. PICK e \in Nat : p = 1 + e
    <3>1. p - 1 \in Nat /\ p = 1 + (p - 1)
      BY <2>1
    <3> QED
      BY <3>1
  <2>3. d * p = d + d * e /\ d * e \in Nat
    BY <2>2
  <2> QED
    BY <1>3, <2>3
<1>5. ASSUME NEW x \in LinePlaces
      PROVE  /\ Behind(x) \in LinePlaces /\ Behind(x) # x
             /\ Behind(x) = (x + Movement) % Count
             /\ Behind(x) % d = x % d
             /\ x % d \in 0..(d - 1)
             /\ \A y \in LinePlaces : Behind(x) = Behind(y) => x = y
  <2>1. x \in Nat /\ x < Count
    BY <1>2 DEF LinePlaces
  <2>2. After(n, m, x) % d = x % d
    BY <1>1, <1>2, <2>1, RestKept
  <2>3. x % d \in 0..(d - 1)
    BY <2>1
  <2> QED
    BY <1>1, <1>2, <2>1, <2>2, <2>3, AfterIs DEF Behind, LinePlaces
<1> QED
  BY <1>1, <1>3, <1>4, <1>5

\* The call stays as it is, and with it the places of the line.
LEMMA CallKept ==
  ASSUME UNCHANGED call
  PROVE  /\ RotateCall' = RotateCall /\ Square' = Square
         /\ Remainder' = Remainder /\ Divisor' = Divisor
         /\ Rows' = Rows /\ Cols' = Cols /\ LinePlaces' = LinePlaces
         /\ Original' = Original /\ Count' = Count
         /\ Movement' = Movement
<1>1. dir' = dir /\ shape' = shape /\ line' = line /\ round' = round
  BY DEF call
<1> QED
  BY <1>1 DEF RotateCall, Square, Remainder, Divisor, Rows, Cols, LinePlaces, Count,
              Movement, Flat, Original

\* A step leaves the place of every element.
LEMMA OffsetKept ==
  ASSUME UNCHANGED call, NEW x
  PROVE  Offset(x)' = Offset(x) /\ Behind(x)' = Behind(x)
<1>1. line' = line /\ Flat' = Flat
  BY DEF call, Flat
<1> QED
  BY <1>1, CallKept DEF Offset, Behind, After

\* An element that has moved is not where it was.
LEMMA NotBoth ==
  ASSUME RotateCall, Square, Remainder # 0, NEW x \in LinePlaces
  PROVE  ~(Done(x) /\ Kept(x))
BY LineIs, MovementIs DEF Done, Kept

\* Nothing is both done and kept, and an element put into its place is done.
LEMMA Written ==
  ASSUME RotateCall, Square, Remainder # 0, UNCHANGED call,
         arr \in [0..(Rows * Cols - 1) -> Int], LineOnly, NEW p \in LinePlaces,
         arr' = [arr EXCEPT ![Offset(p)] = Offset(Behind(p))]
  PROVE  /\ arr' \in [0..(Rows * Cols - 1) -> Int] /\ LineOnly'
         /\ \A x \in LinePlaces :
              /\ ~(Done(x) /\ Kept(x)) /\ ~(Done(x)' /\ Kept(x)')
              /\ Done(x)' <=> x = p \/ Done(x)
              /\ Kept(x)' <=> x # p /\ Kept(x)
              /\ Behind(x)' = Behind(x)
              /\ Done(Behind(x))' <=> Behind(x) = p \/ Done(Behind(x))
<1>1. Offset(Behind(p)) \in Int /\ Offset(p) \in 0..(Rows * Cols - 1)
  BY LineIs, MovementIs
<1>2. arr' \in [0..(Rows * Cols - 1) -> Int]
  BY <1>1
<1>3. LineOnly'
  <2>1. SUFFICES ASSUME NEW z \in DOMAIN arr', \A k \in 0..(Count - 1) : z # Offset(k)
                 PROVE  arr'[z] = Original[z]
    BY CallKept, OffsetKept DEF LineOnly
  <2>2. z # Offset(p) /\ z \in DOMAIN arr
    BY <2>1 DEF LinePlaces
  <2> QED
    BY <2>1, <2>2 DEF LineOnly
<1>4. ASSUME NEW x \in LinePlaces
      PROVE  /\ ~(Done(x) /\ Kept(x)) /\ ~(Done(x)' /\ Kept(x)')
             /\ Done(x)' <=> x = p \/ Done(x)
             /\ Kept(x)' <=> x # p /\ Kept(x)
  <2>1. Offset(x) # Offset(Behind(x)) /\ Offset(x) \in 0..(Rows * Cols - 1)
    BY LineIs, MovementIs
  <2>2. x # p => Offset(x) # Offset(p)
    BY LineIs
  <2>3. Done(x)' <=> arr'[Offset(x)] = Offset(Behind(x))
    <3>1. Offset(Behind(x))' = Offset(Behind(x))
      <4>1. Behind(x)' = Behind(x) /\ Offset(Behind(x))' = Offset(Behind(x)')
        BY CallKept, OffsetKept DEF Offset, Flat, call
      <4> QED
        BY <4>1
    <3> QED
      BY <3>1, OffsetKept DEF Done
  <2>4. Kept(x)' <=> arr'[Offset(x)] = Offset(x)
    BY OffsetKept DEF Kept
  <2>5. arr'[Offset(x)] = IF x = p THEN Offset(Behind(p)) ELSE arr[Offset(x)]
    BY <2>1, <2>2
  <2> QED
    BY <2>1, <2>3, <2>4, <2>5 DEF Done, Kept
<1>5. ASSUME NEW x \in LinePlaces
      PROVE  Done(Behind(x))' <=> Behind(x) = p \/ Done(Behind(x))
  <2>1. PICK y \in LinePlaces : y = Behind(x)
    BY MovementIs
  <2>2. y = Behind(x)'
    BY <2>1, OffsetKept
  <2>3. Done(Behind(x))' <=> Done(y)'
    BY <2>2 DEF Done, Offset, Behind, After
  <2>4. Done(Behind(x)) <=> Done(y)
    BY <2>1
  <2> QED
    BY <1>4, <2>1, <2>3, <2>4
<1> QED
  BY <1>2, <1>3, <1>4, <1>5, OffsetKept

\* The next place of a cycle, by the operator of the places behind.
LEMMA FollowingIs ==
  Following = After(Count, Movement, place)
BY DEF Following, After

\* What Move and Close find: the call, the line and the element at hand.
LEMMA MovingTold ==
  ASSUME RotateInv, Square, stage = "moving"
  PROVE  /\ RotateCall /\ LineOnly /\ Remainder # 0 /\ Moving
         /\ arr \in [0..(Rows * Cols - 1) -> Int]
         /\ Following = Behind(place) /\ Following \in LinePlaces
         /\ place \in LinePlaces /\ cycle \in LinePlaces
<1>1. RotateCall /\ LineOnly /\ Remainder # 0 /\ Moving /\ arr \in [0..(Rows * Cols - 1) -> Int]
  BY DEF RotateInv
<1>2. place \in LinePlaces /\ cycle \in Nat /\ cycle < Divisor
  BY <1>1 DEF Moving
<1>3. Following = Behind(place)
  BY FollowingIs DEF Behind
<1>4. cycle \in LinePlaces
  BY <1>1, <1>2, MovementIs, LineIs DEF LinePlaces
<1> QED
  BY <1>1, <1>2, <1>3, <1>4, MovementIs

\* An element is moved to its place and the next one of the cycle is at hand.
LEMMA MoveKeeps ==
  ASSUME RotateInv, Square, Move
  PROVE  RotateInv'
<1>1. /\ stage = "moving" /\ Following # cycle /\ place' = Following
      /\ arr' = [arr EXCEPT ![Offset(place)] = arr[Offset(Following)]]
      /\ UNCHANGED call /\ cycle' = cycle /\ temp' = temp /\ stage' = stage
  BY DEF Move, Closes
<1>2. /\ RotateCall /\ LineOnly /\ Remainder # 0 /\ Moving
      /\ arr \in [0..(Rows * Cols - 1) -> Int]
      /\ Following = Behind(place) /\ Following \in LinePlaces
      /\ place \in LinePlaces /\ cycle \in LinePlaces
  BY <1>1, MovingTold
<1>3. Kept(Following)
  BY <1>1, <1>2, NotBoth DEF Moving
<1>4. arr' = [arr EXCEPT ![Offset(place)] = Offset(Behind(place))]
  BY <1>1, <1>2, <1>3 DEF Kept
<1>5. /\ arr' \in [0..(Rows * Cols - 1) -> Int] /\ LineOnly'
      /\ \A x \in LinePlaces :
           /\ ~(Done(x) /\ Kept(x)) /\ ~(Done(x)' /\ Kept(x)')
           /\ Done(x)' <=> x = place \/ Done(x)
           /\ Kept(x)' <=> x # place /\ Kept(x)
           /\ Behind(x)' = Behind(x)
           /\ Done(Behind(x))' <=> Behind(x) = place \/ Done(Behind(x))
  BY <1>1, <1>2, <1>4, Written
<1>6. \A x \in LinePlaces : /\ Behind(x) \in LinePlaces /\ Behind(x) # x
                            /\ Behind(x) % Divisor = x % Divisor
  BY <1>2, MovementIs
<1>7. \A x, y \in LinePlaces : Behind(x) = Behind(y) => x = y
  BY <1>2, MovementIs
<1>8. Moving'
  <2>1. cycle' \in Nat /\ cycle' < Divisor' /\ temp' = Offset(cycle)'
    <3>1. Offset(cycle)' = Offset(cycle)
      BY <1>1 DEF Offset, call, Flat, Cols
    <3> QED
      BY <1>1, <1>2, <3>1, CallKept DEF Moving
  <2>2. place' \in LinePlaces' /\ (place % Divisor)' = cycle'
    BY <1>1, <1>2, <1>6, CallKept DEF Moving
  <2>3. Kept(place)'
    <3>1. PICK y \in LinePlaces : y = Following
      BY <1>2
    <3>2. Kept(y)'
      BY <1>2, <1>3, <1>5, <1>6, <3>1
    <3> QED
      BY <1>1, <3>1, <3>2 DEF Kept, Offset
  <2>4. place' = cycle' \/ Done(cycle)'
    <3>1. PICK y \in LinePlaces : y = cycle
      BY <1>2
    <3>2. Done(y)'
      BY <1>2, <1>5, <3>1 DEF Moving
    <3> QED
      BY <1>1, <3>1, <3>2 DEF Done, Offset, Behind, After
  <2>5. ASSUME NEW x \in LinePlaces
        PROVE  /\ Done(x)' \/ Kept(x)'
               /\ Done(x)' => (x % Divisor)' <= cycle'
               /\ (x % Divisor)' < cycle' => Done(x)'
               /\ Done(x)' => Behind(x)' = place' \/ Done(Behind(x))'
               /\ Behind(x)' # cycle' /\ (Behind(x)' = place' \/ Done(Behind(x))') => Done(x)'
    <3>1. /\ Done(x) \/ Kept(x)
          /\ Done(x) => x % Divisor <= cycle
          /\ x % Divisor < cycle => Done(x)
          /\ Done(x) => Behind(x) = place \/ Done(Behind(x))
          /\ Behind(x) # cycle /\ (Behind(x) = place \/ Done(Behind(x))) => Done(x)
      BY <1>2 DEF Moving
    <3>2. place % Divisor = cycle /\ cycle \in Nat
      BY <1>2 DEF Moving
    <3>3. (x % Divisor)' = x % Divisor
      BY CallKept, <1>1
    <3>4. Behind(x) \in LinePlaces
      BY <1>6
    <3> QED
      BY <1>1, <1>2, <1>5, <1>7, <3>1, <3>2, <3>3, <3>4
  <2> QED
    BY <1>1, <2>1, <2>2, <2>3, <2>4, <2>5, CallKept DEF Moving
<1> QED
  BY <1>1, <1>2, <1>5, <1>8, CallKept DEF RotateInv

\* The last element of a cycle gets the first: the cycle is done, and the next one
\* begins, if there is one.
LEMMA CloseKeeps ==
  ASSUME RotateInv, Square, Close
  PROVE  RotateInv'
<1>1. /\ stage = "moving" /\ Following = cycle
      /\ arr' = [arr EXCEPT ![Offset(place)] = temp]
      /\ UNCHANGED call
  BY DEF Close, Closes
<1>2. /\ RotateCall /\ LineOnly /\ Remainder # 0 /\ Moving
      /\ arr \in [0..(Rows * Cols - 1) -> Int]
      /\ Following = Behind(place) /\ Following \in LinePlaces
      /\ place \in LinePlaces /\ cycle \in LinePlaces
  BY <1>1, MovingTold
<1>3. arr' = [arr EXCEPT ![Offset(place)] = Offset(Behind(place))]
  BY <1>1, <1>2 DEF Moving
<1>4. /\ arr' \in [0..(Rows * Cols - 1) -> Int] /\ LineOnly'
      /\ \A x \in LinePlaces :
           /\ ~(Done(x) /\ Kept(x)) /\ ~(Done(x)' /\ Kept(x)')
           /\ Done(x)' <=> x = place \/ Done(x)
           /\ Kept(x)' <=> x # place /\ Kept(x)
           /\ Behind(x)' = Behind(x)
           /\ Done(Behind(x))' <=> Behind(x) = place \/ Done(Behind(x))
  BY <1>1, <1>2, <1>3, Written
<1>5. /\ Movement \in Nat \ {0} /\ Movement < Count
      /\ Divisor \in Nat \ {0} /\ Divisor <= Movement
      /\ \A x \in LinePlaces :
           /\ Behind(x) \in LinePlaces /\ Behind(x) # x
           /\ Behind(x) % Divisor = x % Divisor
           /\ x % Divisor \in 0..(Divisor - 1)
      /\ \A x, y \in LinePlaces : Behind(x) = Behind(y) => x = y
  BY <1>2, MovementIs
<1>6. \A x \in LinePlaces :
        /\ Done(x) \/ Kept(x)
        /\ Done(x) => x % Divisor <= cycle
        /\ x % Divisor < cycle => Done(x)
        /\ Done(x) => Behind(x) = place \/ Done(Behind(x))
        /\ Behind(x) # cycle /\ (Behind(x) = place \/ Done(Behind(x))) => Done(x)
  BY <1>2 DEF Moving
<1>7. /\ cycle \in Nat /\ cycle < Divisor /\ place % Divisor = cycle
      /\ place = cycle \/ Done(cycle)
  BY <1>2 DEF Moving
<1>8. \A x \in LinePlaces : Done(x)' => Done(Behind(x))'
  BY <1>1, <1>2, <1>4, <1>6, <1>7
<1>9. \A x \in LinePlaces : x % Divisor = cycle => Done(x)'
  <2> DEFINE S == {x \in LinePlaces : x = place \/ Done(x)}
  <2>1. S \subseteq LinePlaces /\ cycle \in S
    BY <1>2, <1>7
  <2>2. \A x \in S : Behind(x) \in S
    BY <1>4, <1>5, <1>8
  <2>3. cycle % Divisor = cycle
    BY <1>5, <1>7
  <2> PICK m \in Nat \ {0}, n \in Nat : m = Movement /\ n = Count /\ m < n
    BY <1>5, LineIs, <1>2
  <2> HIDE DEF S
  <2>4. S \subseteq 0..(n - 1) /\ \A x \in S : After(n, m, x) \in S
    BY <2>1, <2>2 DEF LinePlaces, Behind
  <2>5. ASSUME NEW y \in LinePlaces, y % Divisor = cycle
        PROVE  y \in S
    <3>1. y \in Nat /\ y < n
      BY LineIs, <1>2 DEF LinePlaces
    <3>2. PICK c \in S : c = cycle
      BY <2>1
    <3>3. y % gcd[<<m, n>>] = c % gcd[<<m, n>>]
      BY <2>3, <2>5, <3>2 DEF Divisor
    <3> QED
      BY <2>4, <3>1, <3>3, WholeCycle
  <2> QED
    BY <1>4, <2>5 DEF S
<1>10. CASE cycle + 1 < Divisor
  <2>1. /\ cycle' = cycle + 1 /\ place' = cycle + 1 /\ temp' = arr'[Offset(cycle + 1)]
        /\ stage' = stage
    BY <1>10 DEF Close, Cycles, Divisor
  <2>2. PICK c \in LinePlaces : c = cycle + 1
    <3>1. Count \in Nat
      BY <1>2, LineIs
    <3>2. cycle + 1 \in 0..(Count - 1)
      BY <1>5, <1>7, <1>10, <3>1
    <3> QED
      BY <3>2 DEF LinePlaces
  <2>3. c % Divisor = c
    BY <1>5, <1>7, <1>10, <2>2
  <2>4. Kept(c) /\ c # place /\ Kept(c)'
    BY <1>4, <1>6, <1>7, <2>2, <2>3
  <2>5. temp' = Offset(c) /\ Offset(c)' = Offset(c)
    <3>1. Offset(c)' = Offset(c)
      BY <1>1, OffsetKept
    <3>2. arr'[Offset(c)] = Offset(c)
      BY <2>4, <3>1 DEF Kept
    <3> QED
      BY <2>1, <2>2, <3>1, <3>2
  <2>6. Offset(cycle)' = Offset(c)' /\ Kept(place)' = Kept(c)'
    BY <2>1, <2>2 DEF Offset, Kept
  <2>7. ASSUME NEW x \in LinePlaces
        PROVE  /\ Done(x)' \/ Kept(x)'
               /\ Done(x)' => (x % Divisor)' <= cycle'
               /\ (x % Divisor)' < cycle' => Done(x)'
               /\ Done(x)' => Behind(x)' = place' \/ Done(Behind(x))'
               /\ Behind(x)' # cycle' /\ (Behind(x)' = place' \/ Done(Behind(x))') => Done(x)'
    <3>1. (x % Divisor)' = x % Divisor
      BY CallKept, <1>1
    <3>2. x % Divisor \in Int
      BY <1>5
    <3>3. (x % Divisor)' < cycle' => Done(x)'
      BY <1>4, <1>6, <1>7, <1>9, <2>1, <3>1, <3>2
    <3>4. Done(x)' => (x % Divisor)' <= cycle'
      BY <1>4, <1>6, <1>7, <2>1, <3>1, <3>2
    <3>5. Behind(x)' # cycle' /\ (Behind(x)' = place' \/ Done(Behind(x))') => Done(x)'
      BY <1>1, <1>2, <1>4, <1>5, <1>6, <1>7, <2>1
    <3> QED
      BY <1>4, <1>6, <1>8, <3>3, <3>4, <3>5
  <2>8. (place % Divisor)' = cycle'
    BY <1>1, <2>1, <2>2, <2>3, CallKept
  <2>9. Moving'
    BY <1>1, <1>7, <1>10, <2>1, <2>2, <2>4, <2>5, <2>6, <2>7, <2>8, CallKept DEF Moving
  <2> QED
    BY <1>1, <1>2, <1>4, <2>1, <2>9, CallKept DEF RotateInv
<1>11. CASE ~(cycle + 1 < Divisor)
  <2>1. stage' = "done"
    BY <1>11 DEF Close, Cycles, Divisor
  <2>2. \A x \in LinePlaces : Done(x)'
    <3> TAKE x \in LinePlaces
    <3>1. x % Divisor < cycle \/ x % Divisor = cycle
      BY <1>5, <1>7, <1>11
    <3> QED
      BY <1>4, <1>6, <1>9, <3>1
  <2> QED
    BY <1>1, <1>2, <1>4, <2>1, <2>2, CallKept DEF RotateInv
<1> QED
  BY <1>10, <1>11

\* At first every element is at its place.
LEMMA RotateBegins ==
  ASSUME InitRotate
  PROVE  RotateInv
<1>1. RotateCall /\ arr = Original
  BY DEF InitRotate, RotateCall
<1>2. /\ Rows \in Nat \ {0} /\ Cols \in Nat \ {0} /\ Count \in Nat \ {0}
      /\ \A x \in LinePlaces : Offset(x) \in 0..(Rows * Cols - 1)
  BY <1>1, LineIs
<1>3. arr \in [0..(Rows * Cols - 1) -> Int] /\ LineOnly
  BY <1>1 DEF Original, LineOnly
<1>4. \A x \in LinePlaces : Kept(x)
  BY <1>1, <1>2 DEF Kept, Original
<1>5. ASSUME Square, Remainder # 0
      PROVE  Moving
  <2>1. /\ Divisor \in Nat \ {0} /\ \A x \in LinePlaces : Behind(x) \in LinePlaces
    BY <1>1, <1>5, MovementIs
  <2>2. cycle = 0 /\ place = 0 /\ temp = arr[Offset(0)] /\ 0 \in LinePlaces
    BY <1>2 DEF InitRotate, LinePlaces
  <2>3. 0 % Divisor = 0
    BY <2>1
  <2>4. \A x \in LinePlaces : ~Done(x) /\ x % Divisor \in Nat
    BY <1>1, <1>4, <1>5, NotBoth, MovementIs
  <2>5. \A x \in LinePlaces : Behind(x) # x /\ \A y \in LinePlaces : Behind(x) = Behind(y) => x = y
    BY <1>1, <1>5, MovementIs
  <2> QED
    BY <1>4, <2>1, <2>2, <2>3, <2>4 DEF Moving, Kept
<1>6. stage = IF Remainder = 0 THEN "done" ELSE "moving"
  BY DEF InitRotate
<1> QED
  BY <1>1, <1>3, <1>4, <1>5, <1>6 DEF RotateInv

\* The invariant holds all the time.
LEMMA RotateInductive ==
  RotateSpec => []RotateInv
<1>1. ASSUME RotateInv, [NextRotate]_rotateVars
      PROVE  RotateInv'
  <2>1. CASE UNCHANGED rotateVars
    <3>1. UNCHANGED call /\ arr' = arr /\ cycle' = cycle /\ place' = place /\ temp' = temp
          /\ stage' = stage
      BY <2>1 DEF rotateVars
    <3>2. /\ dir' = dir /\ shape' = shape /\ line' = line /\ round' = round
      BY <3>1 DEF call
    <3>3. \A x : Offset(x)' = Offset(x) /\ Behind(x)' = Behind(x)
      BY <3>1, OffsetKept
    <3>4. \A x : (Kept(x)' <=> Kept(x)) /\ (Done(x)' <=> Done(x))
      BY <3>1, <3>2 DEF Kept, Done, Offset, Behind, After, Flat, Count, Movement, Remainder,
                        Rows, Cols
    <3>5. \A x : Done(Behind(x))' <=> Done(Behind(x))
      BY <3>1, <3>2 DEF Done, Offset, Behind, After, Flat, Count, Movement, Remainder,
                        Rows, Cols
    <3>6. Offset(cycle)' = Offset(cycle) /\ Kept(place)' = Kept(place)
          /\ Done(cycle)' = Done(cycle)
      BY <3>1, <3>2 DEF Kept, Done, Offset, Behind, After, Flat, Count, Movement, Remainder,
                        Rows, Cols
    <3>7. Moving' <=> Moving
      BY <3>1, <3>3, <3>4, <3>5, <3>6, CallKept DEF Moving
    <3>8. LineOnly' <=> LineOnly
      BY <3>1, <3>2 DEF LineOnly, Offset, Flat, Count, Original, Rows, Cols
    <3> QED
      BY <1>1, <3>1, <3>4, <3>7, <3>8, CallKept DEF RotateInv
  <2>2. CASE Square /\ NextRotate
    BY <1>1, <2>2, MoveKeeps, CloseKeeps DEF NextRotate
  <2>3. CASE ~Square /\ NextRotate
    <3>1. UNCHANGED call
      BY <2>3 DEF NextRotate, Move, Close
    <3> QED
      BY <1>1, <2>3, <3>1, CallKept DEF RotateInv
  <2> QED
    BY <1>1, <2>1, <2>2, <2>3
<1> QED
  BY <1>1, RotateBegins, PTL DEF RotateSpec

\* The four rotations rotate their row or column by the round, and nothing else, for
\* every matrix, line and round.
THEOREM RotatedAlways == RotateSpec => []Rotated
<1>1. ASSUME RotateInv
      PROVE  Rotated
  <2>1. SUFFICES ASSUME stage = "done", round >= 0, Square
                 PROVE  RotatedBy(round) /\ LineOnly
    BY DEF Rotated, Square
  <2>2. RotateCall /\ LineOnly
    BY <1>1, <2>1 DEF RotateInv
  <2>3. PICK n \in Nat \ {0}, r \in Nat : n = Count /\ r = round /\ Remainder = r % n
    <3>1. round \in Nat /\ round < Modulus /\ Modulus \in Nat \ {0}
      BY <2>1, <2>2, RoundAssumption DEF RotateCall
    <3>2. round % Modulus = round
      BY <3>1
    <3>3. Remainder = round % Count
      BY <2>1, <2>2, <3>2 DEF Remainder, Count, Flat, Square, RotateCall
    <3> QED
      BY <2>2, <3>1, <3>3, LineIs
  <2>4. PICK q \in Nat, c \in Nat : c = r % n /\ r = n * q + c /\ c < n
    BY Splitting DEF Splits
  <2>5. ASSUME NEW x \in 0..(n - 1)
        PROVE  arr[Offset(x)] =
                 Original[Offset((IF dir \in {"left", "up"} THEN x + round ELSE x - round) % Count)]
    <3>1. x \in LinePlaces
      BY <2>3 DEF LinePlaces
    <3> DEFINE by == IF dir \in {"left", "up"} THEN x + r ELSE x - r
               back == IF dir \in {"left", "up"} THEN c ELSE n - c
    <3>2. PICK y \in LinePlaces : y = by % n /\ y = (x + back) % n
      <4>1. PICK b \in Nat, z \in Nat : b = x + back /\ z = b % n
        <5>1. PICK b \in Nat : b = x + back
          BY <2>4
        <5>2. b % n \in Nat
          BY <5>1
        <5> HIDE DEF back
        <5> QED
          BY <5>1, <5>2
      <4>2. PICK k \in Nat : b = n * k + z /\ z < n
        BY <4>1, Splitting DEF Splits
      <4>3. CASE dir \in {"left", "up"}
        <5>1. by = n * (q + k) + z /\ q + k \in Int /\ by \in Int /\ z \in 0..(n - 1)
          BY <2>4, <4>1, <4>2, <4>3
        <5> HIDE DEF by
        <5> PICK e \in Int, f \in Int : e = by /\ f = q + k
          BY <5>1
        <5>2. e % n = z
          BY <5>1, RestTold
        <5> QED
          BY <2>3, <4>1, <4>2, <5>1, <5>2 DEF LinePlaces
      <4>4. CASE dir \notin {"left", "up"}
        <5>1. by = n * (k - q - 1) + z /\ k - q - 1 \in Int /\ by \in Int /\ z \in 0..(n - 1)
          BY <2>4, <4>1, <4>2, <4>4
        <5> HIDE DEF by
        <5> PICK e \in Int, f \in Int : e = by /\ f = k - q - 1
          BY <5>1
        <5>2. e % n = z
          BY <5>1, RestTold
        <5> QED
          BY <2>3, <4>1, <4>2, <5>1, <5>2 DEF LinePlaces
      <4> QED
        BY <4>3, <4>4
    <3>3. arr[Offset(x)] = Offset(y)
      <4>1. CASE c # 0
        <5>1. Done(x) /\ Behind(x) = (x + Movement) % Count
          BY <1>1, <2>1, <2>2, <2>3, <2>4, <3>1, <4>1, MovementIs DEF RotateInv
        <5>2. Movement = back
          BY <2>3, <2>4 DEF Movement
        <5> HIDE DEF back
        <5> QED
          BY <2>3, <3>2, <5>1, <5>2 DEF Done
      <4>2. CASE c = 0
        <5>1. Kept(x)
          BY <1>1, <2>1, <2>2, <2>3, <2>4, <3>1, <4>2 DEF RotateInv
        <5>2. back = 0 \/ back = n
          BY <4>2
        <5>3. (x + back) % n = x
          BY <5>2
        <5> QED
          BY <3>2, <5>1, <5>3 DEF Kept
      <4> QED
        BY <4>1, <4>2
    <3>4. Original[Offset(y)] = Offset(y)
      BY <2>2, LineIs DEF Original
    <3>5. y = (IF dir \in {"left", "up"} THEN x + round ELSE x - round) % Count
      BY <2>3, <3>2
    <3> QED
      BY <3>3, <3>4, <3>5
  <2> QED
    BY <2>2, <2>3, <2>5 DEF RotatedBy
<1> QED
  BY <1>1, RotateInductive, PTL
=============================================================================
