----------------------------- MODULE AluLemmas ------------------------------
(***************************************************************************)
(* Numbers, their bits, and sums over finite sets: what the proofs about   *)
(* instructions need of the arithmetic of Alu, whatever the width of an    *)
(* operand.                                                                *)
(***************************************************************************)
EXTENDS Alu, FiniteSetTheorems, WellFoundedInduction, TLAPS

-----------------------------------------------------------------------------
(* Powers of two, quotients and remainders.                                *)

LEMMA PowersAre ==
  /\ 2^0 = 1 /\ 2^1 = 2 /\ 2^2 = 4 /\ 2^3 = 8 /\ 2^4 = 16 /\ 2^5 = 32 /\ 2^6 = 64
  /\ 2^7 = 128 /\ 2^8 = 256 /\ 2^9 = 512 /\ 2^10 = 1024 /\ 2^11 = 2048
  /\ 2^12 = 4096 /\ 2^13 = 8192 /\ 2^14 = 16384 /\ 2^15 = 32768 /\ 2^16 = 65536
  /\ 2^17 = 131072
  OBVIOUS

(* The powers of two that C's type holds.                                  *)
Power(n) ==
  /\ 2^n \in Nat \ {0} /\ 2^(n + 1) = 2 * 2^n
  /\ (4 <= n => 16 <= 2^n) /\ (8 <= n => 256 <= 2^n) /\ (16 <= n => 65536 <= 2^n)

LEMMA MorePowers ==
  /\ 2^18 = 262144 /\ 2^19 = 524288 /\ 2^20 = 1048576 /\ 2^21 = 2097152
  /\ 2^22 = 4194304 /\ 2^23 = 8388608 /\ 2^24 = 16777216 /\ 2^25 = 33554432
  /\ 2^26 = 67108864 /\ 2^27 = 134217728 /\ 2^28 = 268435456 /\ 2^29 = 536870912
  /\ 2^30 = 1073741824 /\ 2^31 = 2147483648 /\ 2^32 = 4294967296
  OBVIOUS

LEMMA PowerIs ==
  ASSUME NEW n \in 0..31
  PROVE  Power(n)
  <1>1. Power(0) /\ Power(1) /\ Power(2) /\ Power(3)
       /\ Power(4) /\ Power(5) /\ Power(6) /\ Power(7)
    BY PowersAre, MorePowers DEF Power
  <1>2. Power(8) /\ Power(9) /\ Power(10) /\ Power(11)
       /\ Power(12) /\ Power(13) /\ Power(14) /\ Power(15)
    BY PowersAre, MorePowers DEF Power
  <1>3. Power(16) /\ Power(17) /\ Power(18) /\ Power(19)
       /\ Power(20) /\ Power(21) /\ Power(22) /\ Power(23)
    BY PowersAre, MorePowers DEF Power
  <1>4. Power(24) /\ Power(25) /\ Power(26) /\ Power(27)
       /\ Power(28) /\ Power(29) /\ Power(30) /\ Power(31)
    BY PowersAre, MorePowers DEF Power
  <1>5. n \in {0, 1, 2, 3, 4, 5, 6, 7, 8, 9, 10, 11, 12, 13, 14, 15,
                16, 17, 18, 19, 20, 21, 22, 23, 24, 25, 26, 27, 28, 29, 30, 31}
    OBVIOUS
  <1>6. QED
    BY <1>1, <1>2, <1>3, <1>4, <1>5

(* Quotient and remainder, and that nothing else is.                       *)
Divided(v, d, q, r) == d \in Nat \ {0} /\ q \in Int /\ r \in 0..d - 1 /\ v = d * q + r

LEMMA DivisionIs ==
  ASSUME NEW v \in Int, NEW d \in Nat, d # 0
  PROVE  Divided(v, d, v \div d, v % d)
  BY DEF Divided

LEMMA FactorOne ==
  ASSUME NEW d \in Nat, d # 0, NEW z \in Int, z >= 1
  PROVE  d * z >= d
  BY Z3

LEMMA DivisionOnly ==
  ASSUME NEW v, NEW d, NEW q, NEW r, Divided(v, d, q, r)
  PROVE  v \div d = q /\ v % d = r
  <1> DEFINE y == v \div d
             z == v % d
  <1>0. d \in Nat /\ d # 0 /\ q \in Int /\ r \in 0..d - 1 /\ v = d * q + r /\ v \in Int
    BY DEF Divided
  <1>1. y \in Int /\ z \in 0..d - 1 /\ v = d * y + z
    BY <1>0, DivisionIs DEF Divided
  <1> HIDE DEF y, z
  <1>2. d * (y - q) = r - z /\ d * (q - y) = z - r /\ y - q \in Int /\ q - y \in Int
    BY <1>0, <1>1
  <1>3. ~(y - q >= 1) /\ ~(q - y >= 1)
    BY <1>0, <1>1, <1>2, FactorOne
  <1>4. y = q
    BY <1>0, <1>1, <1>3
  <1>5. z = r
    BY <1>0, <1>1, <1>4
  <1>6. QED
    BY <1>4, <1>5 DEF y, z

(* Halving a quotient, and its range.                                      *)
LEMMA DividedTwice ==
  ASSUME NEW x \in Int, NEW P \in Nat, P # 0, NEW H \in Nat, -H <= x, x < H
  PROVE  /\ x \div P \in Int /\ (x \div P) \div 2 = x \div (2 * P)
         /\ -H <= x \div P /\ x \div P < H /\ (x >= 0 => x \div P >= 0)
  <1> DEFINE q == x \div P
             r == x % P
             h == q \div 2
             e == q % 2
  <1>1. Divided(x, P, q, r)
    BY DivisionIs
  <1> HIDE DEF q, r
  <1>2. q \in Int /\ r \in 0..P - 1 /\ r \in Int /\ x = P * q + r /\ P \in Int
    BY <1>1 DEF Divided
  <1>3. h \in Int /\ e \in Int /\ (e = 0 \/ e = 1) /\ q = 2 * h + e
    BY <1>2
  <1>4. Divided(x, 2 * P, h, P * e + r)
    <2> HIDE DEF h, e
    <2>1. P * (2 * h + e) = (2 * P) * h + P * e /\ P * e \in Int
      BY <1>2, <1>3
    <2>2. P * e + r \in 0..2 * P - 1
      BY <1>2, <1>3
    <2>3. QED
      BY <1>2, <1>3, <2>1, <2>2 DEF Divided
  <1>5. h = x \div (2 * P)
    BY <1>4, DivisionOnly
  <1>6. q < H
    <2>1. ASSUME q >= 1 PROVE q < H
      <3>1. q * P >= q /\ q * P = P * q
        BY <1>2, <2>1, FactorOne
      <3>2. QED
        BY <1>2, <3>1
    <2>2. CASE H = 0
      BY <2>2
    <2>3. QED
      BY <1>2, <2>1, <2>2
  <1>7. -H <= q /\ (x >= 0 => q >= 0)
    <2>1. ASSUME q <= -1 PROVE -H <= q /\ x < 0
      <3> DEFINE d == -(q + 1)
      <3>1. d \in Nat /\ d * P = -(P * q) - P /\ d * P \in Int
        BY <1>2, <2>1
      <3>2. d * P >= d
        <4>1. CASE d = 0
          BY <4>1
        <4>2. CASE d # 0
          <5> HIDE DEF d
          <5>1. QED
            BY <3>1, <4>2, FactorOne
        <4>3. QED
          BY <4>1, <4>2
      <3>3. P * q = -(d * P) - P
        BY <1>2, <3>1
      <3>4. x < q + 1
        BY <1>2, <2>1, <3>1, <3>2, <3>3
      <3>5. QED
        BY <1>2, <2>1, <3>4
    <2>2. QED
      BY <1>2, <2>1
  <1>8. QED
    BY <1>2, <1>5, <1>6, <1>7 DEF q

-----------------------------------------------------------------------------
(* The bits of a word.                                                     *)

(* Induction: a set of natural numbers has a least element.                *)
LEMMA LeastNat ==
  ASSUME NEW T, T \subseteq Nat, T # {}
  PROVE  \E x \in T : \A y \in T : x <= y
  <1> DEFINE R == OpToRel(<, Nat)
  <1>1. IsWellFoundedOn(R, Nat)
    BY NatLessThanWellFounded
  <1>2. R = {ss \in Nat \X Nat : ss[1] < ss[2]}
    BY DEF OpToRel
  <1> HIDE DEF R
  <1>3. PICK x \in T : \A y \in T : ~ (<<y, x>> \in R)
    BY <1>1, WFMin
  <1>4. ASSUME NEW y \in T PROVE x <= y
    <2>1. <<y, x>> \notin {ss \in Nat \X Nat : ss[1] < ss[2]}
      BY <1>2, <1>3
    <2>2. x \in Nat /\ y \in Nat
      OBVIOUS
    <2>3. ~(y < x)
      BY <2>1, <2>2
    <2>4. QED
      BY <2>2, <2>3
  <1>5. QED
    BY <1>4

(* Positions add up.                                                       *)
LEMMA PowersAdd ==
  ASSUME NEW i \in Nat, NEW j \in Nat, i + j <= 31
  PROVE  2^i * 2^j = 2^(i + j)
  <1> DEFINE Fails == {k \in Nat : i + k <= 31 /\ 2^i * 2^k # 2^(i + k)}
  <1>1. SUFFICES ASSUME Fails # {} PROVE FALSE
    OBVIOUS
  <1>2. PICK k \in Fails : \A l \in Fails : k <= l
    <2>1. Fails \subseteq Nat
      OBVIOUS
    <2> HIDE DEF Fails
    <2>2. QED
      BY <1>1, <2>1, LeastNat
  <1>3. k \in Nat /\ i + k <= 31 /\ 2^i * 2^k # 2^(i + k) /\ i \in 0..31 /\ 2^0 = 1
    BY PowersAre
  <1>4. 2^i \in Nat
    <2>1. Power(i)
      BY <1>3, PowerIs
    <2>2. QED
      BY <2>1 DEF Power
  <1>5. CASE k = 0
    BY <1>3, <1>4, <1>5
  <1>6. CASE k # 0
    <2> DEFINE l == k - 1
    <2>1. l \in 0..31 /\ i + l \in 0..31 /\ k = l + 1 /\ i + k = (i + l) + 1 /\ ~(k <= l)
      BY <1>3, <1>6
    <2>2. 2^i * 2^l = 2^(i + l)
      BY <1>2, <2>1
    <2>3. Power(l) /\ Power(i + l)
      BY <2>1, PowerIs
    <2> HIDE DEF l
    <2>4. 2^l \in Nat /\ 2^k = 2 * 2^l /\ 2^(i + k) = 2 * 2^(i + l)
      BY <2>1, <2>3 DEF Power
    <2>5. 2^i * (2 * 2^l) = 2 * (2^i * 2^l)
      BY <1>4, <2>4
    <2>6. QED
      BY <1>3, <2>2, <2>4, <2>5
  <1>7. QED
    BY <1>5, <1>6

(* Setting a bit that is clear sets no other and carries nothing.          *)
BitAt(v, P) == (v \div P) % 2

LEMMA SetOwn ==
  ASSUME NEW v \in Nat, NEW P \in Nat, P # 0, BitAt(v, P) = 0
  PROVE  BitAt(v + P, P) = 1
  <1> DEFINE q == v \div P
             r == v % P
  <1>1. Divided(v, P, q, r)
    <2>1. v \in Int
      OBVIOUS
    <2>2. QED
      BY <2>1, DivisionIs
  <1>2. q % 2 = 0
    BY DEF BitAt
  <1> HIDE DEF q, r
  <1>3. q \in Int /\ r \in 0..P - 1 /\ v = P * q + r /\ P * (q + 1) = P * q + P
    BY <1>1 DEF Divided
  <1>4. Divided(v + P, P, q + 1, r)
    BY <1>3 DEF Divided
  <1>5. (v + P) \div P = q + 1
    BY <1>3, <1>4, DivisionOnly
  <1>6. QED
    BY <1>2, <1>3, <1>5 DEF BitAt

\* the weight H of a position above that of weight L
Above(H, L) == \E K \in Nat : K # 0 /\ H = L * (2 * K)

LEMMA SetAbove ==
  ASSUME NEW v \in Nat, NEW J \in Nat, J # 0, NEW P, Above(P, J)
  PROVE  BitAt(v + P, J) = BitAt(v, J)
  <1>0. PICK K \in Nat : K # 0 /\ P = J * (2 * K)
    BY DEF Above
  <1> DEFINE q == v \div J
             r == v % J
  <1>1. Divided(v, J, q, r)
    <2>1. v \in Int
      OBVIOUS
    <2>2. QED
      BY <2>1, DivisionIs
  <1> HIDE DEF q, r
  <1>2. q \in Int /\ r \in 0..J - 1 /\ v = J * q + r /\ J * (q + 2 * K) = J * q + P
        /\ P \in Int /\ J * q \in Int
    <2>1. q \in Int /\ r \in 0..J - 1 /\ v = J * q + r
      BY <1>1 DEF Divided
    <2>2. J * (q + 2 * K) = J * q + J * (2 * K) /\ J * q \in Int /\ J * (2 * K) \in Int
      BY <2>1
    <2>3. QED
      BY <1>0, <2>1, <2>2
  <1>3. Divided(v + P, J, q + 2 * K, r)
    BY <1>2 DEF Divided
  <1>4. (v + P) \div J = q + 2 * K /\ v \div J = q
    BY <1>1, <1>2, <1>3, DivisionOnly
  <1>5. (q + 2 * K) % 2 = q % 2
    BY <1>2
  <1>6. QED
    BY <1>4, <1>5 DEF BitAt

LEMMA SetBelow ==
  ASSUME NEW v \in Nat, NEW P \in Nat, P # 0, BitAt(v, P) = 0, NEW J, Above(J, P)
  PROVE  (v + P) \div J = v \div J
  <1>0. PICK K \in Nat : K # 0 /\ J = P * (2 * K)
    BY DEF Above
  <1> DEFINE q == v \div P
             r == v % P
             h == q \div 2
             a == h \div K
             b == h % K
  <1>1. Divided(v, P, q, r)
    <2>1. v \in Int
      OBVIOUS
    <2>2. QED
      BY <2>1, DivisionIs
  <1>2. q % 2 = 0
    BY DEF BitAt
  <1> HIDE DEF q, r
  <1>3. q \in Int /\ r \in 0..P - 1 /\ r \in Int /\ v = P * q + r
    BY <1>1 DEF Divided
  <1>4. h \in Int /\ q = 2 * h
    BY <1>2, <1>3
  <1> HIDE DEF h
  <1>5. Divided(h, K, a, b)
    BY <1>0, <1>4, DivisionIs
  <1> HIDE DEF a, b
  <1>6. a \in Int /\ b \in 0..K - 1 /\ b \in Int /\ h = K * a + b
    BY <1>5 DEF Divided
  <1> DEFINE p == 2 * b * P
  <1>7. J \in Nat /\ J # 0 /\ J \in Int /\ P * (2 * (K * a + b)) = J * a + p /\ p \in Int
    <2>1. P * K \in Nat /\ P * K # 0 /\ J = 2 * (P * K)
      BY <1>0, <1>3
    <2>2. P * (2 * (K * a + b)) = (P * (2 * K)) * a + 2 * b * P
      BY <1>6
    <2>3. QED
      BY <1>0, <1>6, <2>1, <2>2
  <1>8. 0 <= p /\ p + 2 * P <= J
    <2> DEFINE c == K - 1 - b
    <2>1. c \in Nat /\ K = b + 1 + c /\ b \in Nat
      BY <1>0, <1>6
    <2>2. P * (2 * K) = p + 2 * P + 2 * (c * P)
      BY <2>1
    <2>3. c * P \in Nat /\ b * P \in Nat /\ p = 2 * (b * P)
      BY <2>1
    <2> HIDE DEF p, c
    <2>4. QED
      BY <1>0, <2>2, <2>3
  <1>9. v = J * a + (p + r) /\ v + P = J * a + (p + r + P)
    BY <1>3, <1>4, <1>6, <1>7
  <1> HIDE DEF p
  <1>10. Divided(v, J, a, p + r) /\ Divided(v + P, J, a, p + r + P)
    BY <1>3, <1>6, <1>7, <1>8, <1>9 DEF Divided
  <1>11. QED
    BY <1>7, <1>10, DivisionOnly

\* the weight of a position, and that of a higher one
LEMMA WeightIs ==
  ASSUME NEW i \in 0..31
  PROVE  2^i \in Nat /\ 2^i # 0
  <1>1. Power(i)
    BY PowerIs
  <1>2. QED
    BY <1>1 DEF Power

LEMMA HigherIs ==
  ASSUME NEW i \in 0..16, NEW j \in 0..16, i < j
  PROVE  Above(2^j, 2^i)
  <1> DEFINE k == j - i - 1
             l == j - i
  <1>1. k \in 0..31 /\ l = k + 1 /\ i + l = j /\ i \in Nat /\ l \in Nat /\ j <= 31
    OBVIOUS
  <1>2. 2^k \in Nat /\ 2^k # 0 /\ 2^(k + 1) = 2 * 2^k
    <2>1. Power(k)
      BY <1>1, PowerIs
    <2>2. QED
      BY <2>1 DEF Power
  <1> HIDE DEF k, l
  <1>3. 2^i * 2^l = 2^j
    BY <1>1, PowersAdd
  <1>4. QED
    BY <1>1, <1>2, <1>3 DEF Above

(* Setting a bit of a word that is clear.                                  *)
LEMMA BitSet ==
  ASSUME NEW b \in 1..16, NEW x \in 0..b - 1, NEW v \in Nat, v < 2^b, Bit(v, x) = 0
  PROVE  /\ v + 2^x \in Nat /\ v + 2^x < 2^b
         /\ Bit(v + 2^x, x) = 1
         /\ \A i \in (0..b - 1) \ {x} : Bit(v + 2^x, i) = Bit(v, i)
  <1> DEFINE P == 2^x
  <1>0. x \in 0..16 /\ x \in 0..31 /\ b \in 0..16 /\ b \in 0..31
    OBVIOUS
  <1>1. P \in Nat /\ P # 0 /\ BitAt(v, P) = 0
    BY <1>0, WeightIs DEF Bit, BitAt
  <1>2. Bit(v + P, x) = 1
    <2> HIDE DEF P
    <2>1. BitAt(v + P, P) = 1
      BY <1>1, SetOwn
    <2>2. QED
      BY <2>1 DEF BitAt, Bit, P
  <1>3. ASSUME NEW i \in 0..x - 1 PROVE Bit(v + P, i) = Bit(v, i)
    <2> DEFINE J == 2^i
    <2>0. i \in 0..16 /\ i \in 0..31 /\ i < x
      BY <1>0
    <2>1. J \in Nat /\ J # 0
      BY <2>0, WeightIs
    <2>2. Above(P, J)
      BY <1>0, <2>0, HigherIs
    <2> HIDE DEF P, J
    <2>3. BitAt(v + P, J) = BitAt(v, J)
      BY <2>1, <2>2, SetAbove
    <2>4. QED
      BY <2>3 DEF BitAt, Bit, J
  <1>4. ASSUME NEW i \in x + 1..b PROVE (v + P) \div 2^i = v \div 2^i
    <2> DEFINE J == 2^i
    <2>1. i \in 0..16 /\ x < i
      BY <1>0
    <2>2. Above(J, P)
      BY <1>0, <2>1, HigherIs
    <2> HIDE DEF P, J
    <2>3. (v + P) \div J = v \div J
      BY <1>1, <2>2, SetBelow
    <2>4. QED
      BY <2>3 DEF J
  <1>5. v + P < 2^b
    <2> DEFINE M == 2^b
               z == 0
               q == (v + P) \div M
               r == (v + P) % M
    <2>1. M \in Nat /\ M # 0 /\ z \in Int
      BY <1>0, WeightIs
    <2>2. q = v \div M
      BY <1>4
    <2>3. Divided(v, M, z, v)
      BY <2>1 DEF Divided
    <2>4. Divided(v + P, M, q, r)
      <3>1. v + P \in Int
        BY <1>1
      <3>2. QED
        BY <2>1, <3>1, DivisionIs
    <2> HIDE DEF M, q, r, z, P
    <2>5. q = z
      BY <2>2, <2>3, DivisionOnly
    <2>6. QED
      BY <2>1, <2>4, <2>5 DEF Divided, z, M
  <1>6. ASSUME NEW i \in (0..b - 1) \ {x} PROVE Bit(v + P, i) = Bit(v, i)
    <2>1. CASE i < x
      BY <1>3, <2>1
    <2>2. CASE i > x
      <3>1. (v + P) \div 2^i = v \div 2^i
        BY <1>4, <2>2
      <3>2. QED
        BY <3>1 DEF Bit
    <2>3. QED
      BY <2>1, <2>2
  <1>7. v + P \in Nat
    BY <1>1
  <1>8. QED
    BY <1>2, <1>5, <1>6, <1>7

(* A word is its bits.                                                     *)
LEMMA BitsEqual ==
  ASSUME NEW b \in 1..16, NEW x \in Nat, NEW y \in Nat, x < 2^b, y < 2^b,
         \A i \in 0..b - 1 : Bit(x, i) = Bit(y, i)
  PROVE  x = y
  <1> DEFINE Same == {k \in Nat : k <= b /\ x \div 2^k = y \div 2^k}
  <1>1. b \in Same
    <2> DEFINE M == 2^b
               z == 0
    <2>1. M \in Nat /\ M # 0 /\ z \in Int
      BY WeightIs
    <2>2. Divided(x, M, z, x) /\ Divided(y, M, z, y)
      BY <2>1 DEF Divided
    <2> HIDE DEF M, z
    <2>3. x \div M = z /\ y \div M = z
      BY <2>2, DivisionOnly
    <2>4. QED
      BY <2>3 DEF M
  <1>2. PICK k \in Same : \A l \in Same : k <= l
    <2>1. Same \subseteq Nat
      OBVIOUS
    <2> HIDE DEF Same
    <2>2. QED
      BY <1>1, <2>1, LeastNat
  <1>3. CASE k = 0
    <2>1. x \div 2^0 = y \div 2^0 /\ 2^0 = 1
      BY <1>2, <1>3, PowersAre
    <2>2. QED
      BY <2>1
  <1>4. CASE k # 0
    <2> DEFINE j == k - 1
               P == 2^j
               q == x \div P
               r == y \div P
    <2>1. j \in 0..31 /\ j \in 0..b - 1 /\ k = j + 1 /\ j \in Nat /\ j < b /\ ~(k <= j)
      BY <1>2, <1>4
    <2>2. P \in Nat /\ P # 0 /\ 2^k = 2 * P
      <3>1. Power(j)
        BY <2>1, PowerIs
      <3>2. QED
        BY <2>1, <3>1 DEF Power
    <2>3. q % 2 = r % 2
      <3>1. Bit(x, j) = Bit(y, j)
        BY <2>1
      <3>2. QED
        BY <3>1 DEF Bit
    <2>4. x \div (2 * P) = y \div (2 * P)
      BY <1>2, <2>2
    <2>5. q \in Int /\ r \in Int
      BY <2>2
    <2>6. q \div 2 = x \div (2 * P) /\ r \div 2 = y \div (2 * P)
      <3> DEFINE H == x + y + 1
      <3>1. H \in Nat /\ -H <= x /\ x < H /\ -H <= y /\ y < H /\ x \in Int /\ y \in Int
        OBVIOUS
      <3> HIDE DEF H, P
      <3>2. QED
        BY <2>2, <3>1, DividedTwice
    <2>7. q = r
      <3> HIDE DEF q, r
      <3>1. QED
        BY <2>3, <2>4, <2>5, <2>6
    <2>8. j \in Same
      BY <2>1, <2>7
    <2>9. QED
      BY <1>2, <2>1, <2>8
  <1>5. QED
    BY <1>3, <1>4

(* Induction over subsets: a set of subsets has one with none below it.     *)
LEMMA LeastSubset ==
  ASSUME NEW S, IsFiniteSet(S), NEW T, T \subseteq SUBSET S, T # {}
  PROVE  \E s \in T : \A t \in T : t \subseteq s => t = s
  <1> DEFINE R == StrictSubsetOrdering(S)
  <1>1. IsWellFoundedOn(R, SUBSET S)
    BY FS_StrictSubsetOrderingWellFounded, FS_FiniteSubsetsOfFinite
  <1>2. \A s, t \in SUBSET S : t \subseteq s /\ t # s => <<t, s>> \in R
    BY DEF StrictSubsetOrdering
  <1> HIDE DEF R
  <1>3. PICK s \in T : \A t \in T : ~ (<<t, s>> \in R)
    BY <1>1, WFMin
  <1>4. QED
    BY <1>2, <1>3

\* the fold of the community modules, for the values V of the elements of S
Chosen(s) == CHOOSE x \in s : TRUE
FoldsTo(V, S, g) ==
  g = [s \in SUBSET S |-> IF s = {} THEN 0 ELSE V[Chosen(s)] + g[s \ {Chosen(s)}]]

LEMMA ChosenIs ==
  ASSUME NEW s, s # {}
  PROVE  Chosen(s) \in s
  BY DEF Chosen

LEMMA FoldIs ==
  ASSUME NEW V, NEW S, NEW g, FoldsTo(V, S, g), NEW s \in SUBSET S
  PROVE  /\ s = {} => g[s] = 0
         /\ s # {} => g[s] = V[Chosen(s)] + g[s \ {Chosen(s)}]
  BY DEF FoldsTo

(* Two folds agree where both are defined.                                 *)
LEMMA FoldOnly ==
  ASSUME NEW S, IsFiniteSet(S), NEW V, NEW A \in SUBSET S, NEW B \in SUBSET S,
         NEW g, FoldsTo(V, A, g), NEW h, FoldsTo(V, B, h),
         NEW s \in SUBSET A, s \in SUBSET B
  PROVE  g[s] = h[s]
  <1> DEFINE Fails == {t \in SUBSET S : t \subseteq A /\ t \subseteq B /\ g[t] # h[t]}
  <1>1. SUFFICES ASSUME Fails # {} PROVE FALSE
    OBVIOUS
  <1>2. PICK t \in Fails : \A u \in Fails : u \subseteq t => u = t
    <2>1. Fails \subseteq SUBSET S
      OBVIOUS
    <2> HIDE DEF Fails
    <2>2. QED
      BY <1>1, <2>1, LeastSubset
  <1>3. t \in SUBSET A /\ t \in SUBSET B /\ g[t] # h[t]
    OBVIOUS
  <1>4. CASE t = {}
    BY <1>3, <1>4, FoldIs
  <1>5. CASE t # {}
    <2> DEFINE c == Chosen(t)
               u == t \ {c}
    <2>1. c \in t
      BY <1>5, ChosenIs
    <2> HIDE DEF c
    <2>2. g[u] = h[u]
      BY <1>2, <2>1
    <2> HIDE DEF Fails
    <2>0. t \in SUBSET A /\ t \in SUBSET B
      BY <1>3
    <2> USE DEF c
    <2>3. g[t] = V[c] + g[u]
      BY <1>5, <2>0, FoldIs
    <2>4. h[t] = V[c] + h[u]
      BY <1>5, <2>0, FoldIs
    <2>5. QED
      BY <1>3, <2>2, <2>3, <2>4
  <1>6. QED
    BY <1>4, <1>5

(* There is a fold over every finite set.                                  *)
LEMMA FoldExists ==
  ASSUME NEW S, IsFiniteSet(S), NEW V
  PROVE  \E g : FoldsTo(V, S, g)
  <1> DEFINE Fails == {t \in SUBSET S : ~\E g : FoldsTo(V, t, g)}
  <1>1. SUFFICES ASSUME Fails # {} PROVE FALSE
    OBVIOUS
  <1>2. PICK s \in Fails : \A u \in Fails : u \subseteq s => u = s
    <2>1. Fails \subseteq SUBSET S
      OBVIOUS
    <2> HIDE DEF Fails
    <2>2. QED
      BY <1>1, <2>1, LeastSubset
  <1>3. s \in SUBSET S /\ ~\E g : FoldsTo(V, s, g)
    OBVIOUS
  <1> DEFINE H(u) == CHOOSE h : FoldsTo(V, u, h)
             g == [t \in SUBSET s |->
                    IF t = {} THEN 0
                    ELSE V[Chosen(t)] + H(t \ {Chosen(t)})[t \ {Chosen(t)}]]
  <1>4. ASSUME NEW u \in SUBSET s, u # s PROVE FoldsTo(V, u, H(u))
    <2>1. u \notin Fails /\ u \in SUBSET S
      BY <1>2, <1>3, <1>4
    <2>2. \E h : FoldsTo(V, u, h)
      BY <2>1
    <2>3. QED
      BY <2>2
  <1> HIDE DEF H
  <1>5. ASSUME NEW u \in SUBSET s, u # s PROVE g[u] = H(u)[u]
    <2>1. CASE u = {}
      <3>1. g[u] = 0
        BY <2>1
      <3>2. FoldsTo(V, u, H(u)) /\ u \in SUBSET u
        BY <1>4, <1>5
      <3> HIDE DEF g, Fails
      <3>3. H(u)[u] = 0
        BY <2>1, <3>2, FoldIs
      <3>4. QED
        BY <3>1, <3>3
    <2>2. CASE u # {}
      <3> DEFINE c == Chosen(u)
                 v == u \ {c}
      <3>1. c \in u
        BY <2>2, ChosenIs
      <3>2. v \in SUBSET s /\ v # s /\ v \in SUBSET u /\ v \in SUBSET S /\ u \in SUBSET S
        BY <1>3, <3>1
      <3>3. g[u] = V[c] + H(v)[v]
        BY <1>5, <2>2
      <3>4. H(u)[u] = V[c] + H(u)[v]
        <4>1. FoldsTo(V, u, H(u)) /\ u \in SUBSET u
          BY <1>4, <1>5
        <4> HIDE DEF g, Fails
        <4>2. QED
          BY <2>2, <4>1, FoldIs
      <3>5. FoldsTo(V, u, H(u)) /\ FoldsTo(V, v, H(v)) /\ v \in SUBSET v
        BY <1>4, <1>5, <3>2
      <3> HIDE DEF c, v, g
      <3>6. H(u)[v] = H(v)[v]
        BY <3>2, <3>5, FoldOnly
      <3>7. QED
        BY <3>3, <3>4, <3>6
    <2>3. QED
      BY <2>1, <2>2
  <1>6. FoldsTo(V, s, g)
    <2> DEFINE k == [t \in SUBSET s |-> IF t = {} THEN 0 ELSE V[Chosen(t)] + g[t \ {Chosen(t)}]]
    <2>1. ASSUME NEW t \in SUBSET s PROVE g[t] = k[t]
      <3>1. CASE t = {}
        BY <3>1
      <3>2. CASE t # {}
        <4> DEFINE c == Chosen(t)
                   v == t \ {c}
        <4>1. v \in SUBSET s /\ v # s
          BY <3>2, ChosenIs
        <4>2. g[v] = H(v)[v]
          BY <1>5, <4>1
        <4>3. g[t] = V[c] + H(v)[v] /\ k[t] = V[c] + g[v]
          BY <3>2
        <4>4. QED
          BY <4>2, <4>3
      <3>3. QED
        BY <3>1, <3>2
    <2>2. g = k
      BY <2>1
    <2>3. QED
      BY <2>2 DEF FoldsTo
  <1>7. QED
    BY <1>3, <1>6

(* The elements may be taken in any order.                                 *)
LEMMA FoldInt ==
  ASSUME NEW S, IsFiniteSet(S), NEW V, \A x \in S : V[x] \in Int, NEW g, FoldsTo(V, S, g)
  PROVE  \A s \in SUBSET S : g[s] \in Int
  <1> DEFINE Fails == {s \in SUBSET S : g[s] \notin Int}
  <1>1. SUFFICES ASSUME Fails # {} PROVE FALSE
    OBVIOUS
  <1>2. PICK s \in Fails : \A u \in Fails : u \subseteq s => u = s
    <2>1. Fails \subseteq SUBSET S
      OBVIOUS
    <2> HIDE DEF Fails
    <2>2. QED
      BY <1>1, <2>1, LeastSubset
  <1>3. s \in SUBSET S /\ g[s] \notin Int
    OBVIOUS
  <1>4. CASE s = {}
    BY <1>3, <1>4 DEF FoldsTo
  <1>5. CASE s # {}
    <2> DEFINE c == Chosen(s)
               u == s \ {c}
    <2>1. c \in s
      BY <1>5, ChosenIs
    <2>2. g[u] \in Int /\ V[c] \in Int
      BY <1>2, <1>3, <2>1
    <2> HIDE DEF Fails
    <2>3. s \in SUBSET S
      BY <1>3
    <2>4. g[s] = V[c] + g[u]
      BY <1>5, <2>3 DEF FoldsTo
    <2>5. QED
      BY <1>3, <2>2, <2>4
  <1>6. QED
    BY <1>4, <1>5

AnyOrder(V, S, g) == \A s \in SUBSET S : \A x \in s : g[s] = V[x] + g[s \ {x}]

LEMMA FoldAny ==
  ASSUME NEW S, IsFiniteSet(S), NEW V, \A x \in S : V[x] \in Int, NEW g, FoldsTo(V, S, g)
  PROVE  AnyOrder(V, S, g)
  <1> DEFINE Any(s) == \A x \in s : g[s] = V[x] + g[s \ {x}]
             Fails == {s \in SUBSET S : ~Any(s)}
  <1>1. SUFFICES ASSUME Fails # {} PROVE FALSE
    <2>1. SUFFICES ASSUME NEW s \in SUBSET S PROVE Any(s)
      BY Zenon DEF AnyOrder
    <2> HIDE DEF Any
    <2>2. s \notin Fails
      BY <1>1
    <2>3. QED
      BY <2>2
  <1>2. PICK s \in Fails : \A u \in Fails : u \subseteq s => u = s
    <2>1. Fails \subseteq SUBSET S
      OBVIOUS
    <2> HIDE DEF Fails
    <2>2. QED
      BY <1>1, <2>1, LeastSubset
  <1>3. s \in SUBSET S /\ ~\A x \in s : g[s] = V[x] + g[s \ {x}]
    OBVIOUS
  <1>4. PICK x \in s : g[s] # V[x] + g[s \ {x}]
    BY <1>3
  <1>5. ASSUME NEW u \in SUBSET s, u # s, NEW y \in u PROVE g[u] = V[y] + g[u \ {y}]
    BY <1>2, <1>3, <1>5
  <1> HIDE DEF Fails
  <1> DEFINE c == Chosen(s)
  <1>6. c \in s /\ g[s] = V[c] + g[s \ {c}]
    BY <1>3, <1>4, ChosenIs, FoldIs
  <1> HIDE DEF c
  <1>7. c # x
    BY <1>4, <1>6
  <1> DEFINE u == s \ {c}
             t == s \ {x}
             r == (s \ {c}) \ {x}
  <1>8. u \in SUBSET s /\ u # s /\ x \in u /\ t \in SUBSET s /\ t # s /\ c \in t
        /\ u \ {x} = r /\ t \ {c} = r /\ r \in SUBSET S
    BY <1>3, <1>4, <1>6, <1>7
  <1> HIDE DEF u, t, r
  <1>9. g[u] = V[x] + g[r]
    BY <1>5, <1>8
  <1>10. g[t] = V[c] + g[r]
    BY <1>5, <1>8
  <1>11. g[r] \in Int /\ V[x] \in Int /\ V[c] \in Int
    BY <1>3, <1>4, <1>6, <1>8, FoldInt
  <1>12. g[s] = V[c] + g[u] /\ g[s] # V[x] + g[t]
    BY <1>4, <1>6 DEF u, t
  <1>13. QED
    BY <1>9, <1>10, <1>11, <1>12

(* A sum of bits over a set of positions has those bits and no other.       *)
Weights(F, S) == [i \in S |-> 2^i * F[i]]
Folded(v, V, S) == \E g : FoldsTo(V, S, g) /\ v = g[S]
Positions(b) == 0..b - 1

LEMMA SumBits ==
  ASSUME NEW b \in 1..16, NEW F, \A i \in Positions(b) : F[i] \in {0, 1},
         NEW v, Folded(v, Weights(F, Positions(b)), Positions(b))
  PROVE  v \in 0..2^b - 1 /\ \A i \in Positions(b) : Bit(v, i) = F[i]
  <1> DEFINE S == Positions(b)
  <1>9. \A i \in S : F[i] \in {0, 1}
    OBVIOUS
  <1> HIDE DEF S
  <1>1. PICK g : FoldsTo(Weights(F, S), S, g) /\ v = g[S]
    BY DEF Folded, S
  <1> DEFINE Sum(s) == /\ g[s] \in Nat /\ g[s] < 2^b
                       /\ \A i \in S : Bit(g[s], i) = IF i \in s THEN F[i] ELSE 0
             Fails == {s \in SUBSET S : ~Sum(s)}
  <1>2. SUFFICES ASSUME Fails # {} PROVE FALSE
    <2>1. SUFFICES Sum(S)
      <3>1. b \in 0..31
        OBVIOUS
      <3>2. 2^b \in Nat
        BY <3>1, WeightIs
      <3>3. QED
        BY <1>1, <2>1, <3>2 DEF S
    <2>2. QED
      OBVIOUS
  <1>3. PICK s \in Fails : \A u \in Fails : u \subseteq s => u = s
    <2>1. Fails \subseteq SUBSET S
      OBVIOUS
    <2>2. IsFiniteSet(S)
      BY FS_Interval DEF Positions, S
    <2> HIDE DEF Fails
    <2>3. QED
      BY <1>2, <2>1, <2>2, LeastSubset
  <1>4. s \in SUBSET S /\ ~Sum(s)
    OBVIOUS
  <1> HIDE DEF Fails
  <1> DEFINE W == Weights(F, S)
  <1> HIDE DEF Sum, W
  <1>0. FoldsTo(W, S, g)
    BY <1>1 DEF W
  <1>8. /\ s = {} => g[s] = 0
        /\ s # {} => g[s] = W[Chosen(s)] + g[s \ {Chosen(s)}]
    BY <1>0, <1>4, FoldIs
  <1>5. CASE s = {}
    <2>1. g[s] = 0
      BY <1>5, <1>8
    <2>2. 0 < 2^b
      <3>1. b \in 0..31
        OBVIOUS
      <3>2. 2^b \in Nat /\ 2^b # 0
        BY <3>1, WeightIs
      <3>3. QED
        BY <3>2
    <2>3. ASSUME NEW i \in S PROVE Bit(0, i) = 0
      <3>1. i \in 0..31
        BY DEF Positions, S
      <3> DEFINE P == 2^i
      <3>2. P \in Nat /\ P # 0
        BY <3>1, WeightIs
      <3> HIDE DEF P
      <3>3. 0 \div P = 0 /\ 0 % 2 = 0
        BY <3>2
      <3>4. QED
        BY <3>3 DEF Bit, P
    <2>4. QED
      BY <1>4, <1>5, <2>1, <2>2, <2>3 DEF Sum
  <1>6. CASE s # {}
    <2> DEFINE x == Chosen(s)
               u == s \ {x}
    <2>1. x \in s /\ x \in S /\ x \in 0..b - 1
      BY <1>4, <1>6, ChosenIs DEF Positions, S
    <2>2. g[s] = W[x] + g[u]
      BY <1>6, <1>8
    <2> HIDE DEF x
    <2>3. Sum(u)
      <3>1. u \in SUBSET S /\ u \subseteq s /\ u # s
        BY <1>4, <2>1
      <3> HIDE DEF u
      <3>2. QED
        BY <1>3, <3>1 DEF Fails
    <2>4. W[x] = 2^x * F[x] /\ F[x] \in {0, 1}
      BY <1>9, <2>1 DEF W, Weights
    <2>5. 2^x \in Nat
      <3>1. x \in 0..31
        BY <2>1 DEF Positions, S
      <3>2. QED
        BY <3>1, WeightIs
    <2> DEFINE t == g[u]
    <2>6. t \in Nat /\ t < 2^b /\ Bit(t, x) = 0
          /\ \A i \in S : Bit(t, i) = IF i \in u THEN F[i] ELSE 0
      BY <2>1, <2>3 DEF Sum
    <2>7. CASE F[x] = 0
      <3>1. g[s] = t
        BY <2>2, <2>4, <2>5, <2>6, <2>7
      <3>2. ASSUME NEW i \in S PROVE Bit(t, i) = IF i \in s THEN F[i] ELSE 0
        BY <2>6, <2>7
      <3>3. QED
        BY <1>4, <2>6, <3>1, <3>2 DEF Sum
    <2>8. CASE F[x] = 1
      <3>1. g[s] = t + 2^x
        BY <2>2, <2>4, <2>5, <2>6, <2>8
      <3> HIDE DEF t
      <3>2. /\ t + 2^x \in Nat /\ t + 2^x < 2^b
            /\ Bit(t + 2^x, x) = 1
            /\ \A i \in Positions(b) \ {x} : Bit(t + 2^x, i) = Bit(t, i)
        <4>1. x \in 0..b - 1 /\ t \in Nat /\ t < 2^b /\ Bit(t, x) = 0
          BY <2>1, <2>6
        <4>2. /\ t + 2^x \in Nat /\ t + 2^x < 2^b
              /\ Bit(t + 2^x, x) = 1
              /\ \A i \in (0..b - 1) \ {x} : Bit(t + 2^x, i) = Bit(t, i)
          BY <4>1, BitSet
        <4>3. QED
          BY <4>2 DEF Positions, S
      <3>3. ASSUME NEW i \in S PROVE Bit(t + 2^x, i) = IF i \in s THEN F[i] ELSE 0
        <4>1. CASE i = x
          BY <2>1, <2>8, <3>2, <4>1 DEF S
        <4>2. CASE i # x
          BY <2>6, <3>2, <4>2 DEF S
        <4>3. QED
          BY <4>1, <4>2
      <3>4. QED
        BY <1>4, <3>1, <3>2, <3>3 DEF Sum
    <2>9. QED
      BY <2>4, <2>7, <2>8
  <1>7. QED
    BY <1>5, <1>6

(* The bits of the results of AND, OR and XOR.                              *)
LEMMA AndFolds ==
  ASSUME NEW d, NEW s, NEW f, NEW w, w.bits \in 1..16
  PROVE  LET S == Positions(w.bits)
             F == [i \in S |-> Bit(d, i) * Bit(s, i)]
         IN  Folded(And(d, s, f, w).v, Weights(F, S), S)
  <1> DEFINE S == Positions(w.bits)
             F == [i \in S |-> Bit(d, i) * Bit(s, i)]
             c(t) == CHOOSE x \in t : TRUE
             Raw(g) == g = [t \in SUBSET S |->
                              IF t = {} THEN 0
                              ELSE 2^c(t) * (Bit(d, c(t)) * Bit(s, c(t))) + g[t \ {c(t)}]]
  <1>1. And(d, s, f, w).v = (CHOOSE g : Raw(g))[S]
    BY DEF Positions, And, Logic, Bitwise, MapThenSumSet, MapThenFoldSet
  <1>2. ASSUME NEW g PROVE FoldsTo(Weights(F, S), S, g) <=> Raw(g)
    BY DEF FoldsTo, Chosen, Weights
  <1>3. IsFiniteSet(S)
    BY FS_Interval DEF Positions
  <1> HIDE DEF S, F, Raw
  <1>4. \E g : Raw(g)
    BY <1>2, <1>3, FoldExists
  <1>5. Raw(CHOOSE g : Raw(g))
    BY <1>4, Zenon
  <1>6. QED
    BY <1>1, <1>2, <1>5 DEF Folded, S, F

LEMMA OrFolds ==
  ASSUME NEW d, NEW s, NEW f, NEW w, w.bits \in 1..16
  PROVE  LET S == Positions(w.bits)
             F == [i \in S |-> Bit(d, i) + Bit(s, i) - Bit(d, i) * Bit(s, i)]
         IN  Folded(Or(d, s, f, w).v, Weights(F, S), S)
  <1> DEFINE S == Positions(w.bits)
             F == [i \in S |-> Bit(d, i) + Bit(s, i) - Bit(d, i) * Bit(s, i)]
             c(t) == CHOOSE x \in t : TRUE
             Raw(g) == g = [t \in SUBSET S |->
                              IF t = {} THEN 0
                              ELSE 2^c(t) * (Bit(d, c(t)) + Bit(s, c(t))
                                               - Bit(d, c(t)) * Bit(s, c(t)))
                                     + g[t \ {c(t)}]]
  <1>1. Or(d, s, f, w).v = (CHOOSE g : Raw(g))[S]
    BY DEF Positions, Or, Logic, Bitwise, MapThenSumSet, MapThenFoldSet
  <1>2. ASSUME NEW g PROVE FoldsTo(Weights(F, S), S, g) <=> Raw(g)
    BY DEF FoldsTo, Chosen, Weights
  <1>3. IsFiniteSet(S)
    BY FS_Interval DEF Positions
  <1> HIDE DEF S, F, Raw
  <1>4. \E g : Raw(g)
    BY <1>2, <1>3, FoldExists
  <1>5. Raw(CHOOSE g : Raw(g))
    BY <1>4, Zenon
  <1>6. QED
    BY <1>1, <1>2, <1>5 DEF Folded, S, F

LEMMA XorFolds ==
  ASSUME NEW d, NEW s, NEW f, NEW w, w.bits \in 1..16
  PROVE  LET S == Positions(w.bits)
             F == [i \in S |-> (Bit(d, i) + Bit(s, i)) % 2]
         IN  Folded(Xor(d, s, f, w).v, Weights(F, S), S)
  <1> DEFINE S == Positions(w.bits)
             F == [i \in S |-> (Bit(d, i) + Bit(s, i)) % 2]
             c(t) == CHOOSE x \in t : TRUE
             Raw(g) == g = [t \in SUBSET S |->
                              IF t = {} THEN 0
                              ELSE 2^c(t) * ((Bit(d, c(t)) + Bit(s, c(t))) % 2)
                                     + g[t \ {c(t)}]]
  <1>1. Xor(d, s, f, w).v = (CHOOSE g : Raw(g))[S]
    BY DEF Positions, Xor, Logic, Bitwise, MapThenSumSet, MapThenFoldSet
  <1>2. ASSUME NEW g PROVE FoldsTo(Weights(F, S), S, g) <=> Raw(g)
    BY DEF FoldsTo, Chosen, Weights
  <1>3. IsFiniteSet(S)
    BY FS_Interval DEF Positions
  <1> HIDE DEF S, F, Raw
  <1>4. \E g : Raw(g)
    BY <1>2, <1>3, FoldExists
  <1>5. Raw(CHOOSE g : Raw(g))
    BY <1>4, Zenon
  <1>6. QED
    BY <1>1, <1>2, <1>5 DEF Folded, S, F

LEMMA BitIs ==
  ASSUME NEW v \in Nat, NEW i \in 0..31
  PROVE  Bit(v, i) \in {0, 1}
  <1> DEFINE P == 2^i
  <1>1. P \in Nat /\ P # 0
    BY WeightIs
  <1> HIDE DEF P
  <1>2. v \div P \in Int
    BY <1>1
  <1>3. (v \div P) % 2 \in {0, 1}
    BY <1>2
  <1>4. QED
    BY <1>3 DEF Bit, P
=============================================================================
