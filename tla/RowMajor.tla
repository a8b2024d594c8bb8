------------------------------ MODULE RowMajor ------------------------------
(***************************************************************************)
(* Arithmetic of row-major indices, for the proofs about flat tensors.     *)
(***************************************************************************)
EXTENDS Integers, TLAPS

\* A row-major index determines row and column.
LEMMA RowMajorUnique ==
  ASSUME NEW n \in Nat \ {0},
         NEW q \in Nat, NEW q2 \in Nat,
         NEW r \in 0 .. n - 1, NEW r2 \in 0 .. n - 1,
         q * n + r = q2 * n + r2
  PROVE  q = q2 /\ r = r2
<1>1. ASSUME NEW x \in Nat, NEW y \in Nat, x < y
      PROVE  x * n + n <= y * n
  <2>1. PICK d \in Nat : y = x + 1 + d
    <3>1. y - x - 1 \in Nat BY <1>1
    <3>2. y = x + 1 + (y - x - 1) BY <1>1
    <3> QED BY <3>1, <3>2
  <2>2. y * n = x * n + n + d * n BY <2>1
  <2>3. d * n >= 0 OBVIOUS
  <2>4. x * n \in Int /\ y * n \in Int /\ d * n \in Int OBVIOUS
  <2> QED BY <2>2, <2>3, <2>4
<1>2. q * n \in Int /\ q2 * n \in Int OBVIOUS
<1>3. ~(q < q2) BY <1>1, <1>2
<1>4. ~(q2 < q) BY <1>1, <1>2
<1> QED BY <1>2, <1>3, <1>4

\* A row-major index of an m by n matrix is below m * n.
LEMMA RowMajorBound ==
  ASSUME NEW m \in Nat, NEW n \in Nat,
         NEW q \in 0 .. m - 1, NEW r \in 0 .. n - 1
  PROVE  q * n + r \in 0 .. m * n - 1
<1>1. PICK d \in Nat : m = q + 1 + d
  <2>1. m - q - 1 \in Nat OBVIOUS
  <2>2. m = q + 1 + (m - q - 1) OBVIOUS
  <2> QED BY <2>1, <2>2
<1>2. m * n = q * n + n + d * n BY <1>1
<1>3. d * n >= 0 /\ q * n >= 0 OBVIOUS
<1>4. q * n \in Int /\ m * n \in Int /\ d * n \in Int OBVIOUS
<1> QED BY <1>2, <1>3, <1>4

\* Quotient and remainder give row and column back.
LEMMA Euclid ==
  ASSUME NEW n \in Nat \ {0}, NEW q \in Int, NEW r \in 0 .. n - 1
  PROVE  (q * n + r) % n = r /\ (q * n + r) \div n = q
<1> DEFINE a == q * n + r
           b == a \div n
           m == a % n
<1>0. a \in Int OBVIOUS
<1>1. m \in 0 .. n - 1 /\ b \in Int /\ a = b * n + m
  <2> HIDE DEF a
  <2> QED BY <1>0
<1>2. ASSUME NEW x \in Int, NEW y \in Int, x < y
      PROVE  x * n + n <= y * n
  <2>1. PICK d \in Nat : y = x + 1 + d
    <3>1. y - x - 1 \in Nat BY <1>2
    <3>2. y = x + 1 + (y - x - 1) BY <1>2
    <3> QED BY <3>1, <3>2
  <2>2. y * n = x * n + n + d * n BY <2>1
  <2>3. d * n >= 0 OBVIOUS
  <2>4. x * n \in Int /\ y * n \in Int /\ d * n \in Int OBVIOUS
  <2> QED BY <2>2, <2>3, <2>4
<1> HIDE DEF b, m
<1>3. a = q * n + r OBVIOUS
<1> HIDE DEF a
<1>4. q * n \in Int /\ b * n \in Int BY <1>1
<1>5. ~(q < b) BY <1>1, <1>2, <1>3, <1>4
<1>6. ~(b < q) BY <1>1, <1>2, <1>3, <1>4
<1>7. q = b BY <1>1, <1>5, <1>6
<1>8. r = m BY <1>1, <1>3, <1>4, <1>7
<1> QED BY <1>7, <1>8 DEF a, b, m

\* The quotient of a number below m * b is below m.
LEMMA QuotientBelow ==
  ASSUME NEW a \in Nat, NEW b \in Nat \ {0}, NEW m \in Nat, a < m * b
  PROVE  (a \div b) + 1 <= m
<1> DEFINE q == a \div b
           r == a % b
<1>1. q \in Nat /\ r \in 0 .. b - 1 /\ a = q * b + r OBVIOUS
<1> HIDE DEF q, r
<1>2. ASSUME m <= q PROVE FALSE
  <2>1. PICK d \in Nat : q = m + d
    <3>1. q - m \in Nat /\ q = m + (q - m) BY <1>1, <1>2
    <3> QED BY <3>1
  <2>2. q * b = m * b + d * b BY <2>1
  <2>3. d * b >= 0 OBVIOUS
  <2>4. m * b \in Int /\ d * b \in Int OBVIOUS
  <2> QED BY <1>1, <2>2, <2>3, <2>4
<1>3. q + 1 <= m BY <1>1, <1>2
<1> QED BY <1>3 DEF q

\* Products grow with their factors.
LEMMA Monotone ==
  ASSUME NEW a \in Nat, NEW b \in Nat, NEW c \in Nat, a <= b
  PROVE  a * c <= b * c
<1>1. PICK d \in Nat : b = a + d
  <2>1. b - a \in Nat /\ b = a + (b - a) OBVIOUS
  <2> QED BY <2>1
<1>2. b * c = a * c + d * c BY <1>1
<1>3. d * c >= 0 /\ a * c \in Int /\ d * c \in Int OBVIOUS
<1> QED BY <1>2, <1>3

\* A dividend of at least m divisors has a quotient of at least m.
LEMMA QuotientAbove ==
  ASSUME NEW a \in Nat, NEW b \in Nat \ {0}, NEW m \in Nat, m * b <= a
  PROVE  m <= (a \div b)
<1> DEFINE q == a \div b
           r == a % b
<1>1. q \in Nat /\ r \in 0 .. b - 1 /\ a = q * b + r OBVIOUS
<1> HIDE DEF q, r
<1>2. ASSUME q + 1 <= m PROVE FALSE
  <2>1. q + 1 \in Nat BY <1>1
  <2>2. (q + 1) * b <= m * b BY <1>2, <2>1, Monotone
  <2>3. (q + 1) * b = q * b + b BY <1>1
  <2>4. q * b \in Int /\ m * b \in Int BY <1>1
  <2> QED BY <1>1, <2>2, <2>3, <2>4
<1>3. m <= q BY <1>1, <1>2
<1> QED BY <1>3 DEF q

\* Every index of an m by n matrix has a row and a column.
LEMMA RowMajorSplit ==
  ASSUME NEW m \in Nat, NEW n \in Nat \ {0}, NEW t \in 0 .. m * n - 1
  PROVE  /\ (t \div n) \in 0 .. m - 1 /\ (t % n) \in 0 .. n - 1
         /\ t = (t \div n) * n + (t % n)
<1> DEFINE q == t \div n
           r == t % n
<1>1. m * n \in Nat OBVIOUS
<1>2. t \in Nat /\ t < m * n BY <1>1
<1>3. q \in Nat /\ r \in 0 .. n - 1 /\ t = q * n + r BY <1>2
<1>4. q + 1 <= m BY <1>2, QuotientBelow
<1> HIDE DEF q, r
<1> QED BY <1>3, <1>4 DEF q, r
=============================================================================
