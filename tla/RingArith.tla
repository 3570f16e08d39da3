----------------------------- MODULE RingArith -----------------------------
(***************************************************************************)
(* Facts about indices that wrap: what the provers need to know of %.      *)
(***************************************************************************)
EXTENDS Integers, TLAPS

(* Quotient and remainder of a natural number. *)
LEMMA ModDef ==
  ASSUME NEW a \in Nat, NEW m \in Nat \ {0}
  PROVE  /\ a % m \in 0 .. m - 1
         /\ a \div m \in Nat
         /\ a = m * (a \div m) + (a % m)
OBVIOUS

(* The remainder is the only one in its range. *)
LEMMA ModUnique ==
  ASSUME NEW m \in Nat \ {0}, NEW r \in 0 .. m - 1, NEW a \in Nat,
         \E q \in Int : a = m * q + r
  PROVE  a % m = r
OBVIOUS

(* Consecutive multiples of m are m apart. *)
LEMMA MulBound ==
  ASSUME NEW m \in Nat \ {0}, NEW x \in Int, NEW y \in Int, x < y
  PROVE  m * x + m <= m * y
<1>1. y - x - 1 \in Nat
  OBVIOUS
<1>2. m * (y - x - 1) >= 0
  BY <1>1
<1> QED BY <1>2

(* Two indices less than m apart differ modulo m. *)
LEMMA ModInj ==
  ASSUME NEW a \in Nat, NEW b \in Nat, NEW m \in Nat \ {0}, a < b, b < a + m
  PROVE  a % m # b % m
<1> SUFFICES ASSUME a % m = b % m PROVE FALSE
  OBVIOUS
<1> DEFINE x == a \div m
           y == b \div m
<1>1. /\ x \in Nat /\ y \in Nat /\ a % m \in 0 .. m - 1
      /\ a = m * x + (a % m)
      /\ b = m * y + (b % m)
  BY ModDef
<1> HIDE DEF x, y
<1>2. CASE x < y
  BY <1>1, <1>2, MulBound
<1>3. CASE x >= y
  <2>1. m * (x - y) >= 0
    BY <1>1, <1>3
  <2> QED BY <1>1, <2>1
<1> QED BY <1>1, <1>2, <1>3

(* Adding multiples of n does not change the remainder. *)
LEMMA ModShift ==
  ASSUME NEW n \in Nat \ {0}, NEW r \in Nat, NEW a \in Nat,
         \E z \in Nat : a = n * z + r
  PROVE  a % n = r % n
<1>0. PICK z \in Nat : a = n * z + r
  OBVIOUS
<1> DEFINE s == r \div n
           t == r % n
<1>1. r = n * s + t /\ s \in Nat /\ t \in 0 .. n - 1
  BY ModDef
<1> HIDE DEF s, t
<1>2. n * z + n * s = n * (z + s)
  BY <1>1
<1>3. a = n * (z + s) + t /\ z + s \in Int
  BY <1>0, <1>1, <1>2
<1>4. \E q \in Int : a = n * q + t
  BY <1>3
<1>5. a % n = t
  BY <1>1, <1>4, ModUnique, Zenon
<1> QED BY <1>5 DEF t

Multiple(m, n) == \E k \in Nat \ {0} : m = n * k

(* An index kept modulo a multiple of n is still known modulo n. *)
LEMMA ModMod ==
  ASSUME NEW a \in Nat, NEW n \in Nat \ {0}, NEW m \in Nat \ {0}, Multiple(m, n)
  PROVE  (a % m) % n = a % n
<1> DEFINE q == a \div m
           r == a % m
<1>1. a = m * q + r /\ q \in Nat /\ r \in Nat
  <2>1. r \in 0 .. m - 1 /\ q \in Nat /\ a = m * q + r
    BY ModDef, Zenon
  <2> HIDE DEF q, r
  <2> QED BY <2>1
<1> HIDE DEF q, r
<1>2. \E z \in Nat : m * q = n * z
  <2>1. PICK k \in Nat \ {0} : m = n * k
    BY DEF Multiple
  <2>2. m * q = n * (k * q) /\ k * q \in Nat
    BY <1>1, <2>1
  <2> QED BY <2>2
<1>3. PICK z \in Nat : m * q = n * z
  BY <1>2
<1>4. \E y \in Nat : a = n * y + r
  BY <1>1, <1>3
<1>5. r \in Nat
  BY <1>1
<1>6. a % n = r % n
  BY <1>4, <1>5, ModShift, Zenon
<1> QED BY <1>6 DEF r

(* The quotient is the only one whose multiple is near enough. *)
LEMMA DivUnique ==
  ASSUME NEW m \in Nat \ {0}, NEW k \in Nat, NEW b \in Nat,
         k * m <= b, b < k * m + m
  PROVE  b \div m = k
<1> DEFINE q == b \div m
           r == b % m
<1>1. r \in 0 .. m - 1 /\ q \in Nat /\ b = m * q + r
  BY ModDef, Zenon
<1> HIDE DEF q, r
<1>2. CASE q < k
  <2>1. m * q + m <= m * k
    BY <1>1, <1>2, MulBound
  <2>2. m * k = k * m
    OBVIOUS
  <2> QED BY <1>1, <2>1, <2>2
<1>3. CASE k < q
  <2>1. m * k + m <= m * q
    BY <1>1, <1>3, MulBound
  <2>2. m * k = k * m
    OBVIOUS
  <2> QED BY <1>1, <2>1, <2>2
<1>4. q = k
  BY <1>1, <1>2, <1>3
<1> QED BY <1>4 DEF q
=============================================================================
