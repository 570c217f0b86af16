------------------------------ MODULE Arithmetic ------------------------------
(***************************************************************************)
(* Facts about whole numbers that the proofs about Sntp and SystemTime     *)
(* rest on: division with remainder, for divisors that are not given, and  *)
(* the least element of a set, which is induction without operators.       *)
(***************************************************************************)
EXTENDS Integers, TLAPS, WellFoundedInduction

LEMMA LeastNat ==
  ASSUME NEW T \in SUBSET Nat, T # {}
  PROVE  \E n \in T : \A m \in T : n <= m
<1>1. PICK n \in T : \A m \in T : ~(<<m, n>> \in OpToRel(<, Nat))
  BY NatLessThanWellFounded, WFMin
<1>2. \A m \in T : ~(m < n)
  BY <1>1 DEF OpToRel
<1> QED
  BY <1>2

-----------------------------------------------------------------------------
(***************************************************************************)
(* Division with remainder                                                 *)
(***************************************************************************)
LEMMA DivMod ==
  ASSUME NEW n \in Int, NEW w \in Nat, w > 0
  PROVE  /\ n \div w \in Int
         /\ n % w \in 0 .. w - 1
         /\ n = w * (n \div w) + (n % w)
<1>1. n \div w \in Int
  BY SMT
<1>2. n % w \in Int /\ 0 <= n % w /\ n % w < w
  BY SMT
<1>3. n = w * (n \div w) + (n % w)
  BY Z3
<1> QED
  BY <1>1, <1>2, <1>3

(* The only multiple of w within w of 0.                                    *)
LEMMA SmallMultiple ==
  ASSUME NEW w \in Nat, NEW d \in Int, -w < w * d, w * d < w
  PROVE  d = 0
<1>1. CASE d >= 1
  <2>1. w * d >= w
    BY <1>1, Z3
  <2> QED
    BY <2>1
<1>2. CASE d <= -1
  <2>1. w * d <= -w
    BY <1>2, Z3
  <2> QED
    BY <2>1
<1> QED
  BY <1>1, <1>2

LEMMA DivModUnique ==
  ASSUME NEW n \in Int, NEW w \in Nat, w > 0, NEW q \in Int, NEW r \in 0 .. w - 1,
         n = w * q + r
  PROVE  n \div w = q /\ n % w = r
<1> DEFINE p == n \div w
           s == n % w
<1>1. p \in Int /\ s \in 0 .. w - 1 /\ n = w * p + s
  BY DivMod
<1> HIDE DEF p, s
<1>2. w * (p - q) = r - s
  BY <1>1, Z3
<1>3. p - q = 0
  BY <1>1, <1>2, SmallMultiple
<1>4. p = q
  BY <1>1, <1>3
<1>5. s = r
  BY <1>1, <1>4
<1> QED
  BY <1>4, <1>5 DEF p, s

(* Whole laps do not change a word.                                         *)
LEMMA ModShift ==
  ASSUME NEW n \in Int, NEW m \in Int, NEW w \in Nat, w > 0, NEW k \in Int,
         m = n + w * k
  PROVE  m % w = n % w
<1> DEFINE p == n \div w
           s == n % w
<1>1. p \in Int /\ s \in 0 .. w - 1 /\ n = w * p + s
  BY DivMod
<1> HIDE DEF p, s
<1>2. m = w * (p + k) + s
  BY <1>1, Z3
<1>3. m % w = s
  BY <1>1, <1>2, DivModUnique
<1> QED
  BY <1>3 DEF s

(* Any number may be replaced by its word in a sum that is made a word.     *)
LEMMA ModSum ==
  ASSUME NEW a \in Int, NEW b \in Int, NEW w \in Nat, w > 0
  PROVE  ((a % w) + b) % w = (a + b) % w
<1> DEFINE p == a \div w
           s == a % w
<1>1. p \in Int /\ s \in 0 .. w - 1 /\ a = w * p + s
  BY DivMod
<1> HIDE DEF p, s
<1> DEFINE m == s + b
           n == a + b
           k == -p
<1>2. m \in Int /\ n \in Int /\ k \in Int
  BY <1>1
<1>3. m = n + w * k
  BY <1>1, Z3
<1> HIDE DEF m, n, k
<1>4. m % w = n % w
  BY <1>2, <1>3, ModShift
<1> QED
  BY <1>4 DEF m, n, s

LEMMA ModSmall ==
  ASSUME NEW w \in Nat, w > 0, NEW r \in 0 .. w - 1
  PROVE  r % w = r
<1>1. w * 0 = 0
  BY SMT
<1>2. r \in Int /\ r = w * 0 + r
  BY <1>1
<1> QED
  BY <1>2, DivModUnique

LEMMA DivNat ==
  ASSUME NEW n \in Nat, NEW w \in Nat, w > 0
  PROVE  n \div w \in Nat
<1> DEFINE p == n \div w
<1>1. p \in Int /\ n % w \in 0 .. w - 1 /\ n = w * p + (n % w)
  BY DivMod
<1> HIDE DEF p
<1>2. p >= 0
  <2> SUFFICES ASSUME p <= -1
               PROVE  FALSE
    BY <1>1
  <2>1. w * p <= -w
    BY <1>1, Z3
  <2> QED
    BY <1>1, <2>1
<1> QED
  BY <1>1, <1>2 DEF p

(* Adding y to n carries over at most once.                                 *)
Carry(n, y, w) == ((n + y) \div w) - (n \div w) - (y \div w)

LEMMA CarryOnce ==
  ASSUME NEW n \in Nat, NEW y \in Nat, NEW w \in Nat, w > 0
  PROVE  /\ Carry(n, y, w) \in {0, 1}
         /\ (n + y) % w = (n % w) + (y % w) - w * Carry(n, y, w)
<1> DEFINE a == n \div w
           g == n % w
           p == y \div w
           h == y % w
<1>1. a \in Int /\ g \in 0 .. w - 1 /\ n = w * a + g
  BY DivMod
<1>2. p \in Int /\ h \in 0 .. w - 1 /\ y = w * p + h
  BY DivMod
<1> HIDE DEF a, g, p, h
<1>3. n + y = w * (a + p) + (g + h)
  BY <1>1, <1>2, Z3
<1>4. CASE g + h < w
  <2>1. (n + y) \div w = a + p /\ (n + y) % w = g + h
    BY <1>1, <1>2, <1>3, <1>4, DivModUnique
  <2>2. Carry(n, y, w) = 0
    BY <1>1, <1>2, <2>1 DEF Carry, a, p
  <2>3. w * 0 = 0
    BY SMT
  <2> QED
    BY <1>1, <1>2, <2>1, <2>2, <2>3 DEF g, h
<1>5. CASE g + h >= w
  <2>1. n + y = w * (a + p + 1) + (g + h - w)
    BY <1>1, <1>2, <1>3, Z3
  <2>2. (n + y) \div w = a + p + 1 /\ (n + y) % w = g + h - w
    BY <1>1, <1>2, <1>5, <2>1, DivModUnique
  <2>3. Carry(n, y, w) = 1
    BY <1>1, <1>2, <2>2 DEF Carry, a, p
  <2>4. w * 1 = w
    BY SMT
  <2> QED
    BY <1>1, <1>2, <2>2, <2>3, <2>4 DEF g, h
<1> QED
  BY <1>1, <1>2, <1>4, <1>5
=============================================================================
