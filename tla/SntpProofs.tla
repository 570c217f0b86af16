------------------------------ MODULE SntpProofs ------------------------------
(***************************************************************************)
(* Proofs about Sntp, for any timeouts, any number of packets and a        *)
(* reachability register of any width: first what its operators do, then   *)
(* one inductive invariant for each group of properties.                   *)
(***************************************************************************)
EXTENDS Sntp, Arithmetic, SequenceTheorems, TLAPS

-----------------------------------------------------------------------------
(***************************************************************************)
(* Powers of two. That the recursion has a solution is shown by its        *)
(* beginnings, which exist for every length and agree.                     *)
(***************************************************************************)
Beginning(f, n) ==
  /\ f \in [0 .. n -> Nat]
  /\ f[0] = 1
  /\ \A i \in 1 .. n : f[i] = 2 * f[i - 1]

LEMMA BeginningExists ==
  ASSUME NEW n \in Nat
  PROVE  \E f : Beginning(f, n)
<1> DEFINE T == {m \in Nat : ~\E f : Beginning(f, m)}
<1> SUFFICES ASSUME T # {}
             PROVE  FALSE
  OBVIOUS
<1>1. PICK m \in T : \A k \in T : m <= k
  BY LeastNat
<1>2. CASE m = 0
  <2> DEFINE f == [i \in 0 .. 0 |-> 1]
  <2>1. Beginning(f, 0)
    BY DEF Beginning
  <2> QED
    BY <1>2, <2>1
<1>3. CASE m # 0
  <2>1. m - 1 \in Nat /\ m - 1 \notin T
    BY <1>1, <1>3
  <2>2. PICK f : Beginning(f, m - 1)
    BY <2>1
  <2> DEFINE g == [i \in 0 .. m |-> IF i = m THEN 2 * f[m - 1] ELSE f[i]]
  <2>3. Beginning(g, m)
    BY <2>1, <2>2 DEF Beginning
  <2> QED
    BY <2>3
<1> QED
  BY <1>2, <1>3

LEMMA BeginningsAgree ==
  ASSUME NEW m \in Nat, NEW n \in Nat, NEW f, NEW g, Beginning(f, m), Beginning(g, n),
         NEW i \in Nat, i <= m, i <= n
  PROVE  f[i] = g[i]
<1> DEFINE T == {j \in Nat : j <= m /\ j <= n /\ f[j] # g[j]}
<1> SUFFICES ASSUME T # {}
             PROVE  FALSE
  OBVIOUS
<1>1. PICK j \in T : \A k \in T : j <= k
  BY LeastNat
<1>2. j # 0
  BY DEF Beginning
<1>3. j - 1 \in Nat /\ j - 1 \notin T
  BY <1>1, <1>2
<1>4. f[j - 1] = g[j - 1]
  BY <1>3
<1> QED
  BY <1>2, <1>4 DEF Beginning

LEMMA PowersSolve ==
  Pow2 = [n \in Nat |-> IF n = 0 THEN 1 ELSE 2 * Pow2[n - 1]]
<1> DEFINE B(n) == CHOOSE f : Beginning(f, n)
           P    == [n \in Nat |-> B(n)[n]]
<1>1. \A n \in Nat : Beginning(B(n), n)
  BY BeginningExists
<1> HIDE DEF B
<1>2. ASSUME NEW n \in Nat
      PROVE  P[n] = IF n = 0 THEN 1 ELSE 2 * P[n - 1]
  <2>1. CASE n = 0
    BY <1>1, <2>1 DEF Beginning
  <2>2. CASE n # 0
    <3>1. n - 1 \in Nat
      BY <2>2
    <3>2. B(n)[n - 1] = B(n - 1)[n - 1]
      BY <1>1, <3>1, BeginningsAgree
    <3>3. B(n)[n] = 2 * B(n)[n - 1]
      BY <1>1, <2>2 DEF Beginning
    <3> QED
      BY <2>2, <3>1, <3>2, <3>3
  <2> QED
    BY <2>1, <2>2
<1>3. P = [n \in Nat |-> IF n = 0 THEN 1 ELSE 2 * P[n - 1]]
  <2> DEFINE Q == [n \in Nat |-> IF n = 0 THEN 1 ELSE 2 * P[n - 1]]
  <2>1. \A n \in Nat : P[n] = Q[n]
    BY <1>2
  <2> QED
    BY <2>1
<1> HIDE DEF P
<1> QED
  BY <1>3 DEF Pow2

LEMMA Powers ==
  /\ Pow2[0] = 1
  /\ \A n \in Nat : Pow2[n + 1] = 2 * Pow2[n]
  /\ \A n \in Nat : Pow2[n] \in Nat /\ Pow2[n] > n
<1>1. Pow2[0] = 1
  BY PowersSolve
<1>2. ASSUME NEW n \in Nat
      PROVE  Pow2[n + 1] = 2 * Pow2[n]
  BY PowersSolve
<1>3. \A n \in Nat : Pow2[n] \in Nat /\ Pow2[n] > n
  <2> DEFINE T == {m \in Nat : ~(Pow2[m] \in Nat /\ Pow2[m] > m)}
  <2> SUFFICES ASSUME T # {}
               PROVE  FALSE
    OBVIOUS
  <2>1. PICK m \in T : \A k \in T : m <= k
    BY LeastNat
  <2>2. m \in Nat /\ m # 0
    BY <1>1
  <2>3. m - 1 \in Nat /\ m - 1 \notin T
    BY <2>1, <2>2
  <2>4. Pow2[m - 1] \in Nat /\ Pow2[m - 1] > m - 1
    BY <2>3
  <2>5. Pow2[m] = 2 * Pow2[m - 1]
    BY <1>2, <2>3
  <2> HIDE DEF T
  <2>6. Pow2[m] \in Nat /\ Pow2[m] > m
    BY <2>1, <2>2, <2>3, <2>4, <2>5
  <2> QED
    BY <2>6 DEF T
<1> QED
  BY <1>1, <1>2, <1>3

LEMMA PowersMultiply ==
  ASSUME NEW a \in Nat, NEW b \in Nat
  PROVE  Pow2[a + b] = Pow2[a] * Pow2[b]
<1> DEFINE T == {m \in Nat : Pow2[a + m] # Pow2[a] * Pow2[m]}
<1> SUFFICES ASSUME T # {}
             PROVE  FALSE
  OBVIOUS
<1>1. PICK m \in T : \A k \in T : m <= k
  BY LeastNat
<1>2. m # 0
  <2>1. Pow2[a] * 1 = Pow2[a]
    BY Powers
  <2> QED
    BY <2>1, Powers
<1>3. m - 1 \in Nat /\ m - 1 \notin T
  BY <1>1, <1>2
<1> DEFINE p == Pow2[a]
           q == Pow2[m - 1]
<1>4. p \in Nat /\ q \in Nat
  BY <1>3, Powers
<1>5. Pow2[a + (m - 1)] = p * q
  BY <1>3
<1>6. Pow2[a + m] = 2 * Pow2[a + (m - 1)] /\ Pow2[m] = 2 * q
  <2>1. a + (m - 1) \in Nat /\ (a + (m - 1)) + 1 = a + m /\ (m - 1) + 1 = m
    BY <1>3
  <2> QED
    BY <1>3, <2>1, Powers
<1> HIDE DEF T, q
<1>7. Pow2[a + m] = p * Pow2[m]
  <2> HIDE DEF p
  <2>1. 2 * (p * q) = p * (2 * q)
    BY <1>4, Z3
  <2> QED
    BY <1>5, <1>6, <2>1
<1> QED
  BY <1>1, <1>7 DEF T

-----------------------------------------------------------------------------
(***************************************************************************)
(* The list of timers                                                      *)
(***************************************************************************)
LEMMA MinLeast ==
  ASSUME NEW T \in SUBSET Nat, T # {}
  PROVE  Min(T) \in T /\ \A n \in T : Min(T) <= n
  BY LeastNat DEF Min

LEMMA Inserted ==
  ASSUME NEW S, NEW q \in Seq(S), NEW e \in S, NEW p \in 1 .. Len(q) + 1
  PROVE  /\ InsertAt(q, p, e) \in Seq(S)
         /\ Len(InsertAt(q, p, e)) = Len(q) + 1
         /\ \A i \in 1 .. Len(q) + 1 :
              InsertAt(q, p, e)[i] = IF i < p THEN q[i] ELSE IF i = p THEN e ELSE q[i - 1]
<1> DEFINE a == SubSeq(q, 1, p - 1)
           b == SubSeq(q, p, Len(q))
           c == a \o <<e>>
<1>1. Len(q) \in Nat /\ p \in Int /\ \A i \in 1 .. Len(q) : q[i] \in S
  OBVIOUS
<1>2. a \in Seq(S) /\ Len(a) = p - 1 /\ \A i \in 1 .. p - 1 : a[i] = q[i]
  <2>1. /\ a \in Seq(S)
        /\ Len(a) = IF 1 <= p - 1 THEN (p - 1) - 1 + 1 ELSE 0
        /\ \A i \in 1 .. (p - 1) - 1 + 1 : a[i] = q[1 + i - 1]
    <3>1. 1 \in Int /\ p - 1 \in Int /\ \A i \in 1 .. p - 1 : q[i] \in S
      BY <1>1
    <3> HIDE DEF a
    <3> QED
      BY <3>1, SubSeqProperties DEF a
  <2> HIDE DEF a
  <2> QED
    BY <1>1, <2>1
<1>3. /\ b \in Seq(S) /\ Len(b) = Len(q) + 1 - p
      /\ \A i \in 1 .. Len(q) + 1 - p : b[i] = q[p + i - 1]
  <2>1. /\ b \in Seq(S)
        /\ Len(b) = IF p <= Len(q) THEN Len(q) - p + 1 ELSE 0
        /\ \A i \in 1 .. Len(q) - p + 1 : b[i] = q[p + i - 1]
    <3>1. p \in Int /\ Len(q) \in Int /\ \A i \in p .. Len(q) : q[i] \in S
      BY <1>1
    <3> QED
      BY <3>1, SubSeqProperties
  <2> HIDE DEF b
  <2> QED
    BY <1>1, <2>1
<1>4. <<e>> \in Seq(S) /\ Len(<<e>>) = 1 /\ <<e>>[1] = e
  OBVIOUS
<1> HIDE DEF a, b
<1>5. /\ c \in Seq(S) /\ Len(c) = p
      /\ \A i \in 1 .. p : c[i] = IF i < p THEN q[i] ELSE e
  <2>1. /\ c \in Seq(S) /\ Len(c) = Len(a) + Len(<<e>>)
        /\ \A i \in 1 .. Len(a) + Len(<<e>>) :
             c[i] = IF i <= Len(a) THEN a[i] ELSE <<e>>[i - Len(a)]
    BY <1>2, <1>4, ConcatProperties
  <2> HIDE DEF c
  <2> QED
    BY <1>1, <1>2, <1>4, <2>1
<1> HIDE DEF c
<1>6. /\ c \o b \in Seq(S) /\ Len(c \o b) = Len(c) + Len(b)
      /\ \A i \in 1 .. Len(c) + Len(b) :
           (c \o b)[i] = IF i <= Len(c) THEN c[i] ELSE b[i - Len(c)]
  BY <1>3, <1>5, ConcatProperties
<1>7. InsertAt(q, p, e) = c \o b
  BY DEF InsertAt, a, b, c
<1> DEFINE d == c \o b
<1> HIDE DEF d
<1>8. /\ d \in Seq(S) /\ Len(d) = Len(q) + 1
      /\ \A i \in 1 .. Len(q) + 1 :
           d[i] = IF i < p THEN q[i] ELSE IF i = p THEN e ELSE q[i - 1]
  BY <1>1, <1>3, <1>5, <1>6 DEF d
<1> QED
  BY <1>7, <1>8 DEF d

LEMMA Removed ==
  ASSUME NEW S, NEW q \in Seq(S), NEW p \in 1 .. Len(q)
  PROVE  /\ RemoveAt(q, p) \in Seq(S)
         /\ Len(RemoveAt(q, p)) = Len(q) - 1
         /\ \A i \in 1 .. Len(q) - 1 : RemoveAt(q, p)[i] = IF i < p THEN q[i] ELSE q[i + 1]
<1> DEFINE a == SubSeq(q, 1, p - 1)
           b == SubSeq(q, p + 1, Len(q))
<1>1. Len(q) \in Nat /\ p \in Int /\ \A i \in 1 .. Len(q) : q[i] \in S
  OBVIOUS
<1>2. a \in Seq(S) /\ Len(a) = p - 1 /\ \A i \in 1 .. p - 1 : a[i] = q[i]
  <2>1. /\ a \in Seq(S)
        /\ Len(a) = IF 1 <= p - 1 THEN (p - 1) - 1 + 1 ELSE 0
        /\ \A i \in 1 .. (p - 1) - 1 + 1 : a[i] = q[1 + i - 1]
    <3>1. 1 \in Int /\ p - 1 \in Int /\ \A i \in 1 .. p - 1 : q[i] \in S
      BY <1>1
    <3> QED
      BY <3>1, SubSeqProperties
  <2> HIDE DEF a
  <2> QED
    BY <1>1, <2>1
<1>3. /\ b \in Seq(S) /\ Len(b) = Len(q) - p
      /\ \A i \in 1 .. Len(q) - p : b[i] = q[p + i]
  <2>1. /\ b \in Seq(S)
        /\ Len(b) = IF p + 1 <= Len(q) THEN Len(q) - (p + 1) + 1 ELSE 0
        /\ \A i \in 1 .. Len(q) - (p + 1) + 1 : b[i] = q[(p + 1) + i - 1]
    <3>1. p + 1 \in Int /\ Len(q) \in Int /\ \A i \in p + 1 .. Len(q) : q[i] \in S
      BY <1>1
    <3> QED
      BY <3>1, SubSeqProperties
  <2> HIDE DEF b
  <2> QED
    BY <1>1, <2>1
<1>4. RemoveAt(q, p) = a \o b
  BY DEF RemoveAt
<1> HIDE DEF a, b
<1>5. /\ a \o b \in Seq(S) /\ Len(a \o b) = Len(a) + Len(b)
      /\ \A i \in 1 .. Len(a) + Len(b) :
           (a \o b)[i] = IF i <= Len(a) THEN a[i] ELSE b[i - Len(a)]
  BY <1>2, <1>3, ConcatProperties
<1> DEFINE d == a \o b
<1> HIDE DEF d
<1>6. /\ d \in Seq(S) /\ Len(d) = Len(q) - 1
      /\ \A i \in 1 .. Len(q) - 1 : d[i] = IF i < p THEN q[i] ELSE q[i + 1]
  BY <1>1, <1>2, <1>3, <1>5 DEF d
<1> QED
  BY <1>4, <1>6 DEF d

LEMMA TimerFields ==
  ASSUME NEW q \in Seq(Timers)
  PROVE  /\ Len(q) \in Nat /\ DOMAIN q = 1 .. Len(q)
         /\ \A i \in 1 .. Len(q) : q[i].left \in Nat /\ q[i].handler \in Handlers
<1>1. Len(q) \in Nat /\ DOMAIN q = 1 .. Len(q) /\ \A i \in 1 .. Len(q) : q[i] \in Timers
  OBVIOUS
<1>2. \A t \in Timers : t.left \in Nat /\ t.handler \in Handlers
  BY DEF Timers
<1> QED
  BY <1>1, <1>2

(* sys_timeout adds one timer, and keeps them in order.                     *)
LEMMA TimerAdded ==
  ASSUME NEW q \in Seq(Timers), Sorted(q), NEW delay \in Nat, NEW handler \in Handlers
  PROVE  /\ sys_timeout(q, delay, handler) \in Seq(Timers)
         /\ Sorted(sys_timeout(q, delay, handler))
         /\ Len(sys_timeout(q, delay, handler)) = Len(q) + 1
         /\ q = << >> => sys_timeout(q, delay, handler)[1].left = delay
<1> DEFINE later == {i \in DOMAIN q : q[i].left > delay}
           p     == Min(later \cup {Len(q) + 1})
           e     == Timer(handler, delay)
           r     == InsertAt(q, p, e)
<1>1. Len(q) \in Nat /\ DOMAIN q = 1 .. Len(q) /\ \A i \in 1 .. Len(q) : q[i].left \in Nat
  BY TimerFields
<1>2. /\ p \in later \cup {Len(q) + 1}
      /\ \A i \in later \cup {Len(q) + 1} : p <= i
  <2>1. later \cup {Len(q) + 1} \in SUBSET Nat /\ later \cup {Len(q) + 1} # {}
    BY <1>1
  <2> HIDE DEF later
  <2> QED
    BY <2>1, MinLeast
<1>3. e \in Timers /\ e.left = delay
  BY DEF Timers, Timer
<1> HIDE DEF p, e
<1>4. /\ p \in 1 .. Len(q) + 1
      /\ \A i \in 1 .. Len(q) : i < p => q[i].left <= delay
      /\ p <= Len(q) => q[p].left > delay
  BY <1>1, <1>2
<1>5. /\ r \in Seq(Timers) /\ Len(r) = Len(q) + 1
      /\ \A i \in 1 .. Len(q) + 1 :
           r[i] = IF i < p THEN q[i] ELSE IF i = p THEN e ELSE q[i - 1]
  BY <1>3, <1>4, Inserted
<1> HIDE DEF r
<1>6. Sorted(r)
  <2> SUFFICES ASSUME NEW i \in 1 .. Len(q) + 1, NEW j \in 1 .. Len(q) + 1, i < j
               PROVE  r[i].left <= r[j].left
    <3>1. DOMAIN r = 1 .. Len(q) + 1 /\ \A i \in 1 .. Len(q) + 1 : r[i].left \in Nat
      BY <1>5, TimerFields
    <3>2. \A i, j \in 1 .. Len(q) + 1 : i < j => r[i].left <= r[j].left
      OBVIOUS
    <3> QED
      BY <1>1, <3>1, <3>2 DEF Sorted
  <2>1. \A k, l \in 1 .. Len(q) : k <= l => q[k].left <= q[l].left
    BY <1>1 DEF Sorted
  <2>2. CASE j < p
    <3>1. r[i] = q[i] /\ r[j] = q[j] /\ i \in 1 .. Len(q) /\ j \in 1 .. Len(q)
      BY <1>1, <1>4, <1>5, <2>2
    <3> QED
      BY <2>1, <3>1
  <2>3. CASE j = p
    BY <1>3, <1>4, <1>5, <2>3
  <2>4. CASE j > p /\ i < p
    <3>1. r[i] = q[i] /\ r[j] = q[j - 1] /\ i \in 1 .. Len(q) /\ j - 1 \in 1 .. Len(q)
      BY <1>1, <1>4, <1>5, <2>4
    <3> QED
      BY <1>1, <2>1, <3>1
  <2>5. CASE j > p /\ i = p
    <3>1. r[i] = e /\ r[j] = q[j - 1] /\ p \in 1 .. Len(q) /\ j - 1 \in 1 .. Len(q)
      BY <1>1, <1>4, <1>5, <2>5
    <3>2. q[p].left <= q[j - 1].left
      BY <2>1, <2>5, <3>1
    <3> QED
      BY <1>1, <1>3, <1>4, <3>1, <3>2
  <2>6. CASE j > p /\ i > p
    <3>1. r[i] = q[i - 1] /\ r[j] = q[j - 1] /\ i - 1 \in 1 .. Len(q) /\ j - 1 \in 1 .. Len(q)
      BY <1>1, <1>4, <1>5, <2>6
    <3> QED
      BY <2>1, <3>1
  <2> QED
    BY <1>4, <2>2, <2>3, <2>4, <2>5, <2>6
<1>7. q = << >> => r[1].left = delay
  BY <1>3, <1>4, <1>5
<1> QED
  BY <1>5, <1>6, <1>7 DEF sys_timeout, r, p, e

(* sys_untimeout removes a timer with this handler if there is one, and     *)
(* keeps the others in order.                                               *)
LEMMA TimerRemoved ==
  ASSUME NEW q \in Seq(Timers), Sorted(q), NEW handler \in Handlers
  PROVE  /\ sys_untimeout(q, handler) \in Seq(Timers)
         /\ Sorted(sys_untimeout(q, handler))
         /\ (\A i \in DOMAIN q : q[i].handler # handler) => sys_untimeout(q, handler) = q
         /\ (\E i \in DOMAIN q : q[i].handler = handler) =>
              Len(sys_untimeout(q, handler)) = Len(q) - 1
<1> DEFINE found == {i \in DOMAIN q : q[i].handler = handler}
           p     == Min(found)
           r     == RemoveAt(q, p)
<1>1. Len(q) \in Nat /\ DOMAIN q = 1 .. Len(q) /\ \A i \in 1 .. Len(q) : q[i].left \in Nat
  BY TimerFields
<1>2. CASE found = {}
  BY <1>2 DEF sys_untimeout
<1>3. CASE found # {}
  <2>1. p \in 1 .. Len(q)
    <3>1. found \in SUBSET Nat
      BY <1>1
    <3>2. found \subseteq 1 .. Len(q)
      BY <1>1
    <3> HIDE DEF found
    <3> QED
      BY <1>3, <3>1, <3>2, MinLeast
  <2>2. sys_untimeout(q, handler) = r
    BY <1>3 DEF sys_untimeout
  <2> HIDE DEF p
  <2>3. /\ r \in Seq(Timers) /\ Len(r) = Len(q) - 1
        /\ \A i \in 1 .. Len(q) - 1 : r[i] = IF i < p THEN q[i] ELSE q[i + 1]
    BY <2>1, Removed
  <2> HIDE DEF r
  <2>4. Sorted(r)
    <3>1. DOMAIN r = 1 .. Len(q) - 1
      BY <2>3
    <3>2. \A i, j \in 1 .. Len(q) : i <= j => q[i].left <= q[j].left
      BY <1>1 DEF Sorted
    <3>3. ASSUME NEW i \in 1 .. Len(q) - 1, NEW j \in 1 .. Len(q) - 1, i <= j
          PROVE  r[i].left <= r[j].left
      <4>1. PICK k \in 1 .. Len(q) : r[i] = q[k] /\ k = IF i < p THEN i ELSE i + 1
        BY <1>1, <2>1, <2>3
      <4>2. PICK l \in 1 .. Len(q) : r[j] = q[l] /\ l = IF j < p THEN j ELSE j + 1
        BY <1>1, <2>1, <2>3
      <4>3. k <= l
        BY <2>1, <3>3, <4>1, <4>2
      <4> QED
        BY <3>2, <4>1, <4>2, <4>3
    <3> QED
      BY <3>1, <3>3 DEF Sorted
  <2> QED
    BY <1>3, <2>2, <2>3, <2>4
<1> QED
  BY <1>2, <1>3

(* A correct answer cancels the timer that was the only one.                *)
LEMMA AllCancelled ==
  ASSUME NEW q \in Seq(Timers), Sorted(q)
  PROVE  /\ Cancelled(q) \in Seq(Timers)
         /\ Sorted(Cancelled(q))
         /\ Len(q) = 1 => Cancelled(q) = << >>
<1> DEFINE r == sys_untimeout(q, "retry")
           s == sys_untimeout(r, "request")
<1>1. "retry" \in Handlers /\ "request" \in Handlers
  BY DEF Handlers
<1>2. /\ r \in Seq(Timers) /\ Sorted(r)
      /\ (\A i \in DOMAIN q : q[i].handler # "retry") => r = q
      /\ (\E i \in DOMAIN q : q[i].handler = "retry") => Len(r) = Len(q) - 1
  BY <1>1, TimerRemoved
<1> HIDE DEF r
<1>3. /\ s \in Seq(Timers) /\ Sorted(s)
      /\ (\A i \in DOMAIN r : r[i].handler # "request") => s = r
      /\ (\E i \in DOMAIN r : r[i].handler = "request") => Len(s) = Len(r) - 1
  BY <1>1, <1>2, TimerRemoved
<1>4. Cancelled(q) = s
  BY DEF Cancelled, r
<1> HIDE DEF s
<1>5. ASSUME Len(q) = 1
      PROVE  s = << >>
  <2>1. DOMAIN q = {1} /\ q[1].handler \in {"request", "retry"}
    BY <1>5, TimerFields DEF Handlers
  <2>2. CASE q[1].handler = "retry"
    <3>1. Len(r) = 0
      BY <1>2, <1>5, <2>1, <2>2
    <3>2. DOMAIN r = {}
      BY <1>2, <3>1
    <3>3. s = r
      BY <1>3, <3>2
    <3> QED
      BY <1>2, <3>1, <3>3
  <2>3. CASE q[1].handler = "request"
    <3>1. r = q
      BY <1>2, <2>1, <2>3
    <3>2. 1 \in DOMAIN r /\ r[1].handler = "request"
      BY <2>1, <2>3, <3>1
    <3>3. Len(s) = Len(r) - 1
      BY <1>3, <3>2
    <3>4. Len(s) = 0
      BY <1>5, <3>1, <3>3
    <3> QED
      BY <1>3, <3>4
  <2> QED
    BY <2>1, <2>2, <2>3
<1> QED
  BY <1>3, <1>4, <1>5

LEMMA TailTimers ==
  ASSUME NEW q \in Seq(Timers), Sorted(q), q # << >>
  PROVE  Tail(q) \in Seq(Timers) /\ Sorted(Tail(q)) /\ Len(Tail(q)) = Len(q) - 1
  BY DEF Sorted

-----------------------------------------------------------------------------
(***************************************************************************)
(* Types                                                                   *)
(***************************************************************************)
LEMMA Constants ==
  /\ RecvTimeout \in Nat /\ RecvTimeout > 0
  /\ RetryTimeout \in Nat /\ RetryTimeout > 0
  /\ RetryTimeoutMax \in Nat /\ RetryTimeout <= RetryTimeoutMax
  /\ UpdateDelay \in Nat /\ RecvTimeout <= UpdateDelay
  /\ StartupDelay \in Nat /\ MaxTries \in Nat /\ MaxDisturbances \in Nat
  /\ Bits \in Nat /\ Bits > 0
  /\ "request" \in Handlers /\ "retry" \in Handlers
  BY SntpAssumption DEF SntpAssumption, Handlers

(* The register holds an even number of values.                             *)
LEMMA Width == \E h \in Nat : Pow2[Bits] = 2 * h /\ h > 0
<1>1. Bits - 1 \in Nat /\ (Bits - 1) + 1 = Bits
  BY Constants
<1>2. Pow2[Bits] = 2 * Pow2[Bits - 1] /\ Pow2[Bits - 1] \in Nat /\ Pow2[Bits - 1] > Bits - 1
  BY <1>1, Powers
<1> QED
  BY <1>1, <1>2

LEMMA Register ==
  ASSUME reachability \in 0 .. Pow2[Bits] - 1
  PROVE  Shifted \in 0 .. Pow2[Bits] - 1 /\ Answered \in 0 .. Pow2[Bits] - 1
<1> DEFINE w == Pow2[Bits]
           r == reachability
<1>1. PICK h \in Nat : w = 2 * h /\ h > 0
  BY Width
<1>2. w \in Nat /\ w > 0 /\ r \in Nat /\ r < w
  BY <1>1
<1> HIDE DEF w, r
<1>3. (2 * r) % w \in 0 .. w - 1
  BY <1>2, DivMod
<1>4. r % 2 = 0 => r + 1 < w
  BY <1>1, <1>2
<1> QED
  BY <1>2, <1>3, <1>4 DEF Shifted, Answered, w, r

LEMMA TimersUntilRetry ==
  ASSUME TypeOK, NEW q \in Seq(Timers), Sorted(q), sntp_retry(q)
  PROVE  /\ timers' \in Seq(Timers) /\ Sorted(timers)' /\ Len(timers') = Len(q) + 1
         /\ q = << >> => timers'[1].left = retry_timeout
         /\ retry_timeout' \in RetryTimeout .. RetryTimeoutMax
         /\ retries' \in 0 .. RetryTimeoutMax
<1>1. retry_timeout \in Nat
  BY Constants DEF TypeOK
<1>2. timers' = sys_timeout(q, retry_timeout, "request")
  BY DEF sntp_retry, RetryHandler
<1>3. /\ timers' \in Seq(Timers) /\ Sorted(timers)' /\ Len(timers') = Len(q) + 1
      /\ q = << >> => timers'[1].left = retry_timeout
  BY <1>1, <1>2, Constants, TimerAdded DEF Sorted
<1>4. retry_timeout' \in RetryTimeout .. RetryTimeoutMax
  BY Constants DEF TypeOK, sntp_retry, Longer
<1>5. retries' \in 0 .. RetryTimeoutMax
  BY Constants DEF TypeOK, sntp_retry
<1> QED
  BY <1>3, <1>4, <1>5

LEMMA TimersUntilAnswer ==
  ASSUME TypeOK, NEW q \in Seq(Timers), Sorted(q), Send(q) \/ SendLater(q)
  PROVE  /\ timers' \in Seq(Timers) /\ Sorted(timers)' /\ Len(timers') = Len(q) + 1
         /\ Send(q) /\ q = << >> => timers'[1].left = RecvTimeout
         /\ reachability' \in 0 .. Pow2[Bits] - 1
         /\ unanswered' \in 0 .. Bits
         /\ since' \in 0 .. RecvTimeout
         /\ too_soon' \in BOOLEAN
<1>1. CASE Send(q)
  <2>1. /\ timers' \in Seq(Timers) /\ Sorted(timers)' /\ Len(timers') = Len(q) + 1
        /\ q = << >> => timers'[1].left = RecvTimeout
    <3>1. timers' = sys_timeout(q, RecvTimeout, "retry")
      BY <1>1 DEF Send, AfterSend
    <3> QED
      BY <3>1, Constants, TimerAdded DEF Sorted
  <2>2. reachability' \in 0 .. Pow2[Bits] - 1
    BY <1>1, Register DEF Send, TypeOK
  <2>3. unanswered' \in 0 .. Bits /\ since' \in 0 .. RecvTimeout
    BY <1>1, Constants DEF Send, TypeOK
  <2>4. too_soon' \in BOOLEAN
    BY <1>1 DEF Send, TypeOK
  <2> QED
    BY <2>1, <2>2, <2>3, <2>4
<1>2. CASE SendLater(q) /\ ~Send(q)
  <2>1. timers' \in Seq(Timers) /\ Sorted(timers)' /\ Len(timers') = Len(q) + 1
    <3>1. timers' = sys_timeout(q, RetryTimeout, "request")
      BY <1>2 DEF SendLater
    <3> QED
      BY <3>1, Constants, TimerAdded DEF Sorted
  <2> QED
    BY <1>2, <2>1 DEF SendLater, TypeOK
<1> QED
  BY <1>1, <1>2

(* A unit of time brings each timer nearer.                                 *)
LEMMA TimersTick ==
  ASSUME TypeOK, Tick
  PROVE  /\ timers' \in Seq(Timers) /\ Sorted(timers)' /\ Len(timers') = Len(timers)
         /\ \A i \in 1 .. Len(timers) : timers'[i].left = timers[i].left - 1
<1>1. timers \in Seq(Timers) /\ Sorted(timers)
  BY DEF TypeOK
<1>2. /\ Len(timers) \in Nat /\ DOMAIN timers = 1 .. Len(timers)
      /\ \A i \in 1 .. Len(timers) : timers[i].left \in Nat /\ timers[i].handler \in Handlers
  BY <1>1, TimerFields
<1>3. \A i \in 1 .. Len(timers) : timers[i].left > 0
  <2> SUFFICES ASSUME NEW i \in 1 .. Len(timers)
               PROVE  timers[i].left > 0
    OBVIOUS
  <2>1. timers # << >> /\ 1 \in 1 .. Len(timers) /\ Head(timers) = timers[1]
    BY <1>1, <1>2
  <2>2. timers[1].left > 0
    BY <2>1 DEF Tick
  <2>3. timers[1].left <= timers[i].left
    BY <1>1, <1>2, <2>1 DEF Sorted
  <2> QED
    BY <1>2, <2>1, <2>2, <2>3
<1>4. timers' = [i \in 1 .. Len(timers) |-> [timers[i] EXCEPT !.left = @ - 1]]
  BY <1>2 DEF Tick
<1>5. \A i \in 1 .. Len(timers) :
        timers'[i] \in Timers /\ timers'[i].left = timers[i].left - 1
  <2> SUFFICES ASSUME NEW i \in 1 .. Len(timers)
               PROVE  timers'[i] \in Timers /\ timers'[i].left = timers[i].left - 1
    OBVIOUS
  <2>1. timers[i] \in Timers /\ timers[i].left \in Nat /\ timers[i].left > 0
    BY <1>1, <1>2, <1>3
  <2>2. timers'[i] = [timers[i] EXCEPT !.left = timers[i].left - 1]
    BY <1>4
  <2> QED
    BY <2>1, <2>2 DEF Timers
<1>6. timers' \in Seq(Timers) /\ Len(timers') = Len(timers)
  <2> DEFINE n == Len(timers)
  <2>1. n \in Nat /\ timers' \in [1 .. n -> Timers]
    BY <1>2, <1>4, <1>5
  <2> HIDE DEF n
  <2>2. timers' \in Seq(Timers) /\ DOMAIN timers' = 1 .. n
    BY <2>1, SeqDef
  <2>3. Len(timers') = n
    BY <2>1, <2>2, LenProperties
  <2> QED
    BY <2>2, <2>3 DEF n
<1>7. Sorted(timers)'
  <2>1. DOMAIN timers' = DOMAIN timers
    BY <1>2, <1>4
  <2>2. \A i, j \in 1 .. Len(timers) : i <= j => timers[i].left <= timers[j].left
    BY <1>1, <1>2 DEF Sorted
  <2> QED
    BY <1>2, <1>5, <2>1, <2>2 DEF Sorted
<1> QED
  BY <1>5, <1>6, <1>7

(* sntp_task waits only while it may try again.                             *)
TypeInv ==
  /\ TypeOK
  /\ task = "delay" => tries < MaxTries

LEMMA TypeInit == Init => TypeInv
<1> SUFFICES ASSUME Init
             PROVE  TypeInv
  OBVIOUS
<1>1. 0 \in 0 .. Pow2[Bits] - 1
  BY Constants, Powers
<1>2. timers \in Seq(Timers) /\ Sorted(timers)
  BY DEF Init, Sorted
<1>3. /\ 0 \in 0 .. MaxTries /\ 0 \in 0 .. MaxDisturbances
      /\ 0 \in 0 .. RetryTimeoutMax /\ 0 \in 0 .. Bits
  BY Constants
<1>4. /\ RetryTimeout \in RetryTimeout .. RetryTimeoutMax
      /\ RecvTimeout \in 0 .. RecvTimeout
  BY Constants
<1> QED
  BY <1>1, <1>2, <1>3, <1>4 DEF Init, TypeInv, TypeOK

LEMMA TypeStep == TypeInv /\ [Next]_vars => TypeInv'
<1> SUFFICES ASSUME TypeInv, [Next]_vars
             PROVE  TypeInv'
  OBVIOUS
<1> USE DEF TypeInv
<1>1. /\ TypeOK
      /\ timers \in Seq(Timers) /\ Sorted(timers)
      /\ timers # << >> => Tail(timers) \in Seq(Timers) /\ Sorted(Tail(timers))
  BY TailTimers DEF TypeOK
<1> USE DEF clientVars, answerVars, taskVars, historyVars
<1>2. CASE Tick
  <2>1. since' \in 0 .. RecvTimeout
    <3>1. since \in 0 .. RecvTimeout /\ RecvTimeout \in Nat
      BY <1>1, Constants DEF TypeOK
    <3>2. since' = IF since < RecvTimeout THEN since + 1 ELSE since
      BY <1>2 DEF Tick
    <3> QED
      BY <3>1, <3>2
  <2> QED
    BY <1>2, <2>1, TimersTick DEF Tick, TypeOK
<1>3. CASE Request_LookUp
  BY <1>1, <1>3 DEF Request_LookUp, Due, TypeOK
<1>4. CASE Request_Send
  BY <1>1, <1>4, TimersUntilAnswer DEF Request_Send, Due, TypeOK
<1>5. CASE Request_Fails
  <2>1. timers # << >> /\ timers' = sys_timeout(Tail(timers), RetryTimeout, "retry")
    BY <1>5 DEF Request_Fails, Due
  <2>2. timers' \in Seq(Timers) /\ Sorted(timers)'
    BY <1>1, <2>1, Constants, TimerAdded DEF Sorted
  <2> QED
    BY <1>5, <2>2 DEF Request_Fails, TypeOK
<1>6. CASE Retry
  BY <1>1, <1>6, TimersUntilRetry DEF Retry, Due, TypeOK
<1>7. CASE DnsFound
  <2>1. lookups' \in Nat
    BY <1>7 DEF DnsFound, TypeOK
  <2> QED
    BY <1>1, <1>7, <2>1, TimersUntilAnswer DEF DnsFound, TypeOK
<1>8. CASE DnsFound_NoAddress
  <2>1. lookups' \in Nat
    BY <1>8 DEF DnsFound_NoAddress, TypeOK
  <2> QED
    BY <1>1, <1>8, <2>1, TimersUntilRetry DEF DnsFound_NoAddress, TypeOK
<1>9. ASSUME Disturbs \/ UNCHANGED disturbances
      PROVE  disturbances' \in 0 .. MaxDisturbances
  BY <1>9, Constants DEF Disturbs, TypeOK
<1>10. CASE Recv_Process
  BY <1>9, <1>10 DEF Recv_Process, TypeOK
<1>11. CASE Recv_Callback
  BY <1>11 DEF Recv_Callback, TypeOK
<1>12. CASE Recv_Reschedule
  <2>1. timers' = sys_timeout(Cancelled(timers), UpdateDelay, "request")
    BY <1>12 DEF Recv_Reschedule
  <2>2. timers' \in Seq(Timers) /\ Sorted(timers)'
    BY <1>1, <2>1, Constants, AllCancelled, TimerAdded DEF Sorted
  <2>3. /\ reachability' \in 0 .. Pow2[Bits] - 1
        /\ retry_timeout' \in RetryTimeout .. RetryTimeoutMax
        /\ retries' \in 0 .. RetryTimeoutMax /\ unanswered' \in 0 .. Bits
    BY <1>12, Constants, Register DEF Recv_Reschedule, ResetTimeout, TypeOK
  <2> QED
    BY <1>12, <2>2, <2>3 DEF Recv_Reschedule, TypeOK
<1>13. CASE Recv_KissOfDeath
  <2>1. sntp_retry(timers) /\ Disturbs
    BY <1>13 DEF Recv_KissOfDeath
  <2> QED
    BY <1>1, <1>9, <1>13, <2>1, TimersUntilRetry DEF Recv_KissOfDeath, TypeOK
<1>14. CASE Recv_Broken
  BY <1>14 DEF Recv_Broken, vars, TypeOK, Sorted
<1>15. CASE Task_Init
  <2>1. PICK delay \in 0 .. StartupDelay : timers' = sys_timeout(timers, delay, "request")
    BY <1>15 DEF Task_Init
  <2>2. timers' \in Seq(Timers) /\ Sorted(timers)'
    BY <1>1, <2>1, Constants, TimerAdded DEF Sorted
  <2>3. retry_timeout' \in RetryTimeout .. RetryTimeoutMax
    BY <1>15, Constants DEF Task_Init
  <2> QED
    BY <1>15, <2>2, <2>3 DEF Task_Init, TypeOK
<1>16. CASE Task_Read
  BY <1>16, Constants DEF Task_Read, TypeOK
<1>17. CASE Task_Delay
  BY <1>17, Constants DEF Task_Delay, TypeOK
<1>18. CASE Task_Check
  BY <1>18 DEF Task_Check, TypeOK
<1>19. CASE Task_Halts
  BY <1>19 DEF Task_Halts, TypeOK, Sorted
<1>20. CASE UNCHANGED vars
  BY <1>20 DEF vars, TypeOK, Sorted
<1> QED
  BY <1>2, <1>3, <1>4, <1>5, <1>6, <1>7, <1>8, <1>10, <1>11, <1>12, <1>13, <1>14, <1>15, <1>16,
     <1>17, <1>18, <1>19, <1>20
     DEF Next, TimerStep, DnsStep, RecvStep, TaskStep

-----------------------------------------------------------------------------
(***************************************************************************)
(* Chains of requests                                                      *)
(***************************************************************************)
(* Nothing happens before sntp_init; and an answer that is being dealt with *)
(* has set the time.                                                        *)
StartInv ==
  /\ ~Running =>
       /\ timers = << >> /\ lookups = 0
       /\ unanswered = 0 /\ ~clock_set
       /\ retries = 0
       /\ since = RecvTimeout
  /\ recv # "idle" => clock_set

LEMMA StartStep == TypeInv /\ StartInv /\ [Next]_vars => StartInv'
<1> SUFFICES ASSUME TypeInv, StartInv, [Next]_vars
             PROVE  StartInv'
  OBVIOUS
<1> USE DEF StartInv, Running
<1>1. lookups \in Nat /\ unanswered \in Nat /\ RecvTimeout \in Nat
  BY Constants DEF TypeInv, TypeOK
<1> USE DEF clientVars, answerVars, taskVars, historyVars
<1>2. CASE Tick
  <2>1. Running
    BY <1>1, <1>2 DEF Tick
  <2> QED
    BY <1>2, <2>1 DEF Tick
<1>3. CASE TimerStep
  BY <1>3 DEF TimerStep, Request_LookUp, Request_Send, Request_Fails, Retry, Due
<1>4. CASE DnsStep
  BY <1>1, <1>4 DEF DnsStep, DnsFound, DnsFound_NoAddress
<1>5. CASE Recv_Process \/ Recv_KissOfDeath \/ Recv_Broken
  BY <1>1, <1>5 DEF Recv_Process, Recv_KissOfDeath, Recv_Broken, Arrives, vars
<1>6. CASE RecvStep
  BY <1>6 DEF RecvStep, Recv_Callback, Recv_Reschedule
<1>7. CASE TaskStep
  BY <1>7 DEF TaskStep, Task_Init, Task_Halts, Task_Read, Task_Delay, Task_Check
<1>8. CASE UNCHANGED vars
  BY <1>8 DEF vars
<1> QED
  BY <1>2, <1>3, <1>4, <1>5, <1>6, <1>7, <1>8 DEF Next

(* Until something disturbs it there is one chain, and what comes next of   *)
(* it comes no sooner than RecvTimeout after the last request.              *)
Undisturbed ==
  /\ Running => Chains = 1
  /\ ~too_soon
  /\ timers # << >> => timers[1].left + since >= RecvTimeout
  /\ lookups > 0 => since = RecvTimeout
  /\ recv # "idle" => lookups = 0

ChainInv ==
  /\ NeverStalls
  /\ disturbances = 0 => Undisturbed

LEMMA ChainInit == Init => ChainInv
<1> SUFFICES ASSUME Init
             PROVE  ChainInv
  OBVIOUS
<1> QED
  BY DEF Init, ChainInv, NeverStalls, Undisturbed, Running

LEMMA NoTimers ==
  ASSUME NEW q \in Seq(Timers)
  PROVE  q = << >> <=> Len(q) = 0
  OBVIOUS

LEMMA Disturbed ==
  ASSUME TypeOK, Disturbs
  PROVE  disturbances' # 0
<1>1. disturbances \in Nat /\ disturbances' = disturbances + 1
  BY Constants DEF TypeOK, Disturbs
<1> QED
  BY <1>1

LEMMA ChainStep == TypeInv /\ StartInv /\ ChainInv /\ [Next]_vars => ChainInv'
<1> SUFFICES ASSUME TypeInv, StartInv, ChainInv, [Next]_vars
             PROVE  ChainInv'
  OBVIOUS
<1> USE DEF ChainInv, NeverStalls, Undisturbed, Chains, Running
<1>1. /\ TypeOK
      /\ timers \in Seq(Timers) /\ Sorted(timers)
      /\ Len(timers) \in Nat /\ lookups \in Nat
      /\ since \in 0 .. RecvTimeout /\ RecvTimeout \in Nat
      /\ retry_timeout \in Nat
  BY Constants DEF TypeInv, TypeOK
<1>2. \A i \in 1 .. Len(timers) : timers[i].left \in Nat
  BY <1>1, TimerFields
<1>3. timers = << >> <=> Len(timers) = 0
  BY <1>1
<1>4. ASSUME NEW handler, Due(handler)
      PROVE  /\ Tail(timers) \in Seq(Timers) /\ Sorted(Tail(timers))
             /\ Len(Tail(timers)) = Len(timers) - 1 /\ Len(timers) >= 1
             /\ timers # << >> /\ Running /\ recv = "idle"
             /\ disturbances = 0 => since = RecvTimeout /\ Len(timers) = 1 /\ lookups = 0
                              /\ Tail(timers) = << >>
  <2>1. timers # << >> /\ Head(timers) = timers[1] /\ timers[1].left = 0
    BY <1>1, <1>4 DEF Due
  <2>2. Running /\ recv = "idle"
    BY <1>4, <2>1 DEF Due, StartInv
  <2>3. /\ Tail(timers) \in Seq(Timers) /\ Sorted(Tail(timers))
        /\ Len(Tail(timers)) = Len(timers) - 1 /\ Len(timers) >= 1
    BY <1>1, <1>3, <2>1, TailTimers
  <2>4. disturbances = 0 => since = RecvTimeout /\ Len(timers) = 1 /\ lookups = 0
    BY <1>1, <2>1, <2>2, <2>3
  <2>5. disturbances = 0 => Tail(timers) = << >>
    <3> DEFINE q == Tail(timers)
    <3>1. q \in Seq(Timers) /\ Len(q) = Len(timers) - 1
      BY <2>3
    <3> HIDE DEF q
    <3>2. disturbances = 0 => Len(q) = 0
      BY <1>1, <2>4, <3>1
    <3>3. disturbances = 0 => q = << >>
      BY <3>1, <3>2, NoTimers
    <3> QED
      BY <3>3 DEF q
  <2> QED
    BY <2>1, <2>2, <2>3, <2>4, <2>5
<1> USE DEF clientVars, answerVars, taskVars, historyVars
<1>5. CASE Tick
  <2>1. /\ timers' \in Seq(Timers) /\ Len(timers') = Len(timers)
        /\ \A i \in 1 .. Len(timers) : timers'[i].left = timers[i].left - 1
    BY <1>1, <1>5, TimersTick
  <2>2. /\ since' = IF since < RecvTimeout THEN since + 1 ELSE since
        /\ UNCHANGED <<lookups, task, recv, too_soon, disturbances>>
    BY <1>5 DEF Tick
  <2>3. timers' # << >> => timers # << >> /\ timers'[1].left = timers[1].left - 1
                           /\ timers[1].left \in Nat
    BY <1>1, <1>2, <2>1
  <2>4. NeverStalls'
    BY <2>1, <2>2
  <2>5. disturbances' = 0 => Undisturbed /\ ~too_soon'
    BY <2>2
  <2>6. Undisturbed /\ ~too_soon' => Undisturbed'
    <3>1. lookups > 0 /\ Undisturbed => since' = RecvTimeout
      BY <1>1, <2>2
    <3>2. timers' # << >> /\ Undisturbed => timers'[1].left + since' >= RecvTimeout
      <4> SUFFICES ASSUME timers' # << >>, Undisturbed
                   PROVE  timers'[1].left + since' >= RecvTimeout
        OBVIOUS
      <4> DEFINE a == timers[1].left
                 b == timers'[1].left
      <4>1. b = a - 1 /\ a \in Nat /\ a + since >= RecvTimeout
        BY <2>3
      <4>2. b \in Nat
        <5>1. 1 \in 1 .. Len(timers')
          BY <2>1
        <5> QED
          BY <2>1, <5>1, TimerFields
      <4> HIDE DEF a, b
      <4>3. b + since' >= RecvTimeout
        BY <1>1, <2>2, <4>1, <4>2
      <4> QED
        BY <4>3 DEF b
    <3> QED
      BY <2>1, <2>2, <3>1, <3>2
  <2> QED
    BY <2>4, <2>5, <2>6
<1>6. CASE Request_LookUp
  <2>1. lookups' = lookups + 1 /\ UNCHANGED <<since, task, recv, too_soon, disturbances>>
    BY <1>6 DEF Request_LookUp
  <2>2. /\ Len(timers') = Len(timers) - 1 /\ Len(timers) >= 1
        /\ Running /\ recv = "idle"
        /\ disturbances = 0 => /\ since = RecvTimeout /\ Len(timers) = 1
                              /\ lookups = 0 /\ timers' = << >>
    <3>1. Due("request") /\ timers' = Tail(timers)
      BY <1>6 DEF Request_LookUp
    <3> QED
      BY <1>4, <3>1
  <2>3. NeverStalls'
    BY <1>1, <2>1, <2>2
  <2>4. disturbances = 0 => Undisturbed'
    <3>1. disturbances = 0 => Chains' = 1
      <4>1. disturbances = 0 => Len(timers') = 0
        BY <1>1, <2>2
      <4> QED
        BY <2>1, <2>2, <4>1
    <3> QED
      BY <2>1, <2>2, <3>1
  <2> QED
    BY <2>1, <2>3, <2>4
<1>7. CASE Request_Send
  <2> DEFINE q == Tail(timers)
  <2>1. /\ Due("request")
        /\ Send(q) \/ SendLater(q)
        /\ UNCHANGED <<lookups, task, recv, disturbances>>
    BY <1>7 DEF Request_Send
  <2>2. /\ q \in Seq(Timers) /\ Sorted(q) /\ Len(q) + 1 = Len(timers)
        /\ Running /\ recv = "idle"
        /\ disturbances = 0 => since = RecvTimeout /\ q = << >> /\ Len(timers) = 1 /\ lookups = 0
    BY <1>1, <1>4, <2>1
  <2> HIDE DEF q
  <2>3. /\ timers' \in Seq(Timers) /\ Len(timers') = Len(timers)
        /\ Send(q) /\ q = << >> => timers'[1].left = RecvTimeout
    BY <1>1, <2>1, <2>2, TimersUntilAnswer
  <2>4. Send(q) => since' = 0 /\ too_soon' = (too_soon \/ since < RecvTimeout)
    BY DEF Send
  <2>5. SendLater(q) => UNCHANGED <<since, too_soon>>
    BY DEF SendLater
  <2>6. NeverStalls'
    BY <1>1, <2>1, <2>2, <2>3
  <2>7. disturbances = 0 => ~too_soon'
    <3>1. disturbances = 0 => ~too_soon /\ ~(since < RecvTimeout)
      BY <1>1, <2>2
    <3> QED
      BY <2>1, <2>4, <2>5, <3>1
  <2>8. disturbances = 0 => timers'[1].left + since' >= RecvTimeout
    <3>1. timers'[1].left \in Nat
      BY <1>1, <2>2, <2>3, TimerFields
    <3> QED
      BY <1>1, <2>1, <2>2, <2>3, <2>4, <2>5, <3>1
  <2>9. disturbances = 0 => Undisturbed'
    BY <1>1, <2>1, <2>2, <2>3, <2>7, <2>8
  <2> QED
    BY <2>1, <2>6, <2>9
<1>8. CASE Request_Fails
  <2> DEFINE q == Tail(timers)
  <2>1. Due("request") /\ timers' = sys_timeout(q, RetryTimeout, "retry")
        /\ UNCHANGED <<lookups, task, recv, disturbances, since, too_soon>>
    BY <1>8 DEF Request_Fails
  <2>2. /\ q \in Seq(Timers) /\ Sorted(q) /\ Len(q) + 1 = Len(timers)
        /\ Running /\ recv = "idle"
        /\ disturbances = 0 => since = RecvTimeout /\ Len(timers) = 1 /\ lookups = 0
    BY <1>1, <1>4, <2>1
  <2> HIDE DEF q
  <2>3. timers' \in Seq(Timers) /\ Len(timers') = Len(timers)
    BY <1>1, <2>1, <2>2, Constants, TimerAdded
  <2>4. timers' # << >> => timers'[1].left \in Nat
    BY <2>3, TimerFields
  <2> QED
    BY <1>1, <2>1, <2>2, <2>3, <2>4
<1>9. CASE Retry
  <2> DEFINE q == Tail(timers)
  <2>1. Due("retry") /\ sntp_retry(q)
        /\ UNCHANGED <<lookups, task, recv, disturbances, since, too_soon>>
    BY <1>9 DEF Retry
  <2>2. /\ q \in Seq(Timers) /\ Sorted(q) /\ Len(q) + 1 = Len(timers)
        /\ Running /\ recv = "idle"
        /\ disturbances = 0 => since = RecvTimeout /\ Len(timers) = 1 /\ lookups = 0
    BY <1>1, <1>4, <2>1
  <2> HIDE DEF q
  <2>3. timers' \in Seq(Timers) /\ Len(timers') = Len(timers)
    BY <1>1, <2>1, <2>2, TimersUntilRetry
  <2>4. timers' # << >> => timers'[1].left \in Nat
    BY <2>3, TimerFields
  <2> QED
    BY <1>1, <2>1, <2>2, <2>3, <2>4
<1>10. CASE DnsFound
  <2>1. /\ Send(timers) \/ SendLater(timers)
        /\ lookups > 0 /\ lookups' = lookups - 1 /\ recv = "idle"
        /\ UNCHANGED <<task, recv, disturbances>>
    BY <1>10 DEF DnsFound
  <2>2. /\ timers' \in Seq(Timers) /\ Len(timers') = Len(timers) + 1
        /\ Send(timers) /\ timers = << >> => timers'[1].left = RecvTimeout
    BY <1>1, <2>1, TimersUntilAnswer
  <2>3. Send(timers) => since' = 0 /\ too_soon' = (too_soon \/ since < RecvTimeout)
    BY DEF Send
  <2>4. SendLater(timers) => UNCHANGED <<since, too_soon>>
    BY DEF SendLater
  <2>5. Running
    BY <2>1 DEF StartInv
  <2>6. NeverStalls'
    BY <1>1, <2>1, <2>2
  <2>7. disturbances = 0 => since = RecvTimeout /\ timers = << >> /\ Len(timers) = 0 /\ lookups = 1
    BY <1>1, <1>3, <2>1, <2>5
  <2>8. disturbances = 0 => ~too_soon'
    <3>1. disturbances = 0 => ~too_soon /\ ~(since < RecvTimeout)
      BY <1>1, <2>7
    <3> QED
      BY <2>1, <2>3, <2>4, <3>1
  <2>9. disturbances = 0 => timers'[1].left + since' >= RecvTimeout
    <3>1. timers'[1].left \in Nat
      BY <1>1, <2>2, TimerFields
    <3> QED
      BY <1>1, <2>1, <2>2, <2>3, <2>4, <2>7, <3>1
  <2>10. disturbances = 0 => Undisturbed'
    BY <1>1, <2>1, <2>2, <2>7, <2>8, <2>9
  <2> QED
    BY <2>1, <2>6, <2>10
<1>11. CASE DnsFound_NoAddress
  <2>1. /\ sntp_retry(timers)
        /\ lookups > 0 /\ lookups' = lookups - 1 /\ recv = "idle"
        /\ UNCHANGED <<task, recv, disturbances, since, too_soon>>
    BY <1>11 DEF DnsFound_NoAddress
  <2>2. timers' \in Seq(Timers) /\ Len(timers') = Len(timers) + 1
    BY <1>1, <2>1, TimersUntilRetry
  <2>3. timers' # << >> => timers'[1].left \in Nat
    BY <2>2, TimerFields
  <2> QED
    BY <1>1, <2>1, <2>2, <2>3
<1>12. CASE Recv_Process
  <2>1. /\ IF lookups > 0 THEN Disturbs ELSE UNCHANGED disturbances
        /\ UNCHANGED <<timers, lookups, task, since, too_soon>>
    BY <1>12 DEF Recv_Process
  <2>2. disturbances' = 0 => disturbances = 0 /\ ~(lookups > 0)
    BY <1>1, <2>1, Disturbed
  <2>3. NeverStalls'
    BY <2>1
  <2>4. disturbances' = 0 => Undisturbed'
    BY <1>1, <2>1, <2>2
  <2> QED
    BY <2>3, <2>4
<1>13. CASE Recv_Callback
  BY <1>13 DEF Recv_Callback
<1>14. CASE Recv_Reschedule
  <2> DEFINE q == Cancelled(timers)
  <2>1. /\ recv # "idle" /\ recv' = "idle"
        /\ timers' = sys_timeout(q, UpdateDelay, "request")
        /\ UNCHANGED <<lookups, task, disturbances, since, too_soon>>
    BY <1>14 DEF Recv_Reschedule
  <2>2. q \in Seq(Timers) /\ Sorted(q) /\ (Len(timers) = 1 => q = << >>)
    BY <1>1, AllCancelled
  <2> HIDE DEF q
  <2>3. Len(timers') = Len(q) + 1 /\ (q = << >> => timers'[1].left = UpdateDelay)
    <3> DEFINE r == sys_timeout(q, UpdateDelay, "request")
    <3>1. Len(r) = Len(q) + 1 /\ (q = << >> => r[1].left = UpdateDelay)
      BY <2>2, Constants, TimerAdded
    <3> QED
      BY <2>1, <3>1
  <2>4. Len(q) \in Nat /\ (q = << >> => Len(q) = 0)
    BY <2>2
  <2>5. Running
    BY <2>1 DEF StartInv
  <2>6. NeverStalls'
    BY <1>1, <2>1, <2>3, <2>4
  <2>7. disturbances = 0 => lookups = 0 /\ Len(timers) = 1
    BY <1>1, <2>1, <2>5
  <2>8. disturbances = 0 => Len(timers') = 1 /\ timers'[1].left = UpdateDelay
    BY <2>2, <2>3, <2>4, <2>7
  <2>9. disturbances = 0 => timers'[1].left + since' >= RecvTimeout
    BY <1>1, <2>1, <2>8, Constants
  <2>10. disturbances = 0 => Undisturbed'
    BY <1>1, <2>1, <2>7, <2>8, <2>9
  <2> QED
    BY <2>1, <2>6, <2>10
<1>15. CASE Recv_KissOfDeath
  <2>1. sntp_retry(timers) /\ disturbances' # 0 /\ UNCHANGED <<lookups, task>>
    BY <1>1, <1>15, Disturbed DEF Recv_KissOfDeath
  <2>2. Len(timers') = Len(timers) + 1
    BY <1>1, <2>1, TimersUntilRetry
  <2> QED
    BY <1>1, <2>1, <2>2
<1>16. CASE Recv_Broken
  BY <1>16 DEF Recv_Broken, vars
<1>17. CASE Task_Init
  <2>1. PICK delay \in 0 .. StartupDelay : timers' = sys_timeout(timers, delay, "request")
    BY <1>17 DEF Task_Init
  <2>2. /\ ~Running
        /\ UNCHANGED <<lookups, recv, disturbances, since, too_soon>>
    BY <1>17 DEF Task_Init
  <2>3. timers = << >> /\ lookups = 0 /\ since = RecvTimeout
    BY <2>2 DEF StartInv
  <2>4. delay \in Nat
    BY Constants
  <2>5. Len(timers') = 1 /\ timers'[1].left = delay
    <3> DEFINE r == sys_timeout(timers, delay, "request")
    <3>1. Len(r) = Len(timers) + 1 /\ (timers = << >> => r[1].left = delay)
      BY <1>1, <2>4, Constants, TimerAdded
    <3> QED
      BY <1>3, <2>1, <2>3, <3>1
  <2> QED
    BY <1>1, <2>2, <2>3, <2>4, <2>5
<1>18. CASE Task_Halts \/ Task_Read \/ Task_Delay \/ Task_Check
  BY <1>18 DEF Task_Halts, Task_Read, Task_Delay, Task_Check
<1>19. CASE UNCHANGED vars
  BY <1>19 DEF vars
<1> QED
  BY <1>5, <1>6, <1>7, <1>8, <1>9, <1>10, <1>11, <1>12, <1>13, <1>14, <1>15, <1>16, <1>17, <1>18,
     <1>19
     DEF Next, TimerStep, DnsStep, RecvStep, TaskStep

-----------------------------------------------------------------------------
(***************************************************************************)
(* The reachability register                                               *)
(***************************************************************************)
(* The answer to the request before the last u is the lowest bit that is    *)
(* set.                                                                     *)
LowestBit(r, u) == \E k \in Nat : r = Pow2[u] * (2 * k + 1)

RegisterInv ==
  recv = "idle" =>
    IF clock_set /\ unanswered < Bits
    THEN LowestBit(reachability, unanswered)
    ELSE reachability = 0

LEMMA ShiftedZero ==
  ASSUME reachability = 0
  PROVE  Shifted = 0
<1>1. Pow2[Bits] \in Nat /\ Pow2[Bits] > 0
  BY Constants, Powers
<1>2. 0 \in 0 .. Pow2[Bits] - 1 /\ 2 * reachability = 0
  BY <1>1
<1>3. 0 % Pow2[Bits] = 0
  BY <1>1, <1>2, ModSmall
<1> QED
  BY <1>2, <1>3 DEF Shifted

(* The lowest bit moves up when the register is shifted, ...                *)
LEMMA ShiftedBit ==
  ASSUME NEW u \in Nat, u + 1 < Bits, LowestBit(reachability, u)
  PROVE  LowestBit(Shifted, u + 1)
<1> DEFINE w == Pow2[Bits]
           v == Pow2[u + 1]
           c == Pow2[Bits - u - 2]
           x == 2 * reachability
           q == x \div w
           s == x % w
<1>1. PICK k \in Nat : reachability = Pow2[u] * (2 * k + 1)
  BY DEF LowestBit
<1>2. w \in Nat /\ w > 0 /\ v \in Nat /\ v > 0 /\ c \in Nat
  <2>1. Bits \in Nat /\ u + 1 \in Nat /\ Bits - u - 2 \in Nat
    BY Constants
  <2> QED
    BY <2>1, Powers
<1>3. w = v * (2 * c)
  <2>1. Bits - u - 1 \in Nat /\ Bits - u - 2 \in Nat /\ u + 1 \in Nat
    BY Constants
  <2>2. (u + 1) + (Bits - u - 1) = Bits /\ (Bits - u - 2) + 1 = Bits - u - 1
    BY Constants
  <2>3. Pow2[Bits - u - 1] = 2 * c
    BY <2>1, <2>2, Powers
  <2>4. Pow2[(u + 1) + (Bits - u - 1)] = Pow2[u + 1] * Pow2[Bits - u - 1]
    BY <2>1, PowersMultiply
  <2> QED
    BY <2>2, <2>3, <2>4
<1>4. x = v * (2 * k + 1) /\ x \in Nat
  <2> DEFINE p == Pow2[u]
             m == 2 * k + 1
  <2>1. p \in Nat /\ v = 2 * p /\ m \in Nat /\ reachability = p * m
    BY <1>1, Powers
  <2> HIDE DEF p, v, m
  <2>2. 2 * (p * m) = (2 * p) * m /\ p * m \in Nat
    BY <2>1, Z3
  <2> QED
    BY <2>1, <2>2 DEF m
<1> HIDE DEF w, v, c, x
<1>5. q \in Int /\ s \in 0 .. w - 1 /\ x = w * q + s
  BY <1>2, <1>4, DivMod
<1> HIDE DEF q, s
<1> DEFINE j == k - c * q
<1>6. c * q \in Int
  BY <1>2, <1>5, Z3
<1>7. j \in Int /\ s = v * (2 * j + 1)
  <2> DEFINE d == c * q
  <2>1. w * q = v * (2 * d)
    BY <1>2, <1>3, <1>5, Z3
  <2>2. d \in Int
    BY <1>6
  <2> HIDE DEF d
  <2>3. s = v * (2 * k + 1) - v * (2 * d)
    <3> DEFINE y == w * q
               z == v * (2 * k + 1)
    <3>1. y \in Int
      BY <1>2, <1>5, Z3
    <3>2. x = z /\ x = y + s /\ y = v * (2 * d)
      BY <1>4, <1>5, <2>1
    <3> HIDE DEF y, z
    <3>3. s = z - y
      BY <1>4, <1>5, <3>1, <3>2
    <3> QED
      BY <3>2, <3>3 DEF z
  <2>4. v * (2 * k + 1) - v * (2 * d) = v * (2 * (k - d) + 1)
    BY <1>2, <2>2, Z3
  <2> QED
    BY <1>6, <2>2, <2>3, <2>4 DEF d
<1> HIDE DEF j
<1>8. j >= 0
  <2> SUFFICES ASSUME j <= -1
               PROVE  FALSE
    BY <1>7
  <2>1. v * (2 * j + 1) < 0
    BY <1>2, <1>7, Z3
  <2> QED
    BY <1>5, <1>7, <2>1
<1>9. Shifted = s
  BY DEF Shifted, s, x, w
<1> QED
  BY <1>7, <1>8, <1>9 DEF LowestBit, v

(* ... until it is shifted out.                                             *)
LEMMA ShiftedOut ==
  ASSUME NEW u \in Nat, u + 1 = Bits, LowestBit(reachability, u)
  PROVE  Shifted = 0
<1> DEFINE w == Pow2[Bits]
           x == 2 * reachability
<1>1. PICK k \in Nat : reachability = Pow2[u] * (2 * k + 1)
  BY DEF LowestBit
<1>2. w \in Nat /\ w > 0
  BY Constants, Powers
<1>3. x = w * (2 * k + 1)
  <2> DEFINE p == Pow2[u]
             m == 2 * k + 1
  <2>1. p \in Nat /\ w = 2 * p /\ m \in Nat /\ reachability = p * m
    BY <1>1, Powers
  <2> HIDE DEF p, w, m
  <2>2. 2 * (p * m) = (2 * p) * m
    BY <2>1, Z3
  <2> QED
    BY <2>1, <2>2 DEF m
<1> DEFINE m == 2 * k + 1
<1>4. m \in Int /\ 0 \in 0 .. w - 1
  BY <1>2
<1> HIDE DEF w, x, m
<1>5. x = w * m + 0 /\ x \in Int
  <2>1. w * m \in Int
    BY <1>2, <1>4, Z3
  <2> QED
    BY <1>3, <2>1 DEF m
<1>6. x % w = 0
  BY <1>2, <1>4, <1>5, DivModUnique
<1> QED
  BY <1>6 DEF Shifted, x, w

LEMMA AnsweredBit ==
  ASSUME reachability \in 0 .. Pow2[Bits] - 1
  PROVE  LowestBit(Answered, 0)
<1> DEFINE r == reachability
<1>1. r \in Nat
  BY Constants, Powers
<1>2. PICK k \in Nat : r = 2 * k \/ r = 2 * k + 1
  <2> DEFINE h == r \div 2
  <2>1. h \in Nat /\ r % 2 \in 0 .. 1 /\ r = 2 * h + (r % 2)
    BY <1>1, DivMod, DivNat
  <2> HIDE DEF r, h
  <2> QED
    BY <2>1
<1> HIDE DEF r
<1>3. Answered = 2 * k + 1
  <2>1. Answered = IF r % 2 = 0 THEN r + 1 ELSE r
    BY DEF Answered, r
  <2>2. r = 2 * k => r % 2 = 0
    BY <1>1
  <2>3. r = 2 * k + 1 => r % 2 # 0
    BY <1>1
  <2> QED
    BY <1>1, <1>2, <2>1, <2>2, <2>3
<1>4. Pow2[0] * (2 * k + 1) = 2 * k + 1
  BY Powers
<1> QED
  BY <1>3, <1>4 DEF LowestBit

LEMMA BitSet ==
  ASSUME NEW u \in Nat, NEW r, LowestBit(r, u)
  PROVE  r # 0
<1>1. PICK k \in Nat : r = Pow2[u] * (2 * k + 1)
  BY DEF LowestBit
<1> DEFINE p == Pow2[u]
           m == 2 * k + 1
<1>2. p \in Nat /\ p > 0 /\ m \in Nat /\ m > 0 /\ r = p * m
  BY <1>1, Powers
<1> HIDE DEF p, m
<1> QED
  BY <1>2, Z3

LEMMA RegisterStep == TypeOK /\ StartInv /\ RegisterInv /\ [Next]_vars => RegisterInv'
<1> SUFFICES ASSUME TypeOK, StartInv, RegisterInv, [Next]_vars
             PROVE  RegisterInv'
  OBVIOUS
<1>1. /\ unanswered \in Nat /\ unanswered <= Bits /\ Bits \in Nat /\ Bits > 0
      /\ reachability \in 0 .. Pow2[Bits] - 1
  BY Constants DEF TypeOK
<1> USE DEF clientVars, answerVars, taskVars, historyVars
<1>2. ASSUME NEW q, Send(q), recv = "idle", UNCHANGED <<recv, clock_set>>
      PROVE  RegisterInv'
  <2>1. /\ reachability' = Shifted
        /\ unanswered' = IF unanswered < Bits THEN unanswered + 1 ELSE unanswered
    BY <1>2 DEF Send
  <2>2. CASE clock_set /\ unanswered + 1 < Bits
    <3>1. LowestBit(reachability, unanswered)
      BY <1>1, <1>2, <2>2 DEF RegisterInv
    <3>2. LowestBit(Shifted, unanswered + 1)
      BY <1>1, <2>2, <3>1, ShiftedBit
    <3>3. unanswered' = unanswered + 1
      BY <1>1, <2>1, <2>2
    <3> QED
      BY <1>2, <2>1, <2>2, <3>2, <3>3 DEF RegisterInv, LowestBit
  <2>3. CASE clock_set /\ unanswered + 1 = Bits
    <3>1. LowestBit(reachability, unanswered)
      BY <1>1, <1>2, <2>3 DEF RegisterInv
    <3>2. Shifted = 0
      BY <1>1, <2>3, <3>1, ShiftedOut
    <3>3. ~(unanswered' < Bits)
      BY <1>1, <2>1, <2>3
    <3> QED
      BY <2>1, <3>2, <3>3 DEF RegisterInv
  <2>4. CASE ~clock_set \/ unanswered = Bits
    <3>1. reachability = 0
      BY <1>1, <1>2, <2>4 DEF RegisterInv
    <3>2. Shifted = 0
      BY <3>1, ShiftedZero
    <3>3. ~clock_set \/ ~(unanswered' < Bits)
      BY <1>1, <2>1, <2>4
    <3> QED
      BY <1>2, <2>1, <3>2, <3>3 DEF RegisterInv
  <2>5. unanswered + 1 < Bits \/ unanswered + 1 = Bits \/ unanswered = Bits
    BY <1>1
  <2> QED
    BY <2>2, <2>3, <2>4, <2>5
<1>3. ASSUME UNCHANGED <<recv, clock_set, reachability, unanswered>>
      PROVE  RegisterInv'
  BY <1>3 DEF RegisterInv, LowestBit
<1>4. CASE Tick
  BY <1>3, <1>4 DEF Tick
<1>5. CASE Request_LookUp \/ Request_Fails \/ Retry
  BY <1>3, <1>5 DEF Request_LookUp, Request_Fails, Retry
<1>6. CASE Request_Send
  BY <1>2, <1>3, <1>6 DEF Request_Send, Due, SendLater
<1>7. CASE DnsFound
  BY <1>2, <1>3, <1>7 DEF DnsFound, SendLater
<1>8. CASE DnsFound_NoAddress
  BY <1>3, <1>8 DEF DnsFound_NoAddress
<1>9. CASE Recv_Process \/ Recv_Callback
  BY <1>9 DEF Recv_Process, Recv_Callback, RegisterInv
<1>10. CASE Recv_Reschedule
  <2>1. reachability' = Answered /\ unanswered' = 0 /\ UNCHANGED clock_set
    BY <1>10 DEF Recv_Reschedule
  <2>2. LowestBit(Answered, 0)
    BY <1>1, AnsweredBit
  <2>3. LowestBit(reachability, unanswered)'
    BY <2>1, <2>2 DEF LowestBit
  <2>4. clock_set'
    BY <1>10 DEF Recv_Reschedule, StartInv
  <2>5. unanswered' < Bits
    BY <1>1, <2>1
  <2> QED
    BY <2>3, <2>4, <2>5 DEF RegisterInv
<1>11. CASE Recv_KissOfDeath \/ Recv_Broken
  BY <1>3, <1>11 DEF Recv_KissOfDeath, Recv_Broken, vars
<1>12. CASE TaskStep
  BY <1>3, <1>12 DEF TaskStep, Task_Init, Task_Halts, Task_Read, Task_Delay, Task_Check
<1>13. CASE UNCHANGED vars
  BY <1>3, <1>13 DEF vars
<1> QED
  BY <1>4, <1>5, <1>6, <1>7, <1>8, <1>9, <1>10, <1>11, <1>12, <1>13
     DEF Next, TimerStep, DnsStep, RecvStep

-----------------------------------------------------------------------------
(***************************************************************************)
(* Backing off                                                             *)
(***************************************************************************)
LEMMA Doubled ==
  ASSUME TypeOK, Backoff, NEW q, sntp_retry(q)
  PROVE  Backoff'
<1>1. PICK d \in 0 .. retries :
        /\ retry_timeout = RetryTimeout * Pow2[d]
        /\ retry_timeout <= RetryTimeoutMax
        /\ d = retries \/ 2 * retry_timeout > RetryTimeoutMax
  BY DEF Backoff
<1>2. /\ retries \in 0 .. RetryTimeoutMax /\ retry_timeout \in Nat /\ d \in Nat
      /\ RetryTimeout \in Nat /\ RetryTimeout > 0 /\ RetryTimeoutMax \in Nat
  BY Constants DEF TypeOK
<1>3. /\ retries' = IF retries < RetryTimeoutMax THEN retries + 1 ELSE retries
      /\ retry_timeout' = IF 2 * retry_timeout <= RetryTimeoutMax
                          THEN 2 * retry_timeout ELSE retry_timeout
  BY DEF sntp_retry, Longer
<1>4. CASE 2 * retry_timeout <= RetryTimeoutMax
  <2> DEFINE p == Pow2[d]
  <2>1. p \in Nat /\ p > d /\ Pow2[d + 1] = 2 * p
    BY <1>2, Powers
  <2> HIDE DEF p
  <2>2. RetryTimeout * (2 * p) = 2 * (RetryTimeout * p) /\ p <= RetryTimeout * p
    BY <1>2, <2>1, Z3
  <2>3. retry_timeout' = RetryTimeout * Pow2[d + 1]
    BY <1>1, <1>3, <1>4, <2>1, <2>2 DEF p
  <2>4. d = retries /\ retries < RetryTimeoutMax
    <3> DEFINE x == RetryTimeout * p
    <3>1. retry_timeout = x /\ p <= x
      BY <1>1, <2>2 DEF p
    <3> HIDE DEF x
    <3> QED
      BY <1>1, <1>2, <1>4, <2>1, <3>1
  <2>5. retries' = retries + 1 /\ d + 1 \in 0 .. retries + 1 /\ d + 1 = retries'
    BY <1>2, <1>3, <2>4
  <2>6. retry_timeout' <= RetryTimeoutMax
    BY <1>3, <1>4
  <2> QED
    BY <2>3, <2>5, <2>6 DEF Backoff
<1>5. CASE ~(2 * retry_timeout <= RetryTimeoutMax)
  <2>1. retry_timeout' = retry_timeout /\ 2 * retry_timeout > RetryTimeoutMax
    BY <1>2, <1>3, <1>5
  <2>2. d \in 0 .. retries'
    BY <1>2, <1>3
  <2> QED
    BY <1>1, <2>1, <2>2 DEF Backoff
<1> QED
  BY <1>4, <1>5

LEMMA NotDoubled ==
  /\ RetryTimeout = RetryTimeout * Pow2[0]
  /\ RetryTimeout <= RetryTimeoutMax
  /\ 0 \in 0 .. 0
  BY Constants, Powers

LEMMA BackoffStep == TypeOK /\ StartInv /\ Backoff /\ [Next]_vars => Backoff'
<1> SUFFICES ASSUME TypeOK, StartInv, Backoff, [Next]_vars
             PROVE  Backoff'
  OBVIOUS
<1> USE DEF clientVars, answerVars, taskVars, historyVars
<1>1. ASSUME UNCHANGED <<retry_timeout, retries>>
      PROVE  Backoff'
  BY <1>1 DEF Backoff
<1>2. ASSUME retry_timeout' = RetryTimeout, retries' = 0
      PROVE  Backoff'
  BY <1>2, NotDoubled DEF Backoff
<1>3. CASE Tick
  BY <1>1, <1>3 DEF Tick
<1>4. CASE Request_LookUp \/ Request_Send \/ Request_Fails \/ DnsFound
  BY <1>1, <1>4 DEF Request_LookUp, Request_Send, Request_Fails, DnsFound
<1>5. CASE Retry \/ DnsFound_NoAddress \/ Recv_KissOfDeath
  BY <1>5, Doubled DEF Retry, DnsFound_NoAddress, Recv_KissOfDeath
<1>6. CASE Recv_Process \/ Recv_Callback \/ Recv_Broken
  BY <1>1, <1>6 DEF Recv_Process, Recv_Callback, Recv_Broken, vars
<1>7. CASE Recv_Reschedule
  BY <1>2, <1>7 DEF Recv_Reschedule, ResetTimeout
<1>8. CASE Task_Init
  BY <1>2, <1>8 DEF Task_Init, StartInv, Running
<1>9. CASE Task_Halts \/ Task_Read \/ Task_Delay \/ Task_Check
  BY <1>1, <1>9 DEF Task_Halts, Task_Read, Task_Delay, Task_Check
<1>10. CASE UNCHANGED vars
  BY <1>1, <1>10 DEF vars
<1> QED
  BY <1>3, <1>4, <1>5, <1>6, <1>7, <1>8, <1>9, <1>10
     DEF Next, TimerStep, DnsStep, RecvStep, TaskStep

-----------------------------------------------------------------------------
(***************************************************************************)
(* What sntp_task finds                                                    *)
(***************************************************************************)
(* The register leaves 0 only once the flag is set, and a shift does not    *)
(* make it leave 0; sntp_task reads the flag after the register.            *)
ReachableInv ==
  /\ reachability # 0 \/ reachable # 0 \/ recv = "callback_received" => callback_received
  /\ ReachableMeansSet

LEMMA ReachableStep == ReachableInv /\ [Next]_vars => ReachableInv'
<1> SUFFICES ASSUME ReachableInv, [Next]_vars
             PROVE  ReachableInv'
  OBVIOUS
<1> USE DEF ReachableInv, ReachableMeansSet, clientVars, answerVars, taskVars, historyVars
<1>1. CASE Tick
  BY <1>1 DEF Tick
<1>2. CASE Request_LookUp \/ Request_Fails
  BY <1>2 DEF Request_LookUp, Request_Fails
<1>3. CASE Request_Send
  BY <1>3, ShiftedZero DEF Request_Send, Send, SendLater
<1>4. CASE Retry
  BY <1>4 DEF Retry
<1>5. CASE DnsFound
  BY <1>5, ShiftedZero DEF DnsFound, Send, SendLater
<1>6. CASE DnsFound_NoAddress
  BY <1>6 DEF DnsFound_NoAddress
<1>7. CASE Recv_Process
  BY <1>7 DEF Recv_Process, Arrives
<1>8. CASE Recv_Callback
  BY <1>8 DEF Recv_Callback
<1>9. CASE Recv_Reschedule
  BY <1>9 DEF Recv_Reschedule
<1>10. CASE Recv_KissOfDeath \/ Recv_Broken
  BY <1>10 DEF Recv_KissOfDeath, Recv_Broken, vars
<1>11. CASE Task_Init
  BY <1>11 DEF Task_Init
<1>12. CASE Task_Read
  BY <1>12 DEF Task_Read
<1>13. CASE Task_Delay
  BY <1>13 DEF Task_Delay
<1>14. CASE Task_Check
  BY <1>14 DEF Task_Check
<1>15. CASE Task_Halts
  BY <1>15 DEF Task_Halts
<1>16. CASE UNCHANGED vars
  BY <1>16 DEF vars
<1> QED
  BY <1>1, <1>2, <1>3, <1>4, <1>5, <1>6, <1>7, <1>8, <1>9, <1>10, <1>11, <1>12, <1>13, <1>14,
     <1>15, <1>16
     DEF Next, TimerStep, DnsStep, RecvStep, TaskStep

-----------------------------------------------------------------------------
(***************************************************************************)
(* The theorems                                                            *)
(***************************************************************************)
SntpInv == TypeInv /\ StartInv /\ ChainInv /\ RegisterInv /\ Backoff /\ ReachableInv

LEMMA SntpInvariant == Spec => []SntpInv
<1>1. Init => SntpInv
  <2> SUFFICES ASSUME Init
               PROVE  SntpInv
    OBVIOUS
  <2>1. TypeInv
    BY TypeInit
  <2>2. StartInv /\ ChainInv /\ ReachableInv /\ RegisterInv
    BY DEF Init, StartInv, ChainInv, NeverStalls, Undisturbed, Running, ReachableInv,
           ReachableMeansSet, RegisterInv
  <2>3. Backoff
    BY NotDoubled DEF Init, Backoff
  <2> QED
    BY <2>1, <2>2, <2>3 DEF SntpInv
<1>2. SntpInv /\ [Next]_vars => SntpInv'
  BY TypeStep, StartStep, ChainStep, RegisterStep, BackoffStep, ReachableStep DEF SntpInv, TypeInv
<1> QED
  BY <1>1, <1>2, PTL DEF Spec

(* The variables keep their types: the timers stay in the order in which    *)
(* they are due, and the reachability register has Bits bits.               *)
THEOREM SntpTypeCorrect == Spec => []TypeOK
<1>1. SntpInv => TypeOK
  BY DEF SntpInv, TypeInv
<1> QED
  BY <1>1, SntpInvariant, PTL

(* Something is always pending once sntp_init has run.                      *)
THEOREM NeverStallsCorrect == Spec => []NeverStalls
<1>1. SntpInv => NeverStalls
  BY DEF SntpInv, ChainInv
<1> QED
  BY <1>1, SntpInvariant, PTL

(* Without a kiss-of-death, and without an answer during a look-up, there   *)
(* is one chain of requests, and RecvTimeout between any two of them.       *)
THEOREM OneChainCorrect == Spec => []OneChain
<1>1. SntpInv => OneChain
  BY DEF SntpInv, ChainInv, Undisturbed, OneChain
<1> QED
  BY <1>1, SntpInvariant, PTL

(* The retry timeout is doubled with each retry since the last correct      *)
(* answer, until SNTP_RETRY_TIMEOUT_MAX allows no more.                     *)
THEOREM BackoffCorrect == Spec => []Backoff
<1>1. SntpInv => Backoff
  BY DEF SntpInv
<1> QED
  BY <1>1, SntpInvariant, PTL

(* The register is 0 exactly while no answer has come, or none to the last  *)
(* Bits requests.                                                           *)
THEOREM ReachabilityCorrect == Spec => []ReachabilityHonest
<1>1. SntpInv => ReachabilityHonest
  <2> SUFFICES ASSUME SntpInv, recv = "idle"
               PROVE  reachability # 0 <=> clock_set /\ unanswered < Bits
    BY DEF ReachabilityHonest
  <2>1. unanswered \in Nat
    BY Constants DEF SntpInv, TypeInv, TypeOK
  <2>2. CASE clock_set /\ unanswered < Bits
    <3>1. LowestBit(reachability, unanswered)
      BY <2>2 DEF SntpInv, RegisterInv
    <3> QED
      BY <2>1, <2>2, <3>1, BitSet
  <2>3. CASE ~(clock_set /\ unanswered < Bits)
    BY <2>3 DEF SntpInv, RegisterInv
  <2> QED
    BY <2>2, <2>3
<1> QED
  BY <1>1, SntpInvariant, PTL

(* sntp_task never sees a server that answered but a time that was not set. *)
THEOREM ReachableCorrect == Spec => []ReachableMeansSet
<1>1. SntpInv => ReachableMeansSet
  BY DEF SntpInv, ReachableInv
<1> QED
  BY <1>1, SntpInvariant, PTL
=============================================================================
