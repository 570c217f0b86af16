--------------------------- MODULE SystemTimeProofs ---------------------------
(***************************************************************************)
(* Proofs about SystemTime, for words of any width, any tick rate and any  *)
(* time of starting the device.                                            *)
(***************************************************************************)
EXTENDS SystemTime, Arithmetic, TLAPS

-----------------------------------------------------------------------------
(***************************************************************************)
(* Types                                                                   *)
(***************************************************************************)
LEMMA Words ==
  /\ \A n \in Int : n % Word \in 0 .. Word - 1
  /\ \A n \in 0 .. Word - 1 : Seconds(n) \in 0 .. Word - 1
<1>1. \A n \in Int : n % Word \in 0 .. Word - 1
  BY SystemTimeAssumption, DivMod DEF SystemTimeAssumption
<1>2. ASSUME NEW n \in 0 .. Word - 1
      PROVE  Seconds(n) \in 0 .. Word - 1
  <2> DEFINE p == n \div TickRate
  <2>1. p \in Int /\ n % TickRate \in 0 .. TickRate - 1 /\ n = TickRate * p + (n % TickRate)
    BY SystemTimeAssumption, DivMod DEF SystemTimeAssumption
  <2>2. TickRate \in Nat /\ TickRate > 0 /\ Word \in Nat
    BY SystemTimeAssumption DEF SystemTimeAssumption
  <2> HIDE DEF p
  <2>3. p >= 0
    BY <2>2, DivNat DEF p
  <2>4. p <= TickRate * p
    BY <2>1, <2>2, <2>3, Z3
  <2> QED
    BY <2>1, <2>2, <2>3, <2>4 DEF Seconds, p
<1> QED
  BY <1>1, <1>2

LEMMA TypeInit == Init => TypeOK
<1>1. 0 \in 0 .. Word - 1 /\ 0 \in 0 .. MaxMoment
  BY SystemTimeAssumption DEF SystemTimeAssumption
<1> QED
  BY <1>1 DEF Init, TypeOK

LEMMA TypeStep == TypeOK /\ [Next]_vars => TypeOK'
<1> SUFFICES ASSUME TypeOK, [Next]_vars
             PROVE  TypeOK'
  OBVIOUS
<1> USE DEF TypeOK
<1>1. /\ Word \in Nat /\ Epoch \in Nat /\ start \in Nat /\ moment \in Nat /\ MaxMoment \in Nat
      /\ TickRate \in Nat /\ TickRate > 0
  BY SystemTimeAssumption DEF SystemTimeAssumption
<1>2. tx_time_get \in 0 .. Word - 1
  BY <1>1, Words DEF tx_time_get
<1>3. CASE Tick
  BY <1>1, <1>3 DEF Tick, timeVars, setterVars, readerVars
<1>4. CASE SetTime_Ticks
  <2>1. Seconds(tx_time_get) \in 0 .. Word - 1
    BY <1>2, Words
  <2>2. Transmitted \in 0 .. Word - 1
    <3>1. (start + moment) \div TickRate \in Int
      BY <1>1, DivMod
    <3> QED
      BY <1>1, <3>1, Words DEF Transmitted
  <2>3. Signed(Transmitted) \in Int
    BY <1>1, <2>2 DEF Signed
  <2>4. sntp_process(Transmitted) \in 0 .. Word - 1
    BY <1>1, <2>3, Words DEF sntp_process
  <2> QED
    BY <1>4, <2>1, <2>4 DEF SetTime_Ticks, timeVars, readerVars
<1>5. CASE SetTime_Base
  <2>1. NewBase \in 0 .. Word - 1
    BY <1>1, Words DEF NewBase
  <2> QED
    BY <1>5, <2>1 DEF SetTime_Base, readerVars
<1>6. CASE SetTime_Flag
  BY <1>1, <1>6, SystemTimeAssumption DEF SetTime_Flag, readerVars, SystemTimeAssumption
<1>7. CASE Time_Synced
  BY <1>7 DEF Time_Synced, timeVars, setterVars
<1>8. CASE Time_ReadBase
  BY <1>8 DEF Time_ReadBase, timeVars, setterVars
<1>9. CASE Time_ReadTicks
  BY <1>2, <1>9 DEF Time_ReadTicks, timeVars, setterVars
<1>10. CASE Time_Return
  BY <1>10, SystemTimeAssumption DEF Time_Return, timeVars, setterVars, SystemTimeAssumption
<1>11. CASE UNCHANGED vars
  BY <1>11 DEF vars, timeVars, setterVars, readerVars
<1> QED
  BY <1>3, <1>4, <1>5, <1>6, <1>7, <1>8, <1>9, <1>10, <1>11 DEF Next, Over

(* The types of the variables: what is a word in the code stays one.        *)
THEOREM TimeTypeCorrect == Spec => []TypeOK
  BY TypeInit, TypeStep, PTL DEF Spec

-----------------------------------------------------------------------------
(***************************************************************************)
(* Elapsed time                                                            *)
(***************************************************************************)
(* Less than a lap after entry, the difference of the two tick counts is    *)
(* what has passed, a wrap in between or not.                               *)
LEMMA TicksElapsed ==
  ASSUME NEW m \in Nat, NEW e \in Nat, NEW w \in Nat, w > 0, e <= m, m - e < w
  PROVE  ((m % w) - (e % w)) % w = m - e
<1> DEFINE p == m \div w
           s == m % w
           q == e \div w
           r == e % w
<1>1. p \in Int /\ s \in 0 .. w - 1 /\ m = w * p + s
  BY DivMod
<1>2. q \in Int /\ r \in 0 .. w - 1 /\ e = w * q + r
  BY DivMod
<1> HIDE DEF p, s, q, r
<1> DEFINE n == s - r
           k == q - p
           d == m - e
<1>3. n \in Int /\ k \in Int /\ d \in 0 .. w - 1
  BY <1>1, <1>2
<1>4. n = w * k + d
  BY <1>1, <1>2, Z3
<1> HIDE DEF n, k, d
<1>5. n % w = d
  BY <1>3, <1>4, DivModUnique
<1> QED
  BY <1>5 DEF n, d, s, r

(* coreHTTP is told how long a request has taken, whenever the tick count   *)
(* wraps.                                                                   *)
THEOREM ElapsedCorrect == Spec => []ElapsedRight
<1>1. TypeOK => ElapsedRight
  <2> SUFFICES ASSUME TypeOK, NEW entry \in 0 .. moment,
                      moment - entry < Word,
                      ((moment - entry) * Second) \div TickRate < Word
               PROVE  TimeInMs(entry) = ((moment - entry) * Second) \div TickRate
    BY DEF ElapsedRight
  <2> DEFINE d  == moment - entry
             ms == (d * Second) \div TickRate
  <2>1. /\ moment \in Nat /\ entry \in Nat /\ entry <= moment
        /\ Word \in Nat /\ Word > 0 /\ Second \in Nat /\ TickRate \in Nat /\ TickRate > 0
    BY SystemTimeAssumption DEF SystemTimeAssumption, TypeOK
  <2>2. (tx_time_get - (entry % Word)) % Word = d
    BY <2>1, TicksElapsed DEF tx_time_get
  <2>3. d \in Nat
    BY <2>1
  <2> HIDE DEF d
  <2>4. d * Second \in Nat
    BY <2>1, <2>3, SMT
  <2>5. ms \in Nat
    <3> DEFINE x == d * Second
    <3>1. x \in Nat
      BY <2>4
    <3> HIDE DEF x
    <3>2. x \div TickRate \in Nat
      BY <2>1, <3>1, DivNat
    <3> QED
      BY <3>2 DEF x
  <2>6. ms % Word = ms
    <3>1. ms < Word
      BY DEF d
    <3> HIDE DEF ms
    <3>2. ms \in 0 .. Word - 1
      BY <2>1, <2>5, <3>1
    <3> QED
      BY <2>1, <3>2, ModSmall
  <2> QED
    BY <2>2, <2>6 DEF TimeInMs, pdTICKS_TO_MS, d
<1> QED
  BY <1>1, TimeTypeCorrect, PTL

-----------------------------------------------------------------------------
(***************************************************************************)
(* The time of day                                                         *)
(***************************************************************************)
(* The seconds since 1970 at a moment, those the tick count shows, and the  *)
(* offset that makes the ones the others.                                   *)
TrueSeconds(m) == (start + m) \div TickRate

BootSeconds(m) == Seconds(m % Word)

Offset(m) == (TrueSeconds(m) - BootSeconds(m)) % Word

(* Each step of setting the time and of reading it leaves what belongs to   *)
(* one moment, whatever happens in between; and there is an offset to read  *)
(* before the flag says so.                                                 *)
TimeInv ==
  /\ setter # "idle" =>
       /\ answer_at # None
       /\ sec = TrueSeconds(answer_at) % Word
       /\ system_seconds = BootSeconds(answer_at)
  /\ base_at # None => unix_time_base = Offset(base_at)
  /\ setter = "set" \/ callback_received => base_at # None
  /\ reader # "idle" => callback_received
  /\ reader \in {"base", "both"} => base_read_at # None /\ base_read = Offset(base_read_at)
  /\ reader \in {"ticks", "both"} => ticks_read_at # None /\ ticks_read = ticks_read_at % Word

LEMMA SecondsTypes ==
  ASSUME NEW m \in Nat, TypeOK
  PROVE  TrueSeconds(m) \in Nat /\ BootSeconds(m) \in Nat
<1>1. start + m \in Nat /\ TickRate \in Nat /\ TickRate > 0 /\ Word \in Nat
  BY SystemTimeAssumption DEF SystemTimeAssumption, TypeOK
<1>2. TrueSeconds(m) \in Nat
  <2> DEFINE n == start + m
  <2>1. n \in Nat
    BY <1>1
  <2> HIDE DEF n
  <2>2. n \div TickRate \in Nat
    BY <1>1, <2>1, DivNat
  <2> QED
    BY <2>2 DEF n, TrueSeconds
<1>3. BootSeconds(m) \in Nat
  BY <1>1, Words DEF BootSeconds
<1> QED
  BY <1>2, <1>3

(* The turn of the servers' seconds drops out: sntp_process gives the       *)
(* seconds since 1970, as a word.                                           *)
LEMMA Received ==
  ASSUME TypeOK
  PROVE  sntp_process(Transmitted) = TrueSeconds(moment) % Word
<1> DEFINE t == TrueSeconds(moment)
           n == t + Word - Epoch
           u == n % Word
           k == n \div Word
<1>1. Word \in Nat /\ Word > 0 /\ Epoch \in Nat /\ t \in Nat
  BY SecondsTypes, SystemTimeAssumption DEF SystemTimeAssumption, TypeOK
<1>2. Transmitted = u
  BY DEF Transmitted, TrueSeconds
<1> HIDE DEF t
<1>3. n \in Int
  BY <1>1
<1>4. k \in Int /\ u \in 0 .. Word - 1 /\ n = Word * k + u
  BY <1>1, <1>3, DivMod
<1> HIDE DEF k, u
<1>5. t = u - Word + Epoch + Word * k
  BY <1>1, <1>4
<1>6. CASE Signed(u) = u
  <2> DEFINE a == u + Epoch
             b == 1 - k
  <2>1. a \in Int /\ b \in Int /\ t \in Int /\ Word \in Nat /\ Word > 0
    BY <1>1, <1>4
  <2>2. a = t + Word * b
    BY <1>1, <1>4, <1>5, Z3
  <2> HIDE DEF a, b
  <2>3. a % Word = t % Word
    BY <2>1, <2>2, ModShift
  <2> QED
    BY <1>2, <1>6, <2>3 DEF sntp_process, a, t
<1>7. CASE Signed(u) = u - Word
  <2> DEFINE a == u - Word + Epoch
             b == -k
  <2>1. a \in Int /\ b \in Int /\ t \in Int /\ Word \in Nat /\ Word > 0
    BY <1>1, <1>4
  <2>2. a = t + Word * b
    BY <1>1, <1>4, <1>5, Z3
  <2> HIDE DEF a, b
  <2>3. a % Word = t % Word
    BY <2>1, <2>2, ModShift
  <2> QED
    BY <1>2, <1>7, <2>3 DEF sntp_process, a, t
<1> QED
  BY <1>6, <1>7 DEF Signed

LEMMA TimeInit == Init => TimeInv
  BY DEF Init, TimeInv

LEMMA TimeStep == TypeOK /\ TimeInv /\ [Next]_vars => TimeInv'
<1> SUFFICES ASSUME TypeOK, TimeInv, [Next]_vars
             PROVE  TimeInv'
  OBVIOUS
<1> USE DEF TimeInv
<1>1. UNCHANGED start
  BY DEF Next, Over, vars, Tick, SetTime_Ticks, SetTime_Base, SetTime_Flag, Time_Synced,
         Time_ReadBase, Time_ReadTicks, Time_Return
<1>2. \A m : /\ TrueSeconds(m)' = TrueSeconds(m)
             /\ BootSeconds(m)' = BootSeconds(m)
             /\ Offset(m)' = Offset(m)
  BY <1>1 DEF TrueSeconds, BootSeconds, Offset, Seconds
<1>3. moment # None
  BY SystemTimeAssumption DEF TypeOK, SystemTimeAssumption
<1>4. CASE SetTime_Ticks
  <2>1. sec' = TrueSeconds(moment) % Word
    BY <1>4, Received DEF SetTime_Ticks
  <2>2. system_seconds' = BootSeconds(moment)
    BY <1>4 DEF SetTime_Ticks, BootSeconds, tx_time_get
  <2>3. setter' = "computing" /\ answer_at' = moment /\ UNCHANGED <<timeVars, readerVars>>
    BY <1>4 DEF SetTime_Ticks
  <2> QED
    BY <1>2, <1>3, <2>1, <2>2, <2>3 DEF timeVars, readerVars
<1>5. CASE SetTime_Base
  <2>1. unix_time_base' = Offset(answer_at)
    <3> DEFINE t == TrueSeconds(answer_at)
               b == BootSeconds(answer_at)
               c == -b
    <3>1. Word \in Nat /\ Word > 0 /\ answer_at \in Nat
      BY <1>5, SystemTimeAssumption DEF SetTime_Base, TypeOK, SystemTimeAssumption
    <3>2. t \in Nat /\ b \in Nat
      BY <3>1, SecondsTypes
    <3>3. unix_time_base' = ((t % Word) - b) % Word
      BY <1>5 DEF SetTime_Base, NewBase
    <3>4. Offset(answer_at) = (t - b) % Word
      BY DEF Offset
    <3> HIDE DEF t, b
    <3>5. (t % Word) - b = (t % Word) + c /\ t - b = t + c
      BY <3>1, <3>2, Words
    <3>6. t \in Int /\ c \in Int /\ Word \in Nat /\ Word > 0
      BY <3>1, <3>2
    <3> HIDE DEF c
    <3>7. ((t % Word) + c) % Word = (t + c) % Word
      BY <3>6, ModSum
    <3> QED
      BY <3>3, <3>4, <3>5, <3>7
  <2>2. /\ base_at' = answer_at /\ setter = "computing" /\ setter' = "set"
        /\ UNCHANGED <<callback_received, sec, system_seconds, answer_at, readerVars>>
    BY <1>5 DEF SetTime_Base
  <2> QED
    BY <1>2, <2>1, <2>2 DEF readerVars
<1>6. CASE SetTime_Flag
  BY <1>2, <1>6 DEF SetTime_Flag, readerVars
<1>7. CASE Time_Synced
  BY <1>2, <1>7 DEF Time_Synced, timeVars, setterVars
<1>8. CASE Time_ReadBase
  BY <1>2, <1>8 DEF Time_ReadBase, timeVars, setterVars
<1>9. CASE Time_ReadTicks
  BY <1>2, <1>3, <1>9 DEF Time_ReadTicks, timeVars, setterVars, tx_time_get
<1>10. CASE Time_Return
  BY <1>2, <1>10 DEF Time_Return, timeVars, setterVars
<1>11. CASE Tick \/ UNCHANGED vars
  BY <1>2, <1>11 DEF Tick, vars, timeVars, setterVars, readerVars
<1> QED
  BY <1>4, <1>5, <1>6, <1>7, <1>8, <1>9, <1>10, <1>11 DEF Next, Over

(* What is left over of a second at two moments of one lap differs by at    *)
(* most one, and only if the start was not on a whole second.               *)
LEMMA SameLapOffset ==
  ASSUME TypeOK, NEW b \in Nat, NEW r \in Nat, SameLap(b, r)
  PROVE  \E d \in {-1, 0, 1} :
           /\ TrueSeconds(b) - BootSeconds(b) + BootSeconds(r) - TrueSeconds(r) = d
           /\ d = 1 => (start + r) % TickRate > 0
<1> DEFINE lap == b \div Word
           n   == start + Word * lap
           yb  == b % Word
           yr  == r % Word
<1>1. Word \in Nat /\ Word > 0 /\ TickRate \in Nat /\ TickRate > 0 /\ start \in Nat
  BY SystemTimeAssumption DEF SystemTimeAssumption, TypeOK
<1>2. lap \in Nat /\ yb \in Nat /\ b = Word * lap + yb
  BY <1>1, DivMod, DivNat
<1>3. yr \in Nat /\ r = Word * lap + yr
  BY <1>1, DivMod DEF SameLap
<1>4. n \in Nat
  <2> HIDE DEF lap
  <2>1. Word * lap \in Nat
    BY <1>1, <1>2, SMT
  <2> QED
    BY <1>1, <2>1
<1>5. /\ BootSeconds(b) = yb \div TickRate
      /\ BootSeconds(r) = yr \div TickRate
  BY DEF BootSeconds, Seconds
<1>6. start + b = n + yb /\ start + r = n + yr
  <2> HIDE DEF lap, yb, yr
  <2>1. Word * lap \in Nat
    BY <1>1, <1>2, SMT
  <2> QED
    BY <1>1, <1>2, <1>3, <2>1
<1> HIDE DEF lap, n, yb, yr
<1>7. n \in Nat /\ yb \in Nat /\ yr \in Nat /\ TickRate \in Nat /\ TickRate > 0
  BY <1>1, <1>2, <1>3, <1>4
<1> DEFINE cb == Carry(n, yb, TickRate)
           cr == Carry(n, yr, TickRate)
           g  == n % TickRate
<1>8. /\ cb \in {0, 1} /\ (n + yb) % TickRate = g + (yb % TickRate) - TickRate * cb
      /\ cr \in {0, 1} /\ (n + yr) % TickRate = g + (yr % TickRate) - TickRate * cr
  BY <1>7, CarryOnce
<1>9. /\ g \in 0 .. TickRate - 1 /\ n \div TickRate \in Int
      /\ yb % TickRate \in 0 .. TickRate - 1 /\ yb \div TickRate \in Int
      /\ yr % TickRate \in 0 .. TickRate - 1 /\ yr \div TickRate \in Int
      /\ (n + yb) % TickRate \in 0 .. TickRate - 1 /\ (n + yb) \div TickRate \in Int
      /\ (n + yr) % TickRate \in 0 .. TickRate - 1 /\ (n + yr) \div TickRate \in Int
  BY <1>7, DivMod
<1>10. TrueSeconds(b) - BootSeconds(b) + BootSeconds(r) - TrueSeconds(r) = cb - cr
  <2>1. TrueSeconds(b) = (n + yb) \div TickRate /\ TrueSeconds(r) = (n + yr) \div TickRate
    BY <1>6 DEF TrueSeconds
  <2> QED
    BY <1>5, <1>9, <2>1 DEF Carry
<1>11. cb - cr = 1 => (start + r) % TickRate > 0
  <2>1. SUFFICES ASSUME cb = 1, cr = 0
                 PROVE  (n + yr) % TickRate > 0
    BY <1>6, <1>8
  <2>2. TickRate * 1 = TickRate /\ TickRate * 0 = 0
    BY <1>1, SMT
  <2> HIDE DEF cb, cr, g
  <2>3. g > 0
    BY <1>1, <1>8, <1>9, <2>1, <2>2
  <2> QED
    BY <1>1, <1>8, <1>9, <2>1, <2>2, <2>3
<1>12. cb - cr \in {-1, 0, 1}
  BY <1>8
<1> QED
  BY <1>10, <1>11, <1>12

(* How far the time a task is told is off is how far the two offsets are    *)
(* apart.                                                                   *)
LEMMA AheadOffset ==
  ASSUME TypeOK, TimeInv, reader = "both", NEW d \in Int,
         TrueSeconds(base_read_at) - BootSeconds(base_read_at)
           + BootSeconds(ticks_read_at) - TrueSeconds(ticks_read_at) = d
  PROVE  Ahead = Signed(d % Word) * TickRate - ((start + ticks_read_at) % TickRate)
<1> DEFINE b  == base_read_at
           r  == ticks_read_at
           tb == TrueSeconds(b)
           bb == BootSeconds(b)
           tr == TrueSeconds(r)
           br == BootSeconds(r)
<1>1. Word \in Nat /\ Word > 0 /\ b \in Nat /\ r \in Nat
  BY SystemTimeAssumption DEF SystemTimeAssumption, TypeOK, TimeInv
<1>2. base_read = (tb - bb) % Word /\ Seconds(ticks_read) = br
  BY DEF TimeInv, Offset, BootSeconds
<1>3. tb \in Nat /\ bb \in Nat /\ tr \in Nat /\ br \in Nat
  BY <1>1, SecondsTypes
<1>4. tb - bb + br - tr = d
  OBVIOUS
<1>5. Ahead = Signed((unix_time - tr) % Word) * TickRate - ((start + r) % TickRate)
  BY DEF Ahead, TrueSeconds
<1> HIDE DEF b, r, tb, bb, tr, br
<1>6. unix_time = (tb - bb + br) % Word
  <2> DEFINE a == tb - bb
  <2>1. a \in Int /\ br \in Int /\ Word \in Nat /\ Word > 0
    BY <1>1, <1>3
  <2> HIDE DEF a
  <2>2. ((a % Word) + br) % Word = (a + br) % Word
    BY <2>1, ModSum
  <2> QED
    BY <1>2, <2>2 DEF unix_time, a
<1>7. (unix_time - tr) % Word = d % Word
  <2> DEFINE a == tb - bb + br
             c == -tr
  <2>1. a \in Int /\ c \in Int /\ Word \in Nat /\ Word > 0
    BY <1>1, <1>3
  <2>2. (a % Word) - tr = (a % Word) + c
    <3>1. a % Word \in Int
      BY <1>1, <2>1, Words
    <3> HIDE DEF a
    <3> QED
      BY <1>3, <3>1
  <2>3. a + c = d
    BY <1>3, <1>4
  <2> HIDE DEF a, c
  <2>4. ((a % Word) + c) % Word = (a + c) % Word
    BY <2>1, ModSum
  <2> QED
    BY <1>6, <2>2, <2>3, <2>4 DEF a
<1> QED
  BY <1>5, <1>7 DEF r

(* So the time is right for the whole of the lap.                           *)
LEMMA RightInLap ==
  ASSUME TypeOK, TimeInv, reader = "both", SameLap(base_read_at, ticks_read_at)
  PROVE  Right
<1> DEFINE rest == (start + ticks_read_at) % TickRate
<1>1. /\ Word \in Nat /\ Word > 2 /\ TickRate \in Nat /\ TickRate > 0
      /\ base_read_at \in Nat /\ ticks_read_at \in Nat /\ start + ticks_read_at \in Nat
  BY SystemTimeAssumption DEF SystemTimeAssumption, TypeOK, TimeInv
<1>2. PICK d \in {-1, 0, 1} :
        /\ TrueSeconds(base_read_at) - BootSeconds(base_read_at)
             + BootSeconds(ticks_read_at) - TrueSeconds(ticks_read_at) = d
        /\ d = 1 => rest > 0
  BY <1>1, SameLapOffset
<1>3. rest \in 0 .. TickRate - 1
  BY <1>1, DivMod
<1>4. Ahead = Signed(d % Word) * TickRate - rest
  BY <1>2, AheadOffset
<1>5. d = 1 => rest > 0
  BY <1>2
<1> HIDE DEF rest
<1>6. Signed(d % Word) = d
  <2>1. CASE d = -1
    <3>1. -1 = Word * (-1) + (Word - 1)
      BY <1>1, SMT
    <3>2. (-1) % Word = Word - 1
      BY <1>1, <3>1, DivModUnique
    <3> QED
      BY <1>1, <2>1, <3>2 DEF Signed
  <2>2. CASE d # -1
    <3>1. d % Word = d
      BY <1>1, <2>2, ModSmall
    <3> QED
      BY <1>1, <2>2, <3>1 DEF Signed
  <2> QED
    BY <2>1, <2>2
<1>7. Ahead = d * TickRate - rest
  BY <1>4, <1>6
<1>8. /\ (-1) * TickRate = -TickRate /\ 0 * TickRate = 0 /\ 1 * TickRate = TickRate
      /\ -2 * TickRate = -(TickRate + TickRate)
  BY <1>1, SMT
<1> QED
  BY <1>1, <1>3, <1>5, <1>7, <1>8 DEF Right

(* The offset of a moment is that of the first moment of its lap, or one    *)
(* more.                                                                    *)
LEMMA LapOffset ==
  ASSUME TypeOK, NEW m \in Nat
  PROVE  \E c \in {0, 1} :
           TrueSeconds(m) - BootSeconds(m) = ((start + Word * (m \div Word)) \div TickRate) + c
<1> DEFINE lap == m \div Word
           n   == start + Word * lap
           y   == m % Word
           c   == Carry(n, y, TickRate)
<1>1. Word \in Nat /\ Word > 0 /\ TickRate \in Nat /\ TickRate > 0 /\ start \in Nat
  BY SystemTimeAssumption DEF SystemTimeAssumption, TypeOK
<1>2. lap \in Nat /\ y \in Nat /\ m = Word * lap + y
  BY <1>1, DivMod, DivNat
<1>3. n \in Nat /\ start + m = n + y
  <2> HIDE DEF lap, y
  <2>1. Word * lap \in Nat
    BY <1>1, <1>2, SMT
  <2> QED
    BY <1>1, <1>2, <2>1
<1>4. BootSeconds(m) = y \div TickRate /\ TrueSeconds(m) = (n + y) \div TickRate
  BY <1>3 DEF BootSeconds, Seconds, TrueSeconds
<1> HIDE DEF lap, y
<1>5. (n \div TickRate) + c = (n + y) \div TickRate - (y \div TickRate)
  <2> HIDE DEF n
  <2>1. n \div TickRate \in Int /\ y \div TickRate \in Int /\ (n + y) \div TickRate \in Int
    BY <1>1, <1>2, <1>3, DivMod
  <2> QED
    BY <2>1 DEF Carry
<1>6. c \in {0, 1}
  <2> HIDE DEF n
  <2> QED
    BY <1>1, <1>2, <1>3, CarryOnce
<1> QED
  BY <1>4, <1>5, <1>6 DEF lap

(* Some laps on, the offset is some seconds less.                           *)
LEMMA LapsApart ==
  ASSUME TypeOK, FewLaps, NEW k \in Nat, NEW l \in Nat, k < l, l <= MaxMoment \div Word
  PROVE  ((start + Word * l) \div TickRate) - ((start + Word * k) \div TickRate) \in 3 .. Word - 3
<1> DEFINE n == start + Word * k
           y == Word * (l - k)
           q == y \div TickRate
           z == Word * (MaxMoment \div Word)
<1>1. /\ Word \in Nat /\ Word > 0 /\ TickRate \in Nat /\ TickRate > 0 /\ start \in Nat
      /\ MaxMoment \in Nat /\ 3 * TickRate <= Word /\ MaxMoment \div Word \in Nat
  BY SystemTimeAssumption, DivNat DEF SystemTimeAssumption, TypeOK, FewLaps
<1>2. n \in Nat /\ y \in Nat /\ z \in Nat /\ start + Word * l = n + y
  <2>1. Word * k \in Nat
    BY <1>1, SMT
  <2>2. y \in Nat
    <3> DEFINE d == l - k
    <3>1. d \in Nat
      OBVIOUS
    <3> HIDE DEF d
    <3>2. Word * d \in Nat
      BY <1>1, <3>1, SMT
    <3> QED
      BY <3>2 DEF d
  <2>3. Word * l = Word * k + y
    BY <1>1, Z3
  <2>4. z \in Nat
    <3> DEFINE d == MaxMoment \div Word
    <3>1. d \in Nat
      BY <1>1
    <3> HIDE DEF d
    <3>2. Word * d \in Nat
      BY <1>1, <3>1, SMT
    <3> QED
      BY <3>2 DEF d
  <2> HIDE DEF y
  <2> QED
    BY <1>1, <2>1, <2>2, <2>3, <2>4
<1>3. Word <= y /\ y <= z
  <2> DEFINE d == l - k
             e == MaxMoment \div Word
  <2>1. d \in Nat /\ 1 <= d /\ e \in Nat /\ d <= e
    BY <1>1
  <2> HIDE DEF d, e
  <2>2. Word <= Word * d /\ Word * d <= Word * e
    BY <1>1, <2>1, Z3
  <2> QED
    BY <2>2 DEF d, e
<1>4. z \div TickRate <= Word - 4
  BY DEF FewLaps
<1> HIDE DEF n, y, z
<1>5. /\ q \in Int /\ y % TickRate \in 0 .. TickRate - 1 /\ y = TickRate * q + (y % TickRate)
  BY <1>1, <1>2, DivMod
<1> DEFINE p == z \div TickRate
<1>6. /\ p \in Int /\ z % TickRate \in 0 .. TickRate - 1 /\ z = TickRate * p + (z % TickRate)
  BY <1>1, <1>2, DivMod
<1> HIDE DEF q, p
<1>7. q >= 3
  <2> SUFFICES ASSUME q <= 2
               PROVE  FALSE
    BY <1>5
  <2>1. TickRate * q <= TickRate * 2
    BY <1>1, <1>5, Z3
  <2> QED
    BY <1>1, <1>2, <1>3, <1>5, <2>1
<1>8. q <= p
  <2> SUFFICES ASSUME p + 1 <= q
               PROVE  FALSE
    BY <1>5, <1>6
  <2>1. TickRate * p + TickRate <= TickRate * q
    BY <1>1, <1>5, <1>6, Z3
  <2> DEFINE u == TickRate * p
             v == TickRate * q
  <2>2. u \in Int /\ v \in Int
    BY <1>1, <1>5, <1>6, SMT
  <2>3. u + TickRate <= v /\ z = u + (z % TickRate) /\ y = v + (y % TickRate)
    BY <1>5, <1>6, <2>1
  <2> HIDE DEF u, v
  <2> QED
    BY <1>1, <1>2, <1>3, <1>5, <1>6, <2>2, <2>3
<1>9. Carry(n, y, TickRate) \in {0, 1}
  BY <1>1, <1>2, CarryOnce
<1>10. ((n + y) \div TickRate) - (n \div TickRate) = q + Carry(n, y, TickRate)
  <2>1. (n + y) \div TickRate \in Int /\ n \div TickRate \in Int /\ y \div TickRate \in Int
    BY <1>1, <1>2, DivMod
  <2> QED
    BY <2>1 DEF Carry, q
<1>11. q <= Word - 4
  BY <1>1, <1>4, <1>5, <1>6, <1>8 DEF p
<1>12. ((n + y) \div TickRate) - (n \div TickRate) \in 3 .. Word - 3
  BY <1>1, <1>5, <1>7, <1>9, <1>10, <1>11
<1> QED
  BY <1>2, <1>12 DEF n

(* So at two moments of different laps the offsets are apart by two seconds *)
(* or more, and by no whole word.                                           *)
LEMMA OtherLapOffset ==
  ASSUME TypeOK, FewLaps, NEW b \in 0 .. MaxMoment, NEW r \in 0 .. MaxMoment, ~SameLap(b, r)
  PROVE  \E d \in Int :
           /\ TrueSeconds(b) - BootSeconds(b) + BootSeconds(r) - TrueSeconds(r) = d
           /\ d \in 2 .. Word - 2 \/ -d \in 2 .. Word - 2
<1> DEFINE k == b \div Word
           l == r \div Word
           e == MaxMoment \div Word
           x == (start + Word * k) \div TickRate
           y == (start + Word * l) \div TickRate
<1>1. /\ Word \in Nat /\ Word > 0 /\ TickRate \in Nat /\ TickRate > 0 /\ start \in Nat
      /\ MaxMoment \in Nat /\ b \in Nat /\ r \in Nat
  BY SystemTimeAssumption DEF SystemTimeAssumption, TypeOK
<1>2. /\ k \in Nat /\ b % Word \in 0 .. Word - 1 /\ b = Word * k + (b % Word)
      /\ l \in Nat /\ r % Word \in 0 .. Word - 1 /\ r = Word * l + (r % Word)
      /\ e \in Nat /\ MaxMoment % Word \in 0 .. Word - 1 /\ MaxMoment = Word * e + (MaxMoment % Word)
  BY <1>1, DivMod, DivNat
<1>3. k # l
  BY DEF SameLap
<1>4. PICK c \in {0, 1} : TrueSeconds(b) - BootSeconds(b) = x + c
  BY <1>1, LapOffset
<1>5. PICK f \in {0, 1} : TrueSeconds(r) - BootSeconds(r) = y + f
  BY <1>1, LapOffset
<1>6. TrueSeconds(b) \in Nat /\ BootSeconds(b) \in Nat /\ TrueSeconds(r) \in Nat /\ BootSeconds(r) \in Nat
  BY <1>1, SecondsTypes
<1>7. ASSUME NEW m \in 0 .. MaxMoment
      PROVE  m \div Word <= e
  <2> DEFINE i == m \div Word
             g == m % Word
             h == MaxMoment % Word
  <2>1. i \in Nat /\ g \in 0 .. Word - 1 /\ m = Word * i + g
    BY <1>1, DivMod, DivNat
  <2> SUFFICES ASSUME e + 1 <= i
               PROVE  FALSE
    BY <1>2, <2>1
  <2>2. e \in Nat /\ h \in 0 .. Word - 1 /\ MaxMoment = Word * e + h
    BY <1>2
  <2> HIDE DEF i, e, g, h
  <2>3. Word * e + Word <= Word * i
    BY <1>1, <2>1, <2>2, Z3
  <2> QED
    BY <1>1, <2>1, <2>2, <2>3
<1>8. k <= e /\ l <= e
  BY <1>7
<1>9. x \in Int /\ y \in Int
  <2>1. start + Word * k \in Int /\ start + Word * l \in Int
    <3> HIDE DEF k, l
    <3>1. Word * k \in Int /\ Word * l \in Int
      BY <1>1, <1>2, SMT
    <3> QED
      BY <1>1, <3>1
  <2> DEFINE u == start + Word * k
             v == start + Word * l
  <2>2. u \in Int /\ v \in Int
    BY <2>1
  <2> HIDE DEF u, v
  <2>3. u \div TickRate \in Int /\ v \div TickRate \in Int
    BY <1>1, <2>2, DivMod
  <2> QED
    BY <2>3 DEF u, v
<1>10. k < l => y - x \in 3 .. Word - 3
  BY <1>2, <1>8, LapsApart
<1>11. l < k => x - y \in 3 .. Word - 3
  BY <1>2, <1>8, LapsApart
<1> DEFINE d == x + c - y - f
<1>12. TrueSeconds(b) - BootSeconds(b) + BootSeconds(r) - TrueSeconds(r) = d
  <2> HIDE DEF x, y
  <2> QED
    BY <1>4, <1>5, <1>6, <1>9
<1>13. d \in Int /\ (d \in 2 .. Word - 2 \/ -d \in 2 .. Word - 2)
  <2> HIDE DEF k, l, x, y
  <2> QED
    BY <1>1, <1>2, <1>3, <1>9, <1>10, <1>11
<1> QED
  BY <1>12, <1>13

LEMMA WrongInOtherLap ==
  ASSUME TypeOK, TimeInv, FewLaps, reader = "both", ~SameLap(base_read_at, ticks_read_at)
  PROVE  ~Right
<1> DEFINE rest == (start + ticks_read_at) % TickRate
<1>1. /\ Word \in Nat /\ Word > 2 /\ TickRate \in Nat /\ TickRate > 0
      /\ base_read_at \in 0 .. MaxMoment /\ ticks_read_at \in 0 .. MaxMoment
      /\ start + ticks_read_at \in Nat
  BY SystemTimeAssumption DEF SystemTimeAssumption, TypeOK, TimeInv
<1>2. PICK d \in Int :
        /\ TrueSeconds(base_read_at) - BootSeconds(base_read_at)
             + BootSeconds(ticks_read_at) - TrueSeconds(ticks_read_at) = d
        /\ d \in 2 .. Word - 2 \/ -d \in 2 .. Word - 2
  BY <1>1, OtherLapOffset
<1>3. rest \in 0 .. TickRate - 1
  BY <1>1, DivMod
<1>4. Ahead = Signed(d % Word) * TickRate - rest
  BY <1>2, AheadOffset
<1> HIDE DEF rest
<1>5. d % Word \in 2 .. Word - 2
  <2>1. CASE d \in 2 .. Word - 2
    <3>1. d \in 0 .. Word - 1
      BY <1>1, <2>1
    <3>2. d % Word = d
      BY <1>1, <3>1, ModSmall
    <3> QED
      BY <2>1, <3>2
  <2>2. CASE -d \in 2 .. Word - 2
    <3> DEFINE t == d + Word
    <3>1. t \in 2 .. Word - 2 /\ t \in 0 .. Word - 1
      BY <1>1, <2>2
    <3>2. d = Word * (-1) + t
      BY <1>1, SMT
    <3> HIDE DEF t
    <3>3. d % Word = t
      BY <1>1, <3>1, <3>2, DivModUnique
    <3> QED
      BY <3>1, <3>3
  <2> QED
    BY <1>2, <2>1, <2>2
<1> DEFINE s == Signed(d % Word)
<1>6. s \in Int /\ (s >= 2 \/ s <= -2)
  <2> DEFINE t == d % Word
  <2>1. t \in 2 .. Word - 2
    BY <1>5
  <2> HIDE DEF t
  <2>2. Signed(t) \in Int /\ (Signed(t) >= 2 \/ Signed(t) <= -2)
    BY <1>1, <2>1 DEF Signed
  <2> QED
    BY <2>2 DEF t
<1> HIDE DEF s
<1>7. s * TickRate \in Int /\ -2 * TickRate = -(TickRate + TickRate)
  BY <1>1, <1>6, SMT
<1>8. s >= 2 => s * TickRate >= TickRate + TickRate
  BY <1>1, <1>6, Z3
<1>9. s <= -2 => s * TickRate <= -(TickRate + TickRate)
  BY <1>1, <1>6, Z3
<1> DEFINE a == s * TickRate
<1>10. Ahead = a - rest
  BY <1>4 DEF s
<1>11. a \in Int /\ (a >= TickRate + TickRate \/ a <= -(TickRate + TickRate))
  BY <1>6, <1>7, <1>8, <1>9
<1> HIDE DEF a
<1> QED
  BY <1>1, <1>3, <1>7, <1>10, <1>11 DEF Right

(* The time of day is right until the tick count wraps, whenever and for    *)
(* whatever width of the words.                                             *)
THEOREM RightCorrect == Spec => []RightUntilWrap
<1>1. Init => TypeOK /\ TimeInv
  BY TypeInit, TimeInit
<1>2. TypeOK /\ TimeInv /\ [Next]_vars => TypeOK' /\ TimeInv'
  BY TypeStep, TimeStep
<1>3. TypeOK /\ TimeInv => RightUntilWrap
  BY RightInLap DEF RightUntilWrap, TimeInv
<1> QED
  BY <1>1, <1>2, <1>3, PTL DEF Spec

(* When the tick count has wrapped between the answer and the reading, the  *)
(* time of day is wrong, for any number of laps that has fewer seconds than *)
(* a word holds.                                                            *)
THEOREM WrongCorrect == ASSUME FewLaps PROVE Spec => []WrongAfterWrap
<1>1. Init => TypeOK /\ TimeInv
  BY TypeInit, TimeInit
<1>2. TypeOK /\ TimeInv /\ [Next]_vars => TypeOK' /\ TimeInv'
  BY TypeStep, TimeStep
<1>3. TypeOK /\ TimeInv => WrongAfterWrap
  BY WrongInOtherLap DEF WrongAfterWrap
<1> QED
  BY <1>1, <1>2, <1>3, PTL DEF Spec
=============================================================================
