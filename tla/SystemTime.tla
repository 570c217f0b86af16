------------------------------ MODULE SystemTime ------------------------------
(***************************************************************************)
(* The time of day, freertos-layer/iotc_time.c, and the time a request     *)
(* takes, freertos-layer/iotc_https_client.c.                              *)
(*                                                                         *)
(* lwIP's TCP/IP task sets the time of day with the answer of a server;    *)
(* any other task reads it, while it is being set included: the critical   *)
(* section of iotc_set_system_time_us is commented out. The time is kept   *)
(* as an offset from the tick count. Both are unsigned words, and the tick *)
(* count wraps: in 49 days at 1000 ticks a second.                         *)
(*                                                                         *)
(* moment and start are what really is: they do not wrap, and no program   *)
(* can read them.                                                          *)
(*                                                                         *)
(* A definition X_Y just before X is X with a fault of the kind Y in it;   *)
(* the properties are tried against them. Next never uses them.            *)
(***************************************************************************)
EXTENDS Integers

CONSTANTS
  Word,        \* 2^32
  TickRate,    \* configTICK_RATE_HZ
  Second,      \* 1000, the milliseconds of a second
  Epoch,       \* DIFF_SEC_1970_2036
  Starts,      \* when the device may have been started, in ticks since 1970
  MaxMoment,   \* bound: how long it runs, in ticks
  None         \* not a moment

ASSUME SystemTimeAssumption ==
  /\ Word \in Nat /\ Word > 2
  /\ TickRate \in Nat \ {0}
  /\ Second \in Nat \ {0}
  /\ Epoch \in 0 .. Word - 1
  /\ Starts \subseteq Nat
  /\ MaxMoment \in Nat
  /\ None \notin Nat

VARIABLES
  start,              \* when the device was started, in ticks since 1970
  moment,             \* ticks since then
  unix_time_base,     \* the offset
  callback_received,  \* the flag of is_sntp_time_synced
  setter,             \* where iotc_set_system_time_us is
  sec,                \* its argument
  system_seconds,     \* system_time_in_seconds in set_time
  reader,             \* where a task that asks for the time is
  base_read,          \* the unix_time_base it has read
  ticks_read,         \* the tick count it has read
  \* history, for the properties: moments
  answer_at,          \* of the answer that is being set
  base_at,            \* of the answer unix_time_base comes from
  base_read_at,       \* of the answer base_read comes from
  ticks_read_at       \* of ticks_read

timeVars   == <<unix_time_base, callback_received, base_at>>
setterVars == <<setter, sec, system_seconds, answer_at>>
readerVars == <<reader, base_read, ticks_read, base_read_at, ticks_read_at>>
vars       == <<start, moment, timeVars, setterVars, readerVars>>

Init ==
  /\ start \in Starts
  /\ moment = 0
  /\ unix_time_base = 0 /\ callback_received = FALSE /\ base_at = None
  /\ setter = "idle" /\ sec = 0 /\ system_seconds = 0 /\ answer_at = None
  /\ reader = "idle" /\ base_read = 0 /\ ticks_read = 0
  /\ base_read_at = None /\ ticks_read_at = None

-----------------------------------------------------------------------------
tx_time_get_Wide == moment

tx_time_get == moment % Word

Seconds(ticks) == ticks \div TickRate

Tick ==
  /\ moment < MaxMoment
  /\ moment' = moment + 1
  /\ UNCHANGED <<start, timeVars, setterVars, readerVars>>

-----------------------------------------------------------------------------
(***************************************************************************)
(* Setting the time                                                        *)
(***************************************************************************)

(* What a server's answer says: the seconds since 1900, as a word, which is *)
(* 0 again in 2036.                                                         *)
Transmitted == ((start + moment) \div TickRate + Word - Epoch) % Word

(* A word taken for a signed number.                                        *)
Signed(word) == IF 2 * word >= Word THEN word - Word ELSE word

(* sntp_process takes the seconds for signed ones since 2036. The part of a *)
(* second that comes with them is passed on, and not used.                  *)
sntp_process(xmit_sec) == (Signed(xmit_sec) + Epoch) % Word

(* set_time, called by iotc_set_system_time_us, reads the tick count ...    *)
SetTime_Ticks ==
  /\ setter = "idle"
  /\ setter' = "computing"
  /\ sec' = sntp_process(Transmitted)
  /\ system_seconds' = Seconds(tx_time_get)
  /\ answer_at' = moment
  /\ UNCHANGED <<start, moment, timeVars, readerVars>>

(* ... and writes the offset, perhaps after other tasks have run.           *)
NewBase_Signed == sec - system_seconds

NewBase_Late == (sec - Seconds(tx_time_get)) % Word

NewBase == (sec - system_seconds) % Word

SetTime_Base ==
  /\ setter = "computing"
  /\ unix_time_base' = NewBase
  /\ base_at' = answer_at
  /\ setter' = "set"
  /\ UNCHANGED <<start, moment, callback_received, sec, system_seconds, answer_at, readerVars>>

SetTime_Flag ==
  /\ setter = "set"
  /\ callback_received' = TRUE
  /\ setter' = "idle" /\ sec' = 0 /\ system_seconds' = 0 /\ answer_at' = None
  /\ UNCHANGED <<start, moment, unix_time_base, base_at, readerVars>>

-----------------------------------------------------------------------------
(***************************************************************************)
(* Reading the time: unix_time_get, after is_sntp_time_synced              *)
(***************************************************************************)
Time_Synced ==
  /\ reader = "idle"
  /\ callback_received
  /\ reader' = "synced"
  /\ UNCHANGED <<start, moment, timeVars, setterVars,
                 base_read, ticks_read, base_read_at, ticks_read_at>>

(* unix_time_get adds the offset to the tick count. C leaves open which of  *)
(* the two is read first.                                                   *)
Time_ReadBase ==
  /\ reader \in {"synced", "ticks"}
  /\ base_read' = unix_time_base
  /\ base_read_at' = base_at
  /\ reader' = IF reader = "synced" THEN "base" ELSE "both"
  /\ UNCHANGED <<start, moment, timeVars, setterVars, ticks_read, ticks_read_at>>

Time_ReadTicks ==
  /\ reader \in {"synced", "base"}
  /\ ticks_read' = tx_time_get
  /\ ticks_read_at' = moment
  /\ reader' = IF reader = "synced" THEN "ticks" ELSE "both"
  /\ UNCHANGED <<start, moment, timeVars, setterVars, base_read, base_read_at>>

unix_time == (base_read + Seconds(ticks_read)) % Word

Time_Return ==
  /\ reader = "both"
  /\ reader' = "idle"
  /\ base_read' = 0 /\ ticks_read' = 0 /\ base_read_at' = None /\ ticks_read_at' = None
  /\ UNCHANGED <<start, moment, timeVars, setterVars>>

-----------------------------------------------------------------------------
(***************************************************************************)
(* get_time_in_ms_since_http_request_start                                 *)
(***************************************************************************)
pdTICKS_TO_MS(xTicks) == ((xTicks * Second) \div TickRate) % Word

(* ulGlobalEntryTimeTicks having been read at the moment entry.             *)
TimeInMs_Converted(entry) ==
  (pdTICKS_TO_MS(tx_time_get) - pdTICKS_TO_MS(entry % Word)) % Word

TimeInMs(entry) == pdTICKS_TO_MS((tx_time_get - (entry % Word)) % Word)

-----------------------------------------------------------------------------
(* The device has run for as long as the bound says and nobody asks.        *)
Over ==
  /\ moment = MaxMoment
  /\ UNCHANGED vars

Next ==
  \/ Tick
  \/ SetTime_Ticks \/ SetTime_Base \/ SetTime_Flag
  \/ Time_Synced \/ Time_ReadBase \/ Time_ReadTicks \/ Time_Return
  \/ Over

Spec == Init /\ [][Next]_vars

-----------------------------------------------------------------------------
(***************************************************************************)
(* Properties                                                              *)
(***************************************************************************)
(* The types of the variables: what is a word in the code stays one.        *)
TypeOK ==
  /\ start \in Starts
  /\ moment \in 0 .. MaxMoment
  /\ unix_time_base \in 0 .. Word - 1
  /\ callback_received \in BOOLEAN
  /\ setter \in {"idle", "computing", "set"}
  /\ sec \in 0 .. Word - 1
  /\ system_seconds \in 0 .. Word - 1
  /\ reader \in {"idle", "synced", "base", "ticks", "both"}
  /\ base_read \in 0 .. Word - 1
  /\ ticks_read \in 0 .. Word - 1
  /\ {answer_at, base_at, base_read_at, ticks_read_at} \subseteq 0 .. MaxMoment \cup {None}

(* How far the time a task is about to be told is ahead of what it was when *)
(* the tick count was read, in ticks.                                       *)
Ahead ==
  LET true == start + ticks_read_at
  IN  Signed((unix_time - (true \div TickRate)) % Word) * TickRate - (true % TickRate)

SameLap(a, b) == a \div Word = b \div Word

(* Less than a second ahead, less than two behind: the answer's part of a   *)
(* second and the tick count's are dropped.                                 *)
Right == -2 * TickRate < Ahead /\ Ahead < TickRate

(* Once is_sntp_time_synced says so, the time is right as long as the tick  *)
(* count has not wrapped between the answer and the reading. This is so     *)
(* whatever the date, through 2036 and 2106, and whatever runs between the  *)
(* steps of setting the time and of reading it.                             *)
RightUntilWrap ==
  reader = "both" =>
    /\ base_read_at # None
    /\ SameLap(base_read_at, ticks_read_at) => Right

(* A lap has three seconds at least, and the laps the device runs for have  *)
(* fewer seconds than a word holds: 136 years of 2^32 ticks at 1000 a       *)
(* second.                                                                  *)
FewLaps ==
  /\ 3 * TickRate <= Word
  /\ (Word * (MaxMoment \div Word)) \div TickRate <= Word - 4

(* ... and no longer: when the tick count wraps, the time is wrong until    *)
(* the next answer of a server, and nothing tells the tasks that read it.   *)
(* (With TickRate laps on one answer the error would be a whole word and    *)
(* vanish; FewLaps keeps the device below that.)                            *)
WrongAfterWrap ==
  reader = "both" /\ base_read_at # None /\ ~SameLap(base_read_at, ticks_read_at) => ~Right

(* coreHTTP is told how long a request has taken, also when the tick count  *)
(* wraps in the middle of it, as long as the milliseconds fit a word.       *)
ElapsedRight ==
  \A entry \in 0 .. moment :
    moment - entry < Word /\ ((moment - entry) * Second) \div TickRate < Word =>
      TimeInMs(entry) = ((moment - entry) * Second) \div TickRate
=============================================================================
