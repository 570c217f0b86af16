--------------------------------- MODULE Sntp ---------------------------------
(***************************************************************************)
(* The SNTP client, freertos-layer/sntp/sntp.c, and sntp_task of           *)
(* freertos-layer/iotc_time.c, which starts it and waits for the first     *)
(* answer.                                                                 *)
(*                                                                         *)
(* All of sntp.c but its initialisation runs on lwIP's TCP/IP thread, as   *)
(* handlers of lwIP's timers and of DNS and UDP answers. Pending timers    *)
(* are all that keeps the client going: each handler has to leave the      *)
(* right ones behind. sntp_task and the readers of the time run beside it. *)
(*                                                                         *)
(* Modelled as the SDK builds it: one server known by name, poll mode,     *)
(* without SNTP_CHECK_RESPONSE and SNTP_COMP_ROUNDTRIP. With one server    *)
(* sntp_try_next_server is sntp_retry. Time is in units of any length.     *)
(*                                                                         *)
(* A definition X_Y just before X is X with a fault of the kind Y in it;   *)
(* the properties are tried against them. Next never uses them.            *)
(***************************************************************************)
EXTENDS SequencesExt

CONSTANTS
  StartupDelay,     \* the longest SNTP_STARTUP_DELAY_FUNC
  RecvTimeout,      \* SNTP_RECV_TIMEOUT
  RetryTimeout,     \* SNTP_RETRY_TIMEOUT
  RetryTimeoutMax,  \* SNTP_RETRY_TIMEOUT_MAX
  UpdateDelay,      \* SNTP_UPDATE_DELAY
  Bits,             \* width of the reachability register, 8 in the code
  MaxTries,         \* IOTC_MTB_TIME_MAX_TRIES
  MaxDisturbances   \* bound: kisses-of-death, and correct answers during a look-up

ASSUME SntpAssumption ==
  /\ StartupDelay \in Nat
  /\ RecvTimeout \in Nat \ {0}
  /\ RetryTimeout \in Nat \ {0}
  /\ RetryTimeoutMax \in Nat /\ RetryTimeout <= RetryTimeoutMax
  /\ UpdateDelay \in Nat /\ RecvTimeout <= UpdateDelay
  /\ Bits \in Nat \ {0}
  /\ MaxTries \in Nat
  /\ MaxDisturbances \in Nat

VARIABLES
  timers,             \* the pending timers of sntp.c, the next one first
  retry_timeout,      \* sntp_retry_timeout
  lookups,            \* DNS queries under way
  reachability,       \* the server's reachability register
  recv,               \* where sntp_recv is with a correct answer
  clock_set,          \* has set_time ever run?
  callback_received,  \* the flag of is_sntp_time_synced
  task,               \* where sntp_task is
  tries,              \* i in iotc_stm_aws_time_obtain
  reachable,          \* what it read last
  \* history, for the bounds and the properties
  retries,            \* retries since the last correct answer, up to RetryTimeoutMax
  unanswered,         \* requests sent since the last correct answer
  since,              \* time since the last request, up to RecvTimeout
  too_soon,           \* did a request follow another within RecvTimeout?
  disturbances        \* kisses-of-death, and correct answers while looking up the name

clientVars  == <<timers, retry_timeout, lookups, reachability>>
answerVars  == <<recv, clock_set, callback_received>>
taskVars    == <<task, tries, reachable>>
historyVars == <<retries, unanswered, since, too_soon, disturbances>>
vars        == <<clientVars, answerVars, taskVars, historyVars>>

Init ==
  /\ timers            = << >>
  /\ retry_timeout     = RetryTimeout
  /\ lookups           = 0
  /\ reachability      = 0
  /\ recv              = "idle"
  /\ clock_set         = FALSE
  /\ callback_received = FALSE
  /\ task              = "absent"
  /\ tries             = 0
  /\ reachable         = 0
  /\ retries           = 0
  /\ unanswered        = 0
  /\ since             = RecvTimeout
  /\ too_soon          = FALSE
  /\ disturbances      = 0

-----------------------------------------------------------------------------
(* 2 to the power of n.                                                     *)
Pow2[n \in Nat] == IF n = 0 THEN 1 ELSE 2 * Pow2[n - 1]

(***************************************************************************)
(* lwIP's timers                                                           *)
(***************************************************************************)
Timer(handler, left) == [handler |-> handler, left |-> left]

(* sys_timeout: before the first timer that is due later, if there is one.  *)
sys_timeout(q, delay, handler) ==
  LET later == {i \in DOMAIN q : q[i].left > delay}
  IN  InsertAt(q, Min(later \cup {Len(q) + 1}), Timer(handler, delay))

(* sys_untimeout: the first timer with this handler, if there is one.       *)
sys_untimeout(q, handler) ==
  LET found == {i \in DOMAIN q : q[i].handler = handler}
  IN  IF found = {} THEN q ELSE RemoveAt(q, Min(found))

(* Does the TCP/IP thread call this handler next?                           *)
Due(handler) ==
  /\ recv = "idle"
  /\ timers # << >>
  /\ Head(timers).handler = handler
  /\ Head(timers).left = 0

(* A unit of time passes. The TCP/IP thread is never late.                  *)
Tick ==
  /\ recv = "idle"
  /\ timers # << >> => Head(timers).left > 0
  /\ timers' = [i \in DOMAIN timers |-> [timers[i] EXCEPT !.left = @ - 1]]
  /\ since'  = IF since < RecvTimeout THEN since + 1 ELSE since
  /\ timers # << >> \/ since < RecvTimeout
  /\ UNCHANGED <<retry_timeout, lookups, reachability, answerVars, taskVars,
                 retries, unanswered, too_soon, disturbances>>

-----------------------------------------------------------------------------
(***************************************************************************)
(* Requests                                                                *)
(***************************************************************************)

(* sntp_retry with the timers q: the next request, later with each retry    *)
(* up to RetryTimeoutMax.                                                   *)
Longer == IF 2 * retry_timeout <= RetryTimeoutMax THEN 2 * retry_timeout ELSE retry_timeout

RetryHandler_Itself == "retry"

RetryHandler == "request"

sntp_retry(q) ==
  /\ timers' = sys_timeout(q, retry_timeout, RetryHandler)
  /\ retry_timeout' = Longer
  /\ retries' = IF retries < RetryTimeoutMax THEN retries + 1 ELSE retries

(* sntp_send_request sends, and sets up the receive timeout ...             *)
AfterSend_NoTimeout(q) == q

AfterSend(q) == sys_timeout(q, RecvTimeout, "retry")

Shifted_Saturated == IF 2 * reachability < Pow2[Bits] THEN 2 * reachability ELSE reachability

Shifted_TooWide == 2 * reachability

Shifted == (2 * reachability) % Pow2[Bits]

Send(q) ==
  /\ reachability' = Shifted
  /\ timers' = AfterSend(q)
  /\ unanswered' = IF unanswered < Bits THEN unanswered + 1 ELSE unanswered
  /\ too_soon' = (too_soon \/ since < RecvTimeout)
  /\ since' = 0

(* ... or there is no pbuf for the packet.                                  *)
SendLater(q) ==
  /\ timers' = sys_timeout(q, RetryTimeout, "request")
  /\ UNCHANGED <<reachability, unanswered, too_soon, since>>

(* sntp_request looks the name up: the answer has to be waited for, is      *)
(* known already, or there is an error.                                     *)
Request_LookUp ==
  /\ Due("request")
  /\ timers' = Tail(timers)
  /\ lookups' = lookups + 1
  /\ UNCHANGED <<retry_timeout, reachability, answerVars, taskVars, historyVars>>

Request_Send ==
  /\ Due("request")
  /\ Send(Tail(timers)) \/ SendLater(Tail(timers))
  /\ UNCHANGED <<retry_timeout, lookups, answerVars, taskVars, retries, disturbances>>

Request_Fails ==
  /\ Due("request")
  /\ timers' = sys_timeout(Tail(timers), RetryTimeout, "retry")
  /\ UNCHANGED <<retry_timeout, lookups, reachability, answerVars, taskVars, historyVars>>

(* sntp_dns_found, with an address or without.                              *)
DnsFound ==
  /\ recv = "idle"
  /\ lookups > 0
  /\ lookups' = lookups - 1
  /\ Send(timers) \/ SendLater(timers)
  /\ UNCHANGED <<retry_timeout, answerVars, taskVars, retries, disturbances>>

DnsFound_NoAddress ==
  /\ recv = "idle"
  /\ lookups > 0
  /\ lookups' = lookups - 1
  /\ sntp_retry(timers)
  /\ UNCHANGED <<reachability, answerVars, taskVars, unanswered, since,
                 too_soon, disturbances>>

(* The receive timeout, or the timeout after an error: sntp_retry.          *)
Retry ==
  /\ Due("retry")
  /\ sntp_retry(Tail(timers))
  /\ UNCHANGED <<lookups, reachability, answerVars, taskVars, unanswered,
                 since, too_soon, disturbances>>

-----------------------------------------------------------------------------
(***************************************************************************)
(* Answers                                                                 *)
(***************************************************************************)

(* Once a request has been sent, packets come late, doubled or not at all,  *)
(* and each is taken: nothing in it is compared with the request.           *)
Arrives ==
  /\ recv = "idle"
  /\ unanswered > 0 \/ clock_set

(* What may leave a second chain of requests behind, a bounded number of    *)
(* times.                                                                   *)
Disturbs ==
  /\ disturbances < MaxDisturbances
  /\ disturbances' = disturbances + 1

(* A correct answer. Three of its effects can be seen by other tasks one by *)
(* one: sntp_process sets the time ...                                      *)
Answered == IF reachability % 2 = 0 THEN reachability + 1 ELSE reachability

Recv_Process_ReachableFirst ==
  /\ Arrives
  /\ clock_set' = TRUE
  /\ reachability' = Answered
  /\ recv' = "clock_set"
  /\ IF lookups > 0 THEN Disturbs ELSE UNCHANGED disturbances
  /\ UNCHANGED <<timers, retry_timeout, lookups, callback_received, taskVars,
                 retries, unanswered, since, too_soon>>

Recv_Process ==
  /\ Arrives
  /\ clock_set' = TRUE
  /\ recv' = "clock_set"
  /\ IF lookups > 0 THEN Disturbs ELSE UNCHANGED disturbances
  /\ UNCHANGED <<clientVars, callback_received, taskVars, retries, unanswered, since, too_soon>>

(* ... then the flag (iotc_set_system_time_us) ...                          *)
Recv_Callback ==
  /\ recv = "clock_set"
  /\ callback_received' = TRUE
  /\ recv' = "callback_received"
  /\ UNCHANGED <<clientVars, clock_set, taskVars, historyVars>>

(* ... then the server is reachable, and the next request is due after      *)
(* UpdateDelay. The receive timeout is cancelled, and so is the next        *)
(* request if there was one.                                                *)
Cancelled_RequestOnly(q) == sys_untimeout(q, "request")

Cancelled(q) == sys_untimeout(sys_untimeout(q, "retry"), "request")

ResetTimeout_Kept == retry_timeout

ResetTimeout == RetryTimeout

Recv_Reschedule ==
  /\ recv = "callback_received"
  /\ reachability' = Answered
  /\ timers' = sys_timeout(Cancelled(timers), UpdateDelay, "request")
  /\ retry_timeout' = ResetTimeout
  /\ retries' = 0
  /\ unanswered' = 0
  /\ recv' = "idle"
  /\ UNCHANGED <<lookups, clock_set, callback_received, taskVars, since,
                 too_soon, disturbances>>

(* A kiss-of-death: sntp_retry, whatever is pending.                        *)
Recv_KissOfDeath ==
  /\ Arrives
  /\ Disturbs
  /\ sntp_retry(timers)
  /\ UNCHANGED <<lookups, reachability, answerVars, taskVars, unanswered, since, too_soon>>

(* A packet of another length or mode is ignored.                           *)
Recv_Broken ==
  /\ Arrives
  /\ UNCHANGED vars

-----------------------------------------------------------------------------
(***************************************************************************)
(* sntp_task                                                               *)
(***************************************************************************)

(* The network is there: sntp_init, by way of iotc_stm_aws_time_obtain.     *)
Task_Init ==
  /\ task = "absent"
  /\ task' = "read"
  /\ \E delay \in 0 .. StartupDelay : timers' = sys_timeout(timers, delay, "request")
  /\ retry_timeout' = RetryTimeout
  /\ UNCHANGED <<lookups, reachability, answerVars, tries, reachable, historyVars>>

(* udp_new has no control block left: LWIP_ASSERT halts the device.         *)
Task_Halts ==
  /\ task = "absent"
  /\ task' = "halted"
  /\ UNCHANGED <<clientVars, answerVars, tries, reachable, historyVars>>

(* The head of the loop reads the register, then the delay of a second.     *)
Task_Read ==
  /\ task = "read"
  /\ reachable' = reachability
  /\ task' = IF reachable' = 0 /\ tries < MaxTries THEN "delay" ELSE "check"
  /\ UNCHANGED <<clientVars, answerVars, tries, historyVars>>

Task_Delay ==
  /\ task = "delay"
  /\ tries' = tries + 1
  /\ task' = "read"
  /\ UNCHANGED <<clientVars, answerVars, reachable, historyVars>>

(* After the loop: unreachable, reachable but without callback, or in time. *)
Task_Check ==
  /\ task = "check"
  /\ task' = IF reachable = 0 THEN "unreachable"
             ELSE IF callback_received THEN "synced" ELSE "no_callback"
  /\ UNCHANGED <<clientVars, answerVars, tries, reachable, historyVars>>

-----------------------------------------------------------------------------
DnsStep == DnsFound \/ DnsFound_NoAddress

TimerStep == Request_LookUp \/ Request_Send \/ Request_Fails \/ Retry

RecvStep == Recv_Callback \/ Recv_Reschedule

TaskStep == Task_Init \/ Task_Halts \/ Task_Read \/ Task_Delay \/ Task_Check

Next ==
  \/ Tick
  \/ TimerStep
  \/ DnsStep
  \/ Recv_Process
  \/ RecvStep
  \/ Recv_KissOfDeath
  \/ Recv_Broken
  \/ TaskStep

Spec == Init /\ [][Next]_vars

(* Time passes, the TCP/IP thread calls its handlers, lwIP ends every DNS   *)
(* query (with no address if need be), and sntp_task is scheduled. Nothing  *)
(* is assumed of the server: packets may never come, or never end.          *)
Fairness ==
  /\ WF_vars(Tick)
  /\ WF_vars(TimerStep)
  /\ WF_vars(DnsStep)
  /\ WF_vars(RecvStep)
  /\ WF_vars(TaskStep)

FairSpec == Spec /\ Fairness

-----------------------------------------------------------------------------
(***************************************************************************)
(* Properties                                                              *)
(***************************************************************************)
Handlers == {"request", "retry"}

Timers == [handler : Handlers, left : Nat]

Sorted(q) == \A i, j \in DOMAIN q : i <= j => q[i].left <= q[j].left

(* Types: the timers are kept in the order in which they are due, and the   *)
(* reachability register has Bits bits.                                     *)
TypeOK ==
  /\ timers \in Seq(Timers) /\ Sorted(timers)
  /\ retry_timeout \in RetryTimeout .. RetryTimeoutMax
  /\ lookups \in Nat
  /\ reachability \in 0 .. Pow2[Bits] - 1
  /\ recv \in {"idle", "clock_set", "callback_received"}
  /\ clock_set \in BOOLEAN
  /\ callback_received \in BOOLEAN
  /\ task \in {"absent", "halted", "read", "delay", "check", "unreachable", "no_callback", "synced"}
  /\ tries \in 0 .. MaxTries
  /\ reachable \in 0 .. Pow2[Bits] - 1
  /\ retries \in 0 .. RetryTimeoutMax
  /\ unanswered \in 0 .. Bits
  /\ since \in 0 .. RecvTimeout
  /\ too_soon \in BOOLEAN
  /\ disturbances \in 0 .. MaxDisturbances

(* sntp_init has been called and did not halt the device.                   *)
Running == task \notin {"absent", "halted"}

(* Chains of requests: each is a pending timer or a name being looked up.   *)
Chains == Len(timers) + lookups

(* Every handler leaves something pending: a client that lost its last      *)
(* timer would never ask again, and nothing restarts it (sntp_init runs     *)
(* once).                                                                   *)
NeverStalls == Running => Chains > 0

(* A correct answer leaves one chain behind, whether it comes in time, late,*)
(* doubled or during a retry, unless a name was being looked up; without a  *)
(* kiss-of-death there is never a second one, and then no request follows   *)
(* another within SNTP_RECV_TIMEOUT.                                        *)
OneChain ==
  Running /\ disturbances = 0 => Chains = 1 /\ ~too_soon

(* sntp_retry backs off: the delay doubles with each retry since the last   *)
(* correct answer, until SNTP_RETRY_TIMEOUT_MAX allows no more, and a       *)
(* correct answer puts it back.                                             *)
Backoff ==
  \E doublings \in 0 .. retries :
    /\ retry_timeout = RetryTimeout * Pow2[doublings]
    /\ retry_timeout <= RetryTimeoutMax
    /\ doublings = retries \/ 2 * retry_timeout > RetryTimeoutMax

(* sntp_getreachability is 0 exactly while no answer has come, or none to   *)
(* the last Bits requests: the register forgets, so that a server that went *)
(* away does not stay reachable.                                            *)
ReachabilityHonest ==
  recv = "idle" =>
    (reachability # 0 <=> clock_set /\ unanswered < Bits)

(* sntp_task, which reads the register and then the flag, never sees a      *)
(* server that answered but a time that was not set: the warning of         *)
(* iotc_stm_aws_time_obtain is about the configuration only.                *)
ReachableMeansSet == task # "no_callback"

(* The client asks again and again: a request comes due, whatever becomes   *)
(* of the requests and the look-ups before it, unless a correct packet      *)
(* comes first. Such a packet, asked for or not (SNTP_CHECK_RESPONSE is 0), *)
(* puts the next request off by SNTP_UPDATE_DELAY, so that packets which    *)
(* come more often than that put it off for ever. Nothing else does.        *)
KeepsAsking == Running ~> Due("request") \/ recv # "idle"
=============================================================================
