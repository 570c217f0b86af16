------------------------------- MODULE LwipMbox -------------------------------
(***************************************************************************)
(* A mailbox of the lwIP port, wip/config/lwip_port/src/sys_arch.c.wip.    *)
(*                                                                         *)
(* Tasks of the application fetch from it, the TCP/IP task posts to it,    *)
(* and whoever closes the connection frees it, perhaps while a task sleeps *)
(* in a fetch: lwipopts_freertos.h.wip turns LWIP_NETCONN_FULLDUPLEX on,   *)
(* which leaves it to the port to get that task out.                       *)
(*                                                                         *)
(* lwIP is not in the repository. Creating, posting, draining and freeing  *)
(* are taken to happen under its core lock, one at a time, as steps of an  *)
(* owner: it empties a mailbox before it frees it, and makes a new one     *)
(* only once no task is left in the old one. FreeRTOS is not there either: *)
(* a task is looking at a queue, or blocked on it until a message comes,   *)
(* its time is over or xTaskAbortDelay is called for it.                   *)
(*                                                                         *)
(* A definition X_Y just before X is X with a fault of the kind Y in it;   *)
(* the properties are tried against them. Next never uses them.            *)
(***************************************************************************)
EXTENDS Naturals

CONSTANTS
  Fetchers,    \* tasks that fetch
  Queues,      \* the queues xQueueCreate can hand out
  NULL,        \* the null pointer
  QueueLength  \* iSize of sys_mbox_new

ASSUME LwipMboxAssumption ==
  /\ NULL \notin Queues \cup Fetchers
  /\ QueueLength \in Nat \ {0}

VARIABLES
  xMbox,     \* the queue of the mailbox
  xTask,     \* the task fetching from the mailbox
  live,      \* the queues that exist
  messages,  \* how many messages each of them holds
  owner,     \* where the owner is in closing the mailbox
  oldMbox,   \* xMbox in sys_mbox_free
  waiter,    \* xTask in sys_mbox_free
  pc,        \* where each task is in sys_arch_mbox_fetch
  queue,     \* xMbox in sys_arch_mbox_fetch
  timed,     \* was a timeout given?
  xResult,   \* did xQueueReceive return pdTRUE?
  \* history, for the properties
  got,       \* what the fetch got from the kernel
  returned,  \* what the latest fetch of each task returned
  missed     \* was the task told of the free before it was asleep?

mboxVars  == <<xMbox, xTask>>
queueVars == <<live, messages>>
ownerVars == <<owner, oldMbox, waiter>>
fetchVars == <<pc, queue, timed, xResult, got, returned, missed>>
vars      == <<mboxVars, queueVars, ownerVars, fetchVars>>

Init ==
  /\ xMbox = NULL /\ xTask = NULL
  /\ live = {}
  /\ messages = [q \in Queues |-> 0]
  /\ owner = "idle" /\ oldMbox = NULL /\ waiter = NULL
  /\ pc       = [t \in Fetchers |-> "outside"]
  /\ queue    = [t \in Fetchers |-> NULL]
  /\ timed    = [t \in Fetchers |-> FALSE]
  /\ xResult  = [t \in Fetchers |-> FALSE]
  /\ got      = [t \in Fetchers |-> "nothing"]
  /\ returned = [t \in Fetchers |-> "none"]
  /\ missed   = [t \in Fetchers |-> FALSE]

-----------------------------------------------------------------------------
(***************************************************************************)
(* sys_mbox_new, sys_mbox_post and sys_mbox_trypost                        *)
(***************************************************************************)

(* Without memory for a queue nothing happens.                              *)
Mbox_New ==
  /\ owner = "idle"
  /\ xMbox = NULL
  /\ \A t \in Fetchers : pc[t] = "outside"
  /\ \E q \in Queues \ live :
       /\ xMbox' = q
       /\ live' = live \cup {q}
       /\ messages' = [messages EXCEPT ![q] = 0]
  /\ xTask' = NULL
  /\ UNCHANGED <<ownerVars, fetchVars>>

(* There is room for a message: a task that sleeps on the queue is woken to *)
(* look at it. Without room sys_mbox_post waits and sys_mbox_trypost gives  *)
(* up, and nothing happens.                                                 *)
Mbox_Post ==
  /\ owner = "idle"
  /\ xMbox # NULL
  /\ messages[xMbox] < QueueLength
  /\ messages' = [messages EXCEPT ![xMbox] = @ + 1]
  /\ pc' = [t \in Fetchers |->
              IF pc[t] = "blocked" /\ queue[t] = xMbox THEN "looking" ELSE pc[t]]
  /\ UNCHANGED <<mboxVars, live, ownerVars, queue, timed, xResult, got, returned, missed>>

-----------------------------------------------------------------------------
(***************************************************************************)
(* Closing: sys_arch_mbox_tryfetch until it is empty, sys_mbox_free,       *)
(* sys_mbox_set_invalid                                                    *)
(***************************************************************************)
Close ==
  /\ owner = "idle"
  /\ xMbox # NULL
  /\ owner' = "drain"
  /\ UNCHANGED <<mboxVars, queueVars, oldMbox, waiter, fetchVars>>

Mbox_TryFetch ==
  /\ owner = "drain"
  /\ messages[xMbox] > 0
  /\ messages' = [messages EXCEPT ![xMbox] = @ - 1]
  /\ UNCHANGED <<mboxVars, live, ownerVars, fetchVars>>

(* Nothing is left, so the assertion at the start of sys_mbox_free holds.   *)
Mbox_TryFetch_Empty ==
  /\ owner = "drain"
  /\ messages[xMbox] = 0
  /\ owner' = "clear"
  /\ UNCHANGED <<mboxVars, queueVars, oldMbox, waiter, fetchVars>>

(* The critical section of sys_mbox_free.                                   *)
Cleared_Not == xMbox

Cleared == NULL

Free_Clear ==
  /\ owner = "clear"
  /\ oldMbox' = xMbox
  /\ waiter' = xTask
  /\ xMbox' = Cleared
  /\ owner' = "abort"
  /\ UNCHANGED <<xTask, queueVars, fetchVars>>

(* xTaskAbortDelay wakes the task if it is asleep, and does nothing if it   *)
(* is not: on its way to sleep, or woken by a message the owner then took.  *)
Woken_None == {}

Woken == {t \in Fetchers : t = waiter /\ pc[t] = "blocked"}

Free_Abort ==
  /\ owner = "abort"
  /\ pc' = [t \in Fetchers |-> IF t \in Woken THEN "aborted" ELSE pc[t]]
  /\ missed' = [t \in Fetchers |-> missed[t] \/ (t = waiter /\ pc[t] = "looking")]
  /\ owner' = "delete"
  /\ UNCHANGED <<mboxVars, queueVars, oldMbox, waiter, queue, timed, xResult, got, returned>>

Free_Delete ==
  /\ owner = "delete"
  /\ live' = live \ {oldMbox}
  /\ owner' = "invalid"
  /\ UNCHANGED <<mboxVars, messages, oldMbox, waiter, fetchVars>>

Set_Invalid ==
  /\ owner = "invalid"
  /\ xMbox' = NULL /\ xTask' = NULL
  /\ owner' = "idle" /\ oldMbox' = NULL /\ waiter' = NULL
  /\ UNCHANGED <<queueVars, fetchVars>>

-----------------------------------------------------------------------------
(***************************************************************************)
(* sys_arch_mbox_fetch                                                     *)
(***************************************************************************)

(* The critical section: one task at a time, and none without a queue.      *)
MayEnter_Second == xMbox # NULL

MayEnter == xMbox # NULL /\ xTask = NULL

Fetch_Enter(t) ==
  /\ pc[t] = "outside"
  /\ MayEnter
  /\ xTask' = t
  /\ queue' = [queue EXCEPT ![t] = xMbox]
  /\ pc' = [pc EXCEPT ![t] = "looking"]
  /\ \E b \in BOOLEAN : timed' = [timed EXCEPT ![t] = b]
  /\ xResult' = [xResult EXCEPT ![t] = FALSE]
  /\ got' = [got EXCEPT ![t] = "nothing"]
  /\ missed' = [missed EXCEPT ![t] = FALSE]
  /\ UNCHANGED <<xMbox, queueVars, ownerVars, returned>>

Fetch_Refused(t) ==
  /\ pc[t] = "outside"
  /\ ~MayEnter
  /\ returned' = [returned EXCEPT ![t] = "SYS_ARCH_TIMEOUT"]
  /\ got' = [got EXCEPT ![t] = "nothing"]
  /\ UNCHANGED <<mboxVars, queueVars, ownerVars, pc, queue, timed, xResult, missed>>

(* xQueueReceive returns pdTRUE with something, or pdFALSE.                 *)
Receives(t, what) ==
  /\ pc' = [pc EXCEPT ![t] = "received"]
  /\ xResult' = [xResult EXCEPT ![t] = TRUE]
  /\ got' = [got EXCEPT ![t] = what]

Fails(t) ==
  /\ pc' = [pc EXCEPT ![t] = "failed"]
  /\ UNCHANGED <<xResult, got>>

(* xQueueReceive looks at the queue: it takes a message, or goes to sleep,  *)
(* or returns if it was woken by xTaskAbortDelay.                           *)
Fetch_Look(t) ==
  /\ pc[t] \in {"looking", "aborted"}
  /\ queue[t] \in live
  /\ \/ /\ messages[queue[t]] > 0
        /\ messages' = [messages EXCEPT ![queue[t]] = @ - 1]
        /\ Receives(t, "message")
     \/ /\ messages[queue[t]] = 0
        /\ \/ pc[t] = "aborted" /\ Fails(t)
           \/ pc[t] = "looking" /\ pc' = [pc EXCEPT ![t] = "blocked"] /\ UNCHANGED <<xResult, got>>
        /\ UNCHANGED messages
  /\ UNCHANGED <<mboxVars, live, ownerVars, queue, timed, returned, missed>>

(* The queue has been deleted: freed memory is read. It still looks like an *)
(* empty queue, or like one with a message.                                 *)
Fetch_LookDeleted(t) ==
  /\ pc[t] \in {"looking", "aborted"}
  /\ queue[t] \notin live
  /\ \/ Receives(t, "garbage")
     \/ pc[t] = "aborted" /\ Fails(t)
     \/ pc[t] = "looking" /\ pc' = [pc EXCEPT ![t] = "blocked"] /\ UNCHANGED <<xResult, got>>
  /\ UNCHANGED <<mboxVars, queueVars, ownerVars, queue, timed, returned, missed>>

Fetch_TimedOut(t) ==
  /\ pc[t] = "blocked"
  /\ timed[t]
  /\ Fails(t)
  /\ UNCHANGED <<mboxVars, queueVars, ownerVars, queue, timed, returned, missed>>

(* With a timeout xQueueReceive is called once. Without, again and again    *)
(* until it has something or the mailbox has been freed.                    *)
Continues_Always(t) == ~timed[t] /\ ~xResult[t]

Continues(t) == ~timed[t] /\ ~xResult[t] /\ queue'[t] # NULL

Fetch_Reread(t) ==
  /\ pc[t] \in {"received", "failed"}
  /\ queue' = IF timed[t] THEN queue ELSE [queue EXCEPT ![t] = xMbox]
  /\ pc' = [pc EXCEPT ![t] = IF Continues(t) THEN "looking" ELSE "leaving"]
  /\ UNCHANGED <<mboxVars, queueVars, ownerVars, timed, xResult, got, returned, missed>>

(* The end, outside a critical section.                                     *)
ulReturn_ByMailbox(t) == IF queue[t] # NULL /\ xResult[t] THEN "1" ELSE "SYS_ARCH_TIMEOUT"

ulReturn(t) == IF xResult[t] THEN "1" ELSE "SYS_ARCH_TIMEOUT"

Fetch_Leave(t) ==
  /\ pc[t] = "leaving"
  /\ xTask' = NULL
  /\ returned' = [returned EXCEPT ![t] = ulReturn(t)]
  /\ pc' = [pc EXCEPT ![t] = "outside"]
  /\ queue' = [queue EXCEPT ![t] = NULL]
  /\ UNCHANGED <<xMbox, queueVars, ownerVars, timed, xResult, got, missed>>

-----------------------------------------------------------------------------
FreeStep ==
  \/ Mbox_TryFetch \/ Mbox_TryFetch_Empty
  \/ Free_Clear \/ Free_Abort \/ Free_Delete
  \/ Set_Invalid

FetchStep(t) ==
  Fetch_Look(t) \/ Fetch_LookDeleted(t) \/ Fetch_TimedOut(t) \/ Fetch_Reread(t) \/ Fetch_Leave(t)

Next ==
  \/ Mbox_New
  \/ Mbox_Post
  \/ Close
  \/ FreeStep
  \/ \E t \in Fetchers : Fetch_Enter(t) \/ Fetch_Refused(t) \/ FetchStep(t)

Spec == Init /\ [][Next]_vars

(* FreeRTOS runs every task that is ready, ends every timed wait, and the   *)
(* owner goes on with what it has begun. Nobody has to post or to fetch.    *)
FairSpec == Spec /\ WF_vars(FreeStep) /\ \A t \in Fetchers : WF_vars(FetchStep(t))

-----------------------------------------------------------------------------
(***************************************************************************)
(* Properties                                                              *)
(***************************************************************************)
(* The types of the variables. A fetch that is not over has a queue to      *)
(* call xQueueReceive with.                                                 *)
TypeOK ==
  /\ xMbox \in live \cup {NULL}
  /\ xTask \in Fetchers \cup {NULL}
  /\ live \subseteq Queues
  /\ messages \in [Queues -> 0 .. QueueLength]
  /\ owner \in {"idle", "drain", "clear", "abort", "delete", "invalid"}
  /\ oldMbox \in Queues \cup {NULL}
  /\ waiter \in Fetchers \cup {NULL}
  /\ pc \in [Fetchers -> {"outside", "looking", "blocked", "aborted",
                          "received", "failed", "leaving"}]
  /\ queue \in [Fetchers -> Queues \cup {NULL}]
  /\ \A t \in Fetchers : pc[t] \in {"looking", "blocked", "aborted"} => queue[t] # NULL
  /\ timed \in [Fetchers -> BOOLEAN]
  /\ xResult \in [Fetchers -> BOOLEAN]
  /\ got \in [Fetchers -> {"nothing", "message", "garbage"}]
  /\ returned \in [Fetchers -> {"none", "1", "SYS_ARCH_TIMEOUT"}]
  /\ missed \in [Fetchers -> BOOLEAN]

(* Never are two tasks in a fetch from the mailbox; and until it has been   *)
(* freed xTask is the one, so that sys_mbox_free knows whom to wake. That   *)
(* no task of before the free meets one of after the mailbox was made anew  *)
(* rests on what is assumed of the owner in Mbox_New.                       *)
Inside == {t \in Fetchers : pc[t] # "outside"}

OneFetcher ==
  /\ \A t, u \in Inside : t = u
  /\ xMbox # NULL \/ owner # "idle" => Inside \subseteq {xTask}
  /\ owner \in {"abort", "delete"} => \A t \in Inside : pc[t] = "blocked" => waiter = t

(* A fetch returns 1 if and only if xQueueReceive gave it something, also   *)
(* if the mailbox is freed between its xQueueReceive and its end: nothing   *)
(* is taken from a queue and then forgotten, and a caller is never told of  *)
(* something that was not received.                                         *)
ReturnHonest ==
  \A t \in Fetchers : pc[t] = "outside" /\ returned[t] # "none" =>
    (returned[t] = "1" <=> got[t] # "nothing")

(* A task waits for a deleted queue only if xTaskAbortDelay was called for  *)
(* it between its critical section and its sleep, or between its waking for *)
(* a message and its looking for it. lwipopts_freertos.h.wip (244-245) asks *)
(* that no task does, and the code does not see to it.                      *)
PendingOnlyMissed ==
  \A t \in Fetchers : pc[t] \in {"looking", "blocked"} /\ queue[t] \notin live => missed[t]

(* A task that sleeps in a fetch when the mailbox is freed returns from it, *)
(* with a timeout or without.                                               *)
FreeUnblocks ==
  \A t \in Fetchers : owner = "abort" /\ pc[t] = "blocked" ~> pc[t] = "outside"
=============================================================================
