---------------------------- MODULE LwipMboxProofs ----------------------------
(***************************************************************************)
(* Proofs about LwipMbox, for any number of tasks that fetch, any supply   *)
(* of queues and queues of any length.                                     *)
(***************************************************************************)
EXTENDS LwipMbox, TLAPS

USE LwipMboxAssumption DEF LwipMboxAssumption

-----------------------------------------------------------------------------
(***************************************************************************)
(* Types                                                                   *)
(***************************************************************************)

(* The mailbox has a queue until sys_mbox_free clears it, and none from     *)
(* then on, so that the queue that is deleted is no longer the mailbox's.   *)
OwnerInv ==
  /\ owner \in {"drain", "clear"} => xMbox # NULL
  /\ owner \in {"abort", "delete", "invalid"} => xMbox = NULL

TypeInv == TypeOK /\ OwnerInv

LEMMA TypeInit == Init => TypeInv
<1> SUFFICES ASSUME Init
             PROVE  TypeInv
  OBVIOUS
<1>1. messages \in [Queues -> 0 .. QueueLength]
  BY DEF Init
<1> QED
  BY <1>1 DEF Init, TypeInv, TypeOK, OwnerInv

(* The steps of those who create, post and free ...                         *)
LEMMA TypeStepOwner ==
  ASSUME TypeInv,
         Mbox_New \/ Mbox_Post \/ Close \/ FreeStep
  PROVE  TypeInv'
<1> USE DEF TypeInv, TypeOK, OwnerInv
<1>1. CASE Mbox_New
  <2>1. PICK q \in Queues \ live :
          /\ xMbox' = q
          /\ live' = live \cup {q}
          /\ messages' = [messages EXCEPT ![q] = 0]
    BY <1>1 DEF Mbox_New
  <2>2. messages' \in [Queues -> 0 .. QueueLength]
    BY <2>1
  <2> QED
    BY <1>1, <2>1, <2>2 DEF Mbox_New, ownerVars, fetchVars
<1>2. CASE Mbox_Post
  <2>1. messages' \in [Queues -> 0 .. QueueLength]
    BY <1>2 DEF Mbox_Post
  <2> QED
    BY <1>2, <2>1 DEF Mbox_Post, mboxVars, ownerVars
<1>3. CASE Close
  BY <1>3 DEF Close, mboxVars, queueVars, fetchVars
<1>4. CASE Mbox_TryFetch
  <2>1. messages' \in [Queues -> 0 .. QueueLength]
    BY <1>4 DEF Mbox_TryFetch
  <2> QED
    BY <1>4, <2>1 DEF Mbox_TryFetch, mboxVars, ownerVars, fetchVars
<1>5. CASE Mbox_TryFetch_Empty
  BY <1>5 DEF Mbox_TryFetch_Empty, mboxVars, queueVars, fetchVars
<1>6. CASE Free_Clear
  BY <1>6 DEF Free_Clear, Cleared, queueVars, fetchVars
<1>7. CASE Free_Abort
  <2>1. /\ owner' = "delete" /\ xMbox = NULL
        /\ UNCHANGED <<xMbox, xTask, live, messages, oldMbox, waiter,
                       queue, timed, xResult, got, returned>>
    BY <1>7 DEF Free_Abort, mboxVars, queueVars
  <2>2. pc' = [t \in Fetchers |-> IF t \in Woken THEN "aborted" ELSE pc[t]]
    BY <1>7 DEF Free_Abort
  <2>3. \A t \in Fetchers : t \in Woken => queue[t] # NULL
    BY DEF Woken
  <2>4. missed' \in [Fetchers -> BOOLEAN]
    <3>1. missed' = [t \in Fetchers |-> missed[t] \/ (t = waiter /\ pc[t] = "looking")]
      BY <1>7 DEF Free_Abort
    <3> HIDE DEF TypeInv
    <3> QED
      BY <3>1, Zenon
  <2> QED
    BY <2>1, <2>2, <2>3, <2>4
<1>8. CASE Free_Delete
  BY <1>8 DEF Free_Delete, mboxVars, fetchVars
<1>9. CASE Set_Invalid
  BY <1>9 DEF Set_Invalid, queueVars, fetchVars
<1> QED
  BY <1>1, <1>2, <1>3, <1>4, <1>5, <1>6, <1>7, <1>8, <1>9 DEF FreeStep

(* ... and those of the tasks that fetch.                                   *)
LEMMA TypeStepFetch ==
  ASSUME TypeInv, NEW t \in Fetchers,
         Fetch_Enter(t) \/ Fetch_Refused(t) \/ FetchStep(t)
  PROVE  TypeInv'
<1> USE DEF TypeInv, TypeOK, OwnerInv
<1>1. CASE Fetch_Enter(t)
  BY <1>1 DEF Fetch_Enter, MayEnter, queueVars, ownerVars
<1>2. CASE Fetch_Refused(t)
  BY <1>2 DEF Fetch_Refused, mboxVars, queueVars, ownerVars
<1>3. CASE Fetch_Look(t)
  <2>1. CASE /\ messages[queue[t]] > 0
             /\ messages' = [messages EXCEPT ![queue[t]] = @ - 1]
             /\ Receives(t, "message")
    <3>1. messages' \in [Queues -> 0 .. QueueLength]
      BY <1>3, <2>1 DEF Fetch_Look
    <3> QED
      BY <1>3, <2>1, <3>1 DEF Fetch_Look, Receives, mboxVars, ownerVars
  <2>2. CASE Fails(t) /\ UNCHANGED messages
    BY <1>3, <2>2 DEF Fetch_Look, Fails, mboxVars, ownerVars
  <2>3. CASE /\ pc' = [pc EXCEPT ![t] = "blocked"]
             /\ UNCHANGED <<xResult, got, messages>>
    BY <1>3, <2>3 DEF Fetch_Look, mboxVars, ownerVars
  <2> QED
    BY <1>3, <2>1, <2>2, <2>3 DEF Fetch_Look
<1>4. CASE Fetch_LookDeleted(t)
  <2>1. CASE Receives(t, "garbage")
    BY <1>4, <2>1 DEF Fetch_LookDeleted, Receives, mboxVars, queueVars, ownerVars
  <2>2. CASE Fails(t)
    BY <1>4, <2>2 DEF Fetch_LookDeleted, Fails, mboxVars, queueVars, ownerVars
  <2>3. CASE /\ pc' = [pc EXCEPT ![t] = "blocked"]
             /\ UNCHANGED <<xResult, got>>
    BY <1>4, <2>3 DEF Fetch_LookDeleted, mboxVars, queueVars, ownerVars
  <2> QED
    BY <1>4, <2>1, <2>2, <2>3 DEF Fetch_LookDeleted
<1>5. CASE Fetch_TimedOut(t)
  BY <1>5 DEF Fetch_TimedOut, Fails, mboxVars, queueVars, ownerVars
<1>6. CASE Fetch_Reread(t)
  <2>1. queue' \in [Fetchers -> Queues \cup {NULL}]
    BY <1>6 DEF Fetch_Reread
  <2>2. pc' = [pc EXCEPT ![t] = "looking"] \/ pc' = [pc EXCEPT ![t] = "leaving"]
    BY <1>6 DEF Fetch_Reread
  <2>3. pc'[t] = "looking" => queue'[t] # NULL
    BY <1>6 DEF Fetch_Reread, Continues
  <2>4. \A u \in Fetchers \ {t} : pc'[u] = pc[u] /\ queue'[u] = queue[u]
    BY <1>6 DEF Fetch_Reread
  <2> QED
    BY <1>6, <2>1, <2>2, <2>3, <2>4 DEF Fetch_Reread, mboxVars, queueVars, ownerVars
<1>7. CASE Fetch_Leave(t)
  BY <1>7 DEF Fetch_Leave, ulReturn, queueVars, ownerVars
<1> QED
  BY <1>1, <1>2, <1>3, <1>4, <1>5, <1>6, <1>7 DEF FetchStep

LEMMA TypeStep == TypeInv /\ [Next]_vars => TypeInv'
<1> SUFFICES ASSUME TypeInv, [Next]_vars
             PROVE  TypeInv'
  OBVIOUS
<1>1. CASE UNCHANGED vars
  BY <1>1 DEF vars, mboxVars, queueVars, ownerVars, fetchVars, TypeInv, TypeOK, OwnerInv
<1> QED
  BY <1>1, TypeStepOwner, TypeStepFetch DEF Next

(* The types, and that a fetch never calls xQueueReceive without a queue,   *)
(* also not when it goes round again in a mailbox that has been freed.      *)
THEOREM MboxTypeCorrect == Spec => []TypeOK
<1>1. TypeInv => TypeOK
  BY DEF TypeInv
<1> QED
  BY <1>1, TypeInit, TypeStep, PTL DEF Spec

-----------------------------------------------------------------------------
(***************************************************************************)
(* One task in a fetch                                                     *)
(***************************************************************************)

(* OneFetcher says of the time between sys_mbox_free's critical section and *)
(* its end that it knows of a sleeping task. That it knows of any task that *)
(* is inside makes it inductive: one that is on its way may fall asleep.    *)
FetcherInv ==
  /\ \A t, u \in Inside : t = u
  /\ xMbox # NULL \/ owner # "idle" => Inside \subseteq {xTask}
  /\ owner \in {"abort", "delete"} => Inside \subseteq {waiter}

LEMMA FetcherInit == Init => FetcherInv
  BY DEF Init, FetcherInv, Inside

(* A step that lets nobody in, and leaves the rest alone.                   *)
LEMMA FetcherKept ==
  ASSUME FetcherInv, Inside' \subseteq Inside, UNCHANGED <<xTask, waiter>>,
         xMbox' # NULL \/ owner' # "idle" => xMbox # NULL \/ owner # "idle",
         owner' \in {"abort", "delete"} => owner \in {"abort", "delete"}
  PROVE  FetcherInv'
BY DEF FetcherInv

LEMMA FetcherStep == TypeInv /\ FetcherInv /\ [Next]_vars => FetcherInv'
<1> SUFFICES ASSUME TypeInv, FetcherInv, [Next]_vars
             PROVE  FetcherInv'
  OBVIOUS
<1>1. CASE Mbox_New
  <2>1. Inside' = {}
    BY <1>1 DEF Mbox_New, Inside, fetchVars
  <2>2. owner' = "idle"
    BY <1>1 DEF Mbox_New, ownerVars
  <2> QED
    BY <2>1, <2>2 DEF FetcherInv
<1>2. CASE Mbox_Post
  <2>1. Inside' \subseteq Inside
    BY <1>2 DEF Mbox_Post, Inside
  <2> QED
    BY <1>2, <2>1, FetcherKept DEF Mbox_Post, mboxVars, ownerVars
<1>3. CASE Close \/ Mbox_TryFetch \/ Mbox_TryFetch_Empty
  <2>1. Inside' = Inside
    BY <1>3 DEF Close, Mbox_TryFetch, Mbox_TryFetch_Empty, fetchVars, Inside
  <2> QED
    BY <1>3, <2>1, FetcherKept
    DEF Close, Mbox_TryFetch, Mbox_TryFetch_Empty, mboxVars, ownerVars
<1>4. CASE Free_Clear
  <2>1. Inside' = Inside /\ xTask' = xTask /\ waiter' = xTask /\ owner' = "abort"
    BY <1>4 DEF Free_Clear, fetchVars, Inside
  <2>2. Inside \subseteq {xTask}
    BY <1>4 DEF Free_Clear, FetcherInv
  <2> QED
    BY <2>1, <2>2 DEF FetcherInv
<1>5. CASE Free_Abort
  <2>1. Inside' \subseteq Inside
    BY <1>5 DEF Free_Abort, Inside, Woken
  <2> QED
    BY <1>5, <2>1, FetcherKept DEF Free_Abort, mboxVars
<1>6. CASE Free_Delete
  <2>1. Inside' = Inside
    BY <1>6 DEF Free_Delete, fetchVars, Inside
  <2> QED
    BY <1>6, <2>1, FetcherKept DEF Free_Delete, mboxVars
<1>7. CASE Set_Invalid
  <2>1. Inside' = Inside /\ xMbox' = NULL /\ owner' = "idle"
    BY <1>7 DEF Set_Invalid, fetchVars, Inside
  <2> QED
    BY <2>1 DEF FetcherInv
<1>8. ASSUME NEW t \in Fetchers, Fetch_Enter(t)
      PROVE  FetcherInv'
  <2>1. Inside = {}
    <3>1. Inside \subseteq {NULL}
      BY <1>8 DEF Fetch_Enter, MayEnter, FetcherInv
    <3>2. NULL \notin Inside
      BY DEF Inside
    <3> QED
      BY <3>1, <3>2
  <2>2. Inside' \subseteq {t} /\ xTask' = t
    BY <1>8, <2>1 DEF Fetch_Enter, Inside, TypeInv, TypeOK
  <2>3. owner' \notin {"abort", "delete"}
    BY <1>8 DEF Fetch_Enter, MayEnter, ownerVars, TypeInv, OwnerInv
  <2> QED
    BY <2>2, <2>3 DEF FetcherInv
<1>9. ASSUME NEW t \in Fetchers, Fetch_Refused(t)
      PROVE  FetcherInv'
  <2>1. Inside' = Inside
    BY <1>9 DEF Fetch_Refused, Inside
  <2> QED
    BY <1>9, <2>1, FetcherKept DEF Fetch_Refused, mboxVars, ownerVars
<1>10. ASSUME NEW t \in Fetchers,
              Fetch_Look(t) \/ Fetch_LookDeleted(t) \/ Fetch_TimedOut(t) \/ Fetch_Reread(t)
       PROVE  FetcherInv'
  <2>1. pc[t] # "outside" /\ \A u \in Fetchers \ {t} : pc'[u] = pc[u]
    BY <1>10 DEF Fetch_Look, Fetch_LookDeleted, Fetch_TimedOut, Fetch_Reread, Receives, Fails,
                 TypeInv, TypeOK
  <2>2. Inside' \subseteq Inside
    BY <2>1 DEF Inside
  <2>3. UNCHANGED <<xMbox, xTask, owner, waiter>>
    BY <1>10 DEF Fetch_Look, Fetch_LookDeleted, Fetch_TimedOut, Fetch_Reread, mboxVars, ownerVars
  <2> QED
    BY <2>2, <2>3, FetcherKept
<1>11. ASSUME NEW t \in Fetchers, Fetch_Leave(t)
       PROVE  FetcherInv'
  <2>1. t \in Inside /\ Inside' \subseteq Inside \ {t}
    BY <1>11 DEF Fetch_Leave, Inside, TypeInv, TypeOK
  <2>2. Inside' = {}
    BY <2>1 DEF FetcherInv
  <2> QED
    BY <2>2 DEF FetcherInv
<1>12. CASE UNCHANGED vars
  <2>1. Inside' = Inside
    BY <1>12 DEF vars, fetchVars, Inside
  <2> QED
    BY <1>12, <2>1, FetcherKept DEF vars, mboxVars, ownerVars
<1> QED
  BY <1>1, <1>2, <1>3, <1>4, <1>5, <1>6, <1>7, <1>8, <1>9, <1>10, <1>11, <1>12
  DEF Next, FreeStep, FetchStep

(* At most one task is in a fetch, and sys_mbox_free knows which.           *)
THEOREM OneFetcherCorrect == Spec => []OneFetcher
<1>1. FetcherInv => OneFetcher
  BY DEF FetcherInv, OneFetcher
<1> QED
  BY <1>1, TypeInit, TypeStep, FetcherInit, FetcherStep, PTL DEF Spec

-----------------------------------------------------------------------------
(***************************************************************************)
(* What a fetch returns                                                    *)
(***************************************************************************)

(* Inside, xResult tells what the fetch has; ulReturn is made of it.        *)
HasMessage(t) == xResult[t] <=> got[t] # "nothing"

ReturnInv ==
  /\ \A t \in Inside : HasMessage(t)
  /\ ReturnHonest

(* A step that changes nothing of what a task has got nor where it is.      *)
LEMMA ReturnKept ==
  ASSUME ReturnInv, UNCHANGED <<xResult, got, returned>>,
         \A t \in Fetchers : pc'[t] = "outside" <=> pc[t] = "outside"
  PROVE  ReturnInv'
BY DEF ReturnInv, ReturnHonest, HasMessage, Inside

LEMMA ReturnStep == TypeInv /\ ReturnInv /\ [Next]_vars => ReturnInv'
<1> SUFFICES ASSUME TypeInv, ReturnInv, [Next]_vars
             PROVE  ReturnInv'
  OBVIOUS
<1>1. CASE Mbox_New \/ Close \/ Mbox_TryFetch \/ Mbox_TryFetch_Empty
  BY <1>1, ReturnKept DEF Mbox_New, Close, Mbox_TryFetch, Mbox_TryFetch_Empty, fetchVars
<1>2. CASE Free_Clear \/ Free_Delete \/ Set_Invalid \/ UNCHANGED vars
  BY <1>2, ReturnKept DEF Free_Clear, Free_Delete, Set_Invalid, vars, fetchVars
<1>3. CASE Mbox_Post
  <2>1. \A t \in Fetchers : pc'[t] = "outside" <=> pc[t] = "outside"
    BY <1>3 DEF Mbox_Post
  <2> QED
    BY <1>3, <2>1, ReturnKept DEF Mbox_Post
<1>4. CASE Free_Abort
  <2>1. \A t \in Fetchers : pc'[t] = "outside" <=> pc[t] = "outside"
    BY <1>4 DEF Free_Abort, Woken
  <2> QED
    BY <1>4, <2>1, ReturnKept DEF Free_Abort
<1>5. ASSUME NEW t \in Fetchers, Fetch_Enter(t) \/ Fetch_Refused(t) \/ FetchStep(t)
      PROVE  ReturnInv'
  <2>1. SUFFICES ASSUME NEW u \in Fetchers
                 PROVE  /\ pc'[u] # "outside" => HasMessage(u)'
                        /\ pc'[u] = "outside" /\ returned'[u] # "none" =>
                             (returned'[u] = "1" <=> got'[u] # "nothing")
    BY DEF ReturnInv, ReturnHonest, Inside
  <2>2. /\ pc[u] # "outside" => HasMessage(u)
        /\ pc[u] = "outside" /\ returned[u] # "none" =>
             (returned[u] = "1" <=> got[u] # "nothing")
    BY DEF ReturnInv, ReturnHonest, Inside
  <2>3. CASE Fetch_Enter(t)
    <3>1. t = u => xResult'[u] = FALSE /\ got'[u] = "nothing" /\ pc'[u] = "looking"
      BY <2>3 DEF Fetch_Enter, TypeInv, TypeOK
    <3>2. t # u => UNCHANGED <<xResult[u], got[u], returned[u], pc[u]>>
      BY <2>3 DEF Fetch_Enter, TypeInv, TypeOK
    <3> QED
      BY <2>2, <3>1, <3>2 DEF HasMessage
  <2>4. CASE Fetch_Refused(t)
    <3>1. t = u => pc'[u] = "outside" /\ got'[u] = "nothing" /\ returned'[u] = "SYS_ARCH_TIMEOUT"
      BY <2>4 DEF Fetch_Refused, TypeInv, TypeOK
    <3>2. t # u => UNCHANGED <<xResult[u], got[u], returned[u], pc[u]>>
      BY <2>4 DEF Fetch_Refused, TypeInv, TypeOK
    <3> QED
      BY <2>2, <3>1, <3>2 DEF HasMessage
  <2>5. ASSUME NEW what, what # "nothing", Receives(t, what), UNCHANGED returned
        PROVE  /\ pc'[u] # "outside" => HasMessage(u)'
               /\ pc'[u] = "outside" /\ returned'[u] # "none" =>
                    (returned'[u] = "1" <=> got'[u] # "nothing")
    <3>1. t = u => xResult'[u] = TRUE /\ got'[u] = what /\ pc'[u] = "received"
      BY <2>5 DEF Receives, TypeInv, TypeOK
    <3>2. t # u => UNCHANGED <<xResult[u], got[u], returned[u], pc[u]>>
      BY <2>5 DEF Receives, TypeInv, TypeOK
    <3> QED
      BY <2>2, <2>5, <3>1, <3>2 DEF HasMessage
  <2>6. ASSUME UNCHANGED <<xResult, got, returned>>, pc[t] # "outside",
               NEW p, p # "outside", pc' = [pc EXCEPT ![t] = p]
        PROVE  /\ pc'[u] # "outside" => HasMessage(u)'
               /\ pc'[u] = "outside" /\ returned'[u] # "none" =>
                    (returned'[u] = "1" <=> got'[u] # "nothing")
    <3>1. (pc'[u] = "outside" <=> pc[u] = "outside")
      BY <2>6 DEF TypeInv, TypeOK
    <3> QED
      BY <2>2, <2>6, <3>1 DEF HasMessage
  <2>7. CASE Fetch_Look(t)
    BY <2>5, <2>6, <2>7 DEF Fetch_Look, Fails
  <2>8. CASE Fetch_LookDeleted(t)
    BY <2>5, <2>6, <2>8 DEF Fetch_LookDeleted, Fails
  <2>9. CASE Fetch_TimedOut(t) \/ Fetch_Reread(t)
    BY <2>6, <2>9 DEF Fetch_TimedOut, Fetch_Reread, Fails
  <2>10. CASE Fetch_Leave(t)
    <3>1. t = u => /\ pc[u] = "leaving" /\ pc'[u] = "outside"
                   /\ returned'[u] = ulReturn(u) /\ got'[u] = got[u]
      BY <2>10 DEF Fetch_Leave, TypeInv, TypeOK
    <3>2. t # u => UNCHANGED <<xResult[u], got[u], returned[u], pc[u]>>
      BY <2>10 DEF Fetch_Leave, TypeInv, TypeOK
    <3> QED
      BY <2>2, <3>1, <3>2 DEF HasMessage, ulReturn
  <2> QED
    BY <1>5, <2>3, <2>4, <2>7, <2>8, <2>9, <2>10 DEF FetchStep
<1> QED
  BY <1>1, <1>2, <1>3, <1>4, <1>5 DEF Next, FreeStep

(* A fetch returns 1 if and only if xQueueReceive gave it something,        *)
(* whenever the mailbox is freed.                                           *)
THEOREM ReturnCorrect == Spec => []ReturnHonest
<1>1. Init => ReturnInv
  BY DEF Init, ReturnInv, ReturnHonest, Inside
<1>2. ReturnInv => ReturnHonest
  BY DEF ReturnInv
<1> QED
  BY <1>1, <1>2, TypeInit, TypeStep, ReturnStep, PTL DEF Spec

-----------------------------------------------------------------------------
(***************************************************************************)
(* Who is left behind on a deleted queue                                   *)
(***************************************************************************)
Pends(t) == pc[t] \in {"looking", "blocked"}

(* Once xTaskAbortDelay has been called, a task that still waits for the    *)
(* queue about to be deleted was not asleep at the call.                    *)
MissedInv ==
  /\ PendingOnlyMissed
  /\ owner = "delete" => \A t \in Fetchers : Pends(t) /\ queue[t] = oldMbox => missed[t]

(* A step that lets no task begin to wait, nor changes what it waits for.   *)
LEMMA MissedKept ==
  ASSUME MissedInv, live \subseteq live', owner' = "delete" => owner = "delete",
         UNCHANGED oldMbox,
         \A t \in Fetchers : Pends(t)' => Pends(t) /\ UNCHANGED <<queue[t], missed[t]>>
  PROVE  MissedInv'
BY DEF MissedInv, PendingOnlyMissed, Pends

LEMMA MissedStep == TypeInv /\ FetcherInv /\ MissedInv /\ [Next]_vars => MissedInv'
<1> SUFFICES ASSUME TypeInv, FetcherInv, MissedInv, [Next]_vars
             PROVE  MissedInv'
  OBVIOUS
<1>1. CASE Mbox_New
  <2>1. live \subseteq live'
    BY <1>1 DEF Mbox_New
  <2> QED
    BY <1>1, <2>1, MissedKept DEF Mbox_New, ownerVars, fetchVars, Pends
<1>2. CASE Mbox_Post
  <2>1. \A t \in Fetchers : Pends(t)' => Pends(t)
    BY <1>2 DEF Mbox_Post, Pends
  <2> QED
    BY <1>2, <2>1, MissedKept DEF Mbox_Post, ownerVars
<1>3. CASE Close \/ Mbox_TryFetch \/ Mbox_TryFetch_Empty
  BY <1>3, MissedKept
  DEF Close, Mbox_TryFetch, Mbox_TryFetch_Empty, queueVars, ownerVars, fetchVars, Pends
<1>4. CASE Free_Clear \/ Set_Invalid
  BY <1>4
  DEF Free_Clear, Set_Invalid, queueVars, fetchVars, Pends, MissedInv, PendingOnlyMissed
<1>5. CASE Free_Abort
  <2>1. /\ UNCHANGED <<live, oldMbox, queue>>
        /\ \A t \in Fetchers : missed'[t] <=> missed[t] \/ (t = waiter /\ pc[t] = "looking")
        /\ \A t \in Fetchers : Pends(t)' => Pends(t) /\ t \notin Woken
    BY <1>5 DEF Free_Abort, queueVars, Pends
  <2>2. \A t \in Fetchers : Pends(t) => t = waiter
    BY <1>5 DEF Free_Abort, FetcherInv, Inside, Pends
  <2>3. \A t \in Fetchers : Pends(t)' => missed'[t]
    BY <2>1, <2>2 DEF Woken, Pends
  <2> QED
    BY <2>3 DEF MissedInv, PendingOnlyMissed, Pends
<1>6. CASE Free_Delete
  <2>1. /\ owner = "delete" /\ owner' = "invalid"
        /\ UNCHANGED fetchVars /\ live' = live \ {oldMbox}
    BY <1>6 DEF Free_Delete
  <2> QED
    BY <2>1 DEF fetchVars, MissedInv, PendingOnlyMissed, Pends
<1>7. ASSUME NEW t \in Fetchers, Fetch_Enter(t)
      PROVE  MissedInv'
  <2>1. /\ queue'[t] = xMbox /\ xMbox \in live /\ UNCHANGED live
        /\ owner' # "delete"
    BY <1>7 DEF Fetch_Enter, MayEnter, queueVars, ownerVars, TypeInv, TypeOK, OwnerInv
  <2>2. \A u \in Fetchers \ {t} : UNCHANGED <<queue[u], missed[u], pc[u]>>
    BY <1>7 DEF Fetch_Enter, TypeInv, TypeOK
  <2> QED
    BY <2>1, <2>2 DEF MissedInv, PendingOnlyMissed
<1>8. ASSUME NEW t \in Fetchers,
             Fetch_Refused(t) \/ Fetch_Look(t) \/ Fetch_LookDeleted(t) \/ Fetch_TimedOut(t)
      PROVE  MissedInv'
  <2>1. UNCHANGED <<live, owner, oldMbox, queue, missed>>
    BY <1>8
    DEF Fetch_Refused, Fetch_Look, Fetch_LookDeleted, Fetch_TimedOut, queueVars, ownerVars
  <2>2. \A u \in Fetchers : Pends(u)' => Pends(u)
    BY <1>8
    DEF Fetch_Refused, Fetch_Look, Fetch_LookDeleted, Fetch_TimedOut, Receives, Fails, Pends,
        TypeInv, TypeOK
  <2> QED
    BY <2>1, <2>2, MissedKept
<1>9. ASSUME NEW t \in Fetchers, Fetch_Reread(t)
      PROVE  MissedInv'
  <2>1. UNCHANGED <<live, owner, oldMbox, missed>>
    BY <1>9 DEF Fetch_Reread, queueVars, ownerVars
  <2>2. \A u \in Fetchers \ {t} : UNCHANGED <<queue[u], pc[u]>>
    BY <1>9 DEF Fetch_Reread, TypeInv, TypeOK
  <2>3. Pends(t)' => queue'[t] = xMbox /\ xMbox # NULL
    <3>1. Pends(t)' => Continues(t)
      BY <1>9 DEF Fetch_Reread, Pends, TypeInv, TypeOK
    <3>2. Continues(t) => queue'[t] = xMbox /\ queue'[t] # NULL
      BY <1>9 DEF Fetch_Reread, Continues, TypeInv, TypeOK
    <3> QED
      BY <3>1, <3>2
  <2>4. Pends(t)' => queue'[t] \in live /\ owner # "delete"
    BY <2>3 DEF TypeInv, TypeOK, OwnerInv
  <2> QED
    BY <2>1, <2>2, <2>4 DEF MissedInv, PendingOnlyMissed, Pends
<1>10. ASSUME NEW t \in Fetchers, Fetch_Leave(t)
       PROVE  MissedInv'
  <2>1. UNCHANGED <<live, owner, oldMbox, missed>> /\ ~Pends(t)'
    BY <1>10 DEF Fetch_Leave, queueVars, ownerVars, Pends, TypeInv, TypeOK
  <2>2. \A u \in Fetchers \ {t} : UNCHANGED <<queue[u], pc[u]>>
    BY <1>10 DEF Fetch_Leave, TypeInv, TypeOK
  <2> QED
    BY <2>1, <2>2 DEF MissedInv, PendingOnlyMissed, Pends
<1>11. CASE UNCHANGED vars
  BY <1>11, MissedKept DEF vars, queueVars, ownerVars, fetchVars, Pends
<1> QED
  BY <1>1, <1>2, <1>3, <1>4, <1>5, <1>6, <1>7, <1>8, <1>9, <1>10, <1>11
  DEF Next, FreeStep, FetchStep

(* A task is left behind on a deleted queue only if xTaskAbortDelay was     *)
(* called for it while it was not asleep.                                   *)
THEOREM PendingCorrect == Spec => []PendingOnlyMissed
<1>1. Init => MissedInv
  BY DEF Init, MissedInv, PendingOnlyMissed, Pends
<1>2. MissedInv => PendingOnlyMissed
  BY DEF MissedInv
<1> QED
  BY <1>1, <1>2, TypeInit, TypeStep, FetcherInit, FetcherStep, MissedStep, PTL DEF Spec
=============================================================================
