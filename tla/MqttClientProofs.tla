--------------------------- MODULE MqttClientProofs ---------------------------
(***************************************************************************)
(* Proofs about MqttClient, for any number of tasks, blocks and messages   *)
(* and queues of any length.                                               *)
(***************************************************************************)
EXTENDS MqttClient, SequenceTheorems, TLAPS

USE MqttClientAssumption

-----------------------------------------------------------------------------
(***************************************************************************)
(* Queues: what Append and Tail do to the elements                         *)
(***************************************************************************)
LEMMA AppendElements ==
  ASSUME NEW S, NEW q \in Seq(S), NEW e \in S
  PROVE  /\ Append(q, e) \in Seq(S)
         /\ DOMAIN q = 1 .. Len(q)
         /\ DOMAIN Append(q, e) = 1 .. Len(q) + 1
         /\ Len(Append(q, e)) = Len(q) + 1
         /\ Append(q, e)[Len(q) + 1] = e
         /\ \A i \in DOMAIN q : Append(q, e)[i] = q[i]
         /\ Len(q) \in Nat
  OBVIOUS

LEMMA TailElements ==
  ASSUME NEW S, NEW q \in Seq(S), q # << >>
  PROVE  /\ Tail(q) \in Seq(S)
         /\ DOMAIN q = 1 .. Len(q)
         /\ DOMAIN Tail(q) = 1 .. Len(q) - 1
         /\ Len(Tail(q)) = Len(q) - 1
         /\ Head(q) = q[1]
         /\ \A i \in DOMAIN Tail(q) : Tail(q)[i] = q[i + 1]
         /\ Len(q) \in Nat /\ 1 <= Len(q)
  OBVIOUS

-----------------------------------------------------------------------------
(***************************************************************************)
(* Types                                                                   *)
(***************************************************************************)
LEMMA InitType == Init => TypeOK
  BY DEF Init, TypeOK, Notification, Tasks, Statuses, Success, Failure, NoStatus, Command, NoCommand,
         Message, Free, CommandAck, NoAck

(* Only the pending flag of the task's own notification is touched.         *)
LEMMA ClearPendingEffect ==
  ASSUME TypeOK, NEW t \in Tasks, ClearPending(t)
  PROVE  /\ notification' \in [Tasks -> Notification]
         /\ notification'[t].pending = FALSE
         /\ \A s \in Tasks :
              /\ s # t => notification'[s] = notification[s]
              /\ notification'[s].value = notification[s].value
              /\ notification'[s].call = notification[s].call
              /\ notification'[s].during = notification[s].during
<1> DEFINE n == [notification[t] EXCEPT !.pending = FALSE]
<1>1. notification \in [Tasks -> Notification]
  BY DEF TypeOK
<1>2. notification[t] \in Notification
  BY <1>1
<1>3. n \in Notification /\ n.pending = FALSE /\ n.value = notification[t].value
        /\ n.call = notification[t].call /\ n.during = notification[t].during
  BY <1>2 DEF Notification
<1>4. notification' = [notification EXCEPT ![t] = n]
  BY DEF ClearPending
<1> QED
  <2> HIDE DEF n
  <2> QED BY <1>1, <1>3, <1>4

LEMMA StateClearType ==
  ASSUME TypeOK, NEW t \in Tasks, StateClear(t), UNCHANGED <<agent_queue, agent_command>>
  PROVE  /\ publish' \in [Tasks -> {"idle", "cleared", "waiting"}]
         /\ call' \in [Tasks -> Nat]
         /\ notification' \in [Tasks -> Notification]
         /\ completion' \in [Tasks -> Statuses \cup {NoStatus}]
         /\ returned' \in [Tasks -> Statuses \cup {NoStatus}]
         /\ seen' \in [Tasks -> Nat]
         /\ timed_out' \in [Tasks -> BOOLEAN]
<1>1. notification' \in [Tasks -> Notification]
  BY ClearPendingEffect DEF StateClear
<1>2. publish' \in [Tasks -> {"idle", "cleared", "waiting"}] /\ call' \in [Tasks -> Nat]
  BY DEF TypeOK, StateClear
<1>3. completion' \in [Tasks -> Statuses \cup {NoStatus}]
  BY DEF TypeOK, StateClear
<1> QED BY <1>1, <1>2, <1>3 DEF TypeOK, StateClear

(* incoming_message_callback fills a free block with the newest message.    *)
LEMMA AllocEffect ==
  ASSUME TypeOK, Incoming_Alloc
  PROVE  \E b \in Buffers, m \in Message :
           /\ heap[b] = Free
           /\ m # Free
           /\ m.n = arrived'
           /\ agent_buf' = b
           /\ heap' = [heap EXCEPT ![b] = m]
<1>1. PICK b \in Buffers, payload \in Types, fits \in BOOLEAN, hasAck \in BOOLEAN :
        LET type == IF fits THEN payload ELSE "malformed" IN
        /\ heap[b] = Free
        /\ agent_buf' = b
        /\ heap' = [heap EXCEPT ![b] =
             [n |-> arrived', type |-> type, ack |-> hasAck /\ type # "malformed"]]
  BY DEF Incoming_Alloc
<1> DEFINE type == IF fits THEN payload ELSE "malformed"
<1> DEFINE m == [n |-> arrived', type |-> type, ack |-> hasAck /\ type # "malformed"]
<1>2. arrived' \in Nat
  BY DEF Incoming_Alloc, TypeOK
<1>3. type \in Types
  BY DEF Types
<1>4. m \in Message
  <2> HIDE DEF type
  <2> QED BY <1>2, <1>3 DEF Message
<1>5. m.n = arrived' /\ m.type \in Types
  BY <1>3
<1>6. m # Free
  BY <1>5 DEF Types, Free
<1>7. heap' = [heap EXCEPT ![b] = m]
  BY <1>1
<1> HIDE DEF m
<1> QED BY <1>1, <1>4, <1>5, <1>6, <1>7

LEMMA StepType == TypeOK /\ [Next]_vars => TypeOK'
<1> SUFFICES ASSUME TypeOK, [Next]_vars PROVE TypeOK'
  OBVIOUS
<1>1. ASSUME NEW t \in Publishers, Publish(t) PROVE TypeOK'
  BY <1>1, StateClearType DEF Publish, Tasks, TypeOK, agentVars, commandVars
<1>2. ASSUME NEW t \in Tasks, PublishStep(t) PROVE TypeOK'
  <2>1. CASE Publish_Enqueue(t)
    BY <1>2, <2>1 DEF Publish_Enqueue, Command, TypeOK, agentVars, commandVars
  <2>2. CASE Publish_Refused(t)
    BY <1>2, <2>2 DEF Publish_Refused, Statuses, Failure, TypeOK, agentVars, commandVars
  <2>3. CASE Publish_Notified(t)
    <3>1. notification' \in [Tasks -> Notification]
      BY <1>2, <2>3, ClearPendingEffect DEF Publish_Notified
    <3>2. notification[t] \in Notification
      BY <1>2 DEF TypeOK
    <3>3. seen' \in [Tasks -> Nat] /\ returned' \in [Tasks -> Statuses \cup {NoStatus}]
      BY <1>2, <2>3, <3>2 DEF Publish_Notified, Notification, TypeOK
    <3> QED BY <2>3, <3>1, <3>3 DEF Publish_Notified, TypeOK, agentVars, commandVars
  <2>4. CASE Publish_TimedOut(t)
    BY <1>2, <2>4 DEF Publish_TimedOut, Statuses, Success, TypeOK, agentVars, commandVars
  <2> QED BY <1>2, <2>1, <2>2, <2>3, <2>4 DEF PublishStep
<1>3. CASE Agent_Take
  BY <1>3 DEF Agent_Take, TypeOK, publishVars, commandVars
<1>4. CASE Agent_Complete
  BY <1>4 DEF Agent_Complete, publish_complete_callback, Notification, Command, TypeOK, commandVars
<1>5. CASE Incoming_Alloc
  <2>1. PICK b \in Buffers, m \in Message : agent_buf' = b /\ heap' = [heap EXCEPT ![b] = m]
    BY <1>5, AllocEffect
  <2>2. heap' \in [Buffers -> Message \cup {Free}]
    BY <2>1 DEF TypeOK
  <2> QED BY <1>5, <2>1, <2>2 DEF Incoming_Alloc, TypeOK, publishVars
<1>6. CASE Incoming_AllocFails
  BY <1>6 DEF Incoming_AllocFails, TypeOK, publishVars, agentVars
<1>7. CASE IncomingStep
  <2>1. CASE Incoming_Queued
    BY <2>1 DEF Incoming_Queued, SendToBack, TypeOK, publishVars
  <2>2. CASE Incoming_Dropped
    BY <2>2 DEF Incoming_Dropped, free, TypeOK, publishVars
  <2> QED BY <1>7, <2>1, <2>2 DEF IncomingStep
<1>8. CASE CommandTaskStep
  <2>1. CASE CreateCommandTask
    BY <2>1 DEF CreateCommandTask, TypeOK, publishVars, agentVars
  <2>2. CASE CommandTask_Receive
    BY <2>2 DEF CommandTask_Receive, TypeOK, publishVars, agentVars
  <2>3. CASE CommandTask_ReceiveFails
    BY <2>3 DEF CommandTask_ReceiveFails, TypeOK, publishVars, agentVars
  <2>4. CASE CommandTask_Process
    <3> USE <2>4 DEF CommandTask_Process
    <3>1. heap[message] \in Message
      BY DEF TypeOK, Message, Free
    <3>2. ack' \in CommandAck \cup {NoAck}
      BY <3>1 DEF on_command, AckCode, CommandAck, Message, TypeOK
    <3>3. StateClear(CommandTask) \/ UNCHANGED publishVars
      BY DEF on_command
    <3> QED BY <3>2, <3>3, StateClearType DEF Tasks, TypeOK, agentVars, publishVars
  <2>5. CASE CommandTask_OtaDownload
    BY <2>5 DEF CommandTask_OtaDownload, TypeOK, publishVars, agentVars
  <2>6. CASE CommandTask_OtaAck
    BY <2>6, StateClearType DEF CommandTask_OtaAck, Tasks, TypeOK, agentVars, publishVars
  <2>7. CASE CommandTask_Free
    BY <2>7 DEF CommandTask_Free, free, Message, Free, TypeOK, publishVars, agentVars
  <2> QED BY <1>8, <2>1, <2>2, <2>3, <2>4, <2>5, <2>6, <2>7 DEF CommandTaskStep
<1>9. CASE Quiescent
  BY <1>9 DEF Quiescent, TypeOK, vars, publishVars, agentVars, commandVars
<1>10. CASE UNCHANGED vars
  BY <1>10 DEF TypeOK, vars, publishVars, agentVars, commandVars
<1> QED
  BY <1>1, <1>2, <1>3, <1>4, <1>5, <1>6, <1>7, <1>8, <1>9, <1>10 DEF Next

(* Every variable keeps its type, and the command task holds a message      *)
(* exactly while it is processing one.                                      *)
THEOREM TypeCorrect == Spec => []TypeOK
<1>1. Init => TypeOK
  BY InitType
<1>2. TypeOK /\ [Next]_vars => TypeOK'
  BY StepType
<1> QED BY <1>1, <1>2, PTL DEF Spec

-----------------------------------------------------------------------------
(***************************************************************************)
(* The blocks and the order of the messages                                *)
(***************************************************************************)

(* The steps that touch a message, and what all the others leave alone.     *)
LEMMA MessageSteps ==
  ASSUME [Next]_vars
  PROVE  \/ UNCHANGED <<agent_buf, command_queue, message, heap, arrived, handled>>
         \/ Incoming_Alloc
         \/ Incoming_AllocFails
         \/ Incoming_Queued
         \/ Incoming_Dropped
         \/ CommandTask_Receive
         \/ CommandTask_Free
<1>1. ASSUME NEW t \in Publishers, Publish(t)
      PROVE  UNCHANGED <<agent_buf, command_queue, message, heap, arrived, handled>>
  BY <1>1 DEF Publish, agentVars, commandVars
<1>2. ASSUME NEW t \in Tasks, PublishStep(t)
      PROVE  UNCHANGED <<agent_buf, command_queue, message, heap, arrived, handled>>
  BY <1>2 DEF PublishStep, Publish_Enqueue, Publish_Refused, Publish_Notified,
              Publish_TimedOut, agentVars, commandVars
<1>3. CASE Agent_Take \/ Agent_Complete \/ Quiescent \/ UNCHANGED vars
  BY <1>3 DEF Agent_Take, Agent_Complete, Quiescent, vars, agentVars, commandVars
<1>4. CASE CommandTaskStep
  BY <1>4 DEF CommandTaskStep, CreateCommandTask, CommandTask_ReceiveFails,
              CommandTask_Process, CommandTask_OtaDownload, CommandTask_OtaAck, agentVars
<1> QED BY <1>1, <1>2, <1>3, <1>4 DEF Next, IncomingStep

LEMMA OwnershipStep ==
  TypeOK /\ TypeOK' /\ BufferOwnership /\ [Next]_vars => BufferOwnership'
<1> SUFFICES ASSUME TypeOK, TypeOK', BufferOwnership, [Next]_vars
             PROVE  BufferOwnership'
  OBVIOUS
<1> USE DEF BufferOwnership, Queued
<1>a. /\ command_queue \in Seq(Buffers)
      /\ agent_buf \in Buffers \cup {NULL} /\ message \in Buffers \cup {NULL}
      /\ heap \in [Buffers -> Message \cup {Free}]
  BY DEF TypeOK
<1>1. CASE UNCHANGED <<agent_buf, command_queue, message, heap, arrived, handled>>
  BY <1>1
<1>2. CASE Incoming_Alloc
  <2>1. PICK b \in Buffers :
          heap[b] = Free /\ agent_buf' = b
            /\ heap'[b] # Free /\ \A c \in Buffers \ {b} : heap'[c] = heap[c]
    BY <1>2, <1>a, AllocEffect
  <2>2. b \notin Queued \cup {agent_buf, message}
    BY <2>1
  <2>3. UNCHANGED <<command_queue, message>> /\ agent_buf = NULL
    BY <1>2 DEF Incoming_Alloc, AgentInLoop
  <2> QED BY <2>1, <2>2, <2>3
<1>3. CASE Incoming_AllocFails
  BY <1>3 DEF Incoming_AllocFails, agentVars
<1>4. CASE Incoming_Queued
  <2>1. /\ DOMAIN command_queue' = DOMAIN command_queue \cup {Len(command_queue) + 1}
        /\ Len(command_queue) + 1 \notin DOMAIN command_queue
        /\ command_queue'[Len(command_queue) + 1] = agent_buf
        /\ \A i \in DOMAIN command_queue : command_queue'[i] = command_queue[i]
    BY <1>4, <1>a, AppendElements DEF Incoming_Queued, SendToBack
  <2>2. Queued' = Queued \cup {agent_buf}
    BY <2>1
  <2>3. UNCHANGED <<heap, message>> /\ agent_buf' = NULL /\ agent_buf # NULL
    BY <1>4 DEF Incoming_Queued
  <2> HIDE DEF Queued
  <2>4. \A b \in Buffers : heap'[b] # Free <=> b \in Queued' \cup {agent_buf', message'}
    BY <2>2, <2>3
  <2>5. \A i, j \in DOMAIN command_queue' : command_queue'[i] = command_queue'[j] => i = j
    BY <2>1, <2>3 DEF Queued
  <2> QED BY <2>2, <2>3, <2>4, <2>5, <1>a
<1>5. CASE Incoming_Dropped
  BY <1>5, <1>a DEF Incoming_Dropped, free
<1>6. CASE CommandTask_Receive
  <2>1. /\ DOMAIN command_queue = 1 .. Len(command_queue) /\ Len(command_queue) \in Nat
        /\ DOMAIN command_queue' = 1 .. Len(command_queue) - 1
        /\ 1 \in DOMAIN command_queue
        /\ message' = command_queue[1]
        /\ \A i \in DOMAIN command_queue' : command_queue'[i] = command_queue[i + 1]
    BY <1>6, <1>a, TailElements DEF CommandTask_Receive
  <2>2. UNCHANGED <<heap, agent_buf>> /\ message = NULL
    BY <1>6 DEF CommandTask_Receive, TypeOK, agentVars
  <2>3. Queued' = Queued \ {message'}
    <3>1. \A i \in DOMAIN command_queue : i # 1 =>
            i - 1 \in DOMAIN command_queue' /\ command_queue'[i - 1] = command_queue[i]
      BY <2>1
    <3>2. \A i \in DOMAIN command_queue' :
            i + 1 \in DOMAIN command_queue /\ i + 1 # 1
      BY <2>1
    <3>3. ASSUME NEW b \in Queued, b # message' PROVE b \in Queued'
      BY <2>1, <3>1, <3>3
    <3>4. ASSUME NEW b \in Queued' PROVE b \in Queued /\ b # message'
      <4>1. PICK i \in DOMAIN command_queue' : b = command_queue'[i]
        OBVIOUS
      <4>2. b = command_queue[i + 1]
        BY <2>1, <4>1
      <4> QED BY <2>1, <3>2, <4>2
    <3> HIDE DEF Queued
    <3> QED BY <3>3, <3>4
  <2>4. message' \in Queued
    BY <2>1
  <2>5. \A i, j \in DOMAIN command_queue' : command_queue'[i] = command_queue'[j] => i = j
    BY <2>1
  <2>6. message' \in Buffers
    BY <2>1, <1>a, <1>6 DEF CommandTask_Receive
  <2> HIDE DEF Queued
  <2> QED BY <2>2, <2>3, <2>4, <2>5, <2>6, <1>a
<1>7. CASE CommandTask_Free
  BY <1>7, <1>a DEF CommandTask_Free, free, agentVars, TypeOK
<1> QED BY <1>1, <1>2, <1>3, <1>4, <1>5, <1>6, <1>7, MessageSteps

(* Every allocated block of a message has exactly one holder: none leaks,   *)
(* none is freed in use or twice.                                           *)
THEOREM OwnershipCorrect == Spec => []BufferOwnership
<1>1. Init => BufferOwnership
  BY DEF Init, BufferOwnership, Queued
<1>2. Spec => []TypeOK
  BY TypeCorrect
<1>3. TypeOK /\ TypeOK' /\ BufferOwnership /\ [Next]_vars => BufferOwnership'
  BY OwnershipStep
<1> QED BY <1>1, <1>2, <1>3, PTL DEF Spec

LEMMA HeapNumbers ==
  ASSUME TypeOK
  PROVE  \A b \in Buffers : heap[b].n \in Nat
  BY DEF TypeOK, Message, Free

LEMMA CommandOrderStep ==
  TypeOK /\ TypeOK' /\ BufferOwnership /\ CommandOrder /\ [Next]_vars => CommandOrder'
<1> SUFFICES ASSUME TypeOK, TypeOK', BufferOwnership, CommandOrder, [Next]_vars
             PROVE  CommandOrder'
  OBVIOUS
<1>a. /\ command_queue \in Seq(Buffers)
      /\ agent_buf \in Buffers \cup {NULL} /\ message \in Buffers \cup {NULL}
      /\ heap \in [Buffers -> Message \cup {Free}]
      /\ arrived \in Nat /\ handled \in Nat
  BY DEF TypeOK
<1>b. \A b \in Buffers : heap[b].n \in Nat
  BY HeapNumbers
<1>c. \A i \in DOMAIN command_queue : command_queue[i] \in Buffers
  BY <1>a
<1>1. CASE UNCHANGED <<agent_buf, command_queue, message, heap, arrived, handled>>
  BY <1>1 DEF CommandOrder, InProcess
<1>2. CASE Incoming_Alloc
  <2>1. PICK b \in Buffers :
          /\ heap[b] = Free /\ agent_buf' = b /\ heap'[b].n = arrived'
          /\ \A c \in Buffers \ {b} : heap'[c] = heap[c]
    BY <1>2, <1>a, AllocEffect
  <2>2. b # message /\ \A i \in DOMAIN command_queue : command_queue[i] # b
    BY <2>1 DEF BufferOwnership, Queued
  <2>3. UNCHANGED <<command_queue, message, handled>> /\ arrived' = arrived + 1
    BY <1>2 DEF Incoming_Alloc
  <2>4. InProcess' = InProcess /\ InProcess \in Nat
    BY <1>a, <1>b, <2>1, <2>2, <2>3 DEF InProcess
  <2>5. \A i \in DOMAIN command_queue : heap'[command_queue[i]] = heap[command_queue[i]]
    BY <1>c, <2>1, <2>2
  <2>6. message # NULL => heap'[message] = heap[message]
    BY <1>a, <2>1, <2>2
  <2> QED BY <1>a, <1>b, <1>c, <2>1, <2>3, <2>4, <2>5, <2>6 DEF CommandOrder
<1>3. CASE Incoming_AllocFails
  <2>1. UNCHANGED <<agent_buf, command_queue, message, heap, handled>> /\ arrived' = arrived + 1
    BY <1>3 DEF Incoming_AllocFails, agentVars
  <2>2. agent_buf = NULL
    BY <1>3 DEF Incoming_AllocFails, AgentInLoop
  <2>3. InProcess' = InProcess /\ InProcess \in Nat
    BY <1>a, <1>b, <2>1 DEF InProcess
  <2> QED BY <1>a, <1>b, <1>c, <2>1, <2>2, <2>3 DEF CommandOrder
<1>4. CASE Incoming_Queued
  <2>1. /\ DOMAIN command_queue = 1 .. Len(command_queue) /\ Len(command_queue) \in Nat
        /\ DOMAIN command_queue' = 1 .. Len(command_queue) + 1
        /\ command_queue'[Len(command_queue) + 1] = agent_buf
        /\ \A i \in DOMAIN command_queue : command_queue'[i] = command_queue[i]
    BY <1>4, <1>a, AppendElements DEF Incoming_Queued, SendToBack
  <2>2. UNCHANGED <<heap, message, handled, arrived>> /\ agent_buf' = NULL /\ agent_buf # NULL
    BY <1>4 DEF Incoming_Queued
  <2>3. InProcess' = InProcess
    BY <2>2 DEF InProcess
  <2>4. \A i \in DOMAIN command_queue' :
          \/ i \in DOMAIN command_queue /\ command_queue'[i] = command_queue[i]
          \/ i = Len(command_queue) + 1 /\ command_queue'[i] = agent_buf
    BY <2>1
  <2> QED BY <1>a, <1>b, <1>c, <2>1, <2>2, <2>3, <2>4 DEF CommandOrder
<1>5. CASE Incoming_Dropped
  <2>1. UNCHANGED <<command_queue, message, handled, arrived>> /\ agent_buf' = NULL
    BY <1>5 DEF Incoming_Dropped
  <2>2. \A c \in Buffers \ {agent_buf} : heap'[c] = heap[c]
    BY <1>5, <1>a DEF Incoming_Dropped, free
  <2>3. \A i \in DOMAIN command_queue : heap'[command_queue[i]] = heap[command_queue[i]]
    BY <1>5, <1>c, <2>2 DEF Incoming_Dropped, BufferOwnership, Queued
  <2>4. message # NULL => heap'[message] = heap[message]
    BY <1>5, <1>a, <2>2 DEF Incoming_Dropped, BufferOwnership
  <2>5. InProcess' = InProcess
    BY <2>1, <2>4 DEF InProcess
  <2> QED BY <2>1, <2>3, <2>4, <2>5 DEF CommandOrder
<1>6. CASE CommandTask_Receive
  <2>1. /\ DOMAIN command_queue = 1 .. Len(command_queue) /\ Len(command_queue) \in Nat
        /\ DOMAIN command_queue' = 1 .. Len(command_queue) - 1
        /\ 1 \in DOMAIN command_queue
        /\ message' = command_queue[1]
        /\ \A i \in DOMAIN command_queue' : command_queue'[i] = command_queue[i + 1]
    BY <1>6, <1>a, TailElements DEF CommandTask_Receive
  <2>2. UNCHANGED <<heap, agent_buf, handled, arrived>> /\ message = NULL
    BY <1>6 DEF CommandTask_Receive, TypeOK, agentVars
  <2>3. InProcess = handled /\ InProcess' = heap[command_queue[1]].n /\ message' # NULL
    BY <1>c, <2>1, <2>2 DEF InProcess
  <2>4. \A i \in DOMAIN command_queue' : i + 1 \in DOMAIN command_queue /\ 1 < i + 1
    BY <2>1
  <2>5. \A i, j \in DOMAIN command_queue' : i < j =>
          heap'[command_queue'[i]].n < heap'[command_queue'[j]].n
    BY <1>a, <2>1, <2>2, <2>4 DEF CommandOrder
  <2>6. \A i \in DOMAIN command_queue' :
          InProcess' < heap'[command_queue'[i]].n /\ heap'[command_queue'[i]].n <= arrived'
    BY <2>1, <2>2, <2>3, <2>4 DEF CommandOrder
  <2>7. handled' < InProcess' /\ InProcess' <= arrived'
    BY <2>1, <2>2, <2>3 DEF CommandOrder
  <2>8. agent_buf' # NULL =>
          /\ heap'[agent_buf'].n = arrived'
          /\ InProcess' < arrived'
          /\ \A i \in DOMAIN command_queue' : heap'[command_queue'[i]].n < arrived'
    BY <2>1, <2>2, <2>3, <2>4 DEF CommandOrder
  <2>9. message' # NULL => InProcess' = heap'[message'].n
    BY DEF InProcess
  <2> QED BY <2>5, <2>6, <2>7, <2>8, <2>9 DEF CommandOrder
<1>7. CASE CommandTask_Free
  <2>1. /\ UNCHANGED <<command_queue, agent_buf, arrived>> /\ message' = NULL
        /\ handled' = heap[message].n /\ message # NULL
    BY <1>7 DEF CommandTask_Free, agentVars, TypeOK
  <2>2. \A c \in Buffers \ {message} : heap'[c] = heap[c]
    BY <1>7, <1>a DEF CommandTask_Free, free
  <2>3. \A i \in DOMAIN command_queue : heap'[command_queue[i]] = heap[command_queue[i]]
    BY <1>c, <2>1, <2>2 DEF BufferOwnership, Queued
  <2>4. agent_buf # NULL => heap'[agent_buf] = heap[agent_buf]
    BY <1>a, <2>1, <2>2 DEF BufferOwnership
  <2>5. InProcess' = InProcess
    BY <2>1 DEF InProcess
  <2> QED BY <2>1, <2>3, <2>4, <2>5 DEF CommandOrder
<1> QED BY <1>1, <1>2, <1>3, <1>4, <1>5, <1>6, <1>7, MessageSteps

(* Messages are processed in the order of arrival and none of them twice.   *)
THEOREM CommandOrderCorrect == Spec => []CommandOrder
<1>1. Init => CommandOrder
  BY DEF Init, CommandOrder, InProcess
<1>2. Spec => []TypeOK
  BY TypeCorrect
<1>3. Spec => []BufferOwnership
  BY OwnershipCorrect
<1>4. TypeOK /\ TypeOK' /\ BufferOwnership /\ CommandOrder /\ [Next]_vars => CommandOrder'
  BY CommandOrderStep
<1> QED BY <1>1, <1>2, <1>3, <1>4, PTL DEF Spec

-----------------------------------------------------------------------------
(***************************************************************************)
(* The outcomes of publishes                                               *)
(***************************************************************************)

(* The steps that touch a publish, and what all the others leave alone.     *)
outcomeVars == <<publish, call, notification, completion, seen, timed_out,
                 agent_queue, agent_command>>

LEMMA OutcomeSteps ==
  ASSUME [Next]_vars
  PROVE  \/ UNCHANGED outcomeVars
         \/ \E t \in Tasks : StateClear(t) /\ UNCHANGED <<agent_queue, agent_command>>
         \/ \E t \in Tasks : PublishStep(t)
         \/ Agent_Take
         \/ Agent_Complete
<1>1. ASSUME NEW t \in Publishers, Publish(t)
      PROVE  t \in Tasks /\ StateClear(t) /\ UNCHANGED <<agent_queue, agent_command>>
  BY <1>1 DEF Publish, agentVars, Tasks
<1>2. CASE Incoming_Alloc \/ Incoming_AllocFails \/ Quiescent \/ UNCHANGED vars
  BY <1>2 DEF Incoming_Alloc, Incoming_AllocFails, Quiescent, vars, publishVars, agentVars,
              outcomeVars
<1>3. CASE IncomingStep
  BY <1>3 DEF IncomingStep, Incoming_Queued, Incoming_Dropped, publishVars, outcomeVars
<1>4. CASE CommandTaskStep
  <2>1. UNCHANGED agentVars
    BY <1>4 DEF CommandTaskStep, CreateCommandTask, CommandTask_Receive,
                CommandTask_ReceiveFails, CommandTask_Process, CommandTask_OtaDownload,
                CommandTask_OtaAck, CommandTask_Free
  <2>2. StateClear(CommandTask) \/ UNCHANGED publishVars
    BY <1>4 DEF CommandTaskStep, CreateCommandTask, CommandTask_Receive,
                CommandTask_ReceiveFails, CommandTask_Process, on_command,
                CommandTask_OtaDownload, CommandTask_OtaAck, CommandTask_Free
  <2> QED BY <2>1, <2>2 DEF agentVars, publishVars, outcomeVars, Tasks
<1> QED BY <1>1, <1>2, <1>3, <1>4 DEF Next

(* OutcomeOrder is not inductive by itself: the command a publish is about  *)
(* to queue must be newer than all the commands the agent has.              *)
ClearedIsNewest ==
  \A t \in Tasks : publish[t] = "cleared" =>
    /\ completion[t] = NoStatus
    /\ notification[t].call < call[t]
    /\ agent_command.task = t /\ agent_command # NoCommand => agent_command.call < call[t]
    /\ \A i \in DOMAIN agent_queue :
         agent_queue[i].task = t => agent_queue[i].call < call[t]

(* Without timeouts the agent has nothing of a task but the command it      *)
(* waits for.                                                               *)
NothingLeftBehind ==
  \A t \in Tasks : ~timed_out[t] =>
    /\ notification[t].pending =>
         publish[t] = "waiting" /\ notification[t].call = call[t]
    /\ agent_command.task = t /\ agent_command # NoCommand =>
         publish[t] = "waiting" /\ agent_command.call = call[t]
    /\ \A i \in DOMAIN agent_queue : agent_queue[i].task = t =>
         publish[t] = "waiting" /\ agent_queue[i].call = call[t]

OutcomeInv ==
  /\ OutcomeOrder
  /\ ClearedIsNewest
  /\ FreshNotification
  /\ NoLostWakeup
  /\ NothingLeftBehind

LEMMA OutcomeTypes ==
  ASSUME TypeOK
  PROVE  /\ agent_queue \in Seq(Command)
         /\ DOMAIN agent_queue = 1 .. Len(agent_queue) /\ Len(agent_queue) \in Nat
         /\ \A i \in DOMAIN agent_queue :
              agent_queue[i].task \in Tasks /\ agent_queue[i].call \in Nat
         /\ agent_command.call \in Nat
         /\ agent_command # NoCommand => agent_command.task \in Tasks
         /\ \A t \in Tasks :
              /\ call[t] \in Nat /\ seen[t] \in Nat
              /\ notification[t] \in Notification
              /\ notification[t].call \in Nat
              /\ notification[t].during \in Nat
              /\ notification[t].pending \in BOOLEAN
<1>1. agent_queue \in Seq(Command)
  BY DEF TypeOK
<1>2. \A i \in DOMAIN agent_queue : agent_queue[i] \in Command
  BY <1>1
<1>3. \A t \in Tasks : notification[t] \in Notification
  BY DEF TypeOK
<1> QED BY <1>1, <1>2, <1>3 DEF TypeOK, Command, NoCommand, Notification

LEMMA StateClearOutcome ==
  ASSUME TypeOK, OutcomeInv, NEW t \in Tasks, StateClear(t),
         UNCHANGED <<agent_queue, agent_command>>
  PROVE  OutcomeInv'
<1>1. /\ notification'[t].pending = FALSE
      /\ \A s \in Tasks :
           /\ s # t => notification'[s] = notification[s]
           /\ notification'[s].call = notification[s].call
  BY ClearPendingEffect DEF StateClear
<1>2. /\ publish'[t] = "cleared" /\ call'[t] = call[t] + 1 /\ completion'[t] = NoStatus
      /\ \A s \in Tasks \ {t} :
           publish'[s] = publish[s] /\ call'[s] = call[s] /\ completion'[s] = completion[s]
      /\ publish[t] = "idle"
      /\ UNCHANGED <<seen, timed_out>>
  BY DEF StateClear, TypeOK
<1>3. OutcomeOrder'
  BY <1>1, <1>2, OutcomeTypes DEF OutcomeInv, OutcomeOrder
<1>4. ClearedIsNewest'
  BY <1>1, <1>2, OutcomeTypes DEF OutcomeInv, OutcomeOrder, ClearedIsNewest
<1>5. FreshNotification'
  BY <1>1, <1>2 DEF OutcomeInv, FreshNotification
<1>6. NoLostWakeup'
  BY <1>1, <1>2 DEF OutcomeInv, NoLostWakeup
<1>7. NothingLeftBehind'
  BY <1>1, <1>2 DEF OutcomeInv, NothingLeftBehind
<1> QED BY <1>3, <1>4, <1>5, <1>6, <1>7 DEF OutcomeInv

LEMMA PublishOutcome ==
  ASSUME TypeOK, OutcomeInv, NEW t \in Tasks, PublishStep(t)
  PROVE  OutcomeInv'
<1>a. /\ publish \in [Tasks -> {"idle", "cleared", "waiting"}]
      /\ seen \in [Tasks -> Nat] /\ timed_out \in [Tasks -> BOOLEAN]
  BY DEF TypeOK
<1>1. CASE Publish_Enqueue(t)
  <2> DEFINE new == [task |-> t, call |-> call[t]]
  <2>1. new \in Command
    BY DEF TypeOK, Command
  <2>2. /\ publish[t] = "cleared" /\ agent_queue' = Append(agent_queue, new)
        /\ publish' = [publish EXCEPT ![t] = "waiting"]
        /\ UNCHANGED <<call, notification, completion, seen, timed_out, agent_command>>
    BY <1>1 DEF Publish_Enqueue
  <2>3. new.task = t /\ new.call = call[t]
    OBVIOUS
  <2> HIDE DEF new
  <2>4. /\ DOMAIN agent_queue' = 1 .. Len(agent_queue) + 1
        /\ agent_queue'[Len(agent_queue) + 1] = new
        /\ \A i \in DOMAIN agent_queue : agent_queue'[i] = agent_queue[i]
    BY <2>1, <2>2, AppendElements, OutcomeTypes
  <2>5. \A i \in DOMAIN agent_queue' :
          \/ i \in DOMAIN agent_queue /\ agent_queue'[i] = agent_queue[i]
          \/ i = Len(agent_queue) + 1 /\ agent_queue'[i].task = t
               /\ agent_queue'[i].call = call[t]
    BY <2>3, <2>4, OutcomeTypes
  <2>6. publish'[t] = "waiting" /\ \A s \in Tasks \ {t} : publish'[s] = publish[s]
    BY <1>a, <2>2
  <2>7. OutcomeOrder'
    <3>1. ASSUME NEW s \in Tasks, NEW i \in DOMAIN agent_queue', agent_queue'[i].task = s
          PROVE  /\ notification[s].call < agent_queue'[i].call
                 /\ agent_queue'[i].call <= call[s]
                 /\ agent_command.task = s => agent_command.call < agent_queue'[i].call
      <4>1. agent_command = NoCommand => agent_command.call = 0
        BY DEF NoCommand
      <4> QED BY <2>2, <2>5, <3>1, <4>1, OutcomeTypes
              DEF OutcomeInv, OutcomeOrder, ClearedIsNewest
    <3>2. ASSUME NEW s \in Tasks, NEW i \in DOMAIN agent_queue', agent_queue'[i].task = s,
                 NEW j \in DOMAIN agent_queue', j < i, agent_queue'[j].task = s
          PROVE  agent_queue'[j].call < agent_queue'[i].call
      <4>1. j \in DOMAIN agent_queue /\ agent_queue'[j] = agent_queue[j]
        BY <2>4, <2>5, <3>2, OutcomeTypes
      <4> QED BY <2>2, <2>5, <3>2, <4>1, OutcomeTypes
              DEF OutcomeInv, OutcomeOrder, ClearedIsNewest
    <3> QED BY <2>2, <3>1, <3>2 DEF OutcomeInv, OutcomeOrder
  <2>8. ClearedIsNewest'
    BY <2>2, <2>5, <2>6, OutcomeTypes DEF OutcomeInv, ClearedIsNewest
  <2>9. FreshNotification' /\ NoLostWakeup'
    BY <2>2, <2>6 DEF OutcomeInv, FreshNotification, NoLostWakeup, ClearedIsNewest
  <2>10. NothingLeftBehind'
    BY <2>2, <2>5, <2>6, OutcomeTypes DEF OutcomeInv, NothingLeftBehind
  <2> QED BY <2>7, <2>8, <2>9, <2>10 DEF OutcomeInv
<1>2. CASE Publish_Refused(t)
  <2>1. /\ publish[t] = "cleared" /\ publish'[t] = "idle"
        /\ \A s \in Tasks \ {t} : publish'[s] = publish[s]
        /\ UNCHANGED <<call, notification, completion, seen, timed_out,
                       agent_queue, agent_command>>
    BY <1>2, <1>a DEF Publish_Refused, agentVars
  <2> QED
    BY <2>1 DEF OutcomeInv, OutcomeOrder, ClearedIsNewest, FreshNotification, NoLostWakeup,
                NothingLeftBehind
<1>3. CASE Publish_Notified(t)
  <2>1. /\ notification'[t].pending = FALSE
        /\ \A s \in Tasks :
             /\ s # t => notification'[s] = notification[s]
             /\ notification'[s].call = notification[s].call
    BY <1>3, ClearPendingEffect DEF Publish_Notified
  <2>2. /\ publish[t] = "waiting" /\ publish'[t] = "idle" /\ notification[t].pending
        /\ seen'[t] = notification[t].call
        /\ \A s \in Tasks \ {t} : publish'[s] = publish[s] /\ seen'[s] = seen[s]
        /\ UNCHANGED <<call, completion, timed_out, agent_queue, agent_command>>
    BY <1>3, <1>a DEF Publish_Notified, agentVars
  <2>3. OutcomeOrder'
    BY <2>1, <2>2, OutcomeTypes DEF OutcomeInv, OutcomeOrder
  <2>4. ClearedIsNewest'
    BY <2>1, <2>2 DEF OutcomeInv, ClearedIsNewest
  <2>5. FreshNotification' /\ NoLostWakeup'
    BY <2>1, <2>2 DEF OutcomeInv, FreshNotification, NoLostWakeup
  <2>6. NothingLeftBehind'
    BY <2>1, <2>2, OutcomeTypes DEF OutcomeInv, OutcomeOrder, NothingLeftBehind
  <2> QED BY <2>3, <2>4, <2>5, <2>6 DEF OutcomeInv
<1>4. CASE Publish_TimedOut(t)
  <2>1. /\ publish[t] = "waiting" /\ publish'[t] = "idle" /\ timed_out'[t]
        /\ \A s \in Tasks \ {t} : publish'[s] = publish[s] /\ timed_out'[s] = timed_out[s]
        /\ UNCHANGED <<call, notification, completion, seen, agent_queue, agent_command>>
    BY <1>4, <1>a DEF Publish_TimedOut, agentVars
  <2> QED
    BY <2>1 DEF OutcomeInv, OutcomeOrder, ClearedIsNewest, FreshNotification, NoLostWakeup,
                NothingLeftBehind
<1> QED BY <1>1, <1>2, <1>3, <1>4 DEF PublishStep

LEMMA TakeOutcome ==
  ASSUME TypeOK, OutcomeInv, Agent_Take
  PROVE  OutcomeInv'
<1>1. /\ DOMAIN agent_queue' = 1 .. Len(agent_queue) - 1
      /\ 1 \in DOMAIN agent_queue
      /\ agent_command' = agent_queue[1]
      /\ \A i \in DOMAIN agent_queue' : agent_queue'[i] = agent_queue[i + 1]
  BY OutcomeTypes, TailElements DEF Agent_Take
<1>2. /\ agent_command = NoCommand
      /\ UNCHANGED <<publish, call, notification, completion, seen, timed_out>>
  BY DEF Agent_Take, AgentInLoop, publishVars
<1>3. \A i \in DOMAIN agent_queue' : i + 1 \in DOMAIN agent_queue /\ 1 < i + 1
  BY <1>1, OutcomeTypes
<1>4. OutcomeOrder'
  <2>1. \A t \in Tasks, i, j \in DOMAIN agent_queue :
          j < i /\ agent_queue[i].task = t /\ agent_queue[j].task = t =>
            agent_queue[j].call < agent_queue[i].call
    BY DEF OutcomeInv, OutcomeOrder
  <2>2. \A t \in Tasks, i \in DOMAIN agent_queue' : agent_queue'[i].task = t =>
          /\ notification[t].call < agent_queue'[i].call
          /\ agent_queue'[i].call <= call[t]
          /\ agent_command'.task = t => agent_command'.call < agent_queue'[i].call
          /\ \A j \in DOMAIN agent_queue' :
               j < i /\ agent_queue'[j].task = t => agent_queue'[j].call < agent_queue'[i].call
    BY <1>1, <1>3, <2>1, OutcomeTypes DEF OutcomeInv, OutcomeOrder
  <2>3. \A t \in Tasks : agent_command'.task = t =>
          notification[t].call < agent_command'.call /\ agent_command'.call <= call[t]
    BY <1>1 DEF OutcomeInv, OutcomeOrder
  <2> QED BY <1>2, <2>2, <2>3 DEF OutcomeInv, OutcomeOrder
<1>5. ClearedIsNewest'
  BY <1>1, <1>2, <1>3 DEF OutcomeInv, ClearedIsNewest
<1>6. FreshNotification' /\ NoLostWakeup'
  BY <1>2 DEF OutcomeInv, FreshNotification, NoLostWakeup
<1>7. NothingLeftBehind'
  BY <1>1, <1>2, <1>3 DEF OutcomeInv, NothingLeftBehind
<1> QED BY <1>4, <1>5, <1>6, <1>7 DEF OutcomeInv

LEMMA CompleteOutcome ==
  ASSUME TypeOK, OutcomeInv, Agent_Complete
  PROVE  OutcomeInv'
<1> DEFINE t == agent_command.task
<1> DEFINE k == agent_command.call
<1>1. agent_command # NoCommand /\ t \in Tasks /\ k \in Nat
  BY OutcomeTypes DEF Agent_Complete
<1>2. PICK status \in Statuses :
        /\ publish_complete_callback(t, status)
        /\ completion' = IF k = call[t] THEN [completion EXCEPT ![t] = status] ELSE completion
  BY DEF Agent_Complete
<1>3. /\ notification'[t] =
           [pending |-> TRUE, value |-> status, call |-> k, during |-> call[t]]
      /\ \A s \in Tasks \ {t} : notification'[s] = notification[s]
  BY <1>1, <1>2 DEF publish_complete_callback, TypeOK
<1>4. /\ \A s \in Tasks : s # t \/ k # call[t] => completion'[s] = completion[s]
      /\ k = call[t] => completion'[t] = status
  BY <1>1, <1>2 DEF TypeOK
<1>5. /\ agent_command' = NoCommand
      /\ UNCHANGED <<publish, call, seen, timed_out, agent_queue>>
  BY DEF Agent_Complete
<1>6. agent_command'.call = 0
  BY <1>5 DEF NoCommand
<1>7. notification[t].call < k /\ k <= call[t] /\ seen[t] < k
  BY <1>1, OutcomeTypes DEF OutcomeInv, OutcomeOrder
<1>8. notification'[t].pending /\ notification'[t].call = k
        /\ notification'[t].value = status /\ notification'[t].during = call[t]
  BY <1>3
<1>9. \A i \in DOMAIN agent_queue : agent_queue[i].task = t => k < agent_queue[i].call
  BY <1>1 DEF OutcomeInv, OutcomeOrder
<1> HIDE DEF t, k
<1>10. OutcomeOrder'
  <2>1. ASSUME NEW s \in Tasks, NEW i \in DOMAIN agent_queue, agent_queue[i].task = s
        PROVE  /\ notification'[s].call < agent_queue[i].call
               /\ agent_queue[i].call <= call[s]
               /\ agent_command'.call < agent_queue[i].call
    <3>1. notification[s].call < agent_queue[i].call /\ agent_queue[i].call <= call[s]
      BY <2>1 DEF OutcomeInv, OutcomeOrder
    <3>2. notification'[s].call = IF s = t THEN k ELSE notification[s].call
      BY <1>3, <1>8
    <3> QED BY <1>6, <1>9, <2>1, <3>1, <3>2, OutcomeTypes
  <2>2. ASSUME NEW s \in Tasks
        PROVE  /\ seen[s] <= notification'[s].call
               /\ notification'[s].pending => seen[s] < notification'[s].call
               /\ notification'[s].call <= call[s]
    BY <1>1, <1>3, <1>7, <1>8, OutcomeTypes DEF OutcomeInv, OutcomeOrder
  <2> QED BY <1>5, <2>1, <2>2 DEF OutcomeInv, OutcomeOrder
<1>11. ClearedIsNewest'
  <2>1. publish[t] = "cleared" => k < call[t]
    BY <1>1 DEF OutcomeInv, ClearedIsNewest, t, k
  <2>2. \A s \in Tasks : publish[s] = "cleared" =>
          completion'[s] = NoStatus /\ notification'[s].call < call[s]
    <3>1. \A s \in Tasks : notification'[s].call = IF s = t THEN k ELSE notification[s].call
      BY <1>3, <1>8
    <3>2. \A s \in Tasks : publish[s] = "cleared" => completion'[s] = completion[s]
      BY <1>4, <1>7, <2>1, OutcomeTypes
    <3> QED BY <2>1, <3>1, <3>2 DEF OutcomeInv, ClearedIsNewest
  <2> QED BY <1>5, <2>2 DEF OutcomeInv, ClearedIsNewest
<1>12. FreshNotification'
  BY <1>3, <1>5, <1>8 DEF OutcomeInv, FreshNotification
<1>13. NoLostWakeup'
  BY <1>1, <1>3, <1>4, <1>5, <1>7, <1>8, OutcomeTypes DEF OutcomeInv, NoLostWakeup
<1>14. NothingLeftBehind'
  <2>1. ~timed_out[t] => publish[t] = "waiting" /\ k = call[t]
    BY <1>1 DEF OutcomeInv, NothingLeftBehind, t, k
  <2> QED BY <1>3, <1>5, <1>8, <2>1 DEF OutcomeInv, NothingLeftBehind
<1> QED BY <1>10, <1>11, <1>12, <1>13, <1>14 DEF OutcomeInv

LEMMA OutcomeStep == TypeOK /\ OutcomeInv /\ [Next]_vars => OutcomeInv'
<1>1. ASSUME UNCHANGED outcomeVars, OutcomeInv PROVE OutcomeInv'
  BY <1>1 DEF outcomeVars, OutcomeInv, OutcomeOrder, ClearedIsNewest, FreshNotification,
              NoLostWakeup, NothingLeftBehind
<1> QED BY <1>1, OutcomeSteps, StateClearOutcome, PublishOutcome, TakeOutcome, CompleteOutcome

LEMMA OutcomeInvCorrect == Spec => []OutcomeInv
<1>1. Init => OutcomeInv
  BY DEF Init, OutcomeInv, OutcomeOrder, ClearedIsNewest, FreshNotification,
         NoLostWakeup, NothingLeftBehind
<1>2. Spec => []TypeOK
  BY TypeCorrect
<1>3. TypeOK /\ OutcomeInv /\ [Next]_vars => OutcomeInv'
  BY OutcomeStep
<1> QED BY <1>1, <1>2, <1>3, PTL DEF Spec

(* A task is told of its commands in order and of none twice.               *)
THEOREM OutcomeOrderCorrect == Spec => []OutcomeOrder
<1>1. OutcomeInv => OutcomeOrder
  BY DEF OutcomeInv
<1> QED BY <1>1, OutcomeInvCorrect, PTL

(* No completion is lost: a waiting task is woken and told the status of    *)
(* its own command, once there is one.                                      *)
THEOREM NoLostWakeupCorrect == Spec => []NoLostWakeup
<1>1. OutcomeInv => NoLostWakeup
  BY DEF OutcomeInv
<1> QED BY <1>1, OutcomeInvCorrect, PTL

(* What wakes a publish was sent while it was under way.                    *)
THEOREM FreshNotificationCorrect == Spec => []FreshNotification
<1>1. OutcomeInv => FreshNotification
  BY DEF OutcomeInv
<1> QED BY <1>1, OutcomeInvCorrect, PTL

(* A task whose publishes have never timed out returns from its wait with   *)
(* the outcome of its own command.                                          *)
THEOREM OwnOutcomeCorrect == Spec => OwnOutcome
<1>1. ASSUME TypeOK, OutcomeInv, [Next]_vars
      PROVE  [\A t \in Tasks :
                publish[t] = "waiting" /\ publish'[t] = "idle" /\ ~timed_out'[t] =>
                  seen'[t] = call[t]]_vars
  <2>1. ASSUME NEW t \in Tasks, publish[t] = "waiting", publish'[t] = "idle", ~timed_out'[t]
        PROVE  seen'[t] = call[t]
    <3>1. \A s \in Tasks : s # t => ~StateClear(s) /\ ~PublishStep(s)
      BY <1>1, <2>1
      DEF StateClear, PublishStep, Publish_Enqueue, Publish_Refused, Publish_Notified,
          Publish_TimedOut, TypeOK
    <3>2. ~UNCHANGED publish /\ ~StateClear(t)
      BY <2>1 DEF StateClear
    <3>3. PublishStep(t)
      BY <1>1, <3>1, <3>2, OutcomeSteps
      DEF outcomeVars, Agent_Take, Agent_Complete, publishVars
    <3>4. ~Publish_TimedOut(t)
      BY <1>1, <2>1 DEF Publish_TimedOut, TypeOK
    <3>5. Publish_Notified(t)
      BY <2>1, <3>3, <3>4 DEF PublishStep, Publish_Enqueue, Publish_Refused
    <3> QED BY <1>1, <2>1, <3>5 DEF Publish_Notified, OutcomeInv, NothingLeftBehind, TypeOK
  <2> QED BY <2>1
<1> QED BY <1>1, TypeCorrect, OutcomeInvCorrect, PTL DEF Spec, OwnOutcome

-----------------------------------------------------------------------------
(***************************************************************************)
(* The implementation of C2dDelivery                                       *)
(***************************************************************************)

(* Waiting, of any queue q, heap h and callback buffer b.                   *)
WaitingOf(q, h, b) ==
  [i \in DOMAIN q |-> h[q[i]].n] \o IF b = NULL THEN << >> ELSE <<h[b].n>>

LEMMA WaitingElements ==
  ASSUME NEW q \in Seq(Buffers), NEW h \in [Buffers -> Message \cup {Free}],
         NEW b \in Buffers \cup {NULL}
  PROVE  /\ WaitingOf(q, h, b) \in Seq(Nat)
         /\ Len(q) \in Nat /\ DOMAIN q = 1 .. Len(q)
         /\ Len(WaitingOf(q, h, b)) = IF b = NULL THEN Len(q) ELSE Len(q) + 1
         /\ \A i \in DOMAIN q : WaitingOf(q, h, b)[i] = h[q[i]].n
         /\ b # NULL => WaitingOf(q, h, b)[Len(q) + 1] = h[b].n
<1> DEFINE nums == [i \in DOMAIN q |-> h[q[i]].n]
<1> DEFINE last == IF b = NULL THEN << >> ELSE <<h[b].n>>
<1>1. \A c \in Buffers : h[c].n \in Nat
  BY DEF Message, Free
<1>2. DOMAIN q = 1 .. Len(q) /\ Len(q) \in Nat /\ \A i \in DOMAIN q : q[i] \in Buffers
  OBVIOUS
<1>3. nums \in Seq(Nat) /\ Len(nums) = Len(q) /\ \A i \in DOMAIN q : nums[i] = h[q[i]].n
  <2>1. nums \in [1 .. Len(q) -> Nat]
    BY <1>1, <1>2
  <2> QED BY <1>2, <2>1
<1>4. /\ last \in Seq(Nat)
      /\ Len(last) = IF b = NULL THEN 0 ELSE 1
      /\ b # NULL => last[1] = h[b].n
  <2>1. CASE b = NULL
    BY <2>1
  <2>2. CASE b # NULL
    BY <1>1, <2>2
  <2> QED BY <2>1, <2>2
<1>5. WaitingOf(q, h, b) = nums \o last
  BY DEF WaitingOf
<1> HIDE DEF nums, last
<1>6. nums \o last \in Seq(Nat) /\ Len(nums \o last) = Len(nums) + Len(last)
        /\ \A i \in 1 .. Len(nums) + Len(last) :
             (nums \o last)[i] = IF i <= Len(nums) THEN nums[i] ELSE last[i - Len(nums)]
  <2>1. nums \in Seq(Nat) /\ last \in Seq(Nat)
    BY <1>3, <1>4
  <2> QED BY <2>1, ConcatProperties
<1>7. \A i \in DOMAIN q : i \in 1 .. Len(nums) + Len(last) /\ i <= Len(nums)
  BY <1>2, <1>3, <1>4
<1>8. b # NULL => /\ Len(q) + 1 \in 1 .. Len(nums) + Len(last)
                  /\ ~(Len(q) + 1 <= Len(nums)) /\ Len(q) + 1 - Len(nums) = 1
  BY <1>2, <1>3, <1>4
<1>9. \A i \in DOMAIN q : (nums \o last)[i] = nums[i]
  BY <1>6, <1>7
<1>10. b # NULL => (nums \o last)[Len(q) + 1] = last[1]
  BY <1>6, <1>8
<1>11. Len(nums \o last) = IF b = NULL THEN Len(q) ELSE Len(q) + 1
  BY <1>2, <1>3, <1>4, <1>6
<1> QED BY <1>2, <1>3, <1>4, <1>5, <1>6, <1>9, <1>10, <1>11

(* The queue is never longer than xQueueCreate made it.                     *)
QueueBound == Len(command_queue) <= QueueLength

LEMMA QueueBoundStep == TypeOK /\ QueueBound /\ [Next]_vars => QueueBound'
<1> SUFFICES ASSUME TypeOK, QueueBound, [Next]_vars PROVE QueueBound'
  OBVIOUS
<1>1. command_queue \in Seq(Buffers) /\ agent_buf \in Buffers \cup {NULL}
  BY DEF TypeOK
<1>2. CASE Incoming_Queued
  BY <1>1, <1>2, AppendElements DEF Incoming_Queued, SendToBack, QueueBound
<1>3. CASE CommandTask_Receive
  BY <1>1, <1>3, TailElements DEF CommandTask_Receive, QueueBound
<1>4. CASE UNCHANGED command_queue
  BY <1>4 DEF QueueBound
<1> QED BY <1>2, <1>3, <1>4, MessageSteps
        DEF Incoming_Alloc, Incoming_AllocFails, Incoming_Dropped, CommandTask_Free

LEMMA C2dSimulation ==
  TypeOK /\ TypeOK' /\ BufferOwnership /\ CommandOrder /\ QueueBound /\ [Next]_vars
    => [C2d!Next]_(C2d!vars)
<1> SUFFICES ASSUME TypeOK, TypeOK', BufferOwnership, CommandOrder, QueueBound, [Next]_vars
             PROVE  C2d!Next \/ UNCHANGED C2d!vars
  OBVIOUS
<1> DEFINE current == IF message = NULL THEN 0 ELSE heap[message].n
<1> DEFINE w == WaitingOf(command_queue, heap, agent_buf)
<1> DEFINE wNext == WaitingOf(command_queue', heap', agent_buf')
<1>a. /\ command_queue \in Seq(Buffers) /\ command_queue' \in Seq(Buffers)
      /\ agent_buf \in Buffers \cup {NULL} /\ agent_buf' \in Buffers \cup {NULL}
      /\ message \in Buffers \cup {NULL}
      /\ heap \in [Buffers -> Message \cup {Free}]
      /\ heap' \in [Buffers -> Message \cup {Free}]
      /\ arrived \in Nat /\ handled \in Nat
  BY DEF TypeOK
<1>b. Waiting = w /\ Waiting' = wNext
  BY DEF Waiting, WaitingOf
<1>c. /\ w \in Seq(Nat)
      /\ Len(command_queue) \in Nat /\ DOMAIN command_queue = 1 .. Len(command_queue)
      /\ Len(w) = IF agent_buf = NULL THEN Len(command_queue) ELSE Len(command_queue) + 1
      /\ \A i \in DOMAIN command_queue : w[i] = heap[command_queue[i]].n
      /\ agent_buf # NULL => w[Len(command_queue) + 1] = heap[agent_buf].n
  BY <1>a, WaitingElements
<1>d. /\ wNext \in Seq(Nat)
      /\ Len(command_queue') \in Nat /\ DOMAIN command_queue' = 1 .. Len(command_queue')
      /\ Len(wNext) =
           IF agent_buf' = NULL THEN Len(command_queue') ELSE Len(command_queue') + 1
      /\ \A i \in DOMAIN command_queue' : wNext[i] = heap'[command_queue'[i]].n
      /\ agent_buf' # NULL => wNext[Len(command_queue') + 1] = heap'[agent_buf'].n
  BY <1>a, WaitingElements
<1>e. \A i \in DOMAIN command_queue : command_queue[i] \in Buffers
  BY <1>a
<1> HIDE DEF w, wNext
<1>1. CASE UNCHANGED <<agent_buf, command_queue, message, heap, arrived, handled>>
  BY <1>1 DEF C2d!vars, Waiting
<1>2. CASE Incoming_Alloc
  <2>1. PICK b \in Buffers :
          /\ heap[b] = Free /\ agent_buf' = b /\ heap'[b].n = arrived'
          /\ \A c \in Buffers \ {b} : heap'[c] = heap[c]
    BY <1>2, <1>a, AllocEffect
  <2>2. /\ UNCHANGED <<command_queue, message, handled>> /\ arrived' = arrived + 1
        /\ agent_buf = NULL
    BY <1>2 DEF Incoming_Alloc, AgentInLoop
  <2>3. b # message /\ \A i \in DOMAIN command_queue : command_queue[i] # b
    BY <2>1 DEF BufferOwnership, Queued
  <2>4. \A i \in DOMAIN command_queue : heap'[command_queue[i]] = heap[command_queue[i]]
    BY <1>e, <2>1, <2>3
  <2>5. current' = current
    BY <1>a, <2>1, <2>2, <2>3
  <2>6. Append(w, arrived') \in Seq(Nat) /\ Len(Append(w, arrived')) = Len(w) + 1
          /\ Append(w, arrived')[Len(w) + 1] = arrived'
          /\ \A i \in DOMAIN w : Append(w, arrived')[i] = w[i]
    BY <1>a, <1>c, <2>2, AppendElements
  <2>7. DOMAIN w = DOMAIN command_queue
    BY <1>c, <2>2
  <2>8. \A i \in 1 .. Len(wNext) : wNext[i] = Append(w, arrived')[i]
    <3>1. \A i \in 1 .. Len(wNext) : i \in DOMAIN command_queue \/ i = Len(command_queue) + 1
      BY <1>a, <1>c, <1>d, <2>1, <2>2
    <3>2. \A i \in DOMAIN command_queue : wNext[i] = w[i] /\ Append(w, arrived')[i] = w[i]
      BY <1>c, <1>d, <2>2, <2>4, <2>6, <2>7
    <3>3. wNext[Len(command_queue) + 1] = arrived'
      BY <1>a, <1>d, <2>1, <2>2
    <3>4. Append(w, arrived')[Len(command_queue) + 1] = arrived'
      BY <1>c, <2>2, <2>6
    <3> QED BY <3>1, <3>2, <3>3, <3>4
  <2>9. Len(wNext) = Len(Append(w, arrived'))
    BY <1>a, <1>c, <1>d, <2>1, <2>2, <2>6
  <2>10. wNext = Append(w, arrived')
    BY <1>d, <2>6, <2>8, <2>9, SeqEqual
  <2> QED BY <1>b, <1>c, <2>2, <2>5, <2>10 DEF C2d!Next, C2d!Arrive, QueueBound
<1>3. CASE Incoming_AllocFails
  BY <1>3 DEF Incoming_AllocFails, agentVars, C2d!Next, C2d!ArriveLost, Waiting
<1>4. CASE Incoming_Queued
  <2>1. /\ Len(command_queue') = Len(command_queue) + 1
        /\ command_queue'[Len(command_queue) + 1] = agent_buf
        /\ \A i \in DOMAIN command_queue : command_queue'[i] = command_queue[i]
    BY <1>4, <1>a, AppendElements DEF Incoming_Queued, SendToBack
  <2>2. /\ UNCHANGED <<heap, message, handled, arrived>>
        /\ agent_buf' = NULL /\ agent_buf # NULL
    BY <1>4 DEF Incoming_Queued
  <2>3. Len(wNext) = Len(w)
    BY <1>c, <1>d, <2>1, <2>2
  <2>4. \A i \in 1 .. Len(w) : wNext[i] = w[i]
    BY <1>c, <1>d, <2>1, <2>2
  <2>5. wNext = w
    BY <1>c, <1>d, <2>3, <2>4, SeqEqual
  <2> QED BY <1>b, <2>2, <2>5 DEF C2d!vars
<1>5. CASE Incoming_Dropped
  <2>1. /\ UNCHANGED <<command_queue, message, handled, arrived>> /\ agent_buf' = NULL
        /\ agent_buf # NULL /\ Len(command_queue) = QueueLength
    BY <1>5 DEF Incoming_Dropped, SendGivesUp
  <2>2. \A c \in Buffers \ {agent_buf} : heap'[c] = heap[c]
    BY <1>5, <1>a DEF Incoming_Dropped, free
  <2>3. \A i \in DOMAIN command_queue : heap'[command_queue[i]] = heap[command_queue[i]]
    BY <1>e, <2>1, <2>2 DEF BufferOwnership, Queued
  <2>4. current' = current
    BY <1>a, <2>1, <2>2 DEF BufferOwnership
  <2>5. /\ SubSeq(w, 1, QueueLength) \in Seq(Nat)
        /\ Len(SubSeq(w, 1, QueueLength)) = QueueLength
        /\ \A i \in 1 .. QueueLength : SubSeq(w, 1, QueueLength)[i] = w[i]
    BY <1>c, <2>1
  <2>6. Len(wNext) = QueueLength
    BY <1>d, <2>1
  <2>7. \A i \in 1 .. QueueLength : wNext[i] = w[i]
    <3>1. \A i \in 1 .. QueueLength : i \in DOMAIN command_queue /\ i \in DOMAIN command_queue'
      BY <1>c, <1>d, <2>1
    <3>2. \A i \in DOMAIN command_queue : w[i] = heap[command_queue[i]].n
      BY <1>c
    <3>3. \A i \in DOMAIN command_queue' : wNext[i] = heap'[command_queue'[i]].n
      BY <1>d
    <3> QED BY <2>1, <2>3, <3>1, <3>2, <3>3
  <2>8. wNext = SubSeq(w, 1, QueueLength)
    BY <1>d, <2>5, <2>6, <2>7, SeqEqual
  <2> QED BY <1>b, <1>c, <2>1, <2>4, <2>8 DEF C2d!Next, C2d!Overflow
<1>6. CASE CommandTask_Receive
  <2>1. /\ Len(command_queue') = Len(command_queue) - 1 /\ 1 <= Len(command_queue)
        /\ DOMAIN command_queue' = 1 .. Len(command_queue) - 1
        /\ message' = command_queue[1]
        /\ \A i \in DOMAIN command_queue' : command_queue'[i] = command_queue[i + 1]
    BY <1>6, <1>a, TailElements DEF CommandTask_Receive
  <2>2. UNCHANGED <<heap, agent_buf, handled, arrived>> /\ message = NULL
    BY <1>6 DEF CommandTask_Receive, TypeOK, agentVars
  <2>3. w # << >> /\ Tail(w) \in Seq(Nat) /\ Len(Tail(w)) = Len(w) - 1 /\ Head(w) = w[1]
          /\ \A i \in 1 .. Len(w) - 1 : Tail(w)[i] = w[i + 1]
    <3>1. Len(w) # 0
      BY <1>c, <2>1
    <3> QED BY <1>c, <3>1, TailElements
  <2>4. Len(wNext) = Len(w) - 1
    <3>1. Len(w) = IF agent_buf = NULL THEN Len(command_queue) ELSE Len(command_queue) + 1
      BY <1>c
    <3>2. Len(wNext) = IF agent_buf = NULL THEN Len(command_queue') ELSE Len(command_queue') + 1
      BY <1>d, <2>2
    <3>3. Len(command_queue) \in Nat
      BY <1>c
    <3> QED BY <2>1, <3>1, <3>2, <3>3
  <2>5. \A i \in 1 .. Len(wNext) : wNext[i] = w[i + 1]
    <3>a. \A i \in DOMAIN command_queue : w[i] = heap[command_queue[i]].n
      BY <1>c
    <3>b. \A i \in DOMAIN command_queue' : wNext[i] = heap'[command_queue'[i]].n
      BY <1>d
    <3>c. \A i \in DOMAIN command_queue' : i + 1 \in DOMAIN command_queue
      <4>1. DOMAIN command_queue = 1 .. Len(command_queue) /\ Len(command_queue) \in Nat
        BY <1>c
      <4> QED BY <2>1, <4>1
    <3>1. \A i \in DOMAIN command_queue' : wNext[i] = w[i + 1]
      BY <2>1, <2>2, <3>a, <3>b, <3>c
    <3>d. Len(command_queue') + 1 + 1 = Len(command_queue) + 1
      BY <1>c, <2>1
    <3>2. agent_buf # NULL =>
            wNext[Len(command_queue') + 1] = w[Len(command_queue') + 1 + 1]
      <4>1. agent_buf # NULL => wNext[Len(command_queue') + 1] = heap[agent_buf].n
        BY <1>d, <2>2
      <4>2. agent_buf # NULL => w[Len(command_queue) + 1] = heap[agent_buf].n
        BY <1>c
      <4> QED BY <3>d, <4>1, <4>2
    <3>3. \A i \in 1 .. Len(wNext) :
            i \in DOMAIN command_queue' \/ (agent_buf # NULL /\ i = Len(command_queue') + 1)
      <4>1. Len(wNext) = IF agent_buf = NULL THEN Len(command_queue')
                         ELSE Len(command_queue') + 1
        BY <1>d, <2>2
      <4>2. Len(command_queue') \in Nat /\ DOMAIN command_queue' = 1 .. Len(command_queue')
        BY <1>d
      <4> QED BY <4>1, <4>2
    <3> QED BY <3>1, <3>2, <3>3
  <2>6. wNext = Tail(w)
    BY <1>d, <2>3, <2>4, <2>5, SeqEqual
  <2>7. current = 0 /\ current' = Head(w)
    <3>1. 1 \in DOMAIN command_queue
      BY <1>c, <2>1
    <3>2. w[1] = heap[command_queue[1]].n /\ command_queue[1] # NULL
      BY <1>c, <1>e, <3>1
    <3> QED BY <2>1, <2>2, <2>3, <3>2
  <2> QED BY <1>b, <2>2, <2>3, <2>6, <2>7 DEF C2d!Next, C2d!Start
<1>7. CASE CommandTask_Free
  <2>1. /\ UNCHANGED <<command_queue, agent_buf, arrived>> /\ message' = NULL
        /\ handled' = heap[message].n /\ message # NULL
    BY <1>7 DEF CommandTask_Free, agentVars, TypeOK
  <2>2. \A c \in Buffers \ {message} : heap'[c] = heap[c]
    BY <1>7, <1>a DEF CommandTask_Free, free
  <2>3. \A i \in DOMAIN command_queue : heap'[command_queue[i]] = heap[command_queue[i]]
    BY <1>e, <2>1, <2>2 DEF BufferOwnership, Queued
  <2>4. agent_buf # NULL => heap'[agent_buf] = heap[agent_buf]
    BY <1>a, <2>1, <2>2 DEF BufferOwnership
  <2>5. Len(wNext) = Len(w) /\ \A i \in 1 .. Len(w) : wNext[i] = w[i]
    BY <1>c, <1>d, <2>1, <2>3, <2>4
  <2>6. wNext = w
    BY <1>c, <1>d, <2>5, SeqEqual
  <2>7. heap[message].n # 0
    BY <1>a, <2>1, HeapNumbers DEF CommandOrder
  <2> QED BY <1>b, <2>1, <2>6, <2>7 DEF C2d!Next, C2d!Finish
<1> QED BY <1>1, <1>2, <1>3, <1>4, <1>5, <1>6, <1>7, MessageSteps

(* The callback, the queue and the command task deliver messages as         *)
(* C2dDelivery promises.                                                    *)
THEOREM DeliveryCorrect == Spec => DeliversInOrder
<1>1. Init => C2d!Init
  BY DEF Init, C2d!Init, Waiting
<1>2. Init => QueueBound
  BY DEF Init, QueueBound
<1>3. TypeOK /\ QueueBound /\ [Next]_vars => QueueBound'
  BY QueueBoundStep
<1>4. TypeOK /\ TypeOK' /\ BufferOwnership /\ CommandOrder /\ QueueBound /\ [Next]_vars
        => [C2d!Next]_(C2d!vars)
  BY C2dSimulation
<1> QED
  BY <1>1, <1>2, <1>3, <1>4, TypeCorrect, OwnershipCorrect, CommandOrderCorrect, PTL
  DEF Spec, DeliversInOrder, C2d!Spec
=============================================================================
