------------------------------ MODULE MqttClient ------------------------------
(***************************************************************************)
(* The MQTT client of the SDK, iotc-freertos-sdk/freertos-layer/           *)
(* iotc_mqtt_client.c, with the command callback of iotconnect_app.c.      *)
(*                                                                         *)
(* Three kinds of FreeRTOS task meet here:                                 *)
(*  - tasks that publish (the application's telemetry loop, and the        *)
(*    command task when it acknowledges a command). A publish hands a      *)
(*    command to the MQTT agent and sleeps on a task notification;         *)
(*  - the MQTT agent task of coreMQTT-Agent. It is not in this repository: *)
(*    it takes commands off its queue, runs publish_complete_callback for  *)
(*    each, and runs incoming_message_callback for every message received; *)
(*  - mqtt_command_task, which takes the received messages off             *)
(*    mqtt_command_queue and processes them.                               *)
(*                                                                         *)
(* The command task waits for the agent (publish) and the agent waits for  *)
(* the command task (a full mqtt_command_queue): timeouts keep the two     *)
(* apart, and they are the reason for most of what can go wrong here.      *)
(*                                                                         *)
(* A definition X_Y just before X is X with a fault of the kind Y in it; the *)
(* properties are tried against them. Next never uses them.                *)
(*                                                                         *)
(* The model starts when iotc_device_client_connect has subscribed to the  *)
(* device's topic and is about to create mqtt_command_task.                *)
(***************************************************************************)
EXTENDS Naturals, Sequences

CONSTANTS
  Publishers,        \* tasks that publish telemetry, the command task aside
  CommandTask,       \* mqtt_command_task
  Buffers,           \* the heap blocks malloc can hand out
  NULL,              \* the null pointer
  QueueLength,       \* MQTT_COMMAND_QUEUE_LENGTH
  AgentQueueLength,  \* MQTT_AGENT_COMMAND_QUEUE_LENGTH
  MaxCalls,          \* bound: publishes started by each task of Publishers
  MaxMessages        \* bound: messages received from the cloud

ASSUME MqttClientAssumption ==
  /\ CommandTask \notin Publishers
  /\ NULL \notin Buffers
  /\ QueueLength \in Nat \ {0}
  /\ AgentQueueLength \in Nat \ {0}
  /\ MaxCalls \in Nat
  /\ MaxMessages \in Nat

VARIABLES
  publish,        \* where each task is in publish_and_wait_for_ack
  call,           \* how many publishes each task has started
  notification,   \* the task notification at MQTT_NOTIFY_IDX of each task
  completion,     \* what the agent made of the command of the latest publish
  returned,       \* what the latest publish of each task returned
  seen,           \* the last command whose completion each task consumed
  timed_out,      \* has a publish of the task ever timed out?
  agent_queue,    \* commands handed to the agent, oldest first
  agent_command,  \* the command the agent is executing
  agent_buf,      \* buf in incoming_message_callback
  command_queue,  \* mqtt_command_queue
  task,           \* where mqtt_command_task is
  message,        \* message in mqtt_command_task
  heap,           \* what each heap block holds
  arrived,        \* how many messages the broker has delivered
  handled,        \* the last message mqtt_command_task is done with
  ack             \* the acknowledgement of the command in process

publishVars == <<publish, call, notification, completion, returned, seen, timed_out>>
agentVars   == <<agent_queue, agent_command, agent_buf>>
commandVars == <<command_queue, task, message, heap, arrived, handled, ack>>
vars        == <<publishVars, agentVars, commandVars>>

Tasks == Publishers \cup {CommandTask}

(* MQTTStatus_t, reduced to success or any error.                          *)
Success  == "MQTTSuccess"
Failure  == "MQTTFailure"
Statuses == {Success, Failure}
NoStatus == "none"

(* What a task was notified of: a status, and (for the properties) of which *)
(* of its calls, and during which.                                          *)
Notification ==
  [pending : BOOLEAN, value : Statuses \cup {NoStatus}, call : Nat, during : Nat]

(* A command in the agent's hands: who published, and which of its calls.  *)
Command   == [task : Tasks, call : Nat]
NoCommand == [task |-> NULL, call |-> 0]

(* A received message: its arrival number, what iotcl_c2d_process_event    *)
(* takes it for, and whether it carries an ack id.                         *)
Types   == {"command", "no_text", "ota", "malformed"}
Message == [n : Nat, type : Types, ack : BOOLEAN]
Free    == [n |-> 0, type |-> "free", ack |-> FALSE]

CommandAck == [n : Nat, err : {0, 1}, code : {"failed", "success"}]
NoAck      == [n |-> 0, err |-> 0, code |-> "none"]

Init ==
  /\ publish       = [t \in Tasks |-> "idle"]
  /\ call          = [t \in Tasks |-> 0]
  /\ notification  = [t \in Tasks |->
                       [pending |-> FALSE, value |-> NoStatus, call |-> 0, during |-> 0]]
  /\ completion    = [t \in Tasks |-> NoStatus]
  /\ returned      = [t \in Tasks |-> NoStatus]
  /\ seen          = [t \in Tasks |-> 0]
  /\ timed_out     = [t \in Tasks |-> FALSE]
  /\ agent_queue   = << >>
  /\ agent_command = NoCommand
  /\ agent_buf     = NULL
  /\ command_queue = << >>
  /\ task          = "absent"
  /\ message       = NULL
  /\ heap          = [b \in Buffers |-> Free]
  /\ arrived       = 0
  /\ handled       = 0
  /\ ack           = NoAck

-----------------------------------------------------------------------------
(***************************************************************************)
(* publish_and_wait_for_ack                                                *)
(***************************************************************************)

(* xTaskNotifyStateClearIndexed, and the end of a wait that was notified.  *)
ClearPending_Forgotten(t) == UNCHANGED notification

ClearPending(t) == notification' = [notification EXCEPT ![t].pending = FALSE]

(* Clearing the notification state: what an earlier publish was notified   *)
(* of and did not wait for is forgotten. The command the agent will get    *)
(* carries the task's handle and nothing that tells one call from another. *)
StateClear(t) ==
  /\ publish[t] = "idle"
  /\ publish'    = [publish EXCEPT ![t] = "cleared"]
  /\ call'       = [call EXCEPT ![t] = @ + 1]
  /\ ClearPending(t)
  /\ completion' = [completion EXCEPT ![t] = NoStatus]
  /\ UNCHANGED <<returned, seen, timed_out>>

(* A task of the application publishes telemetry.                          *)
Publish(t) ==
  /\ call[t] < MaxCalls
  /\ StateClear(t)
  /\ UNCHANGED <<agentVars, commandVars>>

(* MQTTAgent_Publish finds room in the agent's queue in time: the task goes *)
(* on to wait.                                                              *)
Publish_Enqueue(t) ==
  /\ publish[t] = "cleared"
  /\ Len(agent_queue) < AgentQueueLength
  /\ agent_queue' = Append(agent_queue, [task |-> t, call |-> call[t]])
  /\ publish' = [publish EXCEPT ![t] = "waiting"]
  /\ UNCHANGED <<call, notification, completion, returned, seen, timed_out,
                 agent_command, agent_buf, commandVars>>

(* MQTTAgent_Publish fails: no room or no free command context for         *)
(* MQTT_PUBLISH_BLOCK_TIME_MS, or the agent rejects the parameters.        *)
Publish_Refused(t) ==
  /\ publish[t] = "cleared"
  /\ publish'  = [publish EXCEPT ![t] = "idle"]
  /\ returned' = [returned EXCEPT ![t] = Failure]
  /\ UNCHANGED <<call, notification, completion, seen, timed_out, agentVars, commandVars>>

(* xTaskNotifyWaitIndexed returns with a notification, one that came before *)
(* the wait included. The value is all the task is told.                    *)
Publish_Notified(t) ==
  /\ publish[t] = "waiting"
  /\ notification[t].pending
  /\ publish'  = [publish EXCEPT ![t] = "idle"]
  /\ ClearPending(t)
  /\ returned' = [returned EXCEPT ![t] = notification[t].value]
  /\ seen'     = [seen EXCEPT ![t] = notification[t].call]
  /\ UNCHANGED <<call, completion, timed_out, agentVars, commandVars>>

(* MQTT_PUBLISH_NOTIFICATION_WAIT_MS pass without one. The error is logged  *)
(* and xStatus is returned as MQTTAgent_Publish left it.                    *)
Publish_TimedOut_Never(t) == FALSE

Publish_TimedOut(t) ==
  /\ publish[t] = "waiting"
  /\ ~notification[t].pending
  /\ publish'  = [publish EXCEPT ![t] = "idle"]
  /\ returned' = [returned EXCEPT ![t] = Success]
  /\ timed_out' = [timed_out EXCEPT ![t] = TRUE]
  /\ UNCHANGED <<call, notification, completion, seen, agentVars, commandVars>>

-----------------------------------------------------------------------------
(***************************************************************************)
(* The agent task                                                          *)
(***************************************************************************)
AgentInLoop == agent_command = NoCommand /\ agent_buf = NULL

Agent_Take ==
  /\ AgentInLoop
  /\ agent_queue # << >>
  /\ agent_command' = Head(agent_queue)
  /\ agent_queue'   = Tail(agent_queue)
  /\ UNCHANGED <<publishVars, agent_buf, commandVars>>

(* publish_complete_callback on the agent's task: the publisher's           *)
(* notification value is overwritten with the return code.                  *)
publish_complete_callback_NoOverwrite(t, status) ==
  IF notification[t].pending THEN UNCHANGED notification
  ELSE notification' = [notification EXCEPT ![t] =
         [pending |-> TRUE, value |-> status, call |-> agent_command.call, during |-> call[t]]]

publish_complete_callback(t, status) ==
  notification' = [notification EXCEPT ![t] =
    [pending |-> TRUE, value |-> status, call |-> agent_command.call, during |-> call[t]]]

(* The command ends: the PUBLISH was sent, sending failed, or the agent     *)
(* cancelled it because the connection was lost.                            *)
Agent_Complete ==
  /\ agent_command # NoCommand
  /\ \E status \in Statuses :
       LET t == agent_command.task IN
       /\ publish_complete_callback(t, status)
       /\ completion' = IF agent_command.call = call[t]
                        THEN [completion EXCEPT ![t] = status]
                        ELSE completion
  /\ agent_command' = NoCommand
  /\ UNCHANGED <<publish, call, returned, seen, timed_out,
                 agent_queue, agent_buf, commandVars>>

(* incoming_message_callback copies the payload into a fresh block. One of  *)
(* MQTT_PAYLOAD_BUFFER_LENGTH bytes or more loses its tail, and with it the *)
(* end of its JSON text. No ack id is read from a malformed one.            *)
Incoming_Alloc ==
  /\ AgentInLoop
  /\ arrived < MaxMessages
  /\ arrived' = arrived + 1
  /\ \E b \in Buffers, payload \in Types, fits \in BOOLEAN, hasAck \in BOOLEAN :
       LET type == IF fits THEN payload ELSE "malformed" IN
       /\ heap[b] = Free
       /\ agent_buf' = b
       /\ heap' = [heap EXCEPT ![b] =
            [n |-> arrived', type |-> type, ack |-> hasAck /\ type # "malformed"]]
  /\ UNCHANGED <<publishVars, agent_queue, agent_command,
                 command_queue, task, message, handled, ack>>

(* malloc returns NULL: the message is lost.                                *)
Incoming_AllocFails ==
  /\ AgentInLoop
  /\ arrived < MaxMessages
  /\ arrived' = arrived + 1
  /\ UNCHANGED <<publishVars, agentVars, command_queue, task, message, heap, handled, ack>>

(* xQueueSendToBack finds room before MQTT_COMMAND_QUEUE_TIMEOUT_MS pass ... *)
SendToBack_Front(q, b) == <<b>> \o q

SendToBack(q, b) == Append(q, b)

Incoming_Queued ==
  /\ agent_buf # NULL
  /\ Len(command_queue) < QueueLength
  /\ command_queue' = SendToBack(command_queue, agent_buf)
  /\ agent_buf' = NULL
  /\ UNCHANGED <<publishVars, agent_queue, agent_command,
                 task, message, heap, arrived, handled, ack>>

(* ... or it gives up, and the message is lost.                             *)
free_Leak(b) == UNCHANGED heap

free(b) == heap' = [heap EXCEPT ![b] = Free]

SendGivesUp_Early == TRUE

SendGivesUp_Never == FALSE

SendGivesUp == Len(command_queue) = QueueLength

Incoming_Dropped ==
  /\ agent_buf # NULL
  /\ SendGivesUp
  /\ free(agent_buf)
  /\ agent_buf' = NULL
  /\ UNCHANGED <<publishVars, agent_queue, agent_command,
                 command_queue, task, message, arrived, handled, ack>>

-----------------------------------------------------------------------------
(***************************************************************************)
(* mqtt_command_task                                                       *)
(***************************************************************************)

(* The end of iotc_device_client_connect: xTaskCreate succeeds or fails.    *)
(* Messages have been arriving since the subscription, whichever it is.     *)
CreateCommandTask ==
  /\ task = "absent"
  /\ task' \in {"receive", "deleted"}
  /\ UNCHANGED <<publishVars, agentVars,
                 command_queue, message, heap, arrived, handled, ack>>

CommandTask_Receive ==
  /\ task = "receive"
  /\ command_queue # << >>
  /\ message'       = Head(command_queue)
  /\ command_queue' = Tail(command_queue)
  /\ task' = "process"
  /\ UNCHANGED <<publishVars, agentVars, heap, arrived, handled, ack>>

(* xQueueReceive gives up: the loop is left and the task deletes itself.    *)
CommandTask_ReceiveFails ==
  /\ task = "receive"
  /\ command_queue = << >>
  /\ task' = "deleted"
  /\ UNCHANGED <<publishVars, agentVars,
                 command_queue, message, heap, arrived, handled, ack>>

(* on_command picks the acknowledgement from what iotc_process_cmd_str      *)
(* returned.                                                                *)
AckCode_Missing(err) == IF err = 0 THEN "failed" ELSE NoStatus

AckCode(err) == IF err = 0 THEN "failed" ELSE "success"

(* on_command: the command is carried out (iotc_process_cmd_str is weak, a  *)
(* board's own version may return an error), and if the message has an ack  *)
(* id an acknowledgement is published from this task. A message without     *)
(* command text is acknowledged as failed.                                  *)
on_command(m) ==
  \E err \in {0, 1} :
    IF m.ack
    THEN /\ StateClear(CommandTask)
         /\ ack' = IF m.type = "command"
                   THEN [n |-> m.n, err |-> err, code |-> AckCode(err)]
                   ELSE [n |-> m.n, err |-> 1, code |-> "failed"]
    ELSE UNCHANGED <<publishVars, ack>>

(* iotcl_c2d_process_event on a message that is not an OTA request.         *)
CommandTask_Process ==
  /\ task = "process"
  /\ LET m == heap[message] IN
     \/ m.type \in {"command", "no_text"} /\ on_command(m)
     \/ m.type = "malformed" /\ UNCHANGED <<publishVars, ack>>
  /\ task' = "finish"
  /\ UNCHANGED <<agentVars, command_queue, message, heap, arrived, handled>>

(* on_ota downloads the image here, on the command task, however long that  *)
(* takes ...                                                                *)
CommandTask_OtaDownload ==
  /\ task = "process"
  /\ heap[message].type = "ota"
  /\ task' = "ota"
  /\ UNCHANGED <<publishVars, agentVars,
                 command_queue, message, heap, arrived, handled, ack>>

(* ... and then publishes its acknowledgement; without an ack id the library *)
(* may refuse to build one.                                                  *)
CommandTask_OtaAck ==
  /\ task = "ota"
  /\ \/ StateClear(CommandTask)
     \/ ~heap[message].ack /\ UNCHANGED publishVars
  /\ task' = "finish"
  /\ UNCHANGED <<agentVars, command_queue, message, heap, arrived, handled, ack>>

(* Processing has returned, with its publish if it made one: free(message).  *)
CommandTask_Free ==
  /\ task = "finish"
  /\ publish[CommandTask] = "idle"
  /\ free(message)
  /\ handled' = heap[message].n
  /\ message' = NULL
  /\ task'    = "receive"
  /\ ack'     = NoAck
  /\ UNCHANGED <<publishVars, agentVars, command_queue, arrived>>

-----------------------------------------------------------------------------
(* Nothing is left to do within the bounds: the tasks sleep.                *)
Quiescent ==
  /\ arrived = MaxMessages
  /\ \A t \in Publishers : call[t] = MaxCalls
  /\ \A t \in Tasks : publish[t] = "idle"
  /\ AgentInLoop /\ agent_queue = << >>
  /\ task = "deleted" \/ (task = "receive" /\ command_queue = << >>)
  /\ UNCHANGED vars

PublishStep(t) ==
  Publish_Enqueue(t) \/ Publish_Refused(t) \/ Publish_Notified(t) \/ Publish_TimedOut(t)

IncomingStep == Incoming_Queued \/ Incoming_Dropped

CommandTaskStep ==
  \/ CreateCommandTask
  \/ CommandTask_Receive
  \/ CommandTask_ReceiveFails
  \/ CommandTask_Process
  \/ CommandTask_OtaDownload
  \/ CommandTask_OtaAck
  \/ CommandTask_Free

Next ==
  \/ \E t \in Publishers : Publish(t)
  \/ \E t \in Tasks : PublishStep(t)
  \/ Agent_Take
  \/ Agent_Complete
  \/ Incoming_Alloc
  \/ Incoming_AllocFails
  \/ IncomingStep
  \/ CommandTaskStep
  \/ Quiescent

Spec == Init /\ [][Next]_vars

(* FreeRTOS runs every ready task in the end and every timed wait ends. The  *)
(* broker owes no messages, the application no telemetry, and whether the    *)
(* agent gets through its commands is up to the network: nothing is assumed  *)
(* of Agent_Take and Agent_Complete.                                         *)
TaskFairness ==
  /\ \A t \in Tasks : WF_vars(PublishStep(t))
  /\ WF_vars(IncomingStep)
  /\ WF_vars(CommandTaskStep)

FairSpec == Spec /\ TaskFairness

-----------------------------------------------------------------------------
(***************************************************************************)
(* Properties                                                              *)
(***************************************************************************)

(* The types of the variables, and that each call of a handler holds what  *)
(* it works on: a command context, a block, a message.                     *)
TypeOK ==
  /\ publish \in [Tasks -> {"idle", "cleared", "waiting"}]
  /\ call \in [Tasks -> Nat]
  /\ notification \in [Tasks -> Notification]
  /\ completion \in [Tasks -> Statuses \cup {NoStatus}]
  /\ returned \in [Tasks -> Statuses \cup {NoStatus}]
  /\ seen \in [Tasks -> Nat]
  /\ timed_out \in [Tasks -> BOOLEAN]
  /\ agent_queue \in Seq(Command)
  /\ agent_command \in Command \cup {NoCommand}
  /\ agent_buf \in Buffers \cup {NULL}
  /\ command_queue \in Seq(Buffers)
  /\ task \in {"absent", "receive", "process", "ota", "finish", "deleted"}
  /\ message \in Buffers \cup {NULL}
  /\ message # NULL <=> task \in {"process", "ota", "finish"}
  /\ heap \in [Buffers -> Message \cup {Free}]
  /\ arrived \in Nat
  /\ handled \in Nat
  /\ ack \in CommandAck \cup {NoAck}

(* Every allocated block is held in exactly one place: by the callback, in  *)
(* one slot of the queue, or by the command task. None leaks when the queue *)
(* is full, none is freed while somebody still reads it, none is freed twice. *)
Queued == {command_queue[i] : i \in DOMAIN command_queue}

BufferOwnership ==
  /\ \A b \in Buffers : heap[b] # Free <=> b \in Queued \cup {agent_buf, message}
  /\ \A i, j \in DOMAIN command_queue : command_queue[i] = command_queue[j] => i = j
  /\ agent_buf # NULL => agent_buf \notin Queued \cup {message}
  /\ message \notin Queued

(* Messages are processed in the order of their arrival, each at most once: *)
(* past the last one handled come the one in process, those in the queue    *)
(* and the one in the agent's callback, in this order.                      *)
InProcess == IF message = NULL THEN handled ELSE heap[message].n

CommandOrder ==
  /\ message # NULL => handled < heap[message].n
  /\ InProcess <= arrived
  /\ \A i \in DOMAIN command_queue :
       InProcess < heap[command_queue[i]].n /\ heap[command_queue[i]].n <= arrived
  /\ \A i, j \in DOMAIN command_queue :
       i < j => heap[command_queue[i]].n < heap[command_queue[j]].n
  /\ agent_buf # NULL =>
       /\ heap[agent_buf].n = arrived
       /\ InProcess < arrived
       /\ \A i \in DOMAIN command_queue : heap[command_queue[i]].n < arrived

(* The callback, the queue and the command task together deliver messages as *)
(* C2dDelivery promises: what the queue and then the callback hold waits.     *)
Waiting ==
  [i \in DOMAIN command_queue |-> heap[command_queue[i]].n]
    \o IF agent_buf = NULL THEN << >> ELSE <<heap[agent_buf].n>>

C2d == INSTANCE C2dDelivery WITH
  Capacity <- QueueLength,
  last     <- arrived,
  waiting  <- Waiting,
  current  <- IF message = NULL THEN 0 ELSE heap[message].n,
  done     <- handled

DeliversInOrder == C2d!Spec

(* What a publish is woken by was sent while this publish was under way:    *)
(* clearing the notification state makes it forget what an earlier one left. *)
FreshNotification ==
  \A t \in Tasks :
    publish[t] # "idle" /\ notification[t].pending => notification[t].during = call[t]

(* Once the agent is done with the command a task waits for, the task will  *)
(* be woken and told that command's status: no later callback has replaced  *)
(* it and nobody has consumed it.                                           *)
NoLostWakeup ==
  \A t \in Tasks :
    publish[t] = "waiting" /\ completion[t] # NoStatus =>
      /\ notification[t].pending
      /\ notification[t].call = call[t]
      /\ notification[t].value = completion[t]

(* A task is told of its commands in the order it published them and of     *)
(* none of them twice, whichever of its publishes gave up waiting.          *)
OutcomeOrder ==
  \A t \in Tasks :
    /\ seen[t] <= notification[t].call
    /\ notification[t].pending => seen[t] < notification[t].call
    /\ notification[t].call <= call[t]
    /\ agent_command.task = t /\ agent_command # NoCommand =>
         notification[t].call < agent_command.call /\ agent_command.call <= call[t]
    /\ \A i \in DOMAIN agent_queue : agent_queue[i].task = t =>
         /\ notification[t].call < agent_queue[i].call
         /\ agent_queue[i].call <= call[t]
         /\ agent_command.task = t => agent_command.call < agent_queue[i].call
         /\ \A j \in DOMAIN agent_queue :
              j < i /\ agent_queue[j].task = t => agent_queue[j].call < agent_queue[i].call

(* As long as no publish of a task has timed out, each of them that waits   *)
(* returns with the completion of its own command.                          *)
OwnOutcome ==
  [][\A t \in Tasks :
       publish[t] = "waiting" /\ publish'[t] = "idle" /\ ~timed_out'[t] =>
         seen'[t] = call[t]]_vars

(* Every publish returns, even while the agent is stuck in a command and    *)
(* its queue is full: a task that reports to the cloud is never held up.    *)
PublishReturns == \A t \in Tasks : publish[t] # "idle" ~> publish[t] = "idle"

(* The callback lets go of the agent, even if nobody empties the queue.     *)
CallbackReturns == agent_buf # NULL ~> agent_buf = NULL

(* While mqtt_command_task lives, what is in its queue gets processed: its  *)
(* own publishes, malformed messages and downloads do not stop it.          *)
QueuedHandled ==
  \A b \in Buffers :
    b \in Queued /\ task \notin {"absent", "deleted"} ~> b \notin Queued /\ message # b

(* "This publishes a message and waits for an acknowledgement"              *)
(* (iotc_mqtt_client.c:159): a publish that returns success has been        *)
(* acknowledged as sent by the agent.                                       *)
SuccessIsAcknowledged ==
  \A t \in Tasks :
    publish[t] = "idle" /\ returned[t] = Success => completion[t] = Success

(* "... so the receiving task can check the value it set in the context     *)
(* matches the value it receives in the notification"                       *)
(* (iotc_mqtt_client.c:224): a publish takes no other command's outcome for *)
(* its own.                                                                 *)
OutcomeMatchesCall ==
  [][\A t \in Tasks : seen'[t] # seen[t] => seen'[t] = call[t]]_vars

(* "TODO: command_status(data, true, command, "OK")" in the branches of     *)
(* iotc_process_cmd_str that return 0 (iotconnect_app.c:222): a command     *)
(* carried out without error is acknowledged as a success.                  *)
CommandStatusReported == ack.n # 0 /\ ack.err = 0 => ack.code = "success"
=============================================================================
