------------------------------- MODULE SdkInit -------------------------------
(***************************************************************************)
(* How the SDK starts: the application task runs iotconnect_app, which     *)
(* calls iotconnect_sdk_init, which asks two web services for the MQTT     *)
(* configuration (run_http_identity, iotc_send_http_request) unless the    *)
(* build has its own, and then connects (iotc_device_client_connect).      *)
(*                                                                         *)
(* Each step may fail. What the functions pass on stays behind in          *)
(* variables, and the agent task runs beside the application once it has   *)
(* been created. The agent and the library that parses the answers are not *)
(* in the repository: each may do whatever the code allows for. Once       *)
(* iotconnect_sdk_init has returned, the application sends telemetry,      *)
(* whatever it returned; how a publish goes is MqttClient's.               *)
(*                                                                         *)
(* A definition X_Y just before X is X with a fault of the kind Y in it;   *)
(* the properties are tried against them. Next never uses them.            *)
(***************************************************************************)
EXTENDS Naturals

CONSTANT MaxSubscribe  \* attempts to subscribe, 20 in the code

ASSUME SdkAssumption == MaxSubscribe \in Nat \ {0}

VARIABLES
  platform,      \* CS_IOTC_PLATFORM
  custom,        \* was the build made without IOTCONFIG_USE_DISCOVERY_SYNC?
  pc,            \* where the application task is
  result,        \* what iotconnect_sdk_init returned
  request,       \* the service that is being asked
  data,          \* http_response.data: whose body it points to
  heap,          \* what the SDK allocated, what for, and has not freed
  host,          \* where the MQTT host comes from
  username,      \* is there a user name for MQTT?
  agent,         \* where the agent task is
  queue,         \* does mqtt_command_queue exist?
  handle,        \* is xMQTTAgentHandle set?
  retries,       \* attempts to subscribe
  listening,     \* may the agent call incoming_message_callback?
  command_task,  \* does mqtt_command_task exist?
  misled         \* history: was a parser given something else than the body it wants?

buildVars   == <<platform, custom>>
requestVars == <<request, data, heap, misled>>
mqttVars    == <<host, username>>
connectVars == <<queue, handle, retries, command_task>>
agentVars   == <<agent, listening>>
vars        == <<buildVars, pc, result, requestVars, mqttVars, connectVars, agentVars>>

Init ==
  /\ platform \in {"aws", "azure", "other"}
  /\ custom \in BOOLEAN
  /\ pc           = "start"
  /\ result       = "none"
  /\ request      = "discovery"
  /\ data         = "unassigned"
  /\ heap         = {}
  /\ host         = "none"
  /\ username     = FALSE
  /\ agent        = "absent"
  /\ queue        = FALSE
  /\ handle       = FALSE
  /\ retries      = 0
  /\ listening    = FALSE
  /\ command_task = FALSE
  /\ misled       = FALSE

-----------------------------------------------------------------------------
(***************************************************************************)
(* iotconnect_app and iotconnect_sdk_init                                  *)
(***************************************************************************)

(* iotconnect_sdk_init returns; the application looks at the result no more *)
(* than the telemetry loop that follows.                                    *)
Return(outcome) ==
  /\ result' = outcome
  /\ pc' = "telemetry"

(* A setting is missing or there is no memory for the message buffer; or    *)
(* the network comes up and iotconnect_sdk_init is called.                  *)
App_Start ==
  /\ pc = "start"
  /\ pc' \in {"deleted", "sdk_init"}
  /\ UNCHANGED <<buildVars, result, requestVars, mqttVars, connectVars, agentVars>>

(* No connection type, or the library does not initialise. It has no host   *)
(* and no user name until it is configured.                                 *)
SdkInit_Fails ==
  /\ pc = "sdk_init"
  /\ Return("failed")
  /\ UNCHANGED <<buildVars, requestVars, mqttVars, connectVars, agentVars>>

SdkInit ==
  /\ pc = "sdk_init"
  /\ platform # "other"
  /\ pc' = IF custom THEN "custom" ELSE "identity"
  /\ UNCHANGED <<buildVars, result, requestVars, mqttVars, connectVars, agentVars>>

Block(kind, for) == [kind |-> kind, for |-> for]

(* The build's own host, and a topic made from the client's name, in a      *)
(* block that client_config keeps, whatever comes of the connecting.        *)
CustomTopic ==
  /\ pc = "custom"
  /\ heap' = heap \union {Block("c2d_topic", "custom")}
  /\ host' = "custom"
  /\ pc' = "connect"
  /\ UNCHANGED <<buildVars, result, request, data, misled, username, connectVars, agentVars>>

CustomTopic_Fails ==
  /\ pc = "custom"
  /\ Return("failed")
  /\ UNCHANGED <<buildVars, requestVars, mqttVars, connectVars, agentVars>>

(* The telemetry loop ends when it receives data of no bytes.               *)
App_Ends ==
  /\ pc = "telemetry"
  /\ pc' = "ended"
  /\ UNCHANGED <<buildVars, result, requestVars, mqttVars, connectVars, agentVars>>

(* Data comes in. The message for it is created first, and is lost if the   *)
(* size of the data turns out to be wrong.                                  *)
Telemetry_Create ==
  /\ pc = "telemetry"
  /\ \/ /\ heap' = heap \union {Block("message", "right_size")}
        /\ pc' = "publish"
     \/ /\ heap' = heap \union {Block("message", "wrong_size")}
        /\ UNCHANGED pc
  /\ UNCHANGED <<buildVars, result, request, data, misled, mqttVars, connectVars, agentVars>>

(* It is published, or not, with whatever handle there is, and destroyed.   *)
Telemetry_Send ==
  /\ pc = "publish"
  /\ heap' = heap \ {Block("message", "right_size")}
  /\ pc' = "telemetry"
  /\ UNCHANGED <<buildVars, result, request, data, misled, mqttVars, connectVars, agentVars>>

-----------------------------------------------------------------------------
(***************************************************************************)
(* run_http_identity                                                       *)
(***************************************************************************)

(* No response buffer, or no URL for the discovery; the buffer is freed.    *)
Identity_Fails ==
  /\ pc = "identity"
  /\ Return("failed")
  /\ UNCHANGED <<buildVars, requestVars, mqttVars, connectVars, agentVars>>

Identity_Discover ==
  /\ pc = "identity"
  /\ heap' = heap \union {Block("response_buffer", "discovery"), Block("url", "discovery")}
  /\ request' = "discovery"
  /\ data' = "unassigned"
  /\ pc' = "transport"
  /\ UNCHANGED <<buildVars, result, misled, mqttVars, connectVars, agentVars>>

(* What a parser makes of data: a body of its own may be good or bad,       *)
(* nothing is bad, and anything else is read as if it were the body.        *)
Parsed == {good \in BOOLEAN : good => data # "null"}

Parse_Discovery ==
  /\ pc = "answered"
  /\ request = "discovery"
  /\ misled' = (misled \/ data \notin {"discovery", "null"})
  /\ \E good \in Parsed :
       IF good
       THEN /\ heap' = heap \union {Block("url", "identity")}
            /\ request' = "identity"
            /\ pc' = "transport"
       ELSE /\ pc' = "freeing"
            /\ UNCHANGED <<heap, request>>
  /\ UNCHANGED <<buildVars, result, data, mqttVars, connectVars, agentVars>>

(* The identity brings host and user name; the latter is dropped for AWS.   *)
UsernameKept_Always(name) == name

UsernameKept(name) == name /\ platform # "aws"

Parse_Identity ==
  /\ pc = "answered"
  /\ request = "identity"
  /\ misled' = (misled \/ data \notin {"identity", "null"})
  /\ \E good \in Parsed, name \in BOOLEAN :
       IF good
       THEN /\ host' = data
            /\ username' = UsernameKept(name)
       ELSE UNCHANGED mqttVars
  /\ pc' = "freeing"
  /\ UNCHANGED <<buildVars, result, request, data, heap, connectVars, agentVars>>

(* Whatever came of it, the URLs and the buffer are freed and 0 returned.   *)
Identity_Returns ==
  /\ pc = "freeing"
  /\ heap' = {block \in heap : block.kind \notin {"response_buffer", "url"}}
  /\ pc' = "connect"
  /\ UNCHANGED <<buildVars, result, request, data, misled, mqttVars, connectVars, agentVars>>

-----------------------------------------------------------------------------
(***************************************************************************)
(* iotc_send_http_request. Its result is not looked at.                    *)
(***************************************************************************)
(* configure_transport; without a transport data is not assigned.           *)
Http_Transport ==
  /\ pc = "transport"
  /\ \/ pc' = "answered" /\ UNCHANGED heap
     \/ pc' = "https_connect" /\ heap' = heap \union {Block("transport", request)}
  /\ UNCHANGED <<buildVars, result, request, data, misled, mqttVars, connectVars, agentVars>>

(* The server is not reached: data is not assigned either.                  *)
Http_ConnectFails_Leak ==
  /\ pc = "https_connect"
  /\ pc' = "answered"
  /\ UNCHANGED <<buildVars, result, requestVars, mqttVars, connectVars, agentVars>>

Http_ConnectFails ==
  /\ pc = "https_connect"
  /\ heap' = heap \ {Block("transport", request)}
  /\ pc' = "answered"
  /\ UNCHANGED <<buildVars, result, request, data, misled, mqttVars, connectVars, agentVars>>

(* An answer, with any status, or none, in a buffer that is never freed; or *)
(* there was no memory for the buffer.                                      *)
Http_Send ==
  /\ pc = "https_connect"
  /\ \/ /\ data' \in {request, "null"}
        /\ heap' = (heap \ {Block("transport", request)}) \union {Block("https_buffer", request)}
     \/ /\ data' = "null"
        /\ heap' = heap \ {Block("transport", request)}
  /\ pc' = "answered"
  /\ UNCHANGED <<buildVars, result, request, misled, mqttVars, connectVars, agentVars>>
-----------------------------------------------------------------------------
(***************************************************************************)
(* iotc_device_client_connect                                              *)
(***************************************************************************)

(* The first statement asserts that xResult is MQTTSuccess, before anything *)
(* was assigned to it: the assertion fails, or not.                         *)
Connect_Halts ==
  /\ pc = "connect"
  /\ pc' = "halted"
  /\ UNCHANGED <<buildVars, result, requestVars, mqttVars, connectVars, agentVars>>

(* Bad inputs are screened: no host, or no user name for Azure.             *)
Screened_NoHost == platform = "azure" => username

Screened == host # "none" /\ (platform = "azure" => username)

(* The inputs are bad, or the agent task is not created.                    *)
Connect_Fails ==
  /\ pc = "connect"
  /\ Return("failed")
  /\ UNCHANGED <<buildVars, requestVars, mqttVars, connectVars, agentVars>>

Connect_Agent ==
  /\ pc = "connect"
  /\ Screened
  /\ agent' = "started"
  /\ pc' = "queue"
  /\ UNCHANGED <<buildVars, result, requestVars, mqttVars, connectVars, listening>>

(* The agent runs already when the queue is created, or is not.             *)
Connect_NoQueue_Unchecked ==
  /\ pc = "queue"
  /\ pc' = "ready"
  /\ UNCHANGED <<buildVars, result, requestVars, mqttVars, connectVars, agentVars>>

Connect_NoQueue ==
  /\ pc = "queue"
  /\ Return("failed")
  /\ UNCHANGED <<buildVars, requestVars, mqttVars, connectVars, agentVars>>

Connect_Queue ==
  /\ pc = "queue"
  /\ queue' = TRUE
  /\ pc' = "ready"
  /\ UNCHANGED <<buildVars, result, requestVars, mqttVars, handle, retries, command_task, agentVars>>

(* The application sleeps until the agent is ready, then until it is        *)
(* connected.                                                               *)
Connect_Ready ==
  /\ pc = "ready"
  /\ agent \in {"ready", "connected"}
  /\ handle' = TRUE
  /\ pc' = "connected"
  /\ UNCHANGED <<buildVars, result, requestVars, mqttVars, queue, retries, command_task, agentVars>>

Connect_Connected ==
  /\ pc = "connected"
  /\ agent = "connected"
  /\ pc' = "subscribe"
  /\ UNCHANGED <<buildVars, result, requestVars, mqttVars, connectVars, agentVars>>

(* subscribe_to_topic counts its attempts.                                  *)
Attempts_WrapsEarly == (retries + 1) % MaxSubscribe

Attempts == retries + 1

Subscribe ==
  /\ pc = "subscribe"
  /\ retries' = Attempts
  /\ listening' = TRUE
  /\ pc' = "command_task"
  /\ UNCHANGED <<buildVars, result, requestVars, mqttVars, queue, handle, command_task, agent>>

(* An attempt fails, though messages may come all the same when only its    *)
(* answer was lost. There are MaxSubscribe attempts.                        *)
TriesLeft_OneMore == retries' <= MaxSubscribe

TriesLeft == retries' < MaxSubscribe

GivesUp_Unchecked == pc' = "command_task" /\ UNCHANGED result

GivesUp == Return("failed")

Subscribe_Fails ==
  /\ pc = "subscribe"
  /\ retries' = Attempts
  /\ listening' \in {listening, TRUE}
  /\ IF TriesLeft
     THEN UNCHANGED <<pc, result>>
     ELSE GivesUp
  /\ UNCHANGED <<buildVars, requestVars, mqttVars, queue, handle, command_task, agent>>

CommandTask_Create ==
  /\ pc = "command_task"
  /\ command_task' = TRUE
  /\ Return("ok")
  /\ UNCHANGED <<buildVars, requestVars, mqttVars, queue, handle, retries, agentVars>>

CommandTask_CreateFails ==
  /\ pc = "command_task"
  /\ Return("failed")
  /\ UNCHANGED <<buildVars, requestVars, mqttVars, connectVars, agentVars>>

-----------------------------------------------------------------------------
(***************************************************************************)
(* The agent task: it gets ready, connects, loses the connection and       *)
(* connects again.                                                         *)
(***************************************************************************)
Agent_Ready ==
  /\ agent = "started"
  /\ agent' = "ready"
  /\ UNCHANGED <<buildVars, pc, result, requestVars, mqttVars, connectVars, listening>>

Agent_Connects ==
  /\ agent = "ready"
  /\ agent' = "connected"
  /\ UNCHANGED <<buildVars, pc, result, requestVars, mqttVars, connectVars, listening>>

Agent_Disconnects ==
  /\ agent = "connected"
  /\ agent' = "ready"
  /\ UNCHANGED <<buildVars, pc, result, requestVars, mqttVars, connectVars, listening>>

-----------------------------------------------------------------------------
IdentityStep ==
  \/ Identity_Fails \/ Identity_Discover
  \/ Http_Transport \/ Http_ConnectFails \/ Http_Send
  \/ Parse_Discovery \/ Parse_Identity
  \/ Identity_Returns

ConnectStep ==
  \/ Connect_Halts \/ Connect_Fails
  \/ Connect_Agent
  \/ Connect_NoQueue \/ Connect_Queue
  \/ Connect_Ready \/ Connect_Connected
  \/ Subscribe \/ Subscribe_Fails
  \/ CommandTask_Create \/ CommandTask_CreateFails

SdkStep ==
  \/ SdkInit_Fails \/ SdkInit
  \/ CustomTopic \/ CustomTopic_Fails
  \/ IdentityStep
  \/ ConnectStep

AgentStep == Agent_Ready \/ Agent_Connects \/ Agent_Disconnects

TelemetryStep == Telemetry_Create \/ Telemetry_Send \/ App_Ends

Next == App_Start \/ SdkStep \/ TelemetryStep \/ AgentStep

Spec == Init /\ [][Next]_vars

(* Calls that come back only with the help of somebody else: a request,     *)
(* which iotc_send_http_request makes with no timeout, the two waits for    *)
(* the agent, and MqttAgent_SubscribeSync.                                  *)
Waiting == {"https_connect", "ready", "connected", "subscribe"}

(* The application task is scheduled. Neither a server nor the agent has to *)
(* answer; once the agent is ready, or connected, and stays so, the wait    *)
(* for it ends.                                                             *)
OwnStep ==
  \/ pc \notin Waiting /\ SdkStep
  \/ Connect_Ready \/ Connect_Connected

FairSpec == Spec /\ WF_vars(OwnStep)

-----------------------------------------------------------------------------
(***************************************************************************)
(* Properties                                                              *)
(***************************************************************************)
Places ==
  {"start", "deleted", "sdk_init", "custom", "identity", "transport", "https_connect",
   "answered", "freeing", "connect", "halted", "queue", "ready", "connected", "subscribe",
   "command_task", "telemetry", "publish", "ended"}

Requests == {"discovery", "identity"}

(* Types: there are at most MaxSubscribe attempts to subscribe.             *)
TypeOK ==
  /\ platform \in {"aws", "azure", "other"}
  /\ custom \in BOOLEAN
  /\ pc \in Places
  /\ result \in {"none", "ok", "failed"}
  /\ request \in Requests
  /\ data \in Requests \union {"unassigned", "null"}
  /\ heap \subseteq
       [kind : {"response_buffer", "url", "transport", "https_buffer"}, for : Requests]
         \union [kind : {"message"}, for : {"right_size", "wrong_size"}]
         \union [kind : {"c2d_topic"}, for : {"custom"}]
  /\ host \in Requests \union {"none", "custom", "unassigned"}
  /\ username \in BOOLEAN
  /\ agent \in {"absent", "started", "ready", "connected"}
  /\ queue \in BOOLEAN
  /\ handle \in BOOLEAN
  /\ retries \in 0 .. MaxSubscribe
  /\ listening \in BOOLEAN
  /\ command_task \in BOOLEAN
  /\ misled \in BOOLEAN

(* What is never freed: the buffers of the answers, messages for data of    *)
(* the wrong size, and the topic of a build with its own host. The agent    *)
(* goes by that topic if the start works; if it fails, nobody needs it.     *)
Kept ==
  {Block("https_buffer", for) : for \in Requests}
    \union {Block("message", "wrong_size"), Block("c2d_topic", "custom")}

(* Whichever step of the discovery fails, iotc_send_http_request gives its  *)
(* transport back and run_http_identity its URLs and its buffer, and no     *)
(* telemetry message outlives its publish, worked or not. Nothing leaks but *)
(* what is in Kept, and the topic only from a build with its own host that  *)
(* got as far as making it.                                                 *)
HeapReturned ==
  /\ pc \notin {"transport", "https_connect", "answered", "freeing", "publish"} =>
       heap \subseteq Kept
  /\ Block("c2d_topic", "custom") \in heap <=> host = "custom"

(* The agent is started only with a host from the answer to the identity    *)
(* request, or the build's own: though run_http_identity reports success    *)
(* when its requests fail, iotc_device_client_connect stops the start.      *)
(* Except where a parser was misled.                                        *)
HostKnown ==
  agent # "absent" /\ ~misled => host = IF custom THEN "custom" ELSE "identity"

(* The agent logs in with a user name on Azure and with none on AWS         *)
(* (iotconnect.h: "For AWS, username will be NULL"), whatever the identity  *)
(* answer says: one side is seen to in run_http_identity, the other by      *)
(* iotc_device_client_connect.                                              *)
UsernameFits == agent # "absent" => (username <=> platform = "azure")

(* The agent runs before mqtt_command_queue exists and may deliver messages *)
(* after an attempt to subscribe that failed, but incoming_message_callback *)
(* never finds the queue missing.                                           *)
QueueBeforeMessages == listening => queue

(* When iotconnect_sdk_init returns 0, commands are delivered and handled.  *)
SuccessMeansRunning ==
  result = "ok" => handle /\ queue /\ listening /\ command_task

(* iotconnect_sdk_init has returned, or its assertion has halted the device.*)
Over == {"telemetry", "publish", "ended", "halted"}

(* iotconnect_sdk_init ends, unless one of the calls in Waiting never comes *)
(* back: a request that the server or the network leaves without an end, an *)
(* agent that never gets ready, or is disconnected again and again, or one  *)
(* attempt to subscribe that the agent does not answer. No failure, and no  *)
(* number of failed attempts, holds it up otherwise.                        *)
InitEnds ==
  \/ pc = "sdk_init" ~> pc \in Over
  \/ <>[](pc = "https_connect")
  \/ <>[](pc = "ready" /\ agent = "started")
  \/ <>[](pc = "connected") /\ []<>(agent # "connected")
  \/ \E n \in 0 .. MaxSubscribe : <>[](pc = "subscribe" /\ retries = n)

(* What the comments of run_http_identity say: each parser is given the     *)
(* response to its own request (or NULL, which it refuses). When a request  *)
(* ends early it is given what data pointed to before.                      *)
BodyIsOwn == ~misled
=============================================================================
