----------------------------- MODULE SdkInitProofs -----------------------------
(***************************************************************************)
(* Proofs about SdkInit, for any number of attempts to subscribe.          *)
(***************************************************************************)
EXTENDS SdkInit, TLAPS

-----------------------------------------------------------------------------
(***************************************************************************)
(* Types, in three parts                                                   *)
(***************************************************************************)
Blocks ==
  [kind : {"response_buffer", "url", "transport", "https_buffer"}, for : Requests]
    \union [kind : {"message"}, for : {"right_size", "wrong_size"}]
    \union [kind : {"c2d_topic"}, for : {"custom"}]

HeapType == heap \subseteq Blocks

PlainTypes ==
  /\ platform \in {"aws", "azure", "other"}
  /\ custom \in BOOLEAN
  /\ pc \in Places
  /\ result \in {"none", "ok", "failed"}
  /\ request \in Requests
  /\ data \in Requests \union {"unassigned", "null"}
  /\ host \in Requests \union {"none", "custom", "unassigned"}
  /\ username \in BOOLEAN
  /\ agent \in {"absent", "started", "ready", "connected"}
  /\ queue \in BOOLEAN
  /\ handle \in BOOLEAN
  /\ listening \in BOOLEAN
  /\ command_task \in BOOLEAN
  /\ misled \in BOOLEAN

(* Up to and including subscribe_to_topic.                                  *)
Starting ==
  {"start", "sdk_init", "custom", "identity", "transport", "https_connect", "answered",
   "freeing", "connect", "queue", "ready", "connected", "subscribe"}

(* There is an attempt left whenever subscribe_to_topic goes round, since   *)
(* nothing but its loop counts.                                             *)
RetriesInv ==
  /\ retries \in 0 .. MaxSubscribe
  /\ pc \in Starting => retries < MaxSubscribe
  /\ pc \in Starting \ {"subscribe"} => retries = 0

TypeInv == PlainTypes /\ HeapType /\ RetriesInv

LEMMA TypeInit == Init => TypeInv
<1> SUFFICES ASSUME Init
             PROVE  TypeInv
  OBVIOUS
<1>1. PlainTypes /\ HeapType
  BY DEF Init, PlainTypes, HeapType, Places, Requests
<1>2. RetriesInv
  <2>1. retries = 0 /\ 0 < MaxSubscribe /\ MaxSubscribe \in Nat
    BY SdkAssumption DEF SdkAssumption, Init
  <2> QED
    BY <2>1 DEF RetriesInv
<1> QED
  BY <1>1, <1>2 DEF TypeInv

(* iotconnect_app and iotconnect_sdk_init.                                  *)
LEMMA PlainTypesApp ==
  ASSUME PlainTypes,
         App_Start \/ SdkInit_Fails \/ SdkInit \/ CustomTopic \/ CustomTopic_Fails \/
           Telemetry_Create \/ Telemetry_Send \/ App_Ends
  PROVE  PlainTypes'
<1> USE DEF PlainTypes, Places, Requests, buildVars, requestVars, mqttVars, connectVars, agentVars
<1>1. CASE App_Start
  BY <1>1 DEF App_Start
<1>2. CASE SdkInit_Fails
  BY <1>2 DEF SdkInit_Fails, Return
<1>3. CASE SdkInit
  BY <1>3 DEF SdkInit
<1>4. CASE CustomTopic
  BY <1>4 DEF CustomTopic
<1>5. CASE CustomTopic_Fails
  BY <1>5 DEF CustomTopic_Fails, Return
<1>6. CASE Telemetry_Create
  BY <1>6 DEF Telemetry_Create
<1>7. CASE Telemetry_Send
  BY <1>7 DEF Telemetry_Send
<1>8. CASE App_Ends
  BY <1>8 DEF App_Ends
<1> QED
  BY <1>1, <1>2, <1>3, <1>4, <1>5, <1>6, <1>7, <1>8

(* run_http_identity and iotc_send_http_request.                            *)
LEMMA PlainTypesIdentity ==
  ASSUME PlainTypes,
         Identity_Fails \/ Identity_Discover \/ Http_Transport \/ Http_ConnectFails \/
           Http_Send \/ Parse_Discovery \/ Parse_Identity \/ Identity_Returns
  PROVE  PlainTypes'
<1> USE DEF PlainTypes, Places, Requests, buildVars, requestVars, mqttVars, connectVars, agentVars
<1>1. CASE Identity_Fails
  BY <1>1 DEF Identity_Fails, Return
<1>2. CASE Identity_Discover
  BY <1>2 DEF Identity_Discover
<1>3. CASE Http_Transport
  BY <1>3 DEF Http_Transport
<1>4. CASE Http_ConnectFails
  BY <1>4 DEF Http_ConnectFails
<1>5. CASE Http_Send
  BY <1>5 DEF Http_Send
<1>6. CASE Parse_Discovery
  BY <1>6 DEF Parse_Discovery, Parsed
<1>7. CASE Parse_Identity
  <2>1. username' \in BOOLEAN
    BY <1>7, Zenon DEF Parse_Identity, Parsed, UsernameKept
  <2>2. host' \in Requests \union {"none", "custom", "unassigned"}
    BY <1>7 DEF Parse_Identity, Parsed
  <2> QED
    BY <1>7, <2>1, <2>2 DEF Parse_Identity
<1>8. CASE Identity_Returns
  BY <1>8 DEF Identity_Returns
<1> QED
  BY <1>1, <1>2, <1>3, <1>4, <1>5, <1>6, <1>7, <1>8

(* iotc_device_client_connect and the agent.                                *)
LEMMA PlainTypesConnect ==
  ASSUME PlainTypes,
         Connect_Halts \/ Connect_Fails \/ Connect_Agent \/ Connect_NoQueue \/
           Connect_Queue \/ Connect_Ready \/ Connect_Connected \/ Subscribe \/
           Subscribe_Fails \/ CommandTask_Create \/ CommandTask_CreateFails \/
           Agent_Ready \/ Agent_Connects \/ Agent_Disconnects
  PROVE  PlainTypes'
<1> USE DEF PlainTypes, Places, Requests, buildVars, requestVars, mqttVars, connectVars, agentVars
<1>1. CASE Connect_Halts
  BY <1>1 DEF Connect_Halts
<1>2. CASE Connect_Fails
  BY <1>2 DEF Connect_Fails, Return
<1>3. CASE Connect_Agent
  BY <1>3 DEF Connect_Agent, Screened
<1>4. CASE Connect_NoQueue
  BY <1>4 DEF Connect_NoQueue, Return
<1>5. CASE Connect_Queue
  BY <1>5 DEF Connect_Queue
<1>6. CASE Connect_Ready
  BY <1>6 DEF Connect_Ready
<1>7. CASE Connect_Connected
  BY <1>7 DEF Connect_Connected
<1>8. CASE Subscribe
  BY <1>8 DEF Subscribe
<1>9. CASE Subscribe_Fails
  <2>1. \/ pc' = pc /\ result' = result
        \/ pc' = "telemetry" /\ result' = "failed"
    BY <1>9 DEF Subscribe_Fails, GivesUp, Return
  <2>2. listening' \in BOOLEAN
    BY <1>9 DEF Subscribe_Fails
  <2> QED
    BY <1>9, <2>1, <2>2 DEF Subscribe_Fails
<1>10. CASE CommandTask_Create
  BY <1>10 DEF CommandTask_Create, Return
<1>11. CASE CommandTask_CreateFails
  BY <1>11 DEF CommandTask_CreateFails, Return
<1>12. CASE Agent_Ready
  BY <1>12 DEF Agent_Ready
<1>13. CASE Agent_Connects
  BY <1>13 DEF Agent_Connects
<1>14. CASE Agent_Disconnects
  BY <1>14 DEF Agent_Disconnects
<1> QED
  BY <1>1, <1>2, <1>3, <1>4, <1>5, <1>6, <1>7, <1>8, <1>9, <1>10, <1>11, <1>12, <1>13, <1>14

(* The actions that allocate and free; the others leave the heap alone.     *)
LEMMA HeapTypeStep ==
  ASSUME PlainTypes, HeapType,
         CustomTopic \/ Telemetry_Create \/ Telemetry_Send \/ Identity_Discover \/
           Http_Transport \/ Http_ConnectFails \/ Http_Send \/ Parse_Discovery \/
           Identity_Returns
  PROVE  HeapType'
<1> USE DEF PlainTypes, HeapType, Blocks, Block, Requests
<1>1. CASE Telemetry_Create
  BY <1>1 DEF Telemetry_Create
<1>2. CASE Telemetry_Send
  BY <1>2 DEF Telemetry_Send
<1>3. CASE Identity_Discover
  BY <1>3 DEF Identity_Discover
<1>4. CASE Http_Transport
  BY <1>4 DEF Http_Transport
<1>5. CASE Http_ConnectFails
  BY <1>5 DEF Http_ConnectFails
<1>6. CASE Http_Send
  BY <1>6 DEF Http_Send
<1>7. CASE Parse_Discovery
  BY <1>7 DEF Parse_Discovery
<1>8. CASE Identity_Returns
  BY <1>8 DEF Identity_Returns
<1>9. CASE CustomTopic
  BY <1>9 DEF CustomTopic
<1> QED
  BY <1>1, <1>2, <1>3, <1>4, <1>5, <1>6, <1>7, <1>8, <1>9

(* No other action touches the heap.                                       *)
LEMMA HeapFrame ==
  ASSUME App_Start \/ SdkInit_Fails \/ SdkInit \/ CustomTopic_Fails \/
           App_Ends \/ Identity_Fails \/ Parse_Identity \/ Connect_Halts \/ Connect_Fails \/
           Connect_Agent \/ Connect_NoQueue \/ Connect_Queue \/ Connect_Ready \/
           Connect_Connected \/ Subscribe \/ Subscribe_Fails \/ CommandTask_Create \/
           CommandTask_CreateFails \/ Agent_Ready \/ Agent_Connects \/ Agent_Disconnects
  PROVE  UNCHANGED heap
  BY DEF App_Start, SdkInit_Fails, SdkInit, CustomTopic_Fails, App_Ends,
         Identity_Fails, Parse_Identity, Connect_Halts, Connect_Fails, Connect_Agent,
         Connect_NoQueue, Connect_Queue, Connect_Ready, Connect_Connected, Subscribe,
         Subscribe_Fails, CommandTask_Create, CommandTask_CreateFails, Agent_Ready,
         Agent_Connects, Agent_Disconnects, requestVars

(* Only subscribe_to_topic counts.                                          *)
LEMMA RetriesFrame ==
  ASSUME App_Start \/ SdkInit_Fails \/ SdkInit \/ CustomTopic \/ CustomTopic_Fails \/
           Telemetry_Create \/ Telemetry_Send \/ App_Ends \/ Identity_Fails \/
           Identity_Discover \/ Http_Transport \/ Http_ConnectFails \/ Http_Send \/
           Parse_Discovery \/ Parse_Identity \/ Identity_Returns \/ Connect_Halts \/
           Connect_Fails \/ Connect_Agent \/ Connect_NoQueue \/ Connect_Queue \/
           Connect_Ready \/ Connect_Connected \/ CommandTask_Create \/
           CommandTask_CreateFails \/ Agent_Ready \/ Agent_Connects \/ Agent_Disconnects
  PROVE  UNCHANGED retries
  BY DEF App_Start, SdkInit_Fails, SdkInit, CustomTopic, CustomTopic_Fails,
         Telemetry_Create, Telemetry_Send, App_Ends, Identity_Fails, Identity_Discover,
         Http_Transport, Http_ConnectFails, Http_Send, Parse_Discovery, Parse_Identity,
         Identity_Returns, Connect_Halts, Connect_Fails, Connect_Agent, Connect_NoQueue,
         Connect_Queue, Connect_Ready, Connect_Connected, CommandTask_Create,
         CommandTask_CreateFails, Agent_Ready, Agent_Connects, Agent_Disconnects, connectVars

(* Where retries stands still, it is enough that pc does not come back.     *)
LEMMA RetriesStep == TypeInv /\ [Next]_vars => RetriesInv'
<1> SUFFICES ASSUME TypeInv, [Next]_vars
             PROVE  RetriesInv'
  OBVIOUS
<1> USE DEF TypeInv, PlainTypes, Places, RetriesInv, Starting
<1>1. CASE Subscribe
  <2>1. retries < MaxSubscribe /\ retries' = retries + 1 /\ pc' = "command_task"
    BY <1>1 DEF Subscribe, Attempts
  <2> QED
    BY <2>1, SdkAssumption DEF SdkAssumption
<1>2. CASE Subscribe_Fails
  <2>1. retries < MaxSubscribe /\ retries' = retries + 1
    BY <1>2 DEF Subscribe_Fails, Attempts
  <2>2. \/ retries' < MaxSubscribe /\ pc' = "subscribe"
        \/ pc' = "telemetry"
    BY <1>2 DEF Subscribe_Fails, TriesLeft, GivesUp, Return
  <2> QED
    BY <2>1, <2>2, SdkAssumption DEF SdkAssumption
<1>3. CASE UNCHANGED vars
  BY <1>3 DEF vars, connectVars
<1>4. ASSUME ~Subscribe, ~Subscribe_Fails, Next
      PROVE  RetriesInv'
  <2>1. UNCHANGED retries
    BY <1>4, RetriesFrame
       DEF Next, SdkStep, IdentityStep, ConnectStep, AgentStep, TelemetryStep
  <2>2. pc' \in Starting => pc \in Starting \ {"subscribe"} \/ pc' = pc
    BY <1>4
       DEF Next, SdkStep, IdentityStep, ConnectStep, AgentStep, TelemetryStep, Return,
           App_Start, SdkInit_Fails, SdkInit, CustomTopic, CustomTopic_Fails,
           Telemetry_Create, Telemetry_Send, App_Ends, Identity_Fails, Identity_Discover,
           Http_Transport, Http_ConnectFails, Http_Send, Parse_Discovery, Parse_Identity,
           Identity_Returns, Connect_Halts, Connect_Fails, Connect_Agent, Connect_NoQueue,
           Connect_Queue, Connect_Ready, Connect_Connected, CommandTask_Create,
           CommandTask_CreateFails, Agent_Ready, Agent_Connects, Agent_Disconnects
  <2> QED
    BY <2>1, <2>2
<1> QED
  BY <1>1, <1>2, <1>3, <1>4

LEMMA TypeStep == TypeInv /\ [Next]_vars => TypeInv'
<1> SUFFICES ASSUME TypeInv, [Next]_vars
             PROVE  TypeInv'
  OBVIOUS
<1>1. RetriesInv'
  BY RetriesStep
<1>2. CASE UNCHANGED vars
  BY <1>1, <1>2
     DEF vars, buildVars, requestVars, mqttVars, connectVars, agentVars, TypeInv, PlainTypes,
         HeapType
<1>3. CASE Next
  <2>1. PlainTypes'
    BY <1>3, PlainTypesApp, PlainTypesIdentity, PlainTypesConnect
       DEF TypeInv, Next, SdkStep, IdentityStep, ConnectStep, AgentStep, TelemetryStep
  <2>2. HeapType'
    BY <1>3, HeapTypeStep, HeapFrame
       DEF TypeInv, HeapType, Next, SdkStep, IdentityStep, ConnectStep, AgentStep,
           TelemetryStep
  <2> QED
    BY <1>1, <2>1, <2>2 DEF TypeInv
<1> QED
  BY <1>2, <1>3

(* The types, and that there are at most MaxSubscribe attempts to           *)
(* subscribe.                                                               *)
THEOREM SdkTypeCorrect == Spec => []TypeOK
<1>1. TypeInv => TypeOK
  BY DEF TypeInv, PlainTypes, HeapType, Blocks, RetriesInv, TypeOK
<1> QED
  BY <1>1, TypeInit, TypeStep, PTL DEF Spec

-----------------------------------------------------------------------------
(***************************************************************************)
(* Memory                                                                  *)
(***************************************************************************)
(* Besides what is kept, each function holds what it will free.             *)
Held(block) ==
  \/ /\ block.kind \in {"response_buffer", "url"}
     /\ pc \in {"transport", "https_connect", "answered", "freeing"}
  \/ /\ block = Block("transport", request)
     /\ pc = "https_connect"
  \/ /\ block = Block("message", "right_size")
     /\ pc = "publish"

HeapInv == \A block \in heap : block \in Kept \/ Held(block)

LEMMA HeapStep == PlainTypes /\ HeapInv /\ [Next]_vars => HeapInv'
<1> SUFFICES ASSUME PlainTypes, HeapInv, [Next]_vars
             PROVE  HeapInv'
  OBVIOUS
<1> USE DEF PlainTypes, Requests, HeapInv, Kept, Held, Block
<1>1. CASE App_Start \/ SdkInit_Fails \/ SdkInit \/ CustomTopic \/ CustomTopic_Fails
  BY <1>1
     DEF App_Start, SdkInit_Fails, SdkInit, CustomTopic, CustomTopic_Fails, Return,
         buildVars, requestVars, mqttVars, connectVars, agentVars
<1>2. CASE TelemetryStep
  BY <1>2
     DEF Telemetry_Create, Telemetry_Send, App_Ends, TelemetryStep, buildVars, requestVars,
         mqttVars, connectVars, agentVars
<1>3. CASE IdentityStep
  BY <1>3
     DEF Identity_Fails, Identity_Discover, Http_Transport, Http_ConnectFails, Http_Send,
         Parse_Discovery, Parse_Identity, Identity_Returns, IdentityStep, Parsed, Return,
         UsernameKept, buildVars, requestVars, mqttVars, connectVars, agentVars
<1>4. CASE ConnectStep
  BY <1>4
     DEF Connect_Halts, Connect_Fails, Connect_Agent, Connect_NoQueue, Connect_Queue,
         Connect_Ready, Connect_Connected, Subscribe, Subscribe_Fails, CommandTask_Create,
         CommandTask_CreateFails, ConnectStep, GivesUp, Return, Screened, TriesLeft,
         buildVars, requestVars, mqttVars, connectVars, agentVars
<1>5. CASE AgentStep
  BY <1>5
     DEF Agent_Ready, Agent_Connects, Agent_Disconnects, AgentStep, buildVars, requestVars,
         mqttVars, connectVars, agentVars
<1>6. CASE UNCHANGED vars
  BY <1>6 DEF vars, buildVars, requestVars, mqttVars, connectVars, agentVars
<1> QED
  BY <1>1, <1>2, <1>3, <1>4, <1>5, <1>6 DEF Next, SdkStep

Discovering == {"identity", "transport", "https_connect", "answered", "freeing"}

Topic == Block("c2d_topic", "custom")

(* Only CustomTopic makes the topic and sets the build's own host, and a    *)
(* build that has one never comes to the answers that would replace it.     *)
TopicInv ==
  /\ pc = "custom" => custom
  /\ pc \in Discovering => ~custom
  /\ host = "custom" => custom
  /\ Topic \in heap <=> host = "custom"

LEMMA TopicStep == PlainTypes /\ TopicInv /\ [Next]_vars => TopicInv'
<1> SUFFICES ASSUME PlainTypes, TopicInv, [Next]_vars
             PROVE  TopicInv'
  OBVIOUS
<1> USE DEF PlainTypes, Requests, TopicInv, Topic, Block, Discovering
<1>1. CASE App_Start \/ SdkInit_Fails \/ SdkInit \/ CustomTopic \/ CustomTopic_Fails
  BY <1>1
     DEF App_Start, SdkInit_Fails, SdkInit, CustomTopic, CustomTopic_Fails, Return,
         buildVars, requestVars, mqttVars, connectVars, agentVars
<1>2. CASE TelemetryStep
  BY <1>2
     DEF Telemetry_Create, Telemetry_Send, App_Ends, TelemetryStep, buildVars, requestVars,
         mqttVars, connectVars, agentVars
<1>3. CASE IdentityStep
  <2>1. CASE Parse_Discovery
    BY <2>1
       DEF Parse_Discovery, Parsed, buildVars, requestVars, mqttVars, connectVars, agentVars
  <2>2. CASE Parse_Identity
    BY <2>2
       DEF Parse_Identity, Parsed, UsernameKept, buildVars, requestVars, mqttVars,
           connectVars, agentVars
  <2>3. CASE Identity_Fails \/ Identity_Discover \/ Http_Transport \/ Http_ConnectFails \/
             Http_Send \/ Identity_Returns
    BY <2>3
       DEF Identity_Fails, Identity_Discover, Http_Transport, Http_ConnectFails, Http_Send,
           Identity_Returns, Return, buildVars, requestVars, mqttVars, connectVars, agentVars
  <2> QED
    BY <1>3, <2>1, <2>2, <2>3 DEF IdentityStep
<1>4. CASE ConnectStep
  BY <1>4
     DEF Connect_Halts, Connect_Fails, Connect_Agent, Connect_NoQueue, Connect_Queue,
         Connect_Ready, Connect_Connected, Subscribe, Subscribe_Fails, CommandTask_Create,
         CommandTask_CreateFails, ConnectStep, GivesUp, Return, Screened, TriesLeft,
         buildVars, requestVars, mqttVars, connectVars, agentVars
<1>5. CASE AgentStep
  BY <1>5
     DEF Agent_Ready, Agent_Connects, Agent_Disconnects, AgentStep, buildVars, requestVars,
         mqttVars, connectVars, agentVars
<1>6. CASE UNCHANGED vars
  BY <1>6 DEF vars, buildVars, requestVars, mqttVars, connectVars, agentVars
<1> QED
  BY <1>1, <1>2, <1>3, <1>4, <1>5, <1>6 DEF Next, SdkStep

(* Whichever step of the start fails, nothing is left allocated but the     *)
(* buffers of answers, messages of the wrong size and, from a build with    *)
(* its own host, the topic.                                                 *)
THEOREM HeapCorrect == Spec => []HeapReturned
<1>1. Init => TypeInv /\ HeapInv /\ TopicInv
  BY TypeInit DEF Init, HeapInv, TopicInv, Discovering
<1>2. TypeInv /\ HeapInv /\ TopicInv /\ [Next]_vars => TypeInv' /\ HeapInv' /\ TopicInv'
  BY TypeStep, HeapStep, TopicStep DEF TypeInv
<1>3. HeapInv /\ TopicInv => HeapReturned
  <2>1. ASSUME HeapInv,
               pc \notin {"transport", "https_connect", "answered", "freeing", "publish"}
        PROVE  heap \subseteq Kept
    BY <2>1 DEF HeapInv, Held
  <2> QED
    BY <2>1 DEF TopicInv, Topic, HeapReturned
<1> QED
  BY <1>1, <1>2, <1>3, PTL DEF Spec

-----------------------------------------------------------------------------
(***************************************************************************)
(* Host and user name                                                      *)
(***************************************************************************)
BeforeAgent == {"start", "sdk_init", "custom", "connect"} \union Discovering

(* Only one of the two ways to a host is taken, and it ends before the      *)
(* agent is started.                                                        *)
HostInv ==
  /\ pc = "custom" => custom
  /\ pc \in Discovering => ~custom
  /\ pc \in BeforeAgent => agent = "absent"
  /\ host # "none" /\ ~misled => host = IF custom THEN "custom" ELSE "identity"
  /\ agent # "absent" => host # "none"

LEMMA HostStep == HostInv /\ [Next]_vars => HostInv'
<1> SUFFICES ASSUME HostInv, [Next]_vars
             PROVE  HostInv'
  OBVIOUS
<1> USE DEF HostInv, Discovering, BeforeAgent
<1>1. CASE App_Start \/ SdkInit_Fails \/ SdkInit \/ CustomTopic \/ CustomTopic_Fails
  BY <1>1
     DEF App_Start, SdkInit_Fails, SdkInit, CustomTopic, CustomTopic_Fails, Return,
         buildVars, requestVars, mqttVars, connectVars, agentVars
<1>2. CASE TelemetryStep
  BY <1>2
     DEF Telemetry_Create, Telemetry_Send, App_Ends, TelemetryStep, buildVars, requestVars,
         mqttVars, connectVars, agentVars
<1>3. CASE IdentityStep
  <2>1. CASE Parse_Discovery
    BY <2>1
       DEF Parse_Discovery, Parsed, buildVars, requestVars, mqttVars, connectVars, agentVars
  <2>2. CASE Parse_Identity
    BY <2>2
       DEF Parse_Identity, Parsed, UsernameKept, buildVars, requestVars, mqttVars,
           connectVars, agentVars
  <2>3. CASE Identity_Fails \/ Identity_Discover \/ Http_Transport \/ Http_ConnectFails \/
             Http_Send \/ Identity_Returns
    BY <2>3
       DEF Identity_Fails, Identity_Discover, Http_Transport, Http_ConnectFails, Http_Send,
           Identity_Returns, Return, buildVars, requestVars, mqttVars, connectVars, agentVars
  <2> QED
    BY <1>3, <2>1, <2>2, <2>3 DEF IdentityStep
<1>4. CASE ConnectStep
  <2>1. CASE Connect_Agent
    BY <2>1
       DEF Connect_Agent, Screened, buildVars, requestVars, mqttVars, connectVars, agentVars
  <2>2. CASE Subscribe_Fails
    BY <2>2
       DEF Subscribe_Fails, GivesUp, Return, TriesLeft, buildVars, requestVars, mqttVars,
           connectVars, agentVars
  <2>3. CASE Connect_Halts \/ Connect_Fails \/ Connect_NoQueue \/ Connect_Queue \/
             Connect_Ready \/ Connect_Connected \/ Subscribe \/ CommandTask_Create \/
             CommandTask_CreateFails
    BY <2>3
       DEF Connect_Halts, Connect_Fails, Connect_NoQueue, Connect_Queue, Connect_Ready,
           Connect_Connected, Subscribe, CommandTask_Create, CommandTask_CreateFails, Return,
           buildVars, requestVars, mqttVars, connectVars, agentVars
  <2> QED
    BY <1>4, <2>1, <2>2, <2>3 DEF ConnectStep
<1>5. CASE AgentStep
  BY <1>5
     DEF Agent_Ready, Agent_Connects, Agent_Disconnects, AgentStep, buildVars, requestVars,
         mqttVars, connectVars, agentVars
<1>6. CASE UNCHANGED vars
  BY <1>6 DEF vars, buildVars, requestVars, mqttVars, connectVars, agentVars
<1> QED
  BY <1>1, <1>2, <1>3, <1>4, <1>5, <1>6 DEF Next, SdkStep

(* The agent is started only with the host from the identity answer, or the *)
(* build's own, though the result of a request is not looked at.            *)
THEOREM HostCorrect == Spec => []HostKnown
<1>1. Init => HostInv
  BY DEF Init, HostInv, Discovering, BeforeAgent
<1>2. HostInv => HostKnown
  BY DEF HostInv, HostKnown
<1> QED
  BY <1>1, <1>2, HostStep, PTL DEF Spec

(* run_http_identity sees to AWS, iotc_device_client_connect to Azure, and  *)
(* iotconnect_sdk_init to there being no third platform.                    *)
UserInv ==
  /\ pc \in BeforeAgent \ {"start", "sdk_init"} => platform # "other"
  /\ pc \in BeforeAgent => agent = "absent"
  /\ username => platform # "aws"
  /\ agent # "absent" => (username <=> platform = "azure")

LEMMA UserStep == PlainTypes /\ UserInv /\ [Next]_vars => UserInv'
<1> SUFFICES ASSUME PlainTypes, UserInv, [Next]_vars
             PROVE  UserInv'
  OBVIOUS
<1> USE DEF PlainTypes, UserInv, Discovering, BeforeAgent
<1>1. CASE App_Start \/ SdkInit_Fails \/ SdkInit \/ CustomTopic \/ CustomTopic_Fails
  BY <1>1
     DEF App_Start, SdkInit_Fails, SdkInit, CustomTopic, CustomTopic_Fails, Return,
         buildVars, requestVars, mqttVars, connectVars, agentVars
<1>2. CASE TelemetryStep
  BY <1>2
     DEF Telemetry_Create, Telemetry_Send, App_Ends, TelemetryStep, buildVars, requestVars,
         mqttVars, connectVars, agentVars
<1>3. CASE IdentityStep
  <2>1. CASE Parse_Identity
    BY <2>1
       DEF Parse_Identity, Parsed, UsernameKept, buildVars, requestVars, mqttVars,
           connectVars, agentVars
  <2>2. CASE Identity_Fails \/ Identity_Discover \/ Http_Transport \/ Http_ConnectFails \/
             Http_Send \/ Parse_Discovery \/ Identity_Returns
    BY <2>2
       DEF Identity_Fails, Identity_Discover, Http_Transport, Http_ConnectFails, Http_Send,
           Parse_Discovery, Identity_Returns, Parsed, Return, buildVars, requestVars,
           mqttVars, connectVars, agentVars
  <2> QED
    BY <1>3, <2>1, <2>2 DEF IdentityStep
<1>4. CASE ConnectStep
  <2>1. CASE Connect_Agent
    BY <2>1
       DEF Connect_Agent, Screened, buildVars, requestVars, mqttVars, connectVars, agentVars
  <2>2. CASE Subscribe_Fails
    BY <2>2
       DEF Subscribe_Fails, GivesUp, Return, TriesLeft, buildVars, requestVars, mqttVars,
           connectVars, agentVars
  <2>3. CASE Connect_Halts \/ Connect_Fails \/ Connect_NoQueue \/ Connect_Queue \/
             Connect_Ready \/ Connect_Connected \/ Subscribe \/ CommandTask_Create \/
             CommandTask_CreateFails
    BY <2>3
       DEF Connect_Halts, Connect_Fails, Connect_NoQueue, Connect_Queue, Connect_Ready,
           Connect_Connected, Subscribe, CommandTask_Create, CommandTask_CreateFails, Return,
           buildVars, requestVars, mqttVars, connectVars, agentVars
  <2> QED
    BY <1>4, <2>1, <2>2, <2>3 DEF ConnectStep
<1>5. CASE AgentStep
  BY <1>5
     DEF Agent_Ready, Agent_Connects, Agent_Disconnects, AgentStep, buildVars, requestVars,
         mqttVars, connectVars, agentVars
<1>6. CASE UNCHANGED vars
  BY <1>6 DEF vars, buildVars, requestVars, mqttVars, connectVars, agentVars
<1> QED
  BY <1>1, <1>2, <1>3, <1>4, <1>5, <1>6 DEF Next, SdkStep

(* The agent logs in with a user name on Azure and with none on AWS.        *)
THEOREM UsernameCorrect == Spec => []UsernameFits
<1>1. Init => TypeInv /\ UserInv
  BY TypeInit DEF Init, UserInv, Discovering, BeforeAgent
<1>2. TypeInv /\ UserInv /\ [Next]_vars => TypeInv' /\ UserInv'
  BY TypeStep, UserStep DEF TypeInv
<1>3. UserInv => UsernameFits
  BY DEF UserInv, UsernameFits
<1> QED
  BY <1>1, <1>2, <1>3, PTL DEF Spec

-----------------------------------------------------------------------------
(***************************************************************************)
(* What is there when iotconnect_sdk_init succeeds                         *)
(***************************************************************************)
(* What each phase of iotc_device_client_connect finds done.                *)
ConnectInv ==
  /\ pc \in {"ready", "connected", "subscribe", "command_task"} => queue
  /\ pc \in {"connected", "subscribe", "command_task"} => handle
  /\ pc = "command_task" => listening
  /\ QueueBeforeMessages
  /\ SuccessMeansRunning

LEMMA ConnectInvStep == ConnectInv /\ [Next]_vars => ConnectInv'
<1> SUFFICES ASSUME ConnectInv, [Next]_vars
             PROVE  ConnectInv'
  OBVIOUS
<1> USE DEF ConnectInv, QueueBeforeMessages, SuccessMeansRunning
<1>1. CASE App_Start \/ SdkInit_Fails \/ SdkInit \/ CustomTopic \/ CustomTopic_Fails
  BY <1>1
     DEF App_Start, SdkInit_Fails, SdkInit, CustomTopic, CustomTopic_Fails, Return,
         buildVars, requestVars, mqttVars, connectVars, agentVars
<1>2. CASE TelemetryStep
  BY <1>2
     DEF Telemetry_Create, Telemetry_Send, App_Ends, TelemetryStep, buildVars, requestVars,
         mqttVars, connectVars, agentVars
<1>3. CASE IdentityStep
  BY <1>3
     DEF Identity_Fails, Identity_Discover, Http_Transport, Http_ConnectFails, Http_Send,
         Parse_Discovery, Parse_Identity, Identity_Returns, IdentityStep, Parsed, Return,
         UsernameKept, buildVars, requestVars, mqttVars, connectVars, agentVars
<1>4. CASE ConnectStep
  <2>1. CASE Subscribe_Fails
    <3>1. pc = "subscribe" /\ UNCHANGED <<queue, handle, command_task>>
      BY <2>1 DEF Subscribe_Fails
    <3>2. \/ pc' = pc /\ result' = result
          \/ pc' = "telemetry" /\ result' = "failed"
      BY <2>1 DEF Subscribe_Fails, GivesUp, Return
    <3>3. listening => listening'
      BY <2>1 DEF Subscribe_Fails
    <3> QED
      BY <3>1, <3>2, <3>3
  <2>2. CASE Connect_Halts \/ Connect_Fails \/ Connect_Agent \/ Connect_NoQueue \/
             Connect_Queue \/ Connect_Ready \/ Connect_Connected \/ Subscribe \/
             CommandTask_Create \/ CommandTask_CreateFails
    BY <2>2
       DEF Connect_Halts, Connect_Fails, Connect_Agent, Connect_NoQueue, Connect_Queue,
           Connect_Ready, Connect_Connected, Subscribe, CommandTask_Create,
           CommandTask_CreateFails, Return, Screened, buildVars, requestVars, mqttVars,
           connectVars, agentVars
  <2> QED
    BY <1>4, <2>1, <2>2 DEF ConnectStep
<1>5. CASE AgentStep
  BY <1>5
     DEF Agent_Ready, Agent_Connects, Agent_Disconnects, AgentStep, buildVars, requestVars,
         mqttVars, connectVars, agentVars
<1>6. CASE UNCHANGED vars
  BY <1>6 DEF vars, buildVars, requestVars, mqttVars, connectVars, agentVars
<1> QED
  BY <1>1, <1>2, <1>3, <1>4, <1>5, <1>6 DEF Next, SdkStep

LEMMA ConnectInvAlways == Spec => []ConnectInv
<1>1. Init => ConnectInv
  BY DEF Init, ConnectInv, QueueBeforeMessages, SuccessMeansRunning
<1> QED
  BY <1>1, ConnectInvStep, PTL DEF Spec

(* incoming_message_callback never finds mqtt_command_queue missing.        *)
THEOREM QueueCorrect == Spec => []QueueBeforeMessages
<1>1. ConnectInv => QueueBeforeMessages
  BY DEF ConnectInv
<1> QED
  BY <1>1, ConnectInvAlways, PTL

(* When iotconnect_sdk_init returns 0, commands are delivered and handled.  *)
THEOREM SuccessCorrect == Spec => []SuccessMeansRunning
<1>1. ConnectInv => SuccessMeansRunning
  BY DEF ConnectInv
<1> QED
  BY <1>1, ConnectInvAlways, PTL
=============================================================================
