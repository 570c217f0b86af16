# A verification of the IoTConnect SDK for FreeRTOS

This directory holds TLA+ modules that model the SDK of this repository
(`iotc-freertos-sdk/`), the TLC configurations that check them on small
instances, and theorems about them that TLAPS checks for every instance. It is
meant to be read beside the code. `PROJECT.json` maps every definition to the
lines it translates, and lists the hazards the properties are aimed at.

## The system

A device runs FreeRTOS with these tasks:

| task | code | what it does |
|---|---|---|
| application | `iotconnect_app.c` `iotconnect_app` | initialises the SDK, then sends telemetry for ever |
| MQTT agent | coreMQTT-Agent, not in the repository | owns the connection; takes commands from its queue, calls the SDK's callbacks |
| `mqtt_command_task` | `iotc_mqtt_client.c` | processes cloud-to-device messages, downloads firmware |
| `sntp_task` | `iotc_time.c` | waits for the first synchronisation of the clock, then ends |
| TCP/IP | lwIP with `sntp/sntp.c` and the port in `wip/config/lwip_port` | timers, UDP and DNS callbacks |

### Components, their state and what makes them correct

1. **MQTT client, publishing** (`iotc_mqtt_client.c`). State: one task
   notification per publishing task; the agent's queue. Operations:
   `iotc_device_client_mqtt_publish` → `publish_and_wait_for_ack`, completed on the
   agent's task by `publish_complete_callback`. Hard: the completion may come before
   the wait starts, after it has timed out, or during the next publish. Correct
   when a publish always returns, is never left asleep although its command is
   done, and reports the outcome of its own command.
2. **MQTT client, cloud-to-device messages** (`iotc_mqtt_client.c`). State:
   `mqtt_command_queue` and the heap blocks in it. `incoming_message_callback` on the
   agent's task copies a message and queues it, or drops it after 500 ms;
   `mqtt_command_task` processes it and frees it. Hard: processing may itself publish
   and wait for the agent, while the agent waits for room in the queue. Correct
   when every block is freed once by its owner, messages are processed in order and
   at most once, and only the newest one can be lost.
3. **Commands** (`iotconnect_app.c` `on_command`). Correct when the cloud is told
   whether the command worked.
4. **Firmware update** (`iotconnect_app.c` `on_ota`, `split_url`, `start_ota`;
   `iotc_https_ota.c`). State: the connection, the static response, the file, the
   offset. Hard: reconnecting in the middle, boundaries of chunks, state left over
   from an earlier request, many steps that can fail. Correct when what is applied
   is the whole image of this request, every request ends, and the cloud is told
   what happened, once, before the image is applied.
5. **Application task, SDK initialisation and discovery** (`iotconnect_app.c`,
   `iotconnect.c`, `iotc_https_client.c`). A sequence of steps each of which may fail,
   with results passed on in static variables, then the telemetry loop. Hard: results
   of a failed step that are used all the same. Correct when a failed step leaves
   nothing behind and the agent is started only on a complete configuration.
6. **SNTP client** (`sntp/sntp.c`). Timers (request, retry, receive timeout), DNS
   answers, UDP answers. Hard: answers that are late, doubled or kiss-of-death
   change which timers are pending. Correct when it never stops asking and never
   asks along two chains at once.
7. **System time** (`iotc_time.c`). A base and a flag written by the TCP/IP task and
   read by all, without a critical section, over a tick count that wraps. Hard: words
   that wrap at different times; a base, a flag and a tick count that are not read or
   written together. Correct when a time reported as synchronised is right.
8. **lwIP port** (`wip/config/lwip_port/src/sys_arch.c.wip`). Mailboxes that one
   task may free while another fetches from them. Hard: the two share two fields
   and meet at any point. Correct when the fetch ends, and says what it got.

Header files with constants, certificates, `rtosPull.sh` and the patch have no
behaviour. The submodules (iotc-c-lib and others) are empty in the repository:
what the SDK calls there is modelled by what the SDK can tell of it.

## Modules

| module | what it is |
|---|---|
| `MqttClient` | components 1, 2 and 3, with the agent as an environment |
| `C2dDelivery` | abstract: what component 2 promises |
| `MqttClientProofs` | theorems about `MqttClient` |
| `MCMqttClient` | instances of `MqttClient` for TLC |
| `OtaDownload` | component 4 |
| `OtaHandler` | abstract: what component 4 promises, and `MqttClient` takes for granted |
| `OtaDownloadProofs` | theorems about `OtaDownload` |
| `MCOtaDownload` | instances of `OtaDownload` for TLC |
| `Sntp` | component 6, and `sntp_task` and the order of the callback's writes of component 7 |
| `SntpProofs` | theorems about `Sntp` |
| `MCSntp` | instances of `Sntp` for TLC |
| `SdkInit` | component 5, and the connecting of components 1 and 2 |
| `SdkInitProofs` | theorems about `SdkInit` |
| `MCSdkInit` | instances of `SdkInit` for TLC |
| `SystemTime` | component 7, and the clock of the HTTPS client |
| `SystemTimeProofs` | theorems about `SystemTime` |
| `MCSystemTime` | instances of `SystemTime` for TLC |
| `Arithmetic` | lemmas on whole numbers for `SntpProofs` and `SystemTimeProofs` |
| `LwipMbox` | the mailboxes of component 8 |
| `LwipMboxProofs` | theorems about `LwipMbox` |
| `MCLwipMbox` | instances of `LwipMbox` for TLC |

A definition named `X_Y` just before `X` is `X` with a fault of the kind `Y` in
it. It is not part of the specification; it is there to show that the properties
notice such a fault.

### MqttClient

One action per step between two points where another task can run.

- A publish is `StateClear` (through `Publish`, or by the command task when it
  acknowledges), `Publish_Enqueue` or `Publish_Refused`, then `Publish_Notified` or
  `Publish_TimedOut`. `notification[t]` is the task's notification at
  `MQTT_NOTIFY_IDX`: a pending flag and a value, overwritten by
  `publish_complete_callback`. `call`, the `call` and `during` fields, `completion`,
  `seen` and `timed_out` are history: they number the publishes of a task so that
  the properties can tell them apart. No action's guard reads them, `call` in the
  bound of `Publish` aside. A timeout can come at any time at which
  no notification is pending.
- The agent takes a command (`Agent_Take`) and completes it with any status, at any
  time or never (`Agent_Complete`); between commands it receives messages. A received
  message is `Incoming_Alloc` or `Incoming_AllocFails`, then `Incoming_Queued` or
  `Incoming_Dropped`. The agent is one task: while it is in a callback it does
  nothing else.
- The command task is `CommandTask_Receive`, `CommandTask_Process` (which runs
  `on_command`) or `CommandTask_OtaDownload` and `CommandTask_OtaAck`, and
  `CommandTask_Free` once its publish has returned. `CommandTask_ReceiveFails` is
  the branch for an `xQueueReceive` that fails.
- A message is abstracted to its number, whether it has an ack id and what
  `iotcl_c2d_process_event` does with it. One too long for the buffer is cut off
  and so malformed.

The model starts after the subscription: messages may arrive before
`mqtt_command_task` exists (`CreateCommandTask`), or it may never exist.
`C2dDelivery` is implemented under the mapping `C2d`: what waits is the queue,
and behind it the message in the agent's callback.

### OtaDownload

`pc` is the place in `on_ota` and the functions it calls; the command task runs
one request after the other. `image` is the size of the image at the URL, which
the program does not know; `data_length` the size it goes by. `HTTPClient_Send` has
three outcomes: a complete answer, `HTTPNetworkError`, any other error. An answer
carries the bytes asked for, or fewer at the end of the image, or is `Refused`: any
other status, with a body that is not part of the image. `file` records which
offsets hold the image's own byte and which hold another; `answered` records
whether every answer so far had the bytes asked for (history, read by properties
only). Reading the size past the end of `data_length_buffer`, which `strncpy` leaves
without a terminator, is a choice among `StackDigits`.

`OtaHandler` is the view from outside: a request is worked on, rejected or accepted,
and an accepted one may be followed by `Apply`. `MqttClient` has just this of `on_ota`:
`CommandTask_OtaDownload` for the time until the answer, `CommandTask_OtaAck` for
it; the delay and `Apply` after it come before `CommandTask_Free` and are left out
there. `OtaDownload` implements it under the mapping `Handler` (`pc` to the phase, `ack` to
the answer).

### Sntp

All handlers of `sntp.c` run on the TCP/IP task one at a time; `timers` is lwIP's
list, and `Due(handler)` says which one is called next. `Tick` is the passing of time,
and never skips a timer that is due. `sntp_request` is `Request_LookUp`,
`Request_Send` (with `SendLater` when there is no memory for the packet) or
`Request_Fails`; `sntp_dns_found` is `DnsFound` or `DnsFound_NoAddress`. Once a
request is out a packet may come at any time: correct, kiss-of-death or broken,
late or doubled, since `SNTP_CHECK_RESPONSE` is 0 and nothing compares it with the
request. A correct answer takes three steps (`Recv_Process`, `Recv_Callback`,
`Recv_Reschedule`), because `sntp_task` reads in between what they write.
`Task_Init` to `Task_Check` are `sntp_task`; its delay of a second is not tied to
`Tick`, so it polls at any rate. `sntp_try_next_server` is `sntp_retry`, as
`SNTP_MAX_SERVERS` is 1. `unanswered` is history, but `Arrives` reads it to know that
a request has been sent. Packets are not bounded; only those that may leave a second
chain of requests behind are (`Disturbs`): kisses-of-death, and correct answers while a
name is being looked up. `Task_Halts` is the assertion of `sntp_init` for a device
that has no UDP control block left.

### SdkInit

`pc` is the place of the application task in `iotconnect_app` and the functions it
calls; the agent task (`Agent_Ready`, `Agent_Connects`,
`Agent_Disconnects`) runs beside it once it exists. `data` is `http_response.data`,
by the request whose body it points to: `unassigned` at first, `null` after a
request that got as far as sending. A request that ends before that leaves it
alone. `heap` holds what has been allocated and not freed; each block is named by
its kind and request. A parser accepts or refuses a body, refuses `NULL`, and
reads anything else as if it were a body; `misled` (history) remembers that it
had to. The assertion on the unassigned `xResult` is a choice (`Connect_Halts`).
An attempt to subscribe may fail and messages come all the same. A build with its own
host allocates a topic (`CustomTopic`) that `client_config` keeps whatever comes of the
connecting. `Waiting` are the places from which the task goes on only with the help of
somebody else: the HTTPS requests, made with no timeout (`iotc_https_client.c:114`), the
two waits for the agent, and the subscription. The telemetry loop
follows whatever `iotconnect_sdk_init` returned: `Telemetry_Create` makes a message for
each record of the message buffer, of the right size or not, `Telemetry_Send` publishes
and destroys it, and `App_Ends` is the branch for nothing received. It is
taken that the library has no user name before an identity sets one; so a custom
configuration for Azure does not start.

### SystemTime

`moment` counts real ticks and never wraps; the program sees `tx_time_get`, which is
`moment` modulo `Word`. `SetTime_Ticks`, `SetTime_Base` and `SetTime_Flag` are the reads and
writes of `iotc_set_system_time_us`; `Time_Synced`, `Time_ReadBase`, `Time_ReadTicks` and
`Time_Return` are a task that asks `is_sntp_time_synced` and then `time`. C leaves the
order of the two reads open, so both are there. `Transmitted` is what a right server
answers, seconds since 1900 as a word, and `sntp_process` what `sntp.c` makes of
them. A server that is wrong is not this module's business. `start` is the date the
device was started at. The `_at` variables are history: which moments the
numbers come from.

### LwipMbox

One action per access to what tasks share. The fetch is `Fetch_Enter` or
`Fetch_Refused` (its critical section), `Fetch_Look` (the kernel looks at the queue: a
message is there, or the task sleeps), `Fetch_TimedOut`, `Fetch_Reread` (the loop of the
fetch without a time-out looks at `xMbox` again) and `Fetch_Leave`. Freeing is
`Free_Clear` (its critical section), `Free_Abort` (`xTaskAbortDelay`) and `Free_Delete`,
after lwIP has drained the mailbox (`Close`, `Mbox_TryFetch`, `Mbox_TryFetch_Empty`) and
before it marks it invalid (`Set_Invalid`) and perhaps makes it anew (`Mbox_New`).
`messages` counts what is in each queue. A queue that was deleted may look empty or may
seem to hold a message (`Fetch_LookDeleted`); deleted memory is not followed further.
`got` and `missed` are history: what the kernel gave the fetch, and whether the
free told the task at a moment at which it was not asleep.

What lwIP does around these calls is an assumption, as lwIP is not in the repository:
posts, drains, frees and creations happen one at a time (under its core lock), and a
mailbox is made anew only when no task is left in the old one.

## Runs

| run | shows | bounds |
|---|---|---|
| `mqtt` | all safety properties of `MqttClient`, and `C2dDelivery` | one telemetry task with 2 publishes and the command task, 3 messages, 3 blocks, queues of 2 |
| `mqtt_live` | liveness of `MqttClient` | 1 publish, 2 messages, 2 blocks, queues of 1 |
| `mqtt_timeout` | refutes `SuccessIsAcknowledged` | 1 publish |
| `mqtt_mixup` | refutes `OutcomeMatchesCall` | 2 publishes |
| `command_status` | refutes `CommandStatusReported` | 1 message |
| `ota` | safety and liveness of `OtaDownload`, and `OtaHandler` | 2 requests, images of 1, 3, 4 and 5 bytes, chunks of 2, 2 reconnections per chunk |
| `ota_size` | refutes `SizeIsActual` | no stray digits, so that the cause is the stale response |
| `sntp` | safety and liveness of `Sntp` | receive timeout of 2 units, retry timeouts of 2 and 4, updates every 5, 3 bits of reachability, 1 kiss-of-death or answer during a look-up; any number of other packets |
| `sdk_init` | safety and liveness of `SdkInit` | 3 attempts to subscribe; the rest is finite |
| `sdk_body` | refutes `BodyIsOwn` | as `sdk_init` |
| `mbox` | safety and liveness of `LwipMbox` | 2 tasks that fetch, 2 queues of 2 messages; the history of the mailbox is unbounded |
| `time` | `SystemTime` | words of 11 values, 3 ticks a second, 24 ticks of running, started at 0 and at 25 ticks |

Why these bounds are enough to meet the interesting cases: two publishes of one
task are needed for a late completion to meet a later publish, and the command
task publishes as well, so the two interleave in the agent's queue. With queues
of two, order can be got wrong; a third message then finds `mqtt_command_queue`
full, and with three blocks `malloc` fails as well. One-place queues in
`mqtt_live` make every wait of one task for the other happen. The images are one chunk, a chunk and
a part, two whole chunks, and two and a part; a second request meets what the
first one left behind. A unit of `Sntp` is half of `SNTP_RECV_TIMEOUT`, so that packets
come before, at and after a timeout; the largest retry timeout, 5, is not a
doubling of the first, as in the code. Answers come as often as they like, twice to a
request, before and after the one kiss-of-death, and for ever; or the server
falls silent at any point. One disturbance is what leaves a second chain behind, and what the
properties have to except. Three bits of reachability overflow within a few timeouts. Two tasks in `mbox` are one that sleeps and one that is
refused, or comes back before the other has left; two queues let a mailbox that is
made anew have the same queue or another. In `time` the tick count wraps twice, and a
lap is no whole number of seconds (nor is it in 32 bits); of the two dates of starting,
one makes the servers' seconds wrap ("2036"), the other the seconds since 1970
("2106") while the device runs, and starts in the middle of a second. The
numbers are small, but every word that wraps does, at a time of its own.

What the passing runs say: publishing never loses a wake-up, never hears of its
commands out of order, and is woken by its own command as long as none of the
task's publishes has timed out (`OwnOutcome`); blocks have one owner; messages
are handled in order and only the newest one is lost; nobody waits for ever. A
download whose answers are what was asked for leaves exactly the image,
whatever breaks in between; every download ends, is answered once, and is
applied only after it was answered with a success. The SNTP client always has
something pending, and its next request comes due unless a correct packet puts it off
again; it keeps to its back-off, and to one chain of requests as
long as no kiss-of-death comes and no answer meets a DNS query, and `sntp_task`
never takes an unset time for a set one. A start that fails leaves nothing behind but
`https_buffer` and, in a build with its own host, the c2d topic; it never starts the agent
with a host other than the identity's or the
build's own, and returns 0 only when commands are delivered and handled. It ends, unless a
request is left without an end, the agent does not get ready or connected, or an attempt to
subscribe is not answered. A time
of day reported as synchronised is right (by a second ahead, two behind) exactly as long
as the tick count has not wrapped since the answer it comes from: after 49
days at 1000 ticks a second it is wrong until the next answer, at most
`SNTP_UPDATE_DELAY` later if the server answers. Setting it without a critical section does
no harm: the base is one word, and a tick count read earlier or later gives the same sum.
The time elapsed in a request is right across the wrap. At most one
task is in a fetch, it returns 1 if and only if it got a message, and if it sleeps
when the mailbox is freed it returns.

What the refuting runs say is in `PROJECT.json` under `findings`: a publish that
times out reports success; a publish after one that timed out may take the late
status of the earlier one; commands are acknowledged the wrong way round; the
size of an image may be read from an answer to an earlier request; after a failed
request the start parses an answer to another one, or whatever an unassigned pointer
points to.

### Observed, with no run

Modelling showed a few more disagreements, which the models contain and no property
asserts away:

- `lwipopts_freertos.h.wip:244-245` asks of `sys_mbox_free` "to unblock receive tasks
  [...] and prevent a task pending on this during/after deletion". A task that is on its
  way from the critical section of its fetch to its sleep, or from its waking by a
  message the owner then drained back to sleep, is not asleep when `xTaskAbortDelay` is
  called, and pends on the deleted queue: for ever, if it gave no time-out.
  `PendingOnlyMissed` says that this is the only way. The task may also have left the
  fetch in the meantime, and be woken from an unrelated wait.
- Every correct packet, asked for or not (`SNTP_CHECK_RESPONSE` is 0), puts the next request
  off by `SNTP_UPDATE_DELAY` (`sntp.c:517-524`). Packets that come more often keep the client from
  ever asking; `KeepsAsking` says that nothing else does.
- The start makes its HTTPS connection without timeouts (`iotc_https_client.c:114-117`), the
  firmware update with 10 s: a server that falls silent holds the start up for ever.
- `custom_c2d_topic` (`iotconnect.c:156`) is not freed when connecting fails (lines 179 to 184).
- A fetch without time-out that is refused, or woken by the free, returns
  `SYS_ARCH_TIMEOUT` without assigning `*ppvBuffer` (`sys_arch.c.wip:296-306`), unlike one
  with a time-out, which sets it to `NULL`.
- `iotconnect_app.c:303` says of an older version "Sending failuren", but the image is
  downloaded and a success sent, even if the download fails: `success` is set before
  `start_ota` and nothing clears it.
- `sntp_opts.h:130-132` calls `SNTP_RECV_TIMEOUT` a retry timeout that must not be below
  15 seconds. After a kiss-of-death the receive timeout stays pending beside the retry;
  two chains of requests go on, and their requests may follow each other at once.
  `OneChain` says that nothing else but an answer during a DNS query does this.
- The telemetry buffer holds 20 bytes (`iotconnect_app.c:98`), one record of the example's
  16 bytes and its length; a larger record of an application that replaces the
  weak function is never accepted. The example's own function reads the data through `p`,
  which is `NULL` (line 182), and not through its argument.

### Fairness

`MqttClient!TaskFairness` is weak fairness of each task's publish, of the
callback's send and of the command task: FreeRTOS schedules every ready task and
the waits in question have finite timeouts (`MQTT_PUBLISH_BLOCK_TIME_MS`,
`MQTT_PUBLISH_NOTIFICATION_WAIT_MS`, `MQTT_COMMAND_QUEUE_TIMEOUT_MS`). Nothing is
assumed of the agent's handling of commands, of arrivals, or of the application.
`OtaDownload!FairSpec` is weak fairness of the download's steps: each call of
coreHTTP and the transport has a timeout (10 s), and the delay before the update
is applied ends. Nothing is assumed of their outcomes. `Sntp!Fairness` is weak
fairness of time, of the due handlers, of DNS (lwIP gives up a query after some
retries and reports no address), of the rest of `sntp_recv` and of `sntp_task`; packets may
never come, or never end. `LwipMbox!FairSpec` is weak fairness of each fetch (a ready task runs, a wait
with a time-out ends) and of a free that has begun; nobody has to post, to fetch or
to close. `SystemTime` has no fairness and no liveness. `SdkInit!FairSpec` is weak fairness of the application task where the next step is its own
(`OwnStep`): everywhere but in `Waiting`, and there once the agent is what the task
waits for and stays so. That an HTTPS request or a subscription ever ends, or that the agent
gets ready, is not assumed. Deadlock
is not checked for `sdk_init` and `sdk_body`: the application task may delete itself, end
or halt, and the start may wait for the network or the agent for ever; nor for `sntp`, where
the device may halt.

## Proofs

`MqttClientProofs` proves, from `MqttClientAssumption` alone (the command task is
not one of the publishers, `NULL` is not a block, the queues have at least one place),
for any sets of tasks and blocks and any bounds:

- `TypeCorrect`, the type invariant; it carries `message # NULL` exactly while a
  message is in process, which the others need.
- `OwnershipCorrect`. `BufferOwnership` is inductive relative to the types.
- `CommandOrderCorrect`. Relative to ownership: a block in the queue is not the one
  being freed or allocated, so its number does not change under it.
- `OutcomeOrderCorrect`, `NoLostWakeupCorrect`, `FreshNotificationCorrect`,
  `OwnOutcomeCorrect`. None of these is inductive alone. Their inductive invariant
  `OutcomeInv` adds that clearing leaves no notification of an earlier call pending
  (`ClearedIsNewest`), and that a call which has not timed out leaves no command of
  its task with the agent (`NothingLeftBehind`): that is what makes the next
  wake-up the task's own.
- `DeliveryCorrect`: `MqttClient` implements `C2dDelivery`. `C2dSimulation` takes
  each action to a step or a stutter; it needs the order and ownership invariants
  and `QueueBound`.

`OtaDownloadProofs` proves, from `OtaDownloadAssumption` (images, chunks and the number of
requests are not empty or negative; a stray digit is a digit):

- `OtaTypeCorrect`. The types need `RangeInv`: while a chunk is to be fetched there are bytes
  left to ask for, so no range ends before it starts.
- `PrefixCorrect` and `ImageCorrect`. A chunk is written at `data_start`, where the image so
  far ends, so the prefix grows by what was asked for and no byte is written twice
  (`PrefixGrows`); a chunk that broke changes neither file nor offset. `ImageInv` adds that
  the flag of an earlier request is gone before the next download begins.
- `StringsCorrect`, by `StringsInv`: `split_url` begins with no string allocated.
- `HandlingCorrect`: `OtaDownload` implements `OtaHandler`. `success` and
  `needs_ota_commit` are set and read in different functions; `CommitInv` says how they
  agree when the answer is sent.

`LwipMboxProofs` proves, from `LwipMboxAssumption` (`NULL` is neither a queue nor a task, a
queue has at least one place), for any number of tasks and queues:

- `MboxTypeCorrect`, with the owner's view of `xMbox` (`OwnerInv`).
- `OneFetcherCorrect`. Inductive once strengthened to `FetcherInv`: `sys_mbox_free` knows of
  any task that is inside, not only of one that sleeps, as one on its way may fall asleep.
- `ReturnCorrect` (`ReturnInv`: inside, `xResult` tells what the fetch has got) and
  `PendingCorrect` (`MissedInv`: after `xTaskAbortDelay`, whoever still waits for the queue was
  not asleep at the call).

`SdkInitProofs` proves, from `SdkAssumption` (there is at least one attempt):

- `SdkTypeCorrect`. `RetriesInv` says that nothing but the loop of `subscribe_to_topic` counts,
  so there is an attempt left whenever it goes round.
- `HeapCorrect`, by naming what each function holds (`Held`) besides what is never freed
  (`Kept`), and by `TopicInv`: only `CustomTopic` makes the topic and sets the build's own host,
  and no answer replaces that.
- `HostCorrect` and `UsernameCorrect`. `HostInv` and `UserInv` add which way to a host was taken,
  and that the agent does not exist until the host and the user name are final.
- `QueueCorrect` and `SuccessCorrect`, by what each phase of the connecting finds done
  (`ConnectInv`).

`SystemTimeProofs` proves, from `SystemTimeAssumption` (words of more than two values, at
least one tick a second and one unit in `Second`, `Epoch` a word), for any date of starting and
any time of running:

- `TimeTypeCorrect`: what is a word stays one.
- `RightCorrect`. `TimeInv` says that the base comes from one moment, and the tick count that
  is read from one moment, whatever happens between the steps. Modulo the word the reported
  time then differs from the true one by what two moments of one lap of the tick count can
  differ (`SameLapOffset`): a second at most, as adding carries over at most once
  (`CarryOnce`). `Received` says that the turn of the servers' seconds drops out.
- `ElapsedCorrect`, from the types: less than a lap apart, the difference of two tick counts
  is what has passed (`TicksElapsed`).

- `WrongCorrect`, under a hypothesis on the constants, `FewLaps`: a lap of the tick count has three
  seconds at least, and the laps up to `MaxMoment` have fewer seconds than a word holds. With 2^32
  ticks a lap and 1000 a second that is 999 laps on one answer, more than a century; after
  `TickRate` laps the error is a whole word, and none, so some such hypothesis is needed. `MCSystemTime`
  assumes it of its instance. The offsets of two laps are then apart by two
  seconds or more and by no whole word (`OtherLapOffset`), in either direction: a task may read
  the tick count, sleep through a wrap, and read the base of a newer answer.

`Arithmetic` has the lemmas on division with remainder, from what the SMT solver knows of `\div` and
`%`, and `LeastNat`: a set of natural numbers that is not empty has a least element. That is how
facts about every number are proved here: the least counterexample has a predecessor, which is none.

`SntpProofs` proves, from `SntpAssumption` (timeouts and the width of the register are not zero, the
retry timeout is no longer than its maximum, the update delay no shorter than the receive timeout),
for any timeouts, widths and numbers of packets and disturbances:

- what the operators do: `sys_timeout` adds one timer and keeps them in order (`TimerAdded`),
  `sys_untimeout` removes one timer of the handler if there is one (`TimerRemoved`), so that a
  correct answer cancels the only timer whichever it is (`AllCancelled`). `Pow2` is a recursive
  function; that it has the values its definition says is proved from its beginnings, which exist for
  every length and agree (`PowersSolve`).
- `SntpTypeCorrect`. The order of the timers is what keeps them from running below 0 when time
  passes: only the first one is compared with 0 (`TimersTick`).
- `NeverStallsCorrect` and `OneChainCorrect`, by `ChainInv`. A single chain is not inductive by itself:
  `Undisturbed` adds that the next timer is due no sooner than `RecvTimeout` after the last request,
  that a look-up began no sooner, and that an answer is dealt with only while none is under way.
- `BackoffCorrect`. `Backoff` is inductive given the types; that the count of retries, which stops at
  `RetryTimeoutMax`, does not stop before the timeout has is because `2^n` is larger than `n`.
- `ReachabilityCorrect`, by a stronger fact: while the register is not 0 its lowest bit that is set is
  at the place `unanswered`, the number of requests since the last answer (`RegisterInv`). A shift
  moves it up by one (`ShiftedBit`) until it is out (`ShiftedOut`), for any width.
- `ReachableCorrect`: the register leaves 0 only once the flag is set, and a shift leaves a
  register of 0 at 0 (`ReachableInv`).

Each proof that a step preserves an invariant has one step per action or, where an action
cannot disturb it, per group of actions. Every invariant that a passing run checks, every action
property and both refinements are proved. Only model-checked are the liveness properties,
`PublishReturns`, `CallbackReturns`, `QueuedHandled`, `RequestEnds`, `KeepsAsking`, `InitEnds` and
`FreeUnblocks`: fairness and `ENABLED` are out of the prover's reach.

## Not modelled

- Payloads, JSON and topics, beyond what the code branches on.
- The transport: TLS, sockets, reconnections of the MQTT agent; they show as
  outcomes of the calls the SDK makes.
- `iotc_https_ota.c` lines 290 to 404: functions of an example nothing calls.
- `iotc_device_client_disconnect`, `iotconnect_sdk_deinit`: empty.
- `iotc_ota_fw_apply` reads a status it never assigned, for a log line only; the
  activation itself is commented out.
- SNTP in listen-only mode, with several servers or with checks of responses: not
  what this build uses. `sntp_stop` is never called. `sntp_task` calls `sntp_init`
  without lwIP's core lock; the model takes each `sys_timeout` as one step.
- What `MQTTAgent_Publish` does with the `NULL` handle that telemetry uses after a start
  that failed early.
- The message buffer of telemetry: who fills it is not in the repository.
- Of component 8: semaphores, mutexes, threads and the critical section, each of which
  hands its arguments to one FreeRTOS call and keeps no state of its own;
  `sys_mbox_trypost_fromisr` and the branches for `xInsideISR`, which nothing sets otherwise;
  a `sys_mbox_post` that sleeps on a full mailbox while it is freed.
- A server that gives a wrong time, and the microseconds, which nothing reads.

## Plan

1. `MqttClient` with `C2dDelivery`, their runs and proofs; `OtaDownload` with its
   runs. (Done.)
2. `Sntp` and `SystemTime`. (Done.)
3. `SdkInit`, with the telemetry loop. (Done.)
4. `LwipMbox`; `OtaHandler`, implemented by `OtaDownload`. (Done.)
5. Proofs about all of these, but for what is listed as only model-checked. (Done; the last ones
   were those about `Sntp`, and what happens to the time of day after a wrap.)
