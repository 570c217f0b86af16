-------------------------- MODULE OtaDownloadProofs --------------------------
(***************************************************************************)
(* Proofs about OtaDownload, for images and chunks of any size and any     *)
(* number of requests and reconnections.                                   *)
(***************************************************************************)
EXTENDS OtaDownload, TLAPS

USE OtaDownloadAssumption DEF OtaDownloadAssumption

-----------------------------------------------------------------------------
(***************************************************************************)
(* OtaDownload implements OtaHandler                                       *)
(***************************************************************************)

(* The flag of the commit is only set together with that of success, and a  *)
(* request clears it before it clears success: the two decisions, made in   *)
(* different places, agree when the answer is sent.                         *)
CommitInv ==
  /\ success \in BOOLEAN
  /\ needs_ota_commit \in BOOLEAN
  /\ needs_ota_commit => success

LEMMA CommitInit == Init => CommitInv
  BY DEF Init, CommitInv

LEMMA CommitStep == CommitInv /\ [Next]_vars => CommitInv'
<1> SUFFICES ASSUME CommitInv, [Next]_vars
             PROVE  CommitInv'
  OBVIOUS
<1>1. CASE OtaRequest
  BY <1>1 DEF OtaRequest, NewCommit, CommitInv
<1>2. CASE Close
  BY <1>2 DEF Close, CommitInv
<1>3. ASSUME UNCHANGED <<success, needs_ota_commit>>
      PROVE  CommitInv'
  BY <1>3 DEF CommitInv
<1>4. CASE SplitUrl \/ SplitUrl_Fails \/ Connect \/ Connect_Fails \/ CreateFile
  BY <1>3, <1>4 DEF SplitUrl, SplitUrl_Fails, Connect, Connect_Fails, CreateFile, outcomeVars
<1>5. CASE SizeQuery \/ Step_Fails
  BY <1>3, <1>5 DEF SizeQuery, Step_Fails, Return_Failure, outcomeVars
<1>6. CASE Chunk_Fetched \/ Chunk_WriteFails \/ Chunk_Reconnect \/ Chunk_Fails
  BY <1>3, <1>6
  DEF Chunk_Fetched, Chunk_WriteFails, Chunk_Reconnect, Chunk_Fails, Return_Failure, outcomeVars
<1>7. CASE Acknowledge \/ Apply
  BY <1>3, <1>7 DEF Acknowledge, Apply, outcomeVars
<1>8. CASE Quiescent \/ UNCHANGED vars
  BY <1>3, <1>8 DEF Quiescent, vars, outcomeVars
<1> QED
  BY <1>1, <1>2, <1>4, <1>5, <1>6, <1>7, <1>8 DEF Next, OtaStep

(* The steps between a request and its answer are stutters of OtaHandler.   *)
LEMMA WorkingStutters ==
  ASSUME pc \notin {"idle", "apply"}, pc' \notin {"idle", "apply"}, UNCHANGED ack
  PROVE  UNCHANGED Handler!vars
BY DEF Handler!vars

LEMMA HandlerStep == CommitInv /\ [Next]_vars => [Handler!Next]_(Handler!vars)
<1> SUFFICES ASSUME CommitInv, [Next]_vars
             PROVE  Handler!Next \/ UNCHANGED Handler!vars
  OBVIOUS
<1>1. CASE OtaRequest
  <2>1. Handler!Request
    BY <1>1 DEF OtaRequest, Handler!Request
  <2> QED  BY <2>1 DEF Handler!Next
<1>2. CASE Acknowledge
  <2>1. CASE success
    <3>1. Handler!Accept
      BY <1>2, <2>1 DEF Acknowledge, Handler!Accept, CommitInv
    <3> QED  BY <3>1 DEF Handler!Next
  <2>2. CASE ~success
    <3>1. Handler!Reject
      BY <1>2, <2>2 DEF Acknowledge, Handler!Reject, CommitInv
    <3> QED  BY <3>1 DEF Handler!Next
  <2> QED  BY <2>1, <2>2
<1>3. CASE Apply
  <2>1. Handler!Apply
    BY <1>3 DEF Apply, outcomeVars, Handler!Apply
  <2> QED  BY <2>1 DEF Handler!Next
<1>4. CASE SplitUrl \/ SplitUrl_Fails \/ Connect \/ Connect_Fails \/ CreateFile
  BY <1>4, WorkingStutters
  DEF SplitUrl, SplitUrl_Fails, Connect, Connect_Fails, CreateFile, outcomeVars
<1>5. CASE SizeQuery \/ Step_Fails
  BY <1>5, WorkingStutters DEF SizeQuery, Step_Fails, Return_Failure, outcomeVars
<1>6. CASE Chunk_Fetched \/ Chunk_WriteFails \/ Chunk_Reconnect \/ Chunk_Fails
  BY <1>6, WorkingStutters
  DEF Chunk_Fetched, Chunk_WriteFails, Chunk_Reconnect, Chunk_Fails, Return_Failure, outcomeVars
<1>7. CASE Close
  BY <1>7, WorkingStutters DEF Close
<1>8. CASE Quiescent \/ UNCHANGED vars
  BY <1>8 DEF Quiescent, vars, outcomeVars, Handler!vars
<1> QED
  BY <1>1, <1>2, <1>3, <1>4, <1>5, <1>6, <1>7, <1>8 DEF Next, OtaStep

(* Each request is answered exactly once, and an image is applied only      *)
(* after a success was answered: on_ota implements OtaHandler.              *)
THEOREM HandlingCorrect == Spec => HandlesRequests
<1>1. Init => Handler!Init
  BY DEF Init, Handler!Init
<1>2. CommitInv /\ [Next]_vars => [Handler!Next]_(Handler!vars)
  BY HandlerStep
<1>3. Init => CommitInv
  BY CommitInit
<1>4. CommitInv /\ [Next]_vars => CommitInv'
  BY CommitStep
<1> QED
  BY <1>1, <1>2, <1>3, <1>4, PTL DEF Spec, HandlesRequests, Handler!Spec

-----------------------------------------------------------------------------
(***************************************************************************)
(* The strings of split_url                                                *)
(***************************************************************************)

(* split_url begins with none of its strings allocated, so that one that    *)
(* fails leaves none.                                                       *)
StringsInv == pc \in {"idle", "split", "ack", "apply"} => heap \cap Strings = {}

LEMMA FreedHasNoStrings == \A blocks : Freed(blocks) \cap Strings = {}
  BY DEF Freed

LEMMA StringsStep == StringsInv /\ [Next]_vars => StringsInv'
<1> SUFFICES ASSUME StringsInv, [Next]_vars
             PROVE  StringsInv'
  OBVIOUS
<1>1. CASE OtaRequest
  BY <1>1 DEF OtaRequest, StringsInv
<1>2. CASE SplitUrl_Fails
  BY <1>2 DEF SplitUrl_Fails, SplitFailHeap, StringsInv
<1>3. CASE Connect_Fails
  <2>1. (Freed(heap) \cup {"network_context"}) \cap Strings = {}
    BY FreedHasNoStrings DEF Strings
  <2> QED
    BY <1>3, <2>1, FreedHasNoStrings DEF Connect_Fails, StringsInv
<1>4. ASSUME heap' = Freed(heap)
      PROVE  StringsInv'
  BY <1>4, FreedHasNoStrings DEF StringsInv
<1>5. CASE Step_Fails \/ Chunk_WriteFails \/ Chunk_Fails \/ Close
  BY <1>4, <1>5 DEF Step_Fails, Chunk_WriteFails, Chunk_Fails, Return_Failure, Close
<1>6. CASE SplitUrl \/ Connect \/ CreateFile \/ Chunk_Fetched \/ Chunk_Reconnect
  BY <1>6 DEF SplitUrl, Connect, CreateFile, Chunk_Fetched, Chunk_Reconnect, StringsInv
<1>7. CASE SizeQuery
  <2>1. pc' = "create" \/ heap' = Freed(heap)
    BY <1>7 DEF SizeQuery, Return_Failure
  <2> QED
    BY <2>1, <1>4 DEF StringsInv
<1>8. CASE Acknowledge \/ Apply
  BY <1>8 DEF Acknowledge, Apply, downloadVars, StringsInv
<1>9. CASE Quiescent \/ UNCHANGED vars
  BY <1>9 DEF Quiescent, vars, downloadVars, StringsInv
<1> QED
  BY <1>1, <1>2, <1>3, <1>5, <1>6, <1>7, <1>8, <1>9 DEF Next, OtaStep

(* Whichever of the many steps fails, on_ota answers with no string of      *)
(* split_url left allocated.                                                *)
THEOREM StringsCorrect == Spec => []StringsFreed
<1>1. Init => StringsInv
  BY DEF Init, StringsInv
<1>2. StringsInv /\ [Next]_vars => StringsInv'
  BY StringsStep
<1>3. StringsInv => StringsFreed
  BY DEF StringsInv, StringsFreed
<1> QED
  BY <1>1, <1>2, <1>3, PTL DEF Spec

-----------------------------------------------------------------------------
(***************************************************************************)
(* Types                                                                   *)
(***************************************************************************)
(* From the request on there is an image; from the size query on a size,    *)
(* and while a chunk is to be fetched there are bytes left to ask for: no   *)
(* range ends before it starts.                                             *)
RangeInv ==
  /\ pc # "idle" => image \in ImageSizes
  /\ pc \in {"create", "chunk", "close"} => data_length > 0
  /\ pc = "chunk" => data_start < data_length

TypeInv == TypeOK /\ RangeInv

LEMMA TypeInit == Init => TypeInv
<1> SUFFICES ASSUME Init
             PROVE  TypeInv
  OBVIOUS
<1>1. RangeInv
  BY DEF Init, RangeInv
<1>2. /\ requests \in 0 .. MaxRequests
      /\ tries_remaining \in 0 .. MaxTries
  BY DEF Init
<1>3. response.first \in Nat /\ response.last \in Nat /\ response.size \in ImageSizes \cup {0}
  BY DEF Init, Refused, Answer
<1>4. file.right = {} /\ file.wrong = {}
  BY DEF Init, NoFile
<1> QED
  BY <1>1, <1>2, <1>3, <1>4 DEF Init, TypeInv, TypeOK

(* The end of the chunk.                                                    *)
LEMMA DataEnd ==
  ASSUME TypeInv, pc = "chunk"
  PROVE  /\ data_end \in Nat
         /\ data_start < data_end
         /\ data_end <= data_start + ChunkSize
         /\ data_end <= data_length
         /\ data_end = data_start + ChunkSize \/ data_end = data_length
BY DEF TypeInv, TypeOK, RangeInv, data_end

(* What an answer to a query for first .. last can be.                      *)
LEMMA SendAnswer ==
  ASSUME TypeInv, pc # "idle",
         NEW first \in Nat, NEW last \in Nat, first <= last, NEW status,
         HTTPClient_Send(first, last, status)
  PROVE  /\ response'.first \in Nat /\ response'.last \in Nat
         /\ response'.size \in ImageSizes \cup {0}
         /\ answered' \in BOOLEAN
         /\ status = "HTTPSuccess" =>
              \/ /\ response'.size = image /\ response'.first = first
                 /\ first <= response'.last /\ response'.last < image
                 /\ response'.last <= last
                 /\ answered' = (answered /\ last < image)
                 /\ last < image => response'.last = last
              \/ /\ response'.size = 0 /\ response'.first = 1 /\ response'.last = 1
                 /\ answered' = FALSE
<1>0. image \in ImageSizes
  BY DEF TypeInv, RangeInv
<1>1. image \in Nat /\ image > 0
  BY <1>0
<1>2. CASE /\ first < image
           /\ response' = Answer(first, IF last < image THEN last ELSE image - 1, image)
           /\ answered' = (answered /\ last < image)
  <2>1. /\ response'.first = first /\ response'.size = image
        /\ response'.last = IF last < image THEN last ELSE image - 1
    BY <1>2 DEF Answer
  <2>2. answered' \in BOOLEAN
    BY <1>2
  <2> QED
    BY <1>0, <1>1, <1>2, <2>1, <2>2
<1>3. CASE response' = Refused /\ answered' = FALSE
  BY <1>3 DEF Refused, Answer
<1>4. CASE status # "HTTPSuccess" /\ UNCHANGED <<response, answered>>
  BY <1>4 DEF TypeInv, TypeOK
<1> QED
  BY <1>2, <1>3, <1>4 DEF HTTPClient_Send

(* A right answer is written at its own offsets, and clears what was wrong  *)
(* there; a refused one leaves a wrong byte.                                *)
LEMMA RightWritten ==
  ASSUME TypeInv, NEW answer, answer.size # 0, answer.first = data_start,
         answer.last \in Nat, data_start <= answer.last, WriteBlock(answer)
  PROVE  LET written == data_start .. answer.last
         IN  /\ file'.right = file.right \cup written
             /\ file'.wrong = file.wrong \ written
             /\ file' = [right |-> file'.right, wrong |-> file'.wrong]
<1> DEFINE written == {data_start + i : i \in Body(answer)}
<1>1. data_start \in Nat
  BY DEF TypeInv, TypeOK
<1>2. written = data_start .. answer.last
  <2>1. \A k \in data_start .. answer.last : k - data_start \in Body(answer)
    BY <1>1 DEF Body
  <2>2. \A k \in data_start .. answer.last : k = data_start + (k - data_start)
    BY <1>1
  <2>3. \A i \in Body(answer) : data_start + i \in data_start .. answer.last
    BY <1>1 DEF Body
  <2> QED
    BY <2>1, <2>2, <2>3
<1>3. file' = [right |-> (file.right \ written) \cup written,
               wrong |-> (file.wrong \ written) \cup (written \ written)]
  BY DEF WriteBlock
<1> HIDE DEF written
<1> QED
  BY <1>2, <1>3

LEMMA WrongWritten ==
  ASSUME TypeInv, NEW answer, answer.size = 0, answer.first = 1, answer.last = 1,
         WriteBlock(answer)
  PROVE  /\ file'.right = file.right \ {data_start}
         /\ file'.wrong = file.wrong \cup {data_start}
<1> DEFINE written == {data_start + i : i \in Body(answer)}
<1>1. data_start \in Nat
  BY DEF TypeInv, TypeOK
<1>2. Body(answer) = {0}
  BY DEF Body
<1>3. written = {data_start}
  BY <1>1, <1>2
<1>4. file' = [right |-> (file.right \ written) \cup {},
               wrong |-> (file.wrong \ {}) \cup (written \ {})]
  BY DEF WriteBlock
<1> HIDE DEF written
<1> QED
  BY <1>3, <1>4

(* What a chunk that was answered may have done.                            *)
ChunkAnswered ==
  /\ response'.size = image /\ response'.first = data_start
  /\ response'.last \in Nat /\ data_start <= response'.last /\ response'.last < image
  /\ response'.last < data_end
  /\ answered' = (answered /\ data_end - 1 < image)
  /\ data_end - 1 < image => response'.last = data_end - 1

ChunkRefused ==
  /\ response'.size = 0 /\ response'.first = 1 /\ response'.last = 1
  /\ answered' = FALSE

LEMMA ChunkAnswer ==
  ASSUME TypeInv, pc = "chunk", NEW status, HTTPClient_Send(data_start, data_end - 1, status)
  PROVE  /\ response'.first \in Nat /\ response'.last \in Nat
         /\ response'.size \in ImageSizes \cup {0}
         /\ answered' \in BOOLEAN
         /\ status = "HTTPSuccess" => ChunkAnswered \/ ChunkRefused
<1>1. data_start \in Nat /\ data_end \in Nat /\ data_start < data_end
  BY DataEnd DEF TypeInv, TypeOK
<1>2. data_end - 1 \in Nat /\ data_start <= data_end - 1
  BY <1>1
<1> DEFINE last == data_end - 1
<1>3. /\ response'.first \in Nat /\ response'.last \in Nat
      /\ response'.size \in ImageSizes \cup {0}
      /\ answered' \in BOOLEAN
      /\ status = "HTTPSuccess" =>
              \/ /\ response'.size = image /\ response'.first = data_start
                 /\ data_start <= response'.last /\ response'.last < image
                 /\ response'.last <= last
                 /\ answered' = (answered /\ last < image)
                 /\ last < image => response'.last = last
              \/ /\ response'.size = 0 /\ response'.first = 1 /\ response'.last = 1
                 /\ answered' = FALSE
  BY <1>1, <1>2, SendAnswer
<1>4. response'.last <= last => response'.last < data_end
  BY <1>1, <1>3
<1> QED
  BY <1>3, <1>4 DEF ChunkAnswered, ChunkRefused

(* The size that is read is positive, whatever digits follow it.            *)
LEMMA SizeReadPositive ==
  ASSUME NEW size \in ImageSizes, NEW n \in SizeRead(size)
  PROVE  n \in Nat /\ n > 0
<1>1. size \in Nat /\ size > 0
  OBVIOUS
<1>2. CASE n = size
  BY <1>1, <1>2
<1>3. ASSUME NEW d \in StackDigits, n = 10 * size + d
      PROVE  n \in Nat /\ n > 0
  <2>1. d \in Nat
    OBVIOUS
  <2> QED
    BY <1>1, <1>3, <2>1
<1> QED
  BY <1>2, <1>3 DEF SizeRead

LEMMA SizeQueryTypes ==
  ASSUME TypeInv, SizeQuery
  PROVE  /\ response'.first \in Nat /\ response'.last \in Nat
         /\ response'.size \in ImageSizes \cup {0}
         /\ answered' \in BOOLEAN
         /\ data_length' \in Nat
         /\ pc' = "create" => data_length' > 0
<1>1. PICK status : HTTPClient_Send(0, 0, status)
  BY DEF SizeQuery
<1>2. pc # "idle" /\ 0 \in Nat /\ 0 <= 0
  BY DEF SizeQuery
<1>3. /\ response'.first \in Nat /\ response'.last \in Nat
      /\ response'.size \in ImageSizes \cup {0}
      /\ answered' \in BOOLEAN
  BY <1>1, <1>2, SendAnswer
<1>4. CASE response'.size # 0 /\ data_length' \in SizeRead(response'.size)
  <2>1. data_length' \in Nat /\ data_length' > 0
    BY <1>3, <1>4, SizeReadPositive
  <2> QED
    BY <1>3, <2>1
<1>5. CASE pc' = "ack" /\ UNCHANGED data_length
  BY <1>3, <1>5 DEF TypeInv, TypeOK
<1> QED
  BY <1>4, <1>5 DEF SizeQuery, Return_Failure

LEMMA TypeStep == TypeInv /\ [Next]_vars => TypeInv'
<1> SUFFICES ASSUME TypeInv, [Next]_vars
             PROVE  TypeInv'
  OBVIOUS
<1> USE DEF TypeInv, TypeOK, RangeInv
<1>1. CASE OtaRequest
  <2>1. requests' \in 0 .. MaxRequests
    BY <1>1 DEF OtaRequest
  <2> QED
    BY <1>1, <2>1 DEF OtaRequest, NewCommit, NoFile
<1>2. CASE SplitUrl \/ SplitUrl_Fails
  BY <1>2 DEF SplitUrl, SplitUrl_Fails, SplitFailHeap, Strings, requestVars, outcomeVars
<1>3. CASE Connect \/ Connect_Fails
  <2>1. CASE Connect
    BY <2>1 DEF Connect, requestVars, outcomeVars
  <2>2. CASE Connect_Fails
    <3>1. Freed(heap) \subseteq Strings \cup {"network_context"}
      BY DEF Freed
    <3>2. heap' \subseteq Strings \cup {"network_context"}
      BY <2>2, <3>1 DEF Connect_Fails
    <3> QED
      BY <2>2, <3>2 DEF Connect_Fails, requestVars, outcomeVars
  <2> QED
    BY <1>3, <2>1, <2>2
<1>4. CASE SizeQuery
  <2>1. /\ response'.first \in Nat /\ response'.last \in Nat
        /\ response'.size \in ImageSizes \cup {0}
        /\ answered' \in BOOLEAN
        /\ data_length' \in Nat
        /\ pc' = "create" => data_length' > 0
    BY <1>4, SizeQueryTypes
  <2>2. CASE pc' = "create"
    <3>1. UNCHANGED <<heap, success, needs_ota_commit, ack>>
      BY <1>4, <2>2 DEF SizeQuery, Return_Failure, outcomeVars
    <3> QED
      BY <1>4, <2>1, <2>2, <3>1 DEF SizeQuery, requestVars
  <2>3. CASE pc' = "ack"
    BY <1>4, <2>1, <2>3 DEF SizeQuery, Return_Failure, Freed, Strings, requestVars, outcomeVars
  <2> QED
    BY <1>4, <2>2, <2>3 DEF SizeQuery, Return_Failure
<1>5. CASE CreateFile
  BY <1>5 DEF CreateFile, NoFile, requestVars, outcomeVars
<1>6. CASE Step_Fails
  BY <1>6 DEF Step_Fails, Return_Failure, Freed, Strings, requestVars, outcomeVars
<1>7. CASE Chunk_Fetched
  <2>1. /\ response'.first \in Nat /\ response'.last \in Nat
        /\ response'.size \in ImageSizes \cup {0}
        /\ answered' \in BOOLEAN
        /\ ChunkAnswered \/ ChunkRefused
    BY <1>7, ChunkAnswer DEF Chunk_Fetched
  <2>2. /\ file'.right \subseteq 0 .. image - 1
        /\ file'.wrong \subseteq Nat
        /\ file'.right \cap file'.wrong = {}
    <3>1. CASE ChunkAnswered
      <4>1. response'.size # 0
        BY <1>7, <3>1 DEF ChunkAnswered, Chunk_Fetched
      <4>2. /\ file'.right = file.right \cup (data_start .. response'.last)
            /\ file'.wrong = file.wrong \ (data_start .. response'.last)
        BY <1>7, <3>1, <4>1, RightWritten DEF ChunkAnswered, Chunk_Fetched
      <4>3. data_start .. response'.last \subseteq 0 .. image - 1
        <5>1. image \in Nat /\ data_start \in Nat
          BY <1>7
        <5>2. response'.last \in Nat /\ response'.last < image
          BY <3>1 DEF ChunkAnswered
        <5> QED
          BY <5>1, <5>2
      <4> QED
        BY <4>2, <4>3
    <3>2. CASE ChunkRefused
      BY <1>7, <3>2, WrongWritten DEF ChunkRefused, Chunk_Fetched
    <3> QED
      BY <2>1, <3>1, <3>2
  <2>3. /\ data_start' \in Nat
        /\ pc' \in {"chunk", "close"}
        /\ pc' = "chunk" => data_start' < data_length
        /\ tries_remaining' \in 0 .. MaxTries
    BY <1>7 DEF Chunk_Fetched
  <2> QED
    BY <1>7, <2>1, <2>2, <2>3 DEF Chunk_Fetched, requestVars, outcomeVars
<1>8. CASE Chunk_WriteFails
  BY <1>8, ChunkAnswer
  DEF Chunk_WriteFails, Return_Failure, Freed, Strings, requestVars, outcomeVars
<1>9. CASE Chunk_Reconnect
  <2>1. /\ response'.first \in Nat /\ response'.last \in Nat
        /\ response'.size \in ImageSizes \cup {0}
        /\ answered' \in BOOLEAN
    BY <1>9, ChunkAnswer DEF Chunk_Reconnect
  <2>2. tries_remaining' \in 0 .. MaxTries
    BY <1>9 DEF Chunk_Reconnect, CanReconnect, TriesLeft
  <2> QED
    BY <1>9, <2>1, <2>2 DEF Chunk_Reconnect, AfterReconnect, requestVars, outcomeVars
<1>10. CASE Chunk_Fails
  <2>1. /\ response'.first \in Nat /\ response'.last \in Nat
        /\ response'.size \in ImageSizes \cup {0}
        /\ answered' \in BOOLEAN
    BY <1>10, ChunkAnswer DEF Chunk_Fails
  <2> QED
    BY <1>10, <2>1 DEF Chunk_Fails, Return_Failure, Freed, Strings, requestVars, outcomeVars
<1>11. CASE Close
  BY <1>11 DEF Close, Freed, Strings, requestVars
<1>12. CASE Acknowledge \/ Apply
  BY <1>12 DEF Acknowledge, Apply, requestVars, downloadVars, outcomeVars
<1>13. CASE Quiescent \/ UNCHANGED vars
  BY <1>13 DEF Quiescent, vars, requestVars, downloadVars, outcomeVars
<1> QED
  BY <1>1, <1>2, <1>3, <1>4, <1>5, <1>6, <1>7, <1>8, <1>9, <1>10, <1>11, <1>12, <1>13
  DEF Next, OtaStep

(* The types, and that a byte of the file is right only at an offset of the *)
(* image and never right and wrong at once, for images and chunks of any    *)
(* size and any number of reconnections.                                    *)
THEOREM OtaTypeCorrect == Spec => []TypeOK
<1>1. TypeInv => TypeOK
  BY DEF TypeInv
<1> QED
  BY <1>1, TypeInit, TypeStep, PTL DEF Spec

-----------------------------------------------------------------------------
(***************************************************************************)
(* The file                                                                *)
(***************************************************************************)
Prefix(n) == [right |-> {i \in 0 .. image - 1 : i < n}, wrong |-> {}]

Downloading == {"split", "connect", "query", "create", "chunk", "close"}

(* The chunks end at or after the end of the image. What one request has    *)
(* left of the commit flag is gone before the next download begins, so that *)
(* an image is only applied with the flag of its own download.              *)
ImageInv ==
  /\ pc = "close" => data_length <= data_start
  /\ pc \in Downloading => ~needs_ota_commit
  /\ pc \in {"ack", "apply"} /\ needs_ota_commit /\ Regular =>
       file = [right |-> 0 .. image - 1, wrong |-> {}]
  /\ pc = "apply" => needs_ota_commit

(* A chunk that was answered with what was asked for makes the prefix       *)
(* longer by just its bytes.                                                *)
LEMMA PrefixGrows ==
  ASSUME TypeInv, ContiguousPrefix, Chunk_Fetched, Regular'
  PROVE  file' = Prefix(data_start') /\ UNCHANGED image
<1>1. UNCHANGED image /\ data_length = image /\ pc = "chunk" /\ answered' = TRUE
  BY DEF Chunk_Fetched, Regular, requestVars, TypeInv, TypeOK
<1>2. ChunkAnswered \/ ChunkRefused
  BY <1>1, ChunkAnswer DEF Chunk_Fetched
<1>3. ChunkAnswered
  BY <1>1, <1>2 DEF ChunkRefused
<1>4. /\ data_start \in Nat /\ data_end \in Nat /\ data_start < data_end /\ image \in Nat
      /\ data_end = data_start + ChunkSize \/ data_end = image
      /\ data_end <= data_start + ChunkSize
      /\ data_end <= image
  BY <1>1, DataEnd DEF TypeInv, TypeOK
<1>5. /\ answered
      /\ response'.last = data_end - 1
      /\ response'.size # 0 /\ response'.first = data_start
  <2>1. data_end - 1 < image /\ image # 0
    BY <1>4
  <2> QED
    BY <1>1, <1>3, <2>1 DEF ChunkAnswered, TypeInv, TypeOK
<1>6. file = Prefix(data_start)
  BY <1>1, <1>5 DEF ContiguousPrefix, Regular, Prefix
<1>7. /\ file'.right = file.right \cup (data_start .. data_end - 1)
      /\ file'.wrong = file.wrong \ (data_start .. data_end - 1)
      /\ file' = [right |-> file'.right, wrong |-> file'.wrong]
  <2>1. response'.last \in Nat /\ data_start <= response'.last
    BY <1>3 DEF ChunkAnswered
  <2>2. WriteBlock(response')
    BY DEF Chunk_Fetched
  <2>3. LET written == data_start .. response'.last
        IN  /\ file'.right = file.right \cup written
            /\ file'.wrong = file.wrong \ written
            /\ file' = [right |-> file'.right, wrong |-> file'.wrong]
    BY <1>5, <2>1, <2>2, RightWritten
  <2> QED
    BY <1>5, <2>3
<1>8. file'.wrong = {}
  BY <1>6, <1>7 DEF Prefix
<1>9. data_start' = data_start + ChunkSize /\ ChunkSize \in Nat
  BY DEF Chunk_Fetched
<1>10. file'.right = {i \in 0 .. image - 1 : i < data_start'}
  <2>1. file'.right = {i \in 0 .. image - 1 : i < data_start} \cup (data_start .. data_end - 1)
    BY <1>6, <1>7 DEF Prefix
  <2>2. \A i \in 0 .. image - 1 :
          i < data_start' <=> i < data_start \/ i \in data_start .. data_end - 1
    BY <1>4, <1>9
  <2>3. data_start .. data_end - 1 \subseteq 0 .. image - 1
    BY <1>4
  <2> QED
    BY <2>1, <2>2, <2>3
<1> QED
  BY <1>1, <1>7, <1>8, <1>10 DEF Prefix

LEMMA PrefixStep == TypeInv /\ ContiguousPrefix /\ [Next]_vars => ContiguousPrefix'
<1> SUFFICES ASSUME TypeInv, ContiguousPrefix, [Next]_vars
             PROVE  ContiguousPrefix'
  OBVIOUS
<1>1. CASE Chunk_Fetched
  BY <1>1, PrefixGrows DEF ContiguousPrefix, Prefix
<1>2. CASE CreateFile
  <2>1. data_start' = 0 /\ file' = [right |-> {}, wrong |-> {}]
    BY <1>2 DEF CreateFile, NoFile
  <2>2. {i \in 0 .. image' - 1 : i < 0} = {}
    <3>1. \A i \in 0 .. image' - 1 : ~(i < 0)
      OBVIOUS
    <3> QED
      BY <3>1
  <2> QED
    BY <2>1, <2>2 DEF ContiguousPrefix
<1>3. CASE Chunk_Reconnect
  <2>1. /\ UNCHANGED <<pc, image, data_length, data_start, file>>
        /\ UNCHANGED answered
    BY <1>3 DEF Chunk_Reconnect, AfterReconnect, HTTPClient_Send, requestVars
  <2> QED
    BY <2>1 DEF ContiguousPrefix, Regular
<1>4. ASSUME pc' \notin {"chunk", "close"}
      PROVE  ContiguousPrefix'
  BY <1>4 DEF ContiguousPrefix
<1>5. CASE OtaRequest \/ SplitUrl \/ SplitUrl_Fails \/ Connect \/ Connect_Fails
  BY <1>4, <1>5 DEF OtaRequest, SplitUrl, SplitUrl_Fails, Connect, Connect_Fails
<1>6. CASE SizeQuery \/ Step_Fails \/ Chunk_WriteFails \/ Chunk_Fails
  BY <1>4, <1>6 DEF SizeQuery, Step_Fails, Chunk_WriteFails, Chunk_Fails, Return_Failure
<1>7. CASE Close \/ Acknowledge \/ Apply
  BY <1>4, <1>7 DEF Close, Acknowledge, Apply
<1>8. CASE Quiescent \/ UNCHANGED vars
  BY <1>8 DEF Quiescent, vars, requestVars, downloadVars, ContiguousPrefix, Regular
<1> QED
  BY <1>1, <1>2, <1>3, <1>5, <1>6, <1>7, <1>8 DEF Next, OtaStep

LEMMA ImageStep ==
  TypeInv /\ ContiguousPrefix /\ ImageInv /\ [Next]_vars => ImageInv'
<1> SUFFICES ASSUME TypeInv, ContiguousPrefix, ImageInv, [Next]_vars
             PROVE  ImageInv'
  OBVIOUS
<1>1. CASE OtaRequest
  BY <1>1 DEF OtaRequest, NewCommit, ImageInv, Downloading
<1>2. ASSUME pc \in Downloading, pc' \in Downloading \cup {"ack"},
             pc' = "close" => data_length' <= data_start',
             UNCHANGED needs_ota_commit
      PROVE  ImageInv'
  BY <1>2 DEF ImageInv, Downloading
<1>3. CASE SplitUrl \/ SplitUrl_Fails \/ Connect \/ Connect_Fails \/ CreateFile
  BY <1>2, <1>3
  DEF SplitUrl, SplitUrl_Fails, Connect, Connect_Fails, CreateFile, outcomeVars, Downloading
<1>4. CASE SizeQuery \/ Step_Fails \/ Chunk_WriteFails \/ Chunk_Fails
  BY <1>2, <1>4
  DEF SizeQuery, Step_Fails, Chunk_WriteFails, Chunk_Fails, Return_Failure, outcomeVars, Downloading
<1>5. CASE Chunk_Reconnect
  BY <1>2, <1>5 DEF Chunk_Reconnect, outcomeVars, Downloading
<1>6. CASE Chunk_Fetched
  <2>1. data_start' \in Nat /\ data_length' \in Nat /\ UNCHANGED data_length
    BY <1>6 DEF Chunk_Fetched, TypeInv, TypeOK
  <2>2. pc' = "close" => data_length' <= data_start'
    BY <1>6, <2>1 DEF Chunk_Fetched
  <2> QED
    BY <1>2, <1>6, <2>2 DEF Chunk_Fetched, outcomeVars, Downloading
<1>7. CASE Close
  <2>1. ASSUME Regular'
        PROVE  file' = [right |-> 0 .. image' - 1, wrong |-> {}]
    <3>1. Regular /\ UNCHANGED <<file, image>> /\ pc = "close"
      BY <1>7, <2>1 DEF Close, Regular, requestVars
    <3>2. file = [right |-> {i \in 0 .. image - 1 : i < data_start}, wrong |-> {}]
      BY <3>1 DEF ContiguousPrefix
    <3>3. image \in Nat /\ data_start \in Nat /\ image <= data_start
      BY <3>1 DEF TypeInv, TypeOK, ImageInv, Regular
    <3>4. {i \in 0 .. image - 1 : i < data_start} = 0 .. image - 1
      BY <3>3
    <3> QED
      BY <3>1, <3>2, <3>4
  <2> QED
    BY <1>7, <2>1 DEF Close, ImageInv, Downloading
<1>8. CASE Acknowledge \/ Apply
  <2>1. /\ UNCHANGED <<needs_ota_commit, file, image, data_length, answered>>
        /\ pc \in {"ack", "apply"} /\ pc' \in {"idle", "apply"}
        /\ pc' = "apply" => needs_ota_commit
    BY <1>8 DEF Acknowledge, Apply, requestVars, downloadVars, outcomeVars
  <2>2. UNCHANGED Regular
    BY <2>1 DEF Regular
  <2> QED
    BY <2>1, <2>2 DEF ImageInv, Downloading
<1>9. CASE Quiescent \/ UNCHANGED vars
  <2>1. /\ UNCHANGED <<pc, needs_ota_commit, file, image, data_length, data_start>>
        /\ UNCHANGED Regular
    BY <1>9 DEF Quiescent, vars, requestVars, downloadVars, outcomeVars, Regular
  <2> QED
    BY <2>1 DEF ImageInv
<1> QED
  BY <1>1, <1>3, <1>4, <1>5, <1>6, <1>7, <1>8, <1>9 DEF Next, OtaStep

(* However often the connection breaks, between two chunks the file is the  *)
(* image up to data_start.                                                  *)
THEOREM PrefixCorrect == Spec => []ContiguousPrefix
<1>1. Init => ContiguousPrefix
  BY DEF Init, ContiguousPrefix
<1> QED
  BY <1>1, TypeInit, TypeStep, PrefixStep, PTL DEF Spec

(* An image is applied whole, if the answers were what was asked for.       *)
THEOREM ImageCorrect == Spec => []ImageComplete
<1>1. Init => ContiguousPrefix /\ ImageInv
  BY DEF Init, ContiguousPrefix, ImageInv, Downloading
<1>2. ImageInv => ImageComplete
  BY DEF ImageInv, ImageComplete
<1> QED
  BY <1>1, <1>2, TypeInit, TypeStep, PrefixStep, ImageStep, PTL DEF Spec
=============================================================================
