----------------------------- MODULE OtaDownload -----------------------------
(***************************************************************************)
(* Firmware updates: on_ota, split_url and start_ota of iotconnect_app.c   *)
(* and iotc_ota_fw_download of freertos-layer/iotc_https_ota.c. All of it  *)
(* runs on mqtt_command_task (MqttClient), one request after the other.    *)
(*                                                                         *)
(* A download asks the server for one byte, learns the size of the image   *)
(* from the Content-Range header of the answer, and fetches the image in   *)
(* chunks. coreHTTP, the TLS transport and the otaPal file are not in this *)
(* repository: each of their calls has the outcomes the code tells apart.  *)
(*                                                                         *)
(* A definition X_Y just before X is X with a fault of the kind Y in it;   *)
(* the properties are tried against them. Next never uses them.            *)
(***************************************************************************)
EXTENDS Naturals

CONSTANTS
  ImageSizes,    \* the sizes, in bytes, an image can have
  ChunkSize,     \* DATA_CHUNK_SIZE
  MaxTries,      \* reconnections per chunk, 30 in the code
  StackDigits,   \* digits that can follow the size in data_length_buffer
  MaxRequests    \* bound: OTA requests received

ASSUME OtaDownloadAssumption ==
  /\ ImageSizes \subseteq Nat \ {0}
  /\ ChunkSize \in Nat \ {0}
  /\ MaxTries \in Nat
  /\ StackDigits \subseteq 0 .. 9
  /\ MaxRequests \in Nat

VARIABLES
  pc,                \* where on_ota is, "idle" between two requests
  requests,          \* how many requests have come
  version,           \* APP_VERSION against the request's version, by strcmp
  url,               \* what the request has for a URL
  image,             \* the size of the image at the URL
  heap,              \* allocated: split_url's strings, transport contexts
  connected,         \* is the TLS connection up?
  response,          \* the static response, as the last answer left it
  data_length,       \* the size the download goes by
  data_start,        \* offset of the chunk being fetched
  tries_remaining,   \* reconnections left for this chunk
  file,              \* offsets written, with the image's own byte or another
  answered,          \* was every query answered with what it asked for?
  success,           \* will the request be acknowledged as a success?
  needs_ota_commit,  \* is the image to be applied?
  ack                \* the acknowledgement of the latest request

requestVars  == <<requests, version, url, image>>
downloadVars == <<heap, connected, response, data_length, data_start,
                  tries_remaining, file, answered>>
outcomeVars  == <<success, needs_ota_commit, ack>>
vars         == <<pc, requestVars, downloadVars, outcomeVars>>

(* An answer: the bytes it carries and the size of the image it is part of. *)
(* Refused stands for any other complete answer: it has no Content-Range    *)
(* the size can be read from, and its body is not part of the image.        *)
Answer(first, last, size) == [first |-> first, last |-> last, size |-> size]
Refused == Answer(1, 1, 0)

NoFile == [right |-> {}, wrong |-> {}]

Init ==
  /\ pc               = "idle"
  /\ requests         = 0
  /\ version          = "none"
  /\ url              = "none"
  /\ image            = 0
  /\ heap             = {}
  /\ connected        = FALSE
  /\ response         = Refused
  /\ data_length      = 0
  /\ data_start       = 0
  /\ tries_remaining  = 0
  /\ file             = NoFile
  /\ answered         = TRUE
  /\ success          = FALSE
  /\ needs_ota_commit = FALSE
  /\ ack              = "none"

-----------------------------------------------------------------------------
(***************************************************************************)
(* on_ota up to start_ota                                                  *)
(***************************************************************************)

(* A request names a URL, or not, and a version, or not, that strcmp puts   *)
(* before, at or after APP_VERSION. It is a success until proved otherwise  *)
(* as soon as it has a URL, and the image is downloaded whatever the        *)
(* version.                                                                 *)
NewCommit_Kept == needs_ota_commit

NewCommit == FALSE

OtaRequest ==
  /\ pc = "idle"
  /\ requests < MaxRequests
  /\ requests' = requests + 1
  /\ url' \in {"none", "unsplittable", "https"}
  /\ version' \in {"none", "older", "same", "newer"}
  /\ image' \in ImageSizes
  /\ success' = (url' # "none")
  /\ needs_ota_commit' = NewCommit
  /\ ack' = "none"
  /\ answered' = TRUE
  /\ file' = NoFile
  /\ pc' = IF url' # "none" /\ version' # "none" THEN "split" ELSE "ack"
  /\ UNCHANGED <<heap, connected, response, data_length, data_start, tries_remaining>>

(* split_url fails: fewer than three slashes, or no memory for the first or *)
(* the second string.                                                       *)
SplitFailHeap_Leak == 
  IF url = "unsplittable" THEN {heap} ELSE {heap, heap \cup {"host_name"}}

SplitFailHeap == {heap}

SplitUrl_Fails ==
  /\ pc = "split"
  /\ heap' \in SplitFailHeap
  /\ pc' = "ack"
  /\ UNCHANGED <<requestVars, connected, response, data_length, data_start,
                 tries_remaining, file, answered, outcomeVars>>

SplitUrl ==
  /\ pc = "split"
  /\ url = "https"
  /\ heap' = heap \cup {"host_name", "resource"}
  /\ pc' = "connect"
  /\ UNCHANGED <<requestVars, connected, response, data_length, data_start,
                 tries_remaining, file, answered, outcomeVars>>

-----------------------------------------------------------------------------
(***************************************************************************)
(* iotc_ota_fw_download                                                    *)
(***************************************************************************)

(* start_ota frees its strings whatever the download returned. Nobody frees  *)
(* the transport context.                                                    *)
Strings == {"host_name", "resource"}

Freed(blocks) == blocks \ Strings

(* The download returns -1, and on_ota does not look further.                *)
Return_Failure ==
  /\ heap' = Freed(heap)
  /\ pc' = "ack"
  /\ UNCHANGED outcomeVars

Connect ==
  /\ pc = "connect"
  /\ connected' = TRUE
  /\ heap' = heap \cup {"network_context"}
  /\ pc' = "query"
  /\ UNCHANGED <<requestVars, response, data_length, data_start,
                 tries_remaining, file, answered, outcomeVars>>

(* No transport context, no configuration or no connection.                 *)
Connect_Fails ==
  /\ pc = "connect"
  /\ connected' = FALSE
  /\ heap' \in {Freed(heap), Freed(heap) \cup {"network_context"}}
  /\ pc' = "ack"
  /\ UNCHANGED <<requestVars, response, data_length, data_start,
                 tries_remaining, file, answered, outcomeVars>>

(* HTTPClient_Send of a GET for the bytes first .. last. An error leaves    *)
(* response as it was.                                                      *)
HTTPClient_Send(first, last, status) ==
  \/ /\ status = "HTTPSuccess"
     /\ connected
     /\ \/ /\ first < image
           /\ response' = Answer(first, IF last < image THEN last ELSE image - 1, image)
           /\ answered' = (answered /\ last < image)
        \/ /\ response' = Refused
           /\ answered' = FALSE
  \/ /\ status \in {"HTTPNetworkError", "other"}
     /\ connected \/ status = "HTTPNetworkError"
     /\ UNCHANGED <<response, answered>>

(* The size query. Its status is logged and nothing more: the headers in    *)
(* response are read whichever answer they come from. sscanf wants them to  *)
(* start with "bytes 0-0/"; it reads the number from a buffer strncpy did   *)
(* not terminate, so digits that happen to follow become part of it.        *)
SizeRead(size) == {size} \cup {10 * size + d : d \in StackDigits}

SizeQuery ==
  /\ pc = "query"
  /\ \E status \in {"HTTPSuccess", "HTTPNetworkError", "other"} :
       HTTPClient_Send(0, 0, status)
  /\ \/ /\ response'.size # 0 /\ response'.first = 0 /\ response'.last = 0
        /\ data_length' \in SizeRead(response'.size)
        /\ pc' = "create"
        /\ UNCHANGED <<heap, outcomeVars>>
     \/ /\ ~(response'.size # 0 /\ response'.first = 0 /\ response'.last = 0)
        /\ Return_Failure
        /\ UNCHANGED data_length
  /\ UNCHANGED <<requestVars, connected, data_start, tries_remaining, file>>

CreateFile ==
  /\ pc = "create"
  /\ file' = NoFile
  /\ data_start' = 0
  /\ tries_remaining' = MaxTries
  /\ pc' = "chunk"
  /\ UNCHANGED <<requestVars, heap, connected, response, data_length, answered, outcomeVars>>

(* HTTPClient_InitializeRequestHeaders, HTTPClient_AddRangeHeader or        *)
(* otaPal_CreateFileForRx fails. A chunk asked for again has its headers.   *)
Step_Fails ==
  /\ pc \in {"query", "create", "chunk"}
  /\ pc = "chunk" => tries_remaining = MaxTries
  /\ Return_Failure
  /\ UNCHANGED <<requestVars, connected, response, data_length, data_start,
                 tries_remaining, file, answered>>

(* The end of the chunk at data_start, exclusive.                           *)
data_end == IF data_start + ChunkSize > data_length THEN data_length ELSE data_start + ChunkSize

(* otaPal_WriteBlock writes the body of the answer at data_start.           *)
Body(answer) == 0 .. answer.last - answer.first

WriteBlock(answer) ==
  LET written == {data_start + i : i \in Body(answer)}
      right   == IF answer.size # 0 /\ answer.first = data_start THEN written ELSE {}
  IN  file' = [right |-> (file.right \ written) \cup right,
               wrong |-> (file.wrong \ right) \cup (written \ right)]

(* A chunk is answered, whatever the answer's status code, and written.     *)
Chunk_Fetched ==
  /\ pc = "chunk"
  /\ HTTPClient_Send(data_start, data_end - 1, "HTTPSuccess")
  /\ WriteBlock(response')
  /\ data_start' = data_start + ChunkSize
  /\ tries_remaining' = MaxTries
  /\ pc' = IF data_start' < data_length THEN "chunk" ELSE "close"
  /\ UNCHANGED <<requestVars, heap, connected, data_length, outcomeVars>>

(* The chunk is answered but fewer bytes are written than it has.           *)
Chunk_WriteFails ==
  /\ pc = "chunk"
  /\ HTTPClient_Send(data_start, data_end - 1, "HTTPSuccess")
  /\ Return_Failure
  /\ UNCHANGED <<requestVars, connected, data_length, data_start, tries_remaining, file>>

(* A network error on any chunk but the first: the connection is made anew, *)
(* successfully or not, and the same chunk is asked for again.              *)
AfterReconnect_Skips == data_start + ChunkSize

AfterReconnect == data_start

TriesLeft_Uncounted == tries_remaining

TriesLeft == tries_remaining - 1

CanReconnect_Forever == data_start # 0

CanReconnect == data_start # 0 /\ tries_remaining # 0

Chunk_Reconnect ==
  /\ pc = "chunk"
  /\ CanReconnect
  /\ HTTPClient_Send(data_start, data_end - 1, "HTTPNetworkError")
  /\ connected' \in BOOLEAN
  /\ tries_remaining' = TriesLeft
  /\ data_start' = AfterReconnect
  /\ UNCHANGED <<pc, requestVars, heap, data_length, file, outcomeVars>>

(* A network error on the first chunk or with no tries left, or any other   *)
(* error.                                                                   *)
Chunk_Fails ==
  /\ pc = "chunk"
  /\ \/ /\ ~CanReconnect
        /\ HTTPClient_Send(data_start, data_end - 1, "HTTPNetworkError")
     \/ HTTPClient_Send(data_start, data_end - 1, "other")
  /\ Return_Failure
  /\ UNCHANGED <<requestVars, connected, data_length, data_start, tries_remaining, file>>

(* All chunks are written: the download returns 0, even if otaPal_CloseFile *)
(* fails.                                                                   *)
Close ==
  /\ pc = "close"
  /\ connected' = FALSE
  /\ heap' = Freed(heap)
  /\ success' = TRUE
  /\ needs_ota_commit' = TRUE
  /\ pc' = "ack"
  /\ UNCHANGED <<requestVars, response, data_length, data_start, tries_remaining,
                 file, answered, ack>>

-----------------------------------------------------------------------------
(***************************************************************************)
(* on_ota after start_ota                                                  *)
(***************************************************************************)
Acknowledge ==
  /\ pc = "ack"
  /\ ack' = IF success THEN "success" ELSE "failed"
  /\ pc' = IF needs_ota_commit THEN "apply" ELSE "idle"
  /\ UNCHANGED <<requestVars, downloadVars, success, needs_ota_commit>>

(* Five seconds later iotc_ota_fw_apply, which as it stands activates       *)
(* nothing and returns.                                                     *)
Apply ==
  /\ pc = "apply"
  /\ pc' = "idle"
  /\ UNCHANGED <<requestVars, downloadVars, outcomeVars>>

-----------------------------------------------------------------------------
(* No more requests within the bound: the command task waits.               *)
Quiescent ==
  /\ pc = "idle" /\ requests = MaxRequests
  /\ UNCHANGED vars

OtaStep ==
  \/ SplitUrl \/ SplitUrl_Fails
  \/ Connect \/ Connect_Fails
  \/ SizeQuery
  \/ CreateFile
  \/ Step_Fails
  \/ Chunk_Fetched \/ Chunk_WriteFails \/ Chunk_Reconnect \/ Chunk_Fails
  \/ Close
  \/ Acknowledge
  \/ Apply

Next == OtaRequest \/ OtaStep \/ Quiescent

Spec == Init /\ [][Next]_vars

(* Every call of coreHTTP, of the transport and of the OTA file returns in  *)
(* the end (they have timeouts), and the command task is scheduled.         *)
FairSpec == Spec /\ WF_vars(OtaStep)

-----------------------------------------------------------------------------
(***************************************************************************)
(* Properties                                                              *)
(***************************************************************************)
(* Every variable has its type; an offset of the file holds one byte, and   *)
(* only bytes of the image can be right.                                    *)
TypeOK ==
  /\ pc \in {"idle", "split", "connect", "query", "create", "chunk", "close", "ack", "apply"}
  /\ requests \in 0 .. MaxRequests
  /\ version \in {"none", "older", "same", "newer"}
  /\ url \in {"none", "unsplittable", "https"}
  /\ image \in ImageSizes \cup {0}
  /\ heap \subseteq Strings \cup {"network_context"}
  /\ connected \in BOOLEAN
  /\ response.first \in Nat /\ response.last \in Nat /\ response.size \in ImageSizes \cup {0}
  /\ data_length \in Nat
  /\ data_start \in Nat
  /\ tries_remaining \in 0 .. MaxTries
  /\ file.right \subseteq 0 .. image - 1
  /\ file.wrong \subseteq Nat
  /\ file.right \cap file.wrong = {}
  /\ answered \in BOOLEAN
  /\ success \in BOOLEAN
  /\ needs_ota_commit \in BOOLEAN
  /\ ack \in {"none", "success", "failed"}

(* Did the download go as the code takes for granted: the right size, and   *)
(* every answered query answered with what it asked for?                    *)
Regular == answered /\ data_length = image

(* iotc_ota_fw_apply is only reached with the file of this request, and the *)
(* file is the whole image, however often the connection broke.             *)
ImageComplete ==
  pc = "apply" /\ Regular => file = [right |-> 0 .. image - 1, wrong |-> {}]

(* Between two chunks, and between two attempts at one, the file is exactly *)
(* the image up to data_start: a chunk is neither skipped nor misplaced by  *)
(* a reconnection.                                                          *)
ContiguousPrefix ==
  pc \in {"chunk", "close"} /\ Regular =>
    file = [right |-> {i \in 0 .. image - 1 : i < data_start}, wrong |-> {}]

(* Whichever step fails, the strings of split_url are freed once on_ota     *)
(* answers, and a failed split_url leaves none behind.                      *)
StringsFreed == pc \in {"idle", "ack", "apply"} => heap \cap Strings = {}

(* Every request is over in the end, so the command task returns to its     *)
(* queue: reconnecting cannot go on for ever.                               *)
RequestEnds == (pc # "idle") ~> (pc = "idle")

(* iotc_https_ota.c:135 says of the answer "like bytes 0-0/XXXX where X is  *)
(* the actual size". The download goes by another size when the number is   *)
(* read past its end, or when the answer of an earlier request is read.     *)
SizeIsActual == pc \in {"create", "chunk"} => data_length = image

(* on_ota implements OtaHandler: it answers each request exactly once, and  *)
(* applies an image only after it answered that request with a success. A   *)
(* success that was decided before the download and a commit flag that is   *)
(* set after it have to agree.                                              *)
Handler == INSTANCE OtaHandler WITH
  phase  <- IF pc = "idle" THEN "idle" ELSE IF pc = "apply" THEN "applying" ELSE "working",
  answer <- ack

HandlesRequests == Handler!Spec
=============================================================================
