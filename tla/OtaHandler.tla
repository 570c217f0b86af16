----------------------------- MODULE OtaHandler -----------------------------
(***************************************************************************)
(* What on_ota promises of firmware updates, whatever happens on the way:  *)
(*  - a request is worked on, and answered once, before the next is taken; *)
(*  - an image is applied at most once per request, after the answer, and  *)
(*    only when the answer was a success.                                  *)
(* It is all that MqttClient takes for granted of on_ota, which there is   *)
(* CommandTask_OtaDownload followed by CommandTask_OtaAck.                 *)
(***************************************************************************)
VARIABLES
  phase,   \* "idle", "working" or "applying"
  answer   \* the answer to the latest request, "none" while there is none

vars == <<phase, answer>>

Init ==
  /\ phase  = "idle"
  /\ answer = "none"

Request ==
  /\ phase = "idle"
  /\ phase'  = "working"
  /\ answer' = "none"

Reject ==
  /\ phase = "working"
  /\ phase'  = "idle"
  /\ answer' = "failed"

Accept ==
  /\ phase = "working"
  /\ phase' \in {"idle", "applying"}
  /\ answer' = "success"

Apply ==
  /\ phase = "applying"
  /\ phase' = "idle"
  /\ UNCHANGED answer

Next == Request \/ Reject \/ Accept \/ Apply

Spec == Init /\ [][Next]_vars
=============================================================================
