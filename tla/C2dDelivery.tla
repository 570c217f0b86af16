----------------------------- MODULE C2dDelivery -----------------------------
(***************************************************************************)
(* What incoming_message_callback, mqtt_command_queue and                  *)
(* mqtt_command_task promise of cloud-to-device messages, together:        *)
(*  - one message is processed at a time, in the order of arrival, and no  *)
(*    message twice;                                                       *)
(*  - a message may be lost as it arrives, or later while it is the newest *)
(*    one and Capacity others are waiting; never once it has a place.      *)
(***************************************************************************)
EXTENDS Naturals, Sequences

CONSTANT Capacity    \* messages that wait without being at risk

VARIABLES
  last,      \* number of the newest message that arrived
  waiting,   \* numbers of the messages that wait, oldest first
  current,   \* number of the message in process, 0 if none
  done       \* number of the last message processed

vars == <<last, waiting, current, done>>

Init ==
  /\ last = 0
  /\ waiting = << >>
  /\ current = 0
  /\ done = 0

Arrive ==
  /\ last' = last + 1
  /\ Len(waiting) <= Capacity
  /\ waiting' = Append(waiting, last')
  /\ UNCHANGED <<current, done>>

ArriveLost ==
  /\ last' = last + 1
  /\ UNCHANGED <<waiting, current, done>>

Overflow ==
  /\ Len(waiting) = Capacity + 1
  /\ waiting' = SubSeq(waiting, 1, Capacity)
  /\ UNCHANGED <<last, current, done>>

Start ==
  /\ current = 0
  /\ waiting # << >>
  /\ current' = Head(waiting)
  /\ waiting' = Tail(waiting)
  /\ UNCHANGED <<last, done>>

Finish ==
  /\ current # 0
  /\ done' = current
  /\ current' = 0
  /\ UNCHANGED <<last, waiting>>

Next == Arrive \/ ArriveLost \/ Overflow \/ Start \/ Finish

Spec == Init /\ [][Next]_vars
=============================================================================
