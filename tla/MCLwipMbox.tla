------------------------------ MODULE MCLwipMbox ------------------------------
(***************************************************************************)
(* Small instances of LwipMbox. With two tasks one can be refused or can   *)
(* come while another is on its way out; with two queues a mailbox that is *)
(* created anew may have another queue than before, or the same one again. *)
(***************************************************************************)
EXTENDS LwipMbox

CONSTANTS t1, t2, q1, q2

MCFetchers == {t1, t2}
MCQueues   == {q1, q2}
=============================================================================
