-------------------------------- MODULE MCSntp --------------------------------
(***************************************************************************)
(* Small instances of Sntp. A unit of time is half of SNTP_RECV_TIMEOUT,   *)
(* so that an answer can come in the middle of it; the retry timeout       *)
(* doubles once.                                                           *)
(***************************************************************************)
EXTENDS Sntp
=============================================================================
