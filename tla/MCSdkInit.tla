------------------------------ MODULE MCSdkInit ------------------------------
(***************************************************************************)
(* Instances of SdkInit: only the number of attempts is smaller.           *)
(***************************************************************************)
EXTENDS SdkInit
=============================================================================
