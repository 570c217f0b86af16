---------------------------- MODULE MCOtaDownload ----------------------------
(***************************************************************************)
(* Small instances of OtaDownload. An image of one byte is a single chunk  *)
(* that looks like a size query, three bytes end in a partial chunk, four  *)
(* end on a chunk's boundary and five take two full chunks and a partial.  *)
(***************************************************************************)
EXTENDS OtaDownload

MCImageSizes == {1, 3, 4, 5}
=============================================================================
