----------------------------- MODULE MCUploads -----------------------------
(***************************************************************************)
(* Instances of Uploads for TLC: descriptors a and b have the same length,   *)
(* so that only the hash tells their bytes apart.                            *)
(***************************************************************************)
EXTENDS Uploads

CONSTANTS a, b

OneByteEach == [d \in Descriptors |-> 1]
=============================================================================
