------------------------------ MODULE MCSync ------------------------------
(***************************************************************************)
(* Instances of Sync for TLC.  Identifiers are numbers, so that pages have   *)
(* an order; there is no symmetry to use.                                    *)
(***************************************************************************)
EXTENDS Sync
=============================================================================
