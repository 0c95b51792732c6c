----------------------------- MODULE MCNotices -----------------------------
(***************************************************************************)
(* Instances of Notices for TLC.                                            *)
(***************************************************************************)
EXTENDS Notices

\* A daemon that answers GetCapabilities can do everything; one that does not
\* answer in time counts as able to do nothing.
Everything == {{"actions", "images"}}
=============================================================================
