----------------------------- MODULE MCDesktop -----------------------------
(***************************************************************************)
(* Instances of Desktop for TLC.  Two lines fit; three are too long; the      *)
(* others are refused for a line after a good one, and for a NUL.  No list     *)
(* that fits has one file, so part of a list is not taken for another.         *)
(***************************************************************************)
EXTENDS Desktop

Lists == {<<"file", "file">>, <<"file", "file", "file">>, <<"file", "bad">>,
          <<"nul">>}
=============================================================================
