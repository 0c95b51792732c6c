------------------------------ MODULE MCSends ------------------------------
(***************************************************************************)
(* Instances of Sends for TLC.  The model values are the identifiers of two *)
(* requests and two files, one text and one file content; each configuration *)
(* chooses what the requests submit.                                        *)
(***************************************************************************)
EXTENDS Sends

CONSTANTS r1, r2, f1, f2, hi, cat

\* r1 is a caption with a file, r2 a text equal to the caption.
CaptionAndText == [r \in Requests |->
    [text |-> hi, files |-> IF r = r1 THEN <<f1>> ELSE <<>>]]

\* Identical texts.
SameTexts == [r \in Requests |-> [text |-> hi, files |-> <<>>]]

\* All files have the same name and bytes.
OneContent == [f \in Files |-> cat]
=============================================================================
