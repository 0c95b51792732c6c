------------------------------ MODULE MCMedia ------------------------------
(***************************************************************************)
(* Instances of Media for TLC.                                              *)
(***************************************************************************)
EXTENDS Media

Answered(status) == [code |-> "ok", alert |-> 0, status |-> status,
                     h2 |-> TRUE, fits |-> TRUE]

\* One response of each class the worker tells apart: a picture, one cut short,
\* a retired one, a picture in preparation, and a relay that rejects the client's
\* certificate.
EachKind ==
    {Answered(200), [Answered(200) EXCEPT !.fits = FALSE], Answered(410),
     Answered(409),
     [Answered(0) EXCEPT !.code = "connect", !.alert = 42, !.h2 = FALSE]}
=============================================================================
