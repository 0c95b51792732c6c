------------------------------ MODULE Pictures ------------------------------
(***************************************************************************)
(* What the image service of the Linux client promises the user interface.   *)
(* The interface asks for pictures by key; each one asked for is answered      *)
(* once, forgotten after it scrolled out of view, or overtaken by a change of  *)
(* context.  One answer at a time is on offer or in the interface's hands, an  *)
(* answer is always to a question of the current context, and a private        *)
(* picture is never shown while its permission is missing.                     *)
(*                                                                         *)
(* Threads, lanes, the transport and the disk cache are the business of        *)
(* module Media, which implements this one.                                    *)
(***************************************************************************)
CONSTANTS
    Keys,      \* pictures
    Avatars,   \* the private ones
    States,    \* Result.state
    NoResult

VARIABLES
    asked,     \* keys waiting for an answer
    answer,    \* the answer on offer
    hand,      \* the answer the interface is using
    allowed    \* whether avatars may be shown

vars == <<asked, answer, hand, allowed>>

Answers == [key: Keys, state: States]

Init ==
    /\ asked = {}
    /\ answer = NoResult
    /\ hand = NoResult
    /\ allowed = TRUE

\* Ask for a picture that is neither asked for nor on offer.
Ask(k) ==
    /\ k \in Avatars => allowed
    /\ answer = NoResult \/ answer.key # k
    /\ asked' = asked \cup {k}
    /\ UNCHANGED <<answer, hand, allowed>>

Reply(k, state) ==
    /\ k \in asked
    /\ k \in Avatars => allowed
    /\ answer = NoResult /\ hand = NoResult
    /\ answer' = [key |-> k, state |-> state]
    /\ asked' = asked \ {k}
    /\ UNCHANGED <<hand, allowed>>

\* Pictures nobody wants any more.
Forget(gone) ==
    /\ gone # {} /\ gone \subseteq asked
    /\ asked' = asked \ gone
    /\ UNCHANGED <<answer, hand, allowed>>

Take ==
    /\ answer # NoResult
    /\ hand' = answer
    /\ answer' = NoResult
    /\ UNCHANGED <<asked, allowed>>

Release ==
    /\ hand # NoResult
    /\ hand' = NoResult
    /\ UNCHANGED <<asked, answer, allowed>>

\* Another conversation, epoch, credential, connection state or permission.
Change(permission) ==
    /\ asked' = {}
    /\ answer' = NoResult
    /\ allowed' = permission
    /\ UNCHANGED hand

\* The program ends and may start again.
Restart ==
    /\ asked' = {}
    /\ answer' = NoResult
    /\ hand' = NoResult
    /\ allowed' = TRUE

Next ==
    \/ \E k \in Keys : Ask(k)
    \/ \E k \in Keys, state \in States : Reply(k, state)
    \/ \E gone \in SUBSET Keys : Forget(gone)
    \/ Take
    \/ Release
    \/ \E permission \in BOOLEAN : Change(permission)
    \/ Restart

Spec == Init /\ [][Next]_vars
=============================================================================
