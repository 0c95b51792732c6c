----------------------------- MODULE SendParts -----------------------------
(***************************************************************************)
(* The ordered operations of one send request, as src/relay/sends.zig       *)
(* keeps them: a request with attachments is a sequence of parts (an        *)
(* optional caption, then one part per file) that are dispatched one by     *)
(* one, and the state of the request is a summary of the states of its      *)
(* parts.  A text-only request has no parts and its state is set directly.  *)
(*                                                                         *)
(* The module has no variables: every function of sends.zig that mutates    *)
(* the request it is given is an operator from request to request.  Of an   *)
(* error only its "outcome" is kept, which tells a client whether a retry    *)
(* can duplicate the message; codes and wording are left out.               *)
(*                                                                         *)
(* Definitions named Mut... are plausible mistakes in the definition that    *)
(* follows them.  No specification uses them; they show that a property      *)
(* notices the mistake.                                                     *)
(***************************************************************************)
EXTENDS Naturals, Sequences

CONSTANTS Files,    \* identifiers of uploaded originals
          NoFile    \* the "file" of a text part

ASSUME NoFileAssumption == NoFile \notin Files

\* SendPart.state of src/protocol/types.zig.
PartState == {"queued", "dispatching", "invoked", "submitted",
              "delivered", "failed", "unknown", "skipped"}

\* SendStatus of src/protocol/types.zig.
SendStatus == {"queued", "dispatching", "submitted",
               "delivered", "failed", "unknown"}

\* How far an operation has come (for the properties); a settled one stays as
\* it is.
Stage(state) == IF state = "queued" THEN 0
                ELSE IF state = "dispatching" THEN 1
                ELSE IF state \in {"invoked", "unknown"} THEN 2
                ELSE IF state = "submitted" THEN 3
                ELSE 4

\* SafeError.outcome, or "none" where error_info is null.
ErrorInfo == {"none", "unstarted", "uncertain"}

\* Message identities are source rows; 0 stands for null.
NoMessage == 0

\* SendPart, with the dispatch boundary kept in its send_parts row:
\* dispatch_ms (time) and source_floor (floor), written by prepareSend.
Part == [file: Files \cup {NoFile}, state: PartState, mid: Nat, cand: Nat,
         err: ErrorInfo, time: Nat, floor: Nat]

\* SendRequest: the summary fields and the parts.  time and floor are the
\* dispatch boundary of a text-only request, kept in its send_requests row.
Request == [parts: Seq(Part), state: SendStatus, mid: Nat, cand: Nat,
            err: ErrorInfo, time: Nat, floor: Nat]

NewPart(f) == [file |-> f, state |-> "queued", mid |-> NoMessage,
               cand |-> NoMessage, err |-> "none", time |-> 0, floor |-> 0]

\* The assignments sends.zig and Core.zig make to a part or a request x: the
\* dispatch boundary, an outcome, and an outcome with its message.
Mark(x, time, floor) ==
    [x EXCEPT !.state = "dispatching", !.time = time, !.floor = floor]
End(x, state, err) == [x EXCEPT !.state = state, !.err = err]
Settle(x, m, state, err) ==
    [x EXCEPT !.mid = m, !.cand = NoMessage, !.state = state, !.err = err]

\* sends.init: no attachments, no parts; otherwise the caption (when there
\* is text) followed by one part for each file in the order given.
InitParts(hasText, files) ==
    LET caption == IF hasText THEN <<NewPart(NoFile)>> ELSE <<>>
    IN  IF files = <<>>
        THEN <<>>
        ELSE caption \o [i \in 1..Len(files) |-> NewPart(files[i])]

\* Some part of v is in one of the states S.
SomePart(v, S) == \E i \in 1..Len(v.parts) : v.parts[i].state \in S

\* Every part of v is in one of the states S.
EveryPart(v, S) == \A i \in 1..Len(v.parts) : v.parts[i].state \in S

Advanced == {"invoked", "submitted", "delivered"}

\* The order of the parts is forgotten.
MutIsNextPart(v, i) == v.parts[i].state = "queued"

\* sends.next: part i is unstarted and every predecessor can advance.
IsNextPart(v, i) ==
    /\ v.parts[i].state = "queued"
    /\ \A k \in 1..(i - 1) : v.parts[k].state \in Advanced

\* Some part has stopped; some part was or may have been sent.
Stopped(v)    == SomePart(v, {"failed", "skipped"})
Unresolved(v) == SomePart(v, Advanced \cup {"unknown"})
Attempted(v)  == \/ Unresolved(v)
                 \/ \E i \in 1..Len(v.parts) :
                       /\ v.parts[i].state \in {"failed", "skipped"}
                       /\ v.parts[i].err = "uncertain"

SummaryState(v) ==
    IF SomePart(v, {"dispatching"}) THEN "dispatching"
    ELSE IF Stopped(v) THEN IF Unresolved(v) THEN "unknown" ELSE "failed"
    ELSE IF SomePart(v, {"queued"}) THEN "queued"
    ELSE IF EveryPart(v, {"delivered"}) THEN "delivered"
    ELSE IF EveryPart(v, {"submitted", "delivered"}) THEN "submitted"
    ELSE "unknown"

SummaryErr(v) ==
    IF Stopped(v) /\ ~SomePart(v, {"dispatching"})
    THEN IF Attempted(v) THEN "uncertain" ELSE "unstarted"
    ELSE IF SummaryState(v) = "unknown" THEN "uncertain" ELSE "none"

\* sends.summarize: the outcome of the request recomputed from its parts,
\* without claiming delivery from automation success and without hiding a
\* partially completed request.
Summarize(v) == Settle(v, NoMessage, SummaryState(v), SummaryErr(v))

\* skipQueued: what has not started is not going to.
SkipQueued(parts) ==
    [i \in 1..Len(parts) |->
        IF parts[i].state = "queued"
        THEN End(parts[i], "skipped", "unstarted")
        ELSE parts[i]]

\* sends.start, with the boundary prepareSend records in the same
\* transaction.
Start(v, i, time, floor) ==
    Summarize([v EXCEPT !.parts = [v.parts EXCEPT ![i] = Mark(v.parts[i], time, floor)]])

\* The outcome is stored where a part state belongs.
MutFinishState(outcome) == outcome

\* The part states and errors that end an automation call.
FinishState(outcome) == IF outcome = "invoked" THEN "invoked"
                        ELSE IF outcome = "unstarted" THEN "failed" ELSE "unknown"
FinishErr(outcome) == IF outcome = "invoked" THEN "none" ELSE outcome

\* sends.finish: record what automation said of the part; anything but a
\* plain return holds all remaining operations.
Finish(v, i, outcome) ==
    LET ended == [v.parts EXCEPT
                    ![i] = End(v.parts[i], FinishState(outcome), FinishErr(outcome))]
    IN  Summarize([v EXCEPT !.parts = IF outcome = "invoked" THEN ended
                                      ELSE SkipQueued(ended)])

\* A part caught dispatching is treated like one that was not started.
MutInterruptPart(p, reset) ==
    IF p.state = "dispatching" THEN End(p, "skipped", "unstarted") ELSE p

\* sends.interrupt: a crash, or an epoch change (reset), while the request
\* was not finished.  A part caught dispatching has an uncertain outcome.
InterruptPart(p, reset) ==
    LET held == IF p.state = "dispatching" THEN End(p, "unknown", "uncertain") ELSE p
    IN  IF reset THEN Settle(held, NoMessage, held.state, held.err) ELSE held

Interrupt(v, reset) ==
    LET held == [i \in 1..Len(v.parts) |-> InterruptPart(v.parts[i], reset)]
    IN  Summarize([v EXCEPT !.parts = SkipQueued(held)])

\* sends.observe: record the uniquely matched outgoing message m and its
\* status; a reported failure holds the operations that have not started.
Observe(v, i, m, status) ==
    LET err  == IF status = "failed" THEN "uncertain" ELSE "none"
        seen == [v.parts EXCEPT ![i] = Settle(v.parts[i], m, status, err)]
    IN  Summarize([v EXCEPT !.parts = IF status = "failed" THEN SkipQueued(seen)
                                      ELSE seen])
=============================================================================
