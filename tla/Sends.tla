------------------------------- MODULE Sends -------------------------------
(***************************************************************************)
(* The relay's send pipeline: a request is accepted over HTTP, dispatched   *)
(* part by part through Messages automation by the one sender thread, and    *)
(* its outcome is established by watching the Messages database, from the    *)
(* ingest thread (text-only requests) and the observation thread (parts).    *)
(*                                                                         *)
(* Threads meet at the Core mutex: every action below that touches the       *)
(* journal is one critical section of that mutex, and what a thread does      *)
(* outside it (automation, reading the Messages database) is a step of its    *)
(* own, so that resets, crashes and the other threads interleave there.       *)
(*                                                                         *)
(*   src/relay/Core.zig            senderLoop, prepareSend, dispatchOne,     *)
(*                                 ingest, reconcile                         *)
(*   src/relay/Journal.zig         accept, updateRequest, recover, reset     *)
(*   src/relay/sends/observation.zig  prepare, step, receipt, publish        *)
(*   src/relay/uploads.zig         pin, releasePart                          *)
(***************************************************************************)
EXTENDS SendParts, FiniteSets

CONSTANTS
    Requests,     \* client-generated request identifiers
    NoRequest,    \* an upload no request has pinned
    Texts,        \* message texts
    NoText,       \* the text of an attachment-only request or message
    Payload,      \* [Requests -> [text, files]]: what each identifier submits
    Contents,     \* names, lengths and hashes of files
    NoContent,    \* a message without attachment
    ContentOf,    \* [Files -> Contents]
    ForeignTexts, \* texts other devices of the account send meanwhile
    Window,       \* observation_window_ms
    Skew,         \* tolerated clock skew of a message date
    EchoDelay,    \* how late after dispatch Messages may insert the echo
    MaxNow,       \* bound: clock
    MaxRows,      \* bound: rows of the Messages database
    Joins,        \* whether an echo's chat join is written with it, or later
    Receipts,     \* the statuses Messages may report later
    FaultKinds,   \* the faults that may happen, see Fault
    MaxFaults     \* bound: number of faults

ASSUME SendsAssumption ==
    /\ NoRequest \notin Requests
    /\ NoText \notin Texts
    /\ Payload \in [Requests -> [text: Texts \cup {NoText}, files: Seq(Files)]]
    /\ \A r \in Requests :        \* t.validate and attachments.validateSet
          /\ Payload[r].text = NoText => Payload[r].files # <<>>
          /\ \A i, k \in 1..Len(Payload[r].files) :
                Payload[r].files[i] = Payload[r].files[k] => i = k
    /\ NoContent \notin Contents
    /\ ContentOf \in [Files -> Contents]
    /\ ForeignTexts \subseteq Texts
    /\ Joins \subseteq BOOLEAN
    /\ Receipts \subseteq {"delivered", "failed"}
    /\ {Window, Skew, EchoDelay, MaxNow, MaxRows, MaxFaults} \subseteq Nat

VARIABLES
    epoch,      \* relay_meta.epoch, numbered from 1
    requests,   \* send_requests and send_parts, by request identifier
    epochOf,    \* send_requests.epoch; 0 while there is no such row
    acceptedAt, \* send_requests.accepted_ms
    uploads,    \* uploads: state, epoch and request_id of each file
    messages,   \* the imported outgoing messages, by source row
    jgen,       \* ingestion_progress 'identity'; 0 when there is none
    readReady,  \* Core.read_ready, with a scan at most five seconds old
    automation, \* Core.automation_ready
    sender,     \* what the sender thread is doing
    recovery,   \* senderLoop's recovery_needed
    observer,   \* what the observation thread is doing
    source,     \* the Messages database: its outgoing rows
    gen,        \* identity of the Messages database file
    outbox,     \* operations Messages took but has not written a row for
    calls,      \* automation calls made for each operation
    taken,      \* operations Messages took
    now,        \* wall clock
    faults      \* faults so far

\* A fault of the given kind happens now.
Fault(kind) ==
    /\ kind \in FaultKinds
    /\ faults < MaxFaults
    /\ faults' = faults + 1

journal == <<epoch, requests, epochOf, acceptedAt, uploads, messages, jgen>>
core    == <<readReady, automation, recovery>>
outside == <<source, gen, outbox, calls, taken, now>>
vars    == <<journal, core, sender, observer, outside, faults>>
-----------------------------------------------------------------------------
\* An operation is a request and a part of it; a text-only request is one
\* operation, numbered 0.
Text(r) == Payload[r].text
NewRequest(r) ==
    [parts |-> InitParts(Text(r) # NoText, Payload[r].files), state |-> "queued",
     mid |-> NoMessage, cand |-> NoMessage, err |-> "none", time |-> 0, floor |-> 0]

TextOnly(r) == Payload[r].files = <<>>
PartsOf(r)  == IF TextOnly(r) THEN {0} ELSE 1..Len(NewRequest(r).parts)
Ops         == UNION {{r} \X PartsOf(r) : r \in Requests}
NoOp        == <<NoRequest, 0>>

RequestFiles(r) == {Payload[r].files[k] : k \in 1..Len(Payload[r].files)}

\* A row of the Messages database: text, the file content it carries, date,
\* status, whether its chat join is there yet, and (for the properties only)
\* the operation that caused it.
Row == [text: Texts \cup {NoText}, content: Contents \cup {NoContent}, date: Nat,
        status: {"sent", "delivered", "failed"}, joined: BOOLEAN,
        op: Ops \cup {NoOp}]

\* The record of operation i of request v, and its columns; the text and the
\* file an operation sends.
At(v, i) == IF i = 0 THEN v ELSE v.parts[i]

OpState(o) == At(requests[o[1]], o[2]).state
OpErr(o)   == At(requests[o[1]], o[2]).err
OpMid(o)   == At(requests[o[1]], o[2]).mid
OpTime(o)  == At(requests[o[1]], o[2]).time
OpFloor(o) == At(requests[o[1]], o[2]).floor
OpFile(o)  == IF o[2] = 0 THEN NoFile ELSE requests[o[1]].parts[o[2]].file
OpText(o)  == IF OpFile(o) = NoFile THEN Text(o[1]) ELSE NoText

\* The threads' local state between two rounds.  The sender keeps its copy of
\* the request it prepared (work), the observer what it saw in the source.
NoWork == [parts |-> <<>>, state |-> "queued", mid |-> NoMessage, cand |-> NoMessage,
           err |-> "none", time |-> 0, floor |-> 0]
Idle == [pc |-> "idle", op |-> NoOp, epoch |-> 0, work |-> NoWork, outcome |-> "none"]
Watching == [pc |-> "idle", op |-> NoOp, epoch |-> 0, gen |-> 0,
             mid |-> NoMessage, cand |-> NoMessage, status |-> "none"]

\* A verified upload of epoch e that no request has pinned.
Upload(e) == [state |-> "ready", epoch |-> e, req |-> NoRequest]
-----------------------------------------------------------------------------
\* Every stopped part is taken for an unstarted one.
MutUnstartedFiles(v) ==
    {v.parts[i].file : i \in {k \in 1..Len(v.parts) :
        v.parts[k].file # NoFile /\ v.parts[k].state \in {"failed", "skipped"}}}

\* uploads.releasePart for every attachment part of v that was never started,
\* as updateRequest does in the caller's transaction.
UnstartedFiles(v) ==
    {v.parts[i].file : i \in {k \in 1..Len(v.parts) :
        /\ v.parts[k].file # NoFile
        /\ v.parts[k].state \in {"failed", "skipped"}
        /\ v.parts[k].err = "unstarted"}}

\* The pairs of a request and a file that are released.
Retire(up, released) ==
    [f \in Files |-> IF up[f].state = "pinned" /\ <<up[f].req, f>> \in released
                     THEN [up[f] EXCEPT !.state = "deleting"]
                     ELSE up[f]]

\* Journal.updateRequest for every request in the domain of new, in one
\* transaction: store the records and their parts, and release what will not
\* be sent.
UpdateRequests(new) ==
    /\ requests' = [r \in Requests |-> IF r \in DOMAIN new THEN new[r] ELSE requests[r]]
    /\ uploads' = Retire(uploads, UNION {{r} \X UnstartedFiles(new[r]) : r \in DOMAIN new})

UpdateRequest(r, v) == UpdateRequests([q \in {r} |-> v])

\* An interrupted dispatch is put back into the queue.
MutRecovered(r) ==
    [requests[r] EXCEPT !.state = "queued",
        !.parts = [i \in 1..Len(requests[r].parts) |->
                      IF requests[r].parts[i].state = "dispatching"
                      THEN [requests[r].parts[i] EXCEPT !.state = "queued"]
                      ELSE requests[r].parts[i]]]

\* Journal.recover: an interrupted dispatch has an uncertain outcome and is
\* never dispatched again.
Recovered(r) ==
    End(IF TextOnly(r) THEN requests[r] ELSE Interrupt(requests[r], FALSE),
        "unknown", "uncertain")
Recover ==
    UpdateRequests([r \in {q \in Requests : epochOf[q] # 0 /\ requests[q].state = "dispatching"}
                       |-> Recovered(r)])

\* Journal.reset: a new epoch; unfinished requests keep their identity and
\* are held for review.
AfterReset(r) ==
    Settle(IF TextOnly(r) THEN requests[r] ELSE Interrupt(requests[r], TRUE),
           NoMessage, "unknown", "uncertain")

\* Requests that have not been started are left alone.
MutUnfinished == {"dispatching", "submitted", "unknown"}

Unfinished == {"queued", "dispatching", "submitted", "unknown"}
Reset ==
    /\ epoch' = epoch + 1
    /\ UpdateRequests([r \in {q \in Requests : epochOf[q] # 0 /\ requests[q].state \in Unfinished}
                          |-> AfterReset(r)])
-----------------------------------------------------------------------------
Init ==
    /\ epoch = 1
    /\ requests = [r \in Requests |-> NewRequest(r)]
    /\ epochOf = [r \in Requests |-> 0]
    /\ acceptedAt = [r \in Requests |-> 0]
    /\ uploads = [f \in Files |-> Upload(1)]
    /\ messages = <<>>
    /\ jgen = 0
    /\ readReady = FALSE
    /\ automation = FALSE
    /\ sender = Idle
    /\ recovery = FALSE
    /\ observer = Watching
    /\ source = <<>>
    /\ gen = 1
    /\ outbox = {}
    /\ calls = [o \in Ops |-> 0]
    /\ taken = {}
    /\ now = 0
    /\ faults = 0
-----------------------------------------------------------------------------
(* HTTP.                                                                    *)

\* POST /v1/messages: a request in the current epoch, not seen before, whose
\* files are all ready, is stored and pins them in one transaction.  A known
\* identifier returns the stored record (or a conflict) and changes nothing,
\* and so does every refusal.
Accept(r) ==
    /\ epochOf[r] = 0
    /\ readReady /\ automation
    /\ \A f \in RequestFiles(r) : uploads[f] = Upload(epoch)
    /\ epochOf' = [epochOf EXCEPT ![r] = epoch]
    /\ acceptedAt' = [acceptedAt EXCEPT ![r] = now]
    /\ requests' = [requests EXCEPT ![r] = NewRequest(r)]
    /\ uploads' = [f \in Files |-> IF f \in RequestFiles(r)
                                   THEN [state |-> "pinned", epoch |-> epoch, req |-> r]
                                   ELSE uploads[f]]
    /\ UNCHANGED <<epoch, messages, jgen, core, sender, observer, outside, faults>>

\* POST /v1/reset with the current epoch.
ClientReset ==
    /\ Fault("reset")
    /\ Reset
    /\ messages' = <<>>
    /\ jgen' = 0
    /\ readReady' = FALSE
    /\ UNCHANGED <<epochOf, acceptedAt, automation, recovery, sender, observer,
                   outside>>

\* The cleanup worker removes an upload that is retired, or unused since an
\* earlier epoch, and the client may upload the same identifier again.
ReplaceUpload(f) ==
    /\ \/ uploads[f].state = "deleting"
       \/ uploads[f].state = "ready" /\ uploads[f].epoch # epoch
    /\ uploads' = [uploads EXCEPT ![f] = Upload(epoch)]
    /\ UNCHANGED <<epoch, requests, epochOf, acceptedAt, messages, jgen, core, sender,
                   observer, outside, faults>>
-----------------------------------------------------------------------------
(* The sender thread.                                                       *)

\* The automation probe of senderLoop, outside the lock.
Probe(ready) ==
    /\ sender.pc = "idle"
    /\ readReady
    /\ automation # ready
    /\ automation' = ready
    /\ IF ready THEN UNCHANGED faults ELSE Fault("probe")
    /\ UNCHANGED <<journal, readReady, recovery, sender, observer, outside>>

\* Any queued request.
MutOldestQueued(r) == epochOf[r] # 0 /\ requests[r].state = "queued"

\* The oldest queued request, by accepted_ms; identifiers are random, so
\* requests of the same millisecond come in any order.
OldestQueued(r) ==
    /\ epochOf[r] # 0 /\ requests[r].state = "queued"
    /\ \A q \in Requests : (epochOf[q] # 0 /\ requests[q].state = "queued")
                              => acceptedAt[r] <= acceptedAt[q]

MayDispatch(r) ==
    /\ sender.pc = "idle" /\ ~recovery
    /\ readReady /\ automation
    /\ OldestQueued(r)

NextOp(r, i) == IF TextOnly(r) THEN i = 0
                ELSE i \in 1..Len(requests[r].parts) /\ IsNextPart(requests[r], i)

\* The request with operation i marked dispatching, inside its boundary.
Dispatching(r, i) ==
    IF TextOnly(r)
    THEN Mark(requests[r], now, Len(source))
    ELSE Start(requests[r], i, now, Len(source))

\* prepareSend: revalidate the source, then durably mark the operation as
\* dispatching, with the time and the highest source row, before any
\* automation is invoked.
PrepareSend(r, i) ==
    /\ MayDispatch(r)
    /\ epochOf[r] = epoch
    /\ gen = jgen
    /\ NextOp(r, i)
    /\ UpdateRequest(r, Dispatching(r, i))
    /\ sender' = [pc |-> "prepared", op |-> <<r, i>>, epoch |-> epoch,
                  work |-> Dispatching(r, i), outcome |-> "none"]
    /\ UNCHANGED <<epoch, epochOf, acceptedAt, messages, jgen, core, observer, outside, faults>>

\* rejectQueued: the saved target is no longer an iMessage conversation.
RejectQueued(r, i) ==
    /\ MayDispatch(r)
    /\ epochOf[r] = epoch
    /\ NextOp(r, i)
    /\ Fault("reject")
    /\ UpdateRequest(r,
          IF TextOnly(r)
          THEN End(requests[r], "failed", "unstarted")
          ELSE Finish(Start(requests[r], i, requests[r].parts[i].time,
                            requests[r].parts[i].floor), i, "unstarted"))
    /\ UNCHANGED <<epoch, epochOf, acceptedAt, messages, jgen, core, sender, observer, outside>>

\* prepareSend refuses: the source file was replaced, or the request belongs
\* to another epoch.
RefuseSend(r) ==
    /\ MayDispatch(r)
    /\ epochOf[r] # epoch \/ gen # jgen
    /\ recovery' = TRUE
    /\ readReady' = IF epochOf[r] # epoch THEN readReady ELSE FALSE
    /\ UNCHANGED <<journal, automation, sender, observer, outside, faults>>

\* The automation call, outside the lock.  "invoked": the script returned;
\* "unstarted": it, or the file check before it, reports that Messages was
\* not asked; "uncertain": a timeout or an unexpected status, and Messages
\* may have taken the operation or not.
Invoke(outcome, took) ==
    /\ sender.pc = "prepared"
    /\ outcome = "invoked" => took
    /\ outcome = "unstarted" => ~took
    /\ IF outcome = "invoked" THEN UNCHANGED faults ELSE Fault("automation")
    /\ calls' = [calls EXCEPT ![sender.op] = @ + 1]
    /\ taken' = IF took THEN taken \cup {sender.op} ELSE taken
    /\ outbox' = IF took THEN outbox \cup {sender.op} ELSE outbox
    /\ sender' = [pc |-> "returned", op |-> sender.op, epoch |-> sender.epoch,
                  work |-> sender.work, outcome |-> outcome]
    /\ UNCHANGED <<journal, core, observer, source, gen, now>>

\* The result of a text-only dispatch: automation success is not delivery.
TextResult(v, outcome) ==
    IF outcome = "unstarted" THEN End(v, "failed", "unstarted")
                             ELSE End(v, "unknown", "uncertain")

\* The result is applied to the copy taken before the call.
MutSendResult(r, i) ==
    IF TextOnly(r) THEN TextResult(sender.work, sender.outcome)
                   ELSE Finish(sender.work, i, sender.outcome)

\* The record dispatchOne stores: a text-only request from the sender's copy,
\* a part's result applied to the latest record, because observation can
\* advance an earlier part while automation is running.
SendResult(r, i) ==
    IF TextOnly(r) THEN TextResult(sender.work, sender.outcome)
                   ELSE Finish(requests[r], i, sender.outcome)

\* dispatchOne after the call, unless a reset during automation holds the
\* request.
FinishSend ==
    /\ sender.pc = "returned"
    /\ LET r == sender.op[1]
           i == sender.op[2]
       IN  IF sender.epoch # epoch
           THEN UNCHANGED <<requests, uploads>>
           ELSE UpdateRequest(r, SendResult(r, i))
    /\ sender' = Idle
    /\ UNCHANGED <<epoch, epochOf, acceptedAt, messages, jgen, core, observer, outside, faults>>

\* The result transaction fails, or a part runs out of memory before its call:
\* the durable state stays dispatching and the loop recovers before it starts
\* another operation.
FinishFails ==
    /\ \/ sender.pc = "returned"
       \/ sender.pc = "prepared" /\ ~TextOnly(sender.op[1])
    /\ Fault("result")
    /\ sender' = Idle
    /\ recovery' = TRUE
    /\ UNCHANGED <<journal, readReady, automation, observer, outside>>

RecoverSends ==
    /\ sender.pc = "idle" /\ recovery
    /\ Recover
    /\ recovery' = FALSE
    /\ UNCHANGED <<epoch, epochOf, acceptedAt, messages, jgen, readReady, automation,
                   sender, observer, outside, faults>>
-----------------------------------------------------------------------------
(* Matching echoes.  M is the imported messages the match is made against.  *)

InFlight == {"dispatching", "invoked", "unknown", "submitted"}

\* Operations of the current epoch that may still claim an echo.
Unclaimed == {o \in Ops : /\ epochOf[o[1]] = epoch
                          /\ OpState(o) \in InFlight
                          /\ OpMid(o) = NoMessage}

\* Row m, with record x, lies inside the dispatch boundary of operation o.
InBoundary(o, m, x) ==
    /\ m > OpFloor(o)
    /\ OpTime(o) <= x.date + Skew
    /\ x.date <= OpTime(o) + Window

\* Message m is associated with an operation other than o.
ClaimedByOther(o, m) == \E p \in Ops \ {o} : epochOf[p[1]] = epoch /\ OpMid(p) = m

\* Operation p, unclaimed, could have caused message m as well, which has to
\* be told from operation o's: the same text, or the same original bytes.
Competes(M, p, o, m) ==
    /\ InBoundary(p, m, M[m])
    /\ IF OpFile(p) = NoFile
       THEN M[m].text = Text(p[1])
       ELSE /\ M[m].content # NoContent
            /\ OpFile(o) = NoFile \/ ContentOf[OpFile(o)] = ContentOf[OpFile(p)]

\* Competing operations are not looked up.
MutAvailable(M, o, m) == ~ClaimedByOther(o, m)

\* observation.available.
Available(M, o, m) ==
    /\ ~ClaimedByOther(o, m)
    /\ \A p \in Unclaimed \ {o} : ~Competes(M, p, o, m)

\* Core.reconcile: the echoes a text-only request may claim.
TextCandidates(M, r) ==
    {m \in DOMAIN M : /\ M[m].text = Text(r)
                      /\ InBoundary(<<r, 0>>, m, M[m])
                      /\ ~ClaimedByOther(<<r, 0>>, m)}

\* A single candidate is taken without looking for competing requests.
MutUniqueText(M, r) ==
    LET found == TextCandidates(M, r)
    IN  IF Cardinality(found) = 1 THEN CHOOSE m \in found : TRUE ELSE NoMessage

\* The one candidate no other text operation competes for, or none.
UniqueText(M, r) ==
    LET found == TextCandidates(M, r)
        alone == {m \in found : \A p \in Unclaimed \ {<<r, 0>>} :
                                   OpFile(p) = NoFile => ~Competes(M, p, <<r, 0>>, m)}
    IN  IF Cardinality(found) = 1 /\ alone = found THEN CHOOSE m \in found : TRUE
                                                   ELSE NoMessage

Observed(status) == IF status = "sent" THEN "submitted" ELSE status
ObservedErr(status) == IF status = "failed" THEN "uncertain" ELSE "none"

\* A confirmed request follows the status of its message; an unconfirmed one
\* gets a provisional candidate while the window is open, and is confirmed
\* by a unique echo once it has closed.
Reconciled(M, r) ==
    LET v == requests[r]
        m == UniqueText(M, r)
    IN  IF v.mid # NoMessage
        THEN IF v.mid \in DOMAIN M /\ M[v.mid].status # "sent"
             THEN End(v, Observed(M[v.mid].status), ObservedErr(M[v.mid].status))
             ELSE v
        ELSE IF m = NoMessage \/ now < v.time + Window
             THEN [v EXCEPT !.cand = m]
             ELSE Settle(v, m, Observed(M[m].status), ObservedErr(M[m].status))

\* The text-only requests reconcile looks at: dispatched in this epoch and
\* not settled.  No two of them can claim the same message, nor can a claim
\* free another request (a shared candidate competes for both), so the order
\* of the loop does not matter and all are evaluated on the same state.
Reconcilable == {r \in Requests : /\ TextOnly(r) /\ epochOf[r] = epoch
                                  /\ requests[r].state \in {"submitted", "unknown"}}
-----------------------------------------------------------------------------
(* The ingest thread.                                                       *)

\* What ingestion imports: the rows whose chat join is there, with their
\* present status.
Imported == [m \in {k \in 1..Len(source) : source[k].joined} |-> source[m]]

\* One ingestion transaction.  A source that is not the recorded one starts
\* a new epoch; otherwise the imported messages settle text-only requests.
Ingest ==
    /\ messages' = Imported
    /\ jgen' = gen
    /\ readReady' = TRUE
    /\ IF jgen \notin {0, gen}
       THEN Reset
       ELSE /\ UpdateRequests([r \in Reconcilable |-> Reconciled(Imported, r)])
            /\ UNCHANGED epoch
    /\ UNCHANGED <<epochOf, acceptedAt, automation, recovery, sender, observer,
                   outside, faults>>

\* ingestLoop's error path: the transaction rolled back; also a scan that has
\* become older than five seconds.
IngestFails ==
    /\ readReady
    /\ Fault("scan")
    /\ readReady' = FALSE
    /\ UNCHANGED <<journal, automation, recovery, sender, observer, outside>>
-----------------------------------------------------------------------------
(* The observation thread.                                                  *)

\* observation.prepare: pick a dispatched part of this epoch.
ObservePrepare(r, i) ==
    /\ observer.pc = "idle"
    /\ readReady /\ jgen # 0
    /\ i > 0 /\ i \in PartsOf(r)
    /\ epochOf[r] = epoch
    /\ requests[r].parts[i].state \in {"invoked", "unknown", "submitted"}
    /\ observer' = [pc |-> "looking", op |-> <<r, i>>, epoch |-> epoch, gen |-> jgen,
                    mid |-> requests[r].parts[i].mid, cand |-> NoMessage, status |-> "none"]
    /\ UNCHANGED <<journal, core, sender, outside, faults>>

\* observation.snapshot: rows inside the boundary, unjoined ones included so
\* that a delayed join cannot hide a second echo.
Nearby(o) == {m \in 1..Len(source) : InBoundary(o, m, source[m])}

Echoes(o) ==
    {m \in Nearby(o) : IF OpFile(o) = NoFile
                       THEN source[m].text = Text(o[1])
                       ELSE source[m].content = ContentOf[OpFile(o)]}

UniqueEcho(o) ==
    IF (\A m \in Nearby(o) : source[m].joined) /\ Cardinality(Echoes(o)) = 1
    THEN CHOOSE m \in Echoes(o) : TRUE
    ELSE NoMessage

\* observation.step and receipt, reading the source outside the lock: the
\* unique echo of an unconfirmed part, or the present row of a confirmed one.
ObserveLook ==
    /\ observer.pc = "looking"
    /\ LET o == observer.op
           m == IF observer.gen # gen THEN NoMessage
                ELSE IF observer.mid = NoMessage THEN UniqueEcho(o)
                ELSE IF observer.mid \in 1..Len(source) THEN observer.mid ELSE NoMessage
       IN  observer' = [pc |-> "found", op |-> o, epoch |-> observer.epoch,
                        gen |-> observer.gen, mid |-> observer.mid, cand |-> m,
                        status |-> IF m = NoMessage THEN "none" ELSE source[m].status]
    /\ UNCHANGED <<journal, core, sender, outside, faults>>

\* The file cannot be read, or the two snapshots of step differ.
ObserveNothing ==
    /\ observer.pc = "looking"
    /\ Fault("look")
    /\ observer' = [observer EXCEPT !.pc = "found"]
    /\ UNCHANGED <<journal, core, sender, outside>>

\* The echo as the journal knows it: imported with the status seen in the
\* source, and not another operation's.
Matched ==
    LET m == observer.cand
        o == observer.op
    IN  IF /\ m # NoMessage /\ m \in DOMAIN messages
           /\ messages[m].status = observer.status
           /\ OpMid(o) # NoMessage \/ Available(messages, o, m)
        THEN m ELSE NoMessage

\* A part whose echo is already shown as a hint needs no update.
MutNothingToPublish(r, i) ==
    LET part == requests[r].parts[i]
    IN  \/ ~readReady \/ observer.epoch # epoch \/ observer.gen # jgen
        \/ part.state \notin {"invoked", "unknown", "submitted"}
        \/ part.mid # NoMessage /\ part.mid # Matched
        \/ part.cand = Matched

\* publish stores nothing: the world moved on, or there is nothing new.
NothingToPublish(r, i) ==
    LET part == requests[r].parts[i]
        confirmed == Matched # NoMessage /\ now >= part.time + Window
    IN  \/ ~readReady \/ observer.epoch # epoch \/ observer.gen # jgen
        \/ part.state \notin {"invoked", "unknown", "submitted"}
        \/ part.mid # NoMessage /\ part.mid # Matched
        \/ ~confirmed /\ part.cand = Matched
        \/ confirmed /\ part.state = "submitted" /\ observer.status = "sent"

\* A delivered attachment no longer needs its original.
Published(r, i) ==
    IF Matched # NoMessage /\ now >= requests[r].parts[i].time + Window
    THEN Observe(requests[r], i, Matched, Observed(observer.status))
    ELSE [requests[r] EXCEPT !.parts =
             [@ EXCEPT ![i] = [requests[r].parts[i] EXCEPT !.cand = Matched]]]

DeliveredFile(v, i) ==
    IF v.parts[i].state = "delivered" /\ v.parts[i].file # NoFile
    THEN {v.parts[i].file} ELSE {}

\* observation.publish.
ObservePublish ==
    /\ observer.pc = "found"
    /\ LET r == observer.op[1]
           i == observer.op[2]
           v == Published(r, i)
       IN  IF NothingToPublish(r, i)
           THEN UNCHANGED <<requests, uploads>>
           ELSE /\ requests' = [requests EXCEPT ![r] = v]
                /\ uploads' = Retire(uploads, {r} \X (UnstartedFiles(v) \cup DeliveredFile(v, i)))
    /\ observer' = Watching
    /\ UNCHANGED <<epoch, epochOf, acceptedAt, messages, jgen, core, sender, outside, faults>>
-----------------------------------------------------------------------------
(* Messages.app and the Mac, external to the relay.                         *)

NewRow(text, content, date, joined, op) ==
    [text |-> text, content |-> content, date |-> date, status |-> "sent",
     joined |-> joined, op |-> op]

\* Messages may date a row a little earlier than the relay's clock.
RowDates == {d \in 0..now : now <= d + Skew}

\* Messages writes the row of an operation it took.
InsertEcho(o, date, joined) ==
    /\ o \in outbox
    /\ Len(source) < MaxRows
    /\ now <= OpTime(o) + EchoDelay
    /\ outbox' = outbox \ {o}
    /\ source' = Append(source,
          NewRow(OpText(o), IF OpFile(o) = NoFile THEN NoContent ELSE ContentOf[OpFile(o)],
                 date, joined, o))
    /\ UNCHANGED <<journal, core, sender, observer, gen, calls, taken, now, faults>>

\* Another device of the account sends a text to the same conversation.
ForeignSend(text) ==
    /\ Len(source) < MaxRows
    /\ source' = Append(source, NewRow(text, NoContent, now, TRUE, NoOp))
    /\ UNCHANGED <<journal, core, sender, observer, gen, outbox, calls, taken, now, faults>>

JoinRow(m) ==
    /\ ~source[m].joined
    /\ source' = [source EXCEPT ![m] = [source[m] EXCEPT !.joined = TRUE]]
    /\ UNCHANGED <<journal, core, sender, observer, gen, outbox, calls, taken, now, faults>>

ChangeStatus(m, status) ==
    /\ source[m].status = "sent"
    /\ source' = [source EXCEPT ![m] = [source[m] EXCEPT !.status = status]]
    /\ UNCHANGED <<journal, core, sender, observer, gen, outbox, calls, taken, now, faults>>

\* The Messages database is restored or replaced.
ReplaceSource ==
    /\ Fault("replace")
    /\ gen' = gen + 1
    /\ source' = <<>>
    /\ UNCHANGED <<journal, core, sender, observer, outbox, calls, taken, now>>

Tick ==
    /\ now < MaxNow
    /\ now' = now + 1
    /\ UNCHANGED <<journal, core, sender, observer, source, gen, outbox, calls, taken, faults>>

\* The relay dies and is started again: threads are gone, the journal and
\* Messages are not, and recover runs before any thread.
Crash ==
    /\ Fault("crash")
    /\ Recover
    /\ readReady' = FALSE
    /\ automation' = FALSE
    /\ recovery' = FALSE
    /\ sender' = Idle
    /\ observer' = Watching
    /\ UNCHANGED <<epoch, epochOf, acceptedAt, messages, jgen, outside>>
-----------------------------------------------------------------------------
SenderStep ==
    \/ \E ready \in BOOLEAN : Probe(ready)
    \/ \E r \in Requests : \E i \in PartsOf(r) : PrepareSend(r, i) \/ RejectQueued(r, i)
    \/ \E r \in Requests : RefuseSend(r)
    \/ \E outcome \in {"invoked", "unstarted", "uncertain"}, took \in BOOLEAN :
          Invoke(outcome, took)
    \/ FinishSend
    \/ FinishFails
    \/ RecoverSends

ObserverStep ==
    \/ \E r \in Requests : \E i \in PartsOf(r) : ObservePrepare(r, i)
    \/ ObserveLook
    \/ ObserveNothing
    \/ ObservePublish

HttpStep ==
    \/ \E r \in Requests : Accept(r)
    \/ ClientReset
    \/ \E f \in Files : ReplaceUpload(f)

MessagesStep ==
    \/ \E o \in outbox, date \in RowDates, joined \in Joins : InsertEcho(o, date, joined)
    \/ \E text \in ForeignTexts : ForeignSend(text)
    \/ \E m \in 1..Len(source) : JoinRow(m)
    \/ \E m \in 1..Len(source), status \in Receipts : ChangeStatus(m, status)
    \/ ReplaceSource

Next ==
    \/ HttpStep
    \/ SenderStep
    \/ Ingest
    \/ IngestFails
    \/ ObserverStep
    \/ MessagesStep
    \/ Crash
    \/ Tick

Spec == Init /\ [][Next]_vars

\* What the threads guarantee.  The sender and ingest loops run for ever on
\* timers; observation takes the part it has not looked at for longest
\* (ORDER BY attempt_ms), so no part is passed over for ever; the clock runs.
\* No fault is fair, and there are at most MaxFaults of them.
SenderProgress ==
    \/ Probe(TRUE)
    \/ \E r \in Requests : \E i \in PartsOf(r) : PrepareSend(r, i)
    \/ \E r \in Requests : RefuseSend(r)
    \/ Invoke("invoked", TRUE)
    \/ FinishSend
    \/ RecoverSends

Fairness ==
    /\ WF_vars(SenderProgress)
    /\ WF_vars(Ingest)
    /\ \A r \in Requests : \A i \in PartsOf(r) : SF_vars(ObservePrepare(r, i))
    /\ WF_vars(ObserveLook)
    /\ WF_vars(ObservePublish)
    /\ WF_vars(Tick)

FairSpec == Spec /\ Fairness
-----------------------------------------------------------------------------
(* Properties.                                                              *)

Accepted(r) == epochOf[r] # 0
Current(o) == epochOf[o[1]] = epoch

\* Every variable holds a value of its kind.
TypeOK ==
    /\ epoch \in Nat \ {0}
    /\ requests \in [Requests -> Request]
    /\ epochOf \in [Requests -> Nat]
    /\ acceptedAt \in [Requests -> Nat]
    /\ uploads \in [Files -> [state: {"ready", "pinned", "deleting"}, epoch: Nat,
                              req: Requests \cup {NoRequest}]]
    /\ DOMAIN messages \subseteq Nat \ {0}
    /\ \A m \in DOMAIN messages : messages[m] \in Row
    /\ jgen \in Nat
    /\ readReady \in BOOLEAN /\ automation \in BOOLEAN /\ recovery \in BOOLEAN
    /\ sender \in [pc: {"idle", "prepared", "returned"}, op: Ops \cup {NoOp}, epoch: Nat,
                   work: Request, outcome: {"none", "invoked", "unstarted", "uncertain"}]
    /\ observer \in [pc: {"idle", "looking", "found"}, op: Ops \cup {NoOp}, epoch: Nat,
                     gen: Nat, mid: Nat, cand: Nat,
                     status: {"none", "sent", "delivered", "failed"}]
    /\ source \in Seq(Row)
    /\ gen \in Nat
    /\ outbox \subseteq Ops
    /\ calls \in [Ops -> Nat]
    /\ taken \subseteq Ops
    /\ now \in Nat
    /\ faults \in Nat

\* Messages automation is called at most once for an operation, whatever
\* crashes, resets, failed result transactions and recoveries happen between
\* the durable "dispatching" mark and its result: "retrying the request must
\* never re-invoke an attempted or uncertain part" (sends.zig).
AtMostOnce == \A o \in Ops : calls[o] <= 1

\* A part is only handed to Messages after every part before it was: a
\* caption or file whose outcome is not known to be taken holds the rest.
PredecessorsTaken ==
    \A o \in Ops : calls[o] > 0 => \A k \in 1..(o[2] - 1) : <<o[1], k>> \in taken

\* An error that tells the client that nothing was sent (outcome unstarted,
\* so a retry cannot duplicate) is true: of the part, and of all parts when
\* it is the request's.
UnstartedIsTrue ==
    \A o \in Ops : Accepted(o[1]) =>
        /\ OpErr(o) = "unstarted" => o \notin taken
        /\ requests[o[1]].err = "unstarted" => o \notin taken

\* The pinned original of an accepted attachment stays pinned by its request
\* until the part is delivered or known not to have been started.
OriginalKept ==
    \A o \in Ops :
        LET f == OpFile(o)
        IN  (Accepted(o[1]) /\ f # NoFile)
               => \/ uploads[f].state = "pinned" /\ uploads[f].req = o[1]
                  \/ OpState(o) = "delivered"
                  \/ OpErr(o) = "unstarted"

\* Requests are dispatched in the order they were accepted: once an operation
\* of a later request was handed over, an earlier one has nothing queued.
AcceptanceOrder ==
    \A o \in Ops, q \in Requests :
        (calls[o] > 0 /\ Accepted(q) /\ acceptedAt[q] < acceptedAt[o[1]])
            => requests[q].state # "queued" /\ ~SomePart(requests[q], {"queued"})

\* An operation never confirms the echo of another operation of its epoch, and
\* no message confirms two, although texts and files may be the same and echoes
\* come late or not at all.  It holds when EchoDelay <= Window and no other
\* device sends a text of the requests within their epoch, or, of texts only,
\* when each echo comes and joins before the window closes.  Otherwise a part
\* can take an echo by a look made before the window closed.
NoStolenEcho ==
    \A o \in Ops : (Current(o) /\ OpMid(o) # NoMessage)
        => LET x == messages[OpMid(o)].op
           IN  /\ x \in {o, NoOp} \/ ~Current(x)
               /\ \A p \in Ops : Current(p) /\ OpMid(p) = OpMid(o) => p = o

\* Within an epoch no operation goes back: late automation results, stale
\* observations, recovery and reconciliation never overwrite what is known.
NoRegression ==
    [][\A o \in Ops : Accepted(o[1]) =>
          \/ Stage(OpState(o)') > Stage(OpState(o))
          \/ OpState(o)' = OpState(o)
          \/ epoch' # epoch /\ OpState(o) = "submitted" /\ OpState(o)' = "unknown"]_vars

\* Every accepted request leaves the queue: it is not stuck behind an
\* interrupted dispatch, a reset or a failed transaction.
Settles ==
    \A r \in Requests :
        (Accepted(r) /\ requests[r].state \in {"queued", "dispatching"})
            ~> requests[r].state \notin {"queued", "dispatching"}

\* An operation whose echo Messages has written and joined is confirmed by
\* it, or held by a reset, provided that nothing else it could be taken for
\* is sent; the clock of the instance must reach the end of the window.
Echoed(o, m) ==
    /\ Current(o) /\ OpTime(o) + Window <= MaxNow
    /\ m \in 1..Len(source) /\ source[m].op = o /\ source[m].joined
Confirms ==
    \A o \in Ops, m \in 1..MaxRows : Echoed(o, m) ~> (OpMid(o) = m \/ ~Current(o))

=============================================================================
