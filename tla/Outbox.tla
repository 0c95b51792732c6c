------------------------------- MODULE Outbox -------------------------------
(***************************************************************************)
(* Sending from the Linux client: private copies of attachments, the durable   *)
(* outbox, and the two network lanes that carry a submission.  A file thread    *)
(* copies and collects originals; the client's worker owns the outbox; both     *)
(* write the same database.  The program may be killed between any two steps.   *)
(*                                                                         *)
(*   src/client/outgoing.c                the private directory                *)
(*   src/client/outgoing/Files.zig        stage and collect                    *)
(*   src/client/outgoing/Preparation.zig  the file thread and its tasks        *)
(*   src/client/outgoing/Upload.zig       the attachment lane                  *)
(*   src/client/outgoing.zig, Store.zig   the ledger and the outbox            *)
(*   src/client/Worker.zig                commands, jobs and their responses   *)
(*   src/client/bridge.c                  request and upload slots             *)
(*                                                                         *)
(* There is one conversation and one epoch.  The relay is external here: it     *)
(* accepts a request identifier once (module Sends) and keeps uploads (module    *)
(* Uploads).  A request the client stopped waiting for may still arrive.         *)
(* Definitions named Mut... are plausible mistakes in the definition that         *)
(* follows them and belong to no specification.                                  *)
(***************************************************************************)
EXTENDS Naturals, FiniteSets, Sequences

CONSTANTS
    Requests,    \* request identifiers, each minted once
    Files,       \* file identifiers, each minted once
    NoFile, NoRequest,
    MaxStored,   \* max_stored_files: 256
    TaskLimit,   \* Preparation: 32
    MaxFaults,   \* bound: failing calls, lost messages and lost connections
    MaxStarts    \* bound: starts of the client

ASSUME OutboxAssumption ==
    /\ NoFile \notin Files /\ NoRequest \notin Requests
    /\ {MaxStored, TaskLimit, MaxStarts} \subseteq Nat \ {0}
    /\ MaxFaults \in Nat
    /\ Requests \cap {"none", "draft", "retired"} = {}

VARIABLES
    ledger,   \* outgoing_files: a file's owner
    disk,     \* the private directory
    tasks,    \* Preparation.pending
    prep,     \* the file thread: where it is, with which task
    results,  \* Preparation.results
    outbox,   \* the outbox rows
    online,
    job,      \* the request lane (slot 0)
    upload,   \* Worker.upload (slot 4), or NoUpload
    relay,    \* the relay's request records (external)
    store,    \* the relay's uploads (external)
    late,     \* submissions nobody waits for that may still arrive
    posts,    \* how often each request was submitted
    used,     \* identifiers minted so far
    faults, starts

files == <<ledger, disk>>
thread == <<tasks, prep, results>>
lanes == <<job, upload>>
remote == <<relay, store, late>>
vars == <<ledger, disk, tasks, prep, results, outbox, online, job, upload,
          relay, store, late, posts, used, faults, starts>>

NoUpload == [request |-> NoRequest, phase |-> "none", left |-> {},
             may |-> FALSE, answer |-> "none"]
NoJob == [kind |-> "idle", request |-> NoRequest, answer |-> "none"]
NoRow == [state |-> "none", files |-> {}, row |-> 0]
NoTask == [file |-> NoFile, cancelled |-> FALSE]

\* outbox.state while record is NULL; "recorded" and "delivered" stand for the
\* states a record gives.
Unanswered == {"uploading", "sending", "unknown", "unconfirmed", "failed",
               "cancelled"}

Init ==
    /\ ledger = [f \in Files |-> "none"]
    /\ disk = [f \in Files |-> "none"]
    /\ tasks = <<>> /\ results = <<>>
    /\ prep = [pc |-> "start", task |-> NoTask]
    /\ outbox = [r \in Requests |-> NoRow]
    /\ online = FALSE
    /\ job = NoJob
    /\ upload = NoUpload
    /\ relay = [r \in Requests |-> "none"]
    /\ store = [f \in Files |-> "none"]
    /\ late = {}
    /\ posts = [r \in Requests |-> 0]
    /\ used = {}
    /\ faults = 0 /\ starts = 1

\* u.id: an identifier nobody has used; which one makes no difference.
Fresh(id, all) == all \ used # {} /\ id = CHOOSE x \in all \ used : TRUE

Fault == faults < MaxFaults /\ faults' = faults + 1

-----------------------------------------------------------------------------
(* The private directory (outgoing.c).  Each file is an original; its bytes    *)
(* count once they and its name have been synced.  Removal is taken to succeed. *)

\* zc_outgoing_create, exclusively.
Created(f) == [disk EXCEPT ![f] = "partial"]

\* zc_outgoing_write of every chunk, then fsync of the file and the directory.
Copied(f) == [disk EXCEPT ![f] = "synced"]

\* zc_outgoing_remove: a file that is not there is removed.
Removed(f) == [disk EXCEPT ![f] = "none"]

\* zc_outgoing_scan and zc_outgoing_next.
Entries == {f \in Files : disk[f] # "none"}

\* zc_outgoing_open succeeds on a file of the recorded length only.
Opens(f) == disk[f] = "synced"

-----------------------------------------------------------------------------
(* The ledger and the outbox. *)

Owned(f) == ledger[f] \in {"draft"} \cup Requests
DraftFiles == {f \in Files : ledger[f] = "draft"}
Rows == {f \in Files : ledger[f] # "none"}

\* checkAdd.
Room == Cardinality(Rows) < MaxStored

\* outcome: never over a record received meanwhile.
Outcome(box, r, state) ==
    IF box[r].state \in Unanswered THEN [box EXCEPT ![r].state = state]
    ELSE box

\* Delivery leaves the originals owned.
MutRecord(r) ==
    /\ outbox' = IF outbox[r].state = "none" THEN outbox
                 ELSE [outbox EXCEPT ![r].state = relay[r]]
    /\ UNCHANGED ledger

\* upsert of a request record: requestState, and delivered for the last state.
Record(r) ==
    /\ outbox' = IF outbox[r].state = "none" THEN outbox
                 ELSE [outbox EXCEPT ![r].state = relay[r]]
    /\ ledger' = IF relay[r] # "delivered" THEN ledger
                 ELSE [f \in Files |-> IF ledger[f] = r THEN "retired"
                                       ELSE ledger[f]]

-----------------------------------------------------------------------------
(* The file thread. *)

\* The originals of requests are forgotten.
MutCollectStartup ==
    /\ prep.pc = "start"
    /\ disk' = [f \in Files |-> IF ledger[f] = "draft" THEN disk[f] ELSE "none"]
    /\ ledger' = [f \in Files |-> IF ledger[f] = "retired" THEN "none"
                                  ELSE ledger[f]]
    /\ prep' = [prep EXCEPT !.pc = "idle"]
    /\ UNCHANGED <<tasks, results, outbox, online, lanes, remote, posts, used,
                   faults, starts>>

\* collect at startup: whatever no draft or request owns goes.
CollectStartup ==
    /\ prep.pc = "start"
    /\ disk' = [f \in Files |-> IF f \in Entries /\ ~Owned(f) THEN "none"
                                ELSE disk[f]]
    /\ ledger' = [f \in Files |-> IF ledger[f] = "retired" THEN "none"
                                  ELSE ledger[f]]
    /\ prep' = [prep EXCEPT !.pc = "idle"]
    /\ UNCHANGED <<tasks, results, outbox, online, lanes, remote, posts, used,
                   faults, starts>>

\* The directory or the database fails at startup: every task fails.
CollectFailed ==
    /\ prep.pc = "start"
    /\ Fault
    /\ prep' = [prep EXCEPT !.pc = "failed"]
    /\ results' = results \o [i \in DOMAIN tasks |->
                                [tasks[i] EXCEPT !.file = NoFile]]
    /\ tasks' = <<>>
    /\ UNCHANGED <<files, outbox, online, lanes, remote, posts, used, starts>>

\* stage up to zc_outgoing_create; checkAdd refuses early.
StageBegin ==
    /\ prep.pc = "idle" /\ tasks # <<>>
    /\ tasks' = Tail(tasks)
    /\ IF Room
       THEN /\ disk' = Created(Head(tasks).file)
            /\ prep' = [pc |-> "copy", task |-> Head(tasks)]
            /\ UNCHANGED results
       ELSE /\ results' = Append(results, [Head(tasks) EXCEPT !.file = NoFile])
            /\ UNCHANGED <<disk, prep>>
    /\ UNCHANGED <<ledger, outbox, online, lanes, remote, posts, used, faults,
                   starts>>

\* copy, and the source still has the fingerprint it had before.
StageCopied ==
    /\ prep.pc = "copy" /\ ~prep.task.cancelled
    /\ disk' = Copied(prep.task.file)
    /\ prep' = [prep EXCEPT !.pc = "commit"]
    /\ UNCHANGED <<ledger, tasks, results, outbox, online, lanes, remote, posts,
                   used, faults, starts>>

\* stage's error path: cancelled in the middle of the copy or before the commit,
\* or the source changed or a call failed.
StageFailed ==
    /\ prep.pc \in {"copy", "commit"}
    /\ \/ prep.task.cancelled /\ UNCHANGED faults
       \/ ~prep.task.cancelled /\ Fault
    /\ disk' = Removed(prep.task.file)
    /\ results' = Append(results, [prep.task EXCEPT !.file = NoFile])
    /\ prep' = [pc |-> "idle", task |-> NoTask]
    /\ UNCHANGED <<ledger, tasks, outbox, online, lanes, remote, posts, used,
                   starts>>

\* addDraft: one transaction, with the quota checked again.
StageCommit ==
    /\ prep.pc = "commit" /\ ~prep.task.cancelled
    /\ IF Room
       THEN /\ ledger' = [ledger EXCEPT ![prep.task.file] = "draft"]
            /\ results' = Append(results, prep.task)
            /\ UNCHANGED disk
       ELSE /\ disk' = Removed(prep.task.file)
            /\ results' = Append(results, [prep.task EXCEPT !.file = NoFile])
            /\ UNCHANGED ledger
    /\ prep' = [pc |-> "idle", task |-> NoTask]
    /\ UNCHANGED <<tasks, outbox, online, lanes, remote, posts, used, faults,
                   starts>>

\* The row goes before the file.
MutCollectUnlink(f) ==
    /\ prep.pc = "idle" /\ tasks = <<>>
    /\ ledger[f] = "retired"
    /\ ledger' = [ledger EXCEPT ![f] = "none"]
    /\ prep' = [pc |-> "row", task |-> [NoTask EXCEPT !.file = f]]
    /\ UNCHANGED <<disk, tasks, results, outbox, online, lanes, remote, posts,
                   used, faults, starts>>

\* collect between tasks: unlink a retired original, then delete its row.
CollectUnlink(f) ==
    /\ prep.pc = "idle" /\ tasks = <<>>
    /\ ledger[f] = "retired"
    /\ disk' = Removed(f)
    /\ prep' = [pc |-> "row", task |-> [NoTask EXCEPT !.file = f]]
    /\ UNCHANGED <<ledger, tasks, results, outbox, online, lanes, remote, posts,
                   used, faults, starts>>

CollectRow ==
    /\ prep.pc = "row"
    /\ ledger' = IF ledger[prep.task.file] = "retired"
                 THEN [ledger EXCEPT ![prep.task.file] = "none"] ELSE ledger
    /\ prep' = [pc |-> "idle", task |-> NoTask]
    /\ UNCHANGED <<disk, tasks, results, outbox, online, lanes, remote, posts,
                   used, faults, starts>>

-----------------------------------------------------------------------------
(* Commands of the user interface, as drain handles them. *)

Busy == Len(tasks) + Len(results) + (IF prep.pc \in {"copy", "commit"}
                                     THEN 1 ELSE 0)

\* .attach and Preparation.push.
Attach(f) ==
    /\ Fresh(f, Files)
    /\ prep.pc # "failed"
    /\ Busy < TaskLimit
    /\ tasks' = Append(tasks, [file |-> f, cancelled |-> FALSE])
    /\ used' = used \cup {f}
    /\ UNCHANGED <<files, prep, results, outbox, online, lanes, remote, posts,
                   faults, starts>>

\* .cancel_preparation.
Cancel ==
    LET Cancelled(q) == [i \in DOMAIN q |-> [q[i] EXCEPT !.cancelled = TRUE]]
    IN  /\ Busy > 0
        /\ tasks' = Cancelled(tasks)
        /\ results' = Cancelled(results)
        /\ prep' = IF prep.pc \in {"copy", "commit"}
                   THEN [prep EXCEPT !.task.cancelled = TRUE] ELSE prep
        /\ <<tasks, results, prep>>' # <<tasks, results, prep>>
        /\ UNCHANGED <<files, outbox, online, lanes, remote, posts, used,
                       faults, starts>>

\* preparedFiles: a cancelled task may have committed its file all the same.
Prepared ==
    /\ results # <<>>
    /\ results' = Tail(results)
    /\ LET task == Head(results)
       IN  ledger' = IF task.cancelled /\ task.file # NoFile
                        /\ ledger[task.file] = "draft"
                     THEN [ledger EXCEPT ![task.file] = "retired"] ELSE ledger
    /\ UNCHANGED <<disk, tasks, prep, outbox, online, lanes, remote, posts,
                   used, faults, starts>>

\* .remove_attachment and removeDraft.
RemoveDraft(f) ==
    /\ ledger[f] = "draft"
    /\ ledger' = [ledger EXCEPT ![f] = "retired"]
    /\ UNCHANGED <<disk, thread, outbox, online, lanes, remote, posts, used,
                   faults, starts>>

\* unresolved: no new submission while one is uncertain.
Unresolved == \E r \in Requests : outbox[r].state \in {"sending", "unknown"}

\* .send and persistSend: one transaction moves the draft's files and writes the
\* row.  Text is posted at once, on the lane drain has freed.
Send(r) ==
    /\ Fresh(r, Requests)
    /\ Busy = 0 /\ online /\ ~Unresolved
    /\ job.kind # "send"
    /\ DraftFiles # {} => prep.pc \in {"idle", "row"}
    /\ used' = used \cup {r}
    /\ ledger' = [f \in Files |-> IF f \in DraftFiles THEN r ELSE ledger[f]]
    /\ outbox' = [outbox EXCEPT ![r] =
                    [state |-> IF DraftFiles = {} THEN "sending" ELSE "uploading",
                     files |-> DraftFiles,
                     row |-> Cardinality(used \cap Requests) + 1]]
    /\ IF DraftFiles = {}
       THEN /\ job' = [kind |-> "send", request |-> r, answer |-> "none"]
            /\ posts' = [posts EXCEPT ![r] = @ + 1]
       ELSE /\ job' = IF job.kind = "recover" THEN NoJob ELSE job
            /\ UNCHANGED posts
    /\ UNCHANGED <<disk, thread, online, upload, remote, faults, starts>>

\* A submission that is given up while it travels may still arrive.
Abandoned ==
    {r \in Requests :
        /\ relay[r] = "none"
        /\ \/ job.kind = "send" /\ job.request = r
           \/ upload.phase = "submit" /\ upload.request = r}

\* The file the attachment lane is at.
Current == CHOOSE f \in upload.left : TRUE

\* stopUpload; a transfer in progress is cut short at the relay.
Receiving ==
    IF upload.phase = "transfer" /\ upload.answer = "none"
    THEN [store EXCEPT ![Current] = "receiving"] ELSE store

\* .cancel_upload: only before the submission.
CancelUpload(r) ==
    /\ outbox[r].state = "uploading"
    /\ upload' = IF upload.request = r THEN NoUpload ELSE upload
    /\ store' = IF upload.request = r THEN Receiving ELSE store
    /\ outbox' = Outcome(outbox, r, "cancelled")
    /\ UNCHANGED <<files, thread, online, job, relay, late, posts, used, faults,
                   starts>>

\* .reconnect: the transport is freed, a submission in flight is uncertain.
Reconnect ==
    /\ Fault
    /\ outbox' = IF job.kind = "send" THEN Outcome(outbox, job.request, "unknown")
                 ELSE outbox
    /\ late' = late \cup Abandoned
    /\ store' = Receiving
    /\ job' = NoJob
    /\ upload' = NoUpload
    /\ online' = FALSE
    /\ UNCHANGED <<files, thread, relay, posts, used, starts>>

\* disconnected: the request lane is left to finish, uploadFiles stops its own.
Offline ==
    /\ online' = FALSE
    /\ upload' = NoUpload
    /\ store' = Receiving
    /\ late' = late \cup {r \in Abandoned : upload.request = r}

\* The event stream ends.
Disconnect ==
    /\ online
    /\ Fault
    /\ Offline
    /\ UNCHANGED <<files, thread, outbox, job, relay, posts, used, starts>>

Connect ==
    /\ ~online
    /\ online' = TRUE
    /\ UNCHANGED <<files, thread, outbox, lanes, remote, posts, used, faults,
                   starts>>

\* expireUnknown: text of uncertain fate is dropped after five minutes.
Expire(r) ==
    /\ outbox[r].state = "unknown" /\ outbox[r].files = {}
    /\ outbox' = [outbox EXCEPT ![r] = NoRow]
    /\ UNCHANGED <<files, thread, online, lanes, remote, posts, used, faults,
                   starts>>

-----------------------------------------------------------------------------
(* The request lane: text. *)

UncertainTexts ==
    {r \in Requests : outbox[r].state \in {"sending", "unknown"}
                        /\ outbox[r].files = {}}

\* schedule: the oldest uncertain text is looked up by its identifier.
Recover(r) ==
    /\ online /\ job = NoJob
    /\ r \in UncertainTexts
    /\ \A q \in UncertainTexts : outbox[r].row <= outbox[q].row
    /\ job' = [kind |-> "recover", request |-> r, answer |-> "none"]
    /\ UNCHANGED <<files, thread, outbox, online, upload, remote, posts, used,
                   faults, starts>>

\* complete and handleResponse.  Any refusal but a missing record takes the client
\* offline.
JobDone ==
    /\ job.answer # "none"
    /\ job' = NoJob
    /\ LET r == job.request
       IN  \/ job.answer = "record" /\ Record(r)
          \/ /\ job.answer # "record"
             /\ outbox' = CASE job.kind = "send" /\ job.answer = "rejected"
                                -> Outcome(outbox, r, "failed")
                            [] job.kind = "send" /\ job.answer = "lost"
                                -> Outcome(outbox, r, "unknown")
                            [] job.kind = "recover" /\ job.answer = "missing"
                                -> Outcome(outbox, r, "unconfirmed")
                            [] OTHER -> outbox
             /\ UNCHANGED ledger
    /\ IF job.answer \in {"lost", "rejected"} THEN Offline
       ELSE UNCHANGED <<online, upload, store, late>>
    /\ UNCHANGED <<disk, thread, relay, posts, used, faults, starts>>

-----------------------------------------------------------------------------
(* The attachment lane. *)

\* A submission interrupted by a crash is not looked up.
MutStartUpload(r) ==
    /\ online /\ upload = NoUpload
    /\ prep.pc \notin {"start", "failed"}
    /\ outbox[r].state \in {"uploading", "unknown"} /\ outbox[r].files # {}
    /\ upload' = [request |-> r, phase |-> "lookup", left |-> outbox[r].files,
                  may |-> outbox[r].state = "uploading", answer |-> "none"]
    /\ UNCHANGED <<files, thread, outbox, online, job, remote, posts, used,
                   faults, starts>>

\* uploadFiles and Upload.init: the oldest row; only a row still "uploading" may
\* go as far as a submission.
StartUpload(r) ==
    /\ online /\ upload = NoUpload
    /\ prep.pc \notin {"start", "failed"}
    /\ LET Waits(q) == /\ outbox[q].state \in {"uploading", "sending", "unknown"}
                       /\ outbox[q].files # {}
       IN  /\ Waits(r)
           /\ \A q \in Requests : Waits(q) => outbox[r].row <= outbox[q].row
    /\ upload' = [request |-> r, phase |-> "lookup", left |-> outbox[r].files,
                  may |-> outbox[r].state = "uploading", answer |-> "none"]
    /\ UNCHANGED <<files, thread, outbox, online, job, remote, posts, used,
                   faults, starts>>

Ask(phase, left) == [upload EXCEPT !.phase = phase, !.left = left,
                                   !.answer = "none"]

\* Upload.poll on an answer that ends the attempt.
UploadEnds ==
    /\ upload.answer \in {"lost", "rejected", "record", "receiving", "missing"}
    /\ upload.answer = "missing" => upload.phase = "lookup" /\ ~upload.may
    /\ upload' = NoUpload
    /\ LET r == upload.request
       IN  \/ upload.answer = "record" /\ Record(r)
          \/ /\ upload.answer # "record"
             /\ outbox' = Outcome(outbox, r,
                            CASE upload.answer = "rejected" -> "failed"
                              [] upload.answer = "missing" -> "unconfirmed"
                              [] upload.answer = "receiving" -> "uploading"
                              [] upload.answer = "lost" ->
                                   IF upload.may THEN "uploading" ELSE "unknown")
             /\ UNCHANGED ledger
    /\ online' \in IF upload.answer \in {"lost", "rejected"} THEN {online, FALSE}
                   ELSE {online}
    /\ UNCHANGED <<disk, thread, job, remote, posts, used, faults, starts>>

\* An answer that cannot be verified, an original that cannot be opened, a
\* request that cannot be started.
UploadBreaks ==
    /\ upload.answer # "none"
    /\ Fault
    /\ LET submits == upload.answer = "ready" /\ upload.left = {Current}
       IN  outbox' = Outcome(outbox, upload.request,
                       IF upload.may /\ ~submits THEN "failed" ELSE "unknown")
    /\ upload' = NoUpload
    /\ UNCHANGED <<files, thread, online, job, remote, posts, used, starts>>

\* Upload.poll going on: the first reservation, or that of the next file.
Reserve ==
    /\ \/ /\ upload.answer = "missing" /\ upload.phase = "lookup" /\ upload.may
          /\ upload' = Ask("reserve", upload.left)
       \/ /\ upload.answer = "ready" /\ upload.left # {Current}
          /\ upload' = Ask("reserve", upload.left \ {Current})
    /\ UNCHANGED <<files, thread, outbox, online, job, remote, posts, used,
                   faults, starts>>

\* Upload.poll on a reservation: zc_net_upload reads the bytes from the original.
Transfer ==
    /\ upload.answer = "reserved" /\ upload.phase = "reserve"
    /\ Opens(Current)
    /\ upload' = Ask("transfer", upload.left)
    /\ UNCHANGED <<files, thread, outbox, online, job, remote, posts, used,
                   faults, starts>>

\* The intent is recorded with the outcome only.
MutSubmit ==
    /\ upload.answer = "ready" /\ upload.left = {Current}
    /\ upload' = [Ask("submit", {}) EXCEPT !.may = FALSE]
    /\ posts' = [posts EXCEPT ![upload.request] = @ + 1]
    /\ UNCHANGED <<files, thread, outbox, online, job, remote, used, faults,
                   starts>>

\* Upload.poll when the last file is ready: the intent is durable before the
\* first byte of the submission.
Submit ==
    /\ upload.answer = "ready" /\ upload.left = {Current}
    /\ outbox' = Outcome(outbox, upload.request, "sending")
    /\ upload' = [Ask("submit", {}) EXCEPT !.may = FALSE]
    /\ posts' = [posts EXCEPT ![upload.request] = @ + 1]
    /\ UNCHANGED <<files, thread, online, job, remote, used, faults, starts>>

-----------------------------------------------------------------------------
(* The relay and the network (external).  A request identifier is accepted once;  *)
(* a lookup answers with its record or that there is none.                        *)

Accept(r) == relay' = [relay EXCEPT ![r] = IF @ = "none" THEN "recorded" ELSE @]

ServeJob ==
    /\ job # NoJob /\ job.answer = "none"
    /\ \/ /\ job.kind = "send" /\ Accept(job.request)
          /\ job' = [job EXCEPT !.answer = "record"]
       \/ /\ job.kind = "send" /\ relay[job.request] = "none"
          /\ job' = [job EXCEPT !.answer = "rejected"] /\ UNCHANGED relay
       \/ /\ job.kind = "recover"
          /\ job' = [job EXCEPT !.answer = IF relay[job.request] = "none"
                                           THEN "missing" ELSE "record"]
          /\ UNCHANGED relay
    /\ UNCHANGED <<files, thread, outbox, online, upload, store, late, posts,
                   used, faults, starts>>

\* A lookup, a reservation (idempotent), the bytes, the submission.  Each
\* may be refused (400, 401, 403, 409, 410 or 413), a submission only as long as it
\* is not accepted.
ServeUpload ==
    /\ upload # NoUpload /\ upload.answer = "none"
    /\ LET r == upload.request
           Answer(a) == upload' = [upload EXCEPT !.answer = a]
       IN  \/ /\ upload.phase = "lookup"
              /\ Answer(IF relay[r] = "none" THEN "missing" ELSE "record")
              /\ UNCHANGED <<relay, store>>
           \/ /\ upload.phase = "reserve"
              /\ store' = [store EXCEPT ![Current] = IF @ = "none" THEN "reserved"
                                                     ELSE @]
              /\ Answer(store'[Current])
              /\ UNCHANGED relay
           \/ /\ upload.phase = "transfer"
              /\ store' = [store EXCEPT ![Current] = "ready"]
              /\ Answer("ready")
              /\ UNCHANGED relay
           \/ /\ upload.phase = "submit" /\ Accept(r) /\ Answer("record")
              /\ UNCHANGED store
           \/ /\ upload.phase = "submit" => relay[r] = "none"
              /\ Answer("rejected")
              /\ UNCHANGED <<relay, store>>
    /\ UNCHANGED <<files, thread, outbox, online, job, late, posts, used, faults,
                   starts>>

\* A connection breaks: the request may be on its way, or its answer lost.
LoseJob ==
    /\ job # NoJob /\ job.answer # "lost"
    /\ Fault
    /\ late' = late \cup {r \in Abandoned : job.kind = "send" /\ job.request = r}
    /\ job' = [job EXCEPT !.answer = "lost"]
    /\ UNCHANGED <<files, thread, outbox, online, upload, relay, store, posts,
                   used, starts>>

LoseUpload ==
    /\ upload # NoUpload /\ upload.answer # "lost"
    /\ Fault
    /\ late' = late \cup {r \in Abandoned : upload.request = r}
    /\ store' = Receiving
    /\ upload' = [upload EXCEPT !.answer = "lost"]
    /\ UNCHANGED <<files, thread, outbox, online, job, relay, posts, used,
                   starts>>

\* It may also never arrive: nothing makes it.
LateArrive(r) ==
    /\ r \in late
    /\ late' = late \ {r}
    /\ Accept(r)
    /\ UNCHANGED <<files, thread, outbox, online, lanes, store, posts, used,
                   faults, starts>>

\* The relay notices that an upload was cut short.
Close(f) ==
    /\ store[f] = "receiving"
    /\ store' = [store EXCEPT ![f] = "reserved"]
    /\ UNCHANGED <<files, thread, outbox, online, lanes, relay, late, posts,
                   used, faults, starts>>

Deliver(r) ==
    /\ relay[r] = "recorded"
    /\ relay' = [relay EXCEPT ![r] = "delivered"]
    /\ UNCHANGED <<files, thread, outbox, online, lanes, store, late, posts,
                   used, faults, starts>>

-----------------------------------------------------------------------------
(* Events and restarts. *)

\* A request event of the live stream; the periodic lookup of a request that has a
\* record (schedule) has no other effect.
Event(r) ==
    /\ online /\ relay[r] # "none"
    /\ outbox[r].state \notin {"none", relay[r]}
    /\ Record(r)
    /\ UNCHANGED <<disk, thread, online, lanes, remote, posts, used, faults,
                   starts>>

\* The client is killed and started again: only the database and the directory
\* survive.
Restart ==
    /\ starts < MaxStarts
    /\ starts' = starts + 1
    /\ late' = late \cup Abandoned
    /\ store' = Receiving
    /\ tasks' = <<>> /\ results' = <<>>
    /\ prep' = [pc |-> "start", task |-> NoTask]
    /\ online' = FALSE
    /\ job' = NoJob /\ upload' = NoUpload
    /\ UNCHANGED <<files, outbox, relay, posts, used, faults>>

-----------------------------------------------------------------------------

\* Everything that needs nobody's wish: the threads, the relay, the network.
Thread ==
    \/ CollectStartup \/ StageBegin \/ StageCopied \/ StageCommit
    \/ prep.task.cancelled /\ StageFailed
    \/ \E f \in Files : CollectUnlink(f)
    \/ CollectRow

Worker ==
    \/ Prepared \/ Connect \/ JobDone
    \/ \E r \in Requests : Recover(r)

Lane ==
    \/ \E r \in Requests : StartUpload(r)
    \/ UploadEnds \/ Reserve \/ Transfer \/ Submit

User ==
    \/ \E f \in Files : Attach(f) \/ RemoveDraft(f)
    \/ Cancel
    \/ \E r \in Requests : Send(r) \/ CancelUpload(r)

Faulty ==
    \/ CollectFailed \/ StageFailed \/ Reconnect \/ Disconnect
    \/ UploadBreaks \/ LoseJob \/ LoseUpload \/ Restart

Next ==
    \/ Thread \/ Worker \/ Lane \/ User \/ Faulty
    \/ ServeJob \/ ServeUpload \/ \E f \in Files : Close(f)
    \/ \E r \in Requests : LateArrive(r) \/ Deliver(r) \/ Event(r)
                           \/ Expire(r)

Spec == Init /\ [][Next]_vars

\* Both threads of the client run, a relay that is reached answers and notices a
\* broken upload, and a client that is offline connects again.
FairSpec ==
    /\ Spec
    /\ WF_vars(Thread) /\ WF_vars(Worker) /\ WF_vars(Lane)
    /\ WF_vars(ServeJob) /\ WF_vars(ServeUpload) /\ WF_vars(\E f \in Files : Close(f))

-----------------------------------------------------------------------------

\* Every variable keeps to the values the code gives it, and the file thread never
\* has more tasks than its bound.
TypeOK ==
    /\ ledger \in [Files -> {"none", "draft", "retired"} \cup Requests]
    /\ disk \in [Files -> {"none", "partial", "synced"}]
    /\ prep.pc \in {"start", "idle", "copy", "commit", "row", "failed"}
    /\ Busy <= TaskLimit
    /\ \A r \in Requests :
         /\ outbox[r].state \in Unanswered \cup {"none", "recorded", "delivered"}
         /\ outbox[r].files \subseteq Files
    /\ online \in BOOLEAN
    /\ job.kind \in {"idle", "send", "recover"}
    /\ upload.phase \in {"none", "lookup", "reserve", "transfer", "submit"}
    /\ relay \in [Requests -> {"none", "recorded", "delivered"}]
    /\ store \in [Files -> {"none", "reserved", "receiving", "ready"}]
    /\ late \subseteq Requests
    /\ posts \in [Requests -> Nat]
    /\ faults \in 0..MaxFaults /\ starts \in 1..MaxStarts

\* A message is submitted at most once, whatever is lost and whenever the client
\* dies: an attachment submission is made durable before its first byte, and from
\* then on the request is only looked up (Upload.poll, uploadFiles, schedule).
\* One reported as cancelled was never submitted (.cancel_upload).
PostedOnce ==
    \A r \in Requests :
        posts[r] <= (IF outbox[r].state = "cancelled" THEN 0 ELSE 1)

\* A draft's or a request's original is on disk and was synced, through crashes
\* and the collection at startup (stage, collect).  A request's original can be
\* found from its outbox row, so expiry strands none (expireUnknown), and the
\* ledger owns it for as long as the attachment lane has it open (Files.open).
OriginalsKept ==
    /\ \A f \in Files : Owned(f) => disk[f] = "synced"
    /\ \A f \in Files, r \in Requests : ledger[f] = r => f \in outbox[r].files
    /\ upload.phase = "transfer" /\ upload.answer = "none"
          => ledger[Current] = upload.request

\* No byte on disk escapes the quota: a file has a row, is being copied, or is a
\* crash's orphan that startup has yet to collect; and rows respect the limit
\* though two threads add and retire them (checkAdd, addDraft, collect).
DiskAccounted ==
    /\ Cardinality(Rows) <= MaxStored
    /\ \A f \in Files : disk[f] # "none" =>
         \/ ledger[f] # "none"
         \/ prep.pc \in {"start", "failed"}
         \/ prep.pc \in {"copy", "commit"} /\ prep.task.file = f

\* Every send gets an answer a user can act on, whatever was lost; files need the
\* file thread, which does not survive a failed startup (uploadFiles, schedule).
Waiting ==
    \E r \in Requests : outbox[r].state \in {"uploading", "sending", "unknown"}
Resolves == []<>(~Waiting \/ prep.pc = "failed")

\* The private copies of delivered attachments are deleted (delivered, collect).
Held ==
    \E r \in Requests : /\ outbox[r].state = "delivered"
                        /\ \E f \in outbox[r].files : disk[f] # "none"
Freed == []<>(~Held \/ prep.pc = "failed")

=============================================================================
