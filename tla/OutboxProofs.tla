---------------------------- MODULE OutboxProofs ----------------------------
(***************************************************************************)
(* Proofs about Outbox for any requests and files, every limit and any        *)
(* number of faults and starts: a request is posted at most once and never    *)
(* after its cancellation, the originals of drafts and requests stay on disk, *)
(* and no byte on disk escapes the quota.                                     *)
(***************************************************************************)
EXTENDS Outbox, FiniteSetTheorems, SequenceTheorems, TLAPS
-----------------------------------------------------------------------------
(* The inductive invariant.                                                 *)

Row == [state: Unanswered \cup {"none", "recorded", "delivered"},
        files: SUBSET Files, row: Nat]

\* A task that waits has a file; one that failed has lost it.
Pending == [file: Files, cancelled: BOOLEAN]
Task == [file: Files \cup {NoFile}, cancelled: BOOLEAN]

Prep == [pc: {"start", "idle", "copy", "commit", "row", "failed"}, task: Task]

Job == [kind: {"idle", "send", "recover"}, request: Requests \cup {NoRequest},
        answer: {"none", "record", "rejected", "missing", "lost"}]

Attempt == [request: Requests \cup {NoRequest},
          phase: {"none", "lookup", "reserve", "transfer", "submit"},
          left: SUBSET Files, may: BOOLEAN,
          answer: {"none", "record", "rejected", "missing", "lost", "reserved",
                   "receiving", "ready"}]

TypeInv ==
    /\ ledger \in [Files -> {"none", "draft", "retired"} \cup Requests]
    /\ disk \in [Files -> {"none", "partial", "synced"}]
    /\ tasks \in Seq(Pending) /\ results \in Seq(Task)
    /\ prep \in Prep
    /\ outbox \in [Requests -> Row]
    /\ job \in Job /\ upload \in Attempt
    /\ relay \in [Requests -> {"none", "recorded", "delivered"}]
    /\ store \in [Files -> {"none", "reserved", "receiving", "ready"}]
    /\ late \subseteq Requests
    /\ posts \in [Requests -> Nat]
    /\ IsFiniteSet(used)

\* Whatever has not been minted is nowhere.
FreshRequests ==
    \A r \in Requests \ used :
        /\ outbox[r] = NoRow /\ posts[r] = 0
        /\ job.request # r /\ upload.request # r

FreshFiles ==
    \A f \in Files \ used :
        /\ ledger[f] = "none"
        /\ prep.pc \in {"copy", "commit"} => prep.task.file # f
        /\ \A i \in 1..Len(tasks) : tasks[i].file # f

\* A file that is to be copied belongs to nobody, and to one task; one that is to
\* be committed was synced; one whose row is to go is not on disk.
StageInv ==
    /\ \A i, j \in 1..Len(tasks) : tasks[i].file = tasks[j].file => i = j
    /\ \A i \in 1..Len(tasks) : ledger[tasks[i].file] = "none"
    /\ prep.pc \in {"copy", "commit"} =>
          /\ prep.task.file \in Files /\ ledger[prep.task.file] = "none"
          /\ \A i \in 1..Len(tasks) : tasks[i].file # prep.task.file
    /\ prep.pc = "commit" => disk[prep.task.file] = "synced"
    /\ prep.pc = "row" => prep.task.file \in Files /\ disk[prep.task.file] = "none"

\* What is owned is on disk; a request owns files of its row only, and all of them
\* until it is delivered.
OwnerInv ==
    /\ \A f \in Files : Owned(f) => disk[f] = "synced"
    /\ \A f \in Files, r \in Requests : ledger[f] = r => f \in outbox[r].files
    /\ \A r \in Requests : relay[r] # "delivered" =>
          \A f \in outbox[r].files : ledger[f] = r

\* A request is posted once; what is uploading or cancelled was not posted, and what
\* was not posted is unknown to the relay.
PostInv ==
    \A r \in Requests :
        /\ posts[r] <= 1
        /\ outbox[r].state \in {"uploading", "cancelled"} => posts[r] = 0
        /\ posts[r] = 0 => relay[r] = "none" /\ r \notin late

\* The request lane is at a request, and one that it sends was posted.
JobInv ==
    job = NoJob \/ /\ job.request \in Requests
                   /\ job.kind = "send" => posts[job.request] > 0

\* The attachment lane is at the files of its request.  Only an attempt that found
\* the request not yet submitted goes on to a reservation, and it remains the only
\* one until it submits.
LaneInv ==
    upload = NoUpload \/
        /\ upload.request \in Requests /\ upload.phase # "none"
        /\ upload.left \subseteq outbox[upload.request].files
        /\ upload.phase # "submit" => upload.left # {}
        /\ upload.phase \in {"reserve", "transfer"} => upload.may
        /\ upload.phase = "submit" => ~upload.may /\ posts[upload.request] > 0
        /\ upload.may => posts[upload.request] = 0
        /\ upload.answer \in {"reserved", "receiving", "ready"}
              => upload.phase \in {"reserve", "transfer"}

QuotaInv ==
    /\ IsFiniteSet(Rows) /\ Cardinality(Rows) <= MaxStored
    /\ \A f \in Files : disk[f] # "none" =>
         \/ ledger[f] # "none"
         \/ prep.pc \in {"start", "failed"}
         \/ prep.pc \in {"copy", "commit"} /\ prep.task.file = f

Invariant == /\ TypeInv /\ FreshRequests /\ FreshFiles /\ StageInv /\ OwnerInv /\ PostInv
             /\ JobInv /\ LaneInv /\ QuotaInv /\ Busy <= TaskLimit
-----------------------------------------------------------------------------
(* Who changes what.                                                        *)

\* The file thread, attaching, cancelling and restarts change the tasks and the directory.
LEMMA ThreadKept ==
    ASSUME Next
    PROVE  \/ UNCHANGED <<disk, tasks, prep, results>>
           \/ CollectStartup
           \/ StageBegin
           \/ StageCopied
           \/ StageFailed
           \/ StageCommit
           \/ \E f \in Files : CollectUnlink(f)
           \/ CollectRow
           \/ CollectFailed
           \/ \E f \in Files : Attach(f)
           \/ Cancel
           \/ Prepared
           \/ Restart
  <1>1. CASE Thread
    BY <1>1 DEF Thread
  <1>2. CASE Worker
    BY <1>2 DEF Worker, Connect, JobDone, Recover, files, thread, lanes,
           remote, Offline
  <1>3. CASE Lane
    BY <1>3 DEF Lane, StartUpload, UploadEnds, Reserve, Transfer, Submit,
           files, thread, lanes, remote
  <1>4. CASE User
    BY <1>4 DEF User, RemoveDraft, Send, CancelUpload, files, thread, lanes,
           remote
  <1>5. CASE Faulty
    BY <1>5 DEF Faulty, Reconnect, Disconnect, UploadBreaks, LoseJob,
           LoseUpload, files, thread, lanes, remote, Offline
  <1>6. CASE \/ ServeJob \/ ServeUpload \/ \E f \in Files : Close(f)
            \/ \E r \in Requests : LateArrive(r) \/ Deliver(r) \/ Event(r) \/ Expire(r)
    BY <1>6 DEF ServeJob, ServeUpload, Close, LateArrive, Deliver, Event,
           Expire, files, thread, lanes, remote
  <1> QED BY <1>1, <1>2, <1>3, <1>4, <1>5, <1>6 DEF Next

\* Who changes the ledger.
LEMMA LedgerKept ==
    ASSUME Next
    PROVE  \/ UNCHANGED ledger
           \/ CollectStartup
           \/ StageCommit
           \/ CollectRow
           \/ Prepared
           \/ \E f \in Files : RemoveDraft(f)
           \/ \E r \in Requests : Send(r)
           \/ JobDone
           \/ UploadEnds
           \/ \E r \in Requests : Event(r)
  <1>1. CASE Thread
    BY <1>1 DEF Thread, StageBegin, StageCopied, StageFailed, CollectUnlink,
           files, thread, lanes, remote
  <1>2. CASE Worker
    BY <1>2 DEF Worker, Connect, Recover, files, thread, lanes, remote
  <1>3. CASE Lane
    BY <1>3 DEF Lane, StartUpload, Reserve, Transfer, Submit, files, thread,
           lanes, remote
  <1>4. CASE User
    BY <1>4 DEF User, Attach, Cancel, CancelUpload, files, thread, lanes,
           remote
  <1>5. CASE Faulty
    BY <1>5 DEF Faulty, CollectFailed, StageFailed, Reconnect, Disconnect,
           UploadBreaks, LoseJob, LoseUpload, Restart, files, thread, lanes,
           remote, Offline
  <1>6. CASE \/ ServeJob \/ ServeUpload \/ \E f \in Files : Close(f)
            \/ \E r \in Requests : LateArrive(r) \/ Deliver(r) \/ Event(r) \/ Expire(r)
    BY <1>6 DEF ServeJob, ServeUpload, Close, LateArrive, Deliver, Expire,
           files, thread, lanes, remote
  <1> QED BY <1>1, <1>2, <1>3, <1>4, <1>5, <1>6 DEF Next

\* Who changes the outbox.
LEMMA OutboxKept ==
    ASSUME Next
    PROVE  \/ UNCHANGED outbox
           \/ \E r \in Requests : Send(r)
           \/ \E r \in Requests : CancelUpload(r)
           \/ Reconnect
           \/ \E r \in Requests : Expire(r)
           \/ JobDone
           \/ UploadEnds
           \/ UploadBreaks
           \/ Submit
           \/ \E r \in Requests : Event(r)
  <1>1. CASE Thread
    BY <1>1 DEF Thread, CollectStartup, StageBegin, StageCopied,
           StageCommit, StageFailed, CollectUnlink, CollectRow, files,
           thread, lanes, remote
  <1>2. CASE Worker
    BY <1>2 DEF Worker, Prepared, Connect, Recover, files, thread, lanes,
           remote
  <1>3. CASE Lane
    BY <1>3 DEF Lane, StartUpload, Reserve, Transfer, files, thread, lanes,
           remote
  <1>4. CASE User
    BY <1>4 DEF User, Attach, RemoveDraft, Cancel, files, thread, lanes,
           remote
  <1>5. CASE Faulty
    BY <1>5 DEF Faulty, CollectFailed, StageFailed, Disconnect, LoseJob,
           LoseUpload, Restart, files, thread, lanes, remote, Offline
  <1>6. CASE \/ ServeJob \/ ServeUpload \/ \E f \in Files : Close(f)
            \/ \E r \in Requests : LateArrive(r) \/ Deliver(r) \/ Event(r) \/ Expire(r)
    BY <1>6 DEF ServeJob, ServeUpload, Close, LateArrive, Deliver, files,
           thread, lanes, remote
  <1> QED BY <1>1, <1>2, <1>3, <1>4, <1>5, <1>6 DEF Next

\* Identifiers are minted by two commands.
LEMMA UsedKept ==
    ASSUME Next
    PROVE  \/ UNCHANGED used
           \/ \E f \in Files : Attach(f)
           \/ \E r \in Requests : Send(r)
  <1>1. CASE Thread
    BY <1>1 DEF Thread, CollectStartup, StageBegin, StageCopied,
           StageCommit, StageFailed, CollectUnlink, CollectRow, files,
           thread, lanes, remote
  <1>2. CASE Worker
    BY <1>2 DEF Worker, Prepared, Connect, JobDone, Recover, files, thread,
           lanes, remote, Offline
  <1>3. CASE Lane
    BY <1>3 DEF Lane, StartUpload, UploadEnds, Reserve, Transfer, Submit,
           files, thread, lanes, remote
  <1>4. CASE User
    BY <1>4 DEF User, RemoveDraft, Cancel, CancelUpload, files, thread,
           lanes, remote
  <1>5. CASE Faulty
    BY <1>5 DEF Faulty, CollectFailed, StageFailed, Reconnect, Disconnect,
           UploadBreaks, LoseJob, LoseUpload, Restart, files, thread, lanes,
           remote, Offline
  <1>6. CASE \/ ServeJob \/ ServeUpload \/ \E f \in Files : Close(f)
            \/ \E r \in Requests : LateArrive(r) \/ Deliver(r) \/ Event(r) \/ Expire(r)
    BY <1>6 DEF ServeJob, ServeUpload, Close, LateArrive, Deliver, Event,
           Expire, files, thread, lanes, remote
  <1> QED BY <1>1, <1>2, <1>3, <1>4, <1>5, <1>6 DEF Next

\* Text is posted by its command, files by the attachment lane.
LEMMA PostsKept ==
    ASSUME Next
    PROVE  \/ UNCHANGED posts
           \/ \E r \in Requests : Send(r)
           \/ Submit
  <1>1. CASE Thread
    BY <1>1 DEF Thread, CollectStartup, StageBegin, StageCopied,
           StageCommit, StageFailed, CollectUnlink, CollectRow, files,
           thread, lanes, remote
  <1>2. CASE Worker
    BY <1>2 DEF Worker, Prepared, Connect, JobDone, Recover, files, thread,
           lanes, remote, Offline
  <1>3. CASE Lane
    BY <1>3 DEF Lane, StartUpload, UploadEnds, Reserve, Transfer, files,
           thread, lanes, remote
  <1>4. CASE User
    BY <1>4 DEF User, Attach, RemoveDraft, Cancel, CancelUpload, files,
           thread, lanes, remote
  <1>5. CASE Faulty
    BY <1>5 DEF Faulty, CollectFailed, StageFailed, Reconnect, Disconnect,
           UploadBreaks, LoseJob, LoseUpload, Restart, files, thread, lanes,
           remote, Offline
  <1>6. CASE \/ ServeJob \/ ServeUpload \/ \E f \in Files : Close(f)
            \/ \E r \in Requests : LateArrive(r) \/ Deliver(r) \/ Event(r) \/ Expire(r)
    BY <1>6 DEF ServeJob, ServeUpload, Close, LateArrive, Deliver, Event,
           Expire, files, thread, lanes, remote
  <1> QED BY <1>1, <1>2, <1>3, <1>4, <1>5, <1>6 DEF Next

\* Who changes the request lane.
LEMMA JobKept ==
    ASSUME Next
    PROVE  \/ UNCHANGED job
           \/ \E r \in Requests : Send(r)
           \/ Reconnect
           \/ \E r \in Requests : Recover(r)
           \/ JobDone
           \/ ServeJob
           \/ LoseJob
           \/ Restart
  <1>1. CASE Thread
    BY <1>1 DEF Thread, CollectStartup, StageBegin, StageCopied,
           StageCommit, StageFailed, CollectUnlink, CollectRow, files,
           thread, lanes, remote
  <1>2. CASE Worker
    BY <1>2 DEF Worker, Prepared, Connect, files, thread, lanes, remote
  <1>3. CASE Lane
    BY <1>3 DEF Lane, StartUpload, UploadEnds, Reserve, Transfer, Submit,
           files, thread, lanes, remote
  <1>4. CASE User
    BY <1>4 DEF User, Attach, RemoveDraft, Cancel, CancelUpload, files,
           thread, lanes, remote
  <1>5. CASE Faulty
    BY <1>5 DEF Faulty, CollectFailed, StageFailed, Disconnect,
           UploadBreaks, LoseUpload, files, thread, lanes, remote, Offline
  <1>6. CASE \/ ServeJob \/ ServeUpload \/ \E f \in Files : Close(f)
            \/ \E r \in Requests : LateArrive(r) \/ Deliver(r) \/ Event(r) \/ Expire(r)
    BY <1>6 DEF ServeUpload, Close, LateArrive, Deliver, Event, Expire,
           files, thread, lanes, remote
  <1> QED BY <1>1, <1>2, <1>3, <1>4, <1>5, <1>6 DEF Next

\* Who changes the attachment lane.
LEMMA UploadKept ==
    ASSUME Next
    PROVE  \/ UNCHANGED upload
           \/ \E r \in Requests : CancelUpload(r)
           \/ Reconnect
           \/ Disconnect
           \/ JobDone
           \/ \E r \in Requests : StartUpload(r)
           \/ UploadEnds
           \/ UploadBreaks
           \/ Reserve
           \/ Transfer
           \/ Submit
           \/ ServeUpload
           \/ LoseUpload
           \/ Restart
  <1>1. CASE Thread
    BY <1>1 DEF Thread, CollectStartup, StageBegin, StageCopied,
           StageCommit, StageFailed, CollectUnlink, CollectRow, files,
           thread, lanes, remote
  <1>2. CASE Worker
    BY <1>2 DEF Worker, Prepared, Connect, Recover, files, thread, lanes,
           remote
  <1>3. CASE Lane
    BY <1>3 DEF Lane
  <1>4. CASE User
    BY <1>4 DEF User, Attach, RemoveDraft, Cancel, Send, files, thread,
           lanes, remote
  <1>5. CASE Faulty
    BY <1>5 DEF Faulty, CollectFailed, StageFailed, LoseJob, files, thread,
           lanes, remote
  <1>6. CASE \/ ServeJob \/ ServeUpload \/ \E f \in Files : Close(f)
            \/ \E r \in Requests : LateArrive(r) \/ Deliver(r) \/ Event(r) \/ Expire(r)
    BY <1>6 DEF ServeJob, Close, LateArrive, Deliver, Event, Expire, files,
           thread, lanes, remote
  <1> QED BY <1>1, <1>2, <1>3, <1>4, <1>5, <1>6 DEF Next

\* Only the relay changes its records.
LEMMA RelayKept ==
    ASSUME Next
    PROVE  \/ UNCHANGED relay
           \/ ServeJob
           \/ ServeUpload
           \/ \E r \in Requests : LateArrive(r)
           \/ \E r \in Requests : Deliver(r)
  <1>1. CASE Thread
    BY <1>1 DEF Thread, CollectStartup, StageBegin, StageCopied,
           StageCommit, StageFailed, CollectUnlink, CollectRow, files,
           thread, lanes, remote
  <1>2. CASE Worker
    BY <1>2 DEF Worker, Prepared, Connect, JobDone, Recover, files, thread,
           lanes, remote, Offline
  <1>3. CASE Lane
    BY <1>3 DEF Lane, StartUpload, UploadEnds, Reserve, Transfer, Submit,
           files, thread, lanes, remote
  <1>4. CASE User
    BY <1>4 DEF User, Attach, RemoveDraft, Cancel, Send, CancelUpload,
           files, thread, lanes, remote
  <1>5. CASE Faulty
    BY <1>5 DEF Faulty, CollectFailed, StageFailed, Reconnect, Disconnect,
           UploadBreaks, LoseJob, LoseUpload, Restart, files, thread, lanes,
           remote, Offline
  <1>6. CASE \/ ServeJob \/ ServeUpload \/ \E f \in Files : Close(f)
            \/ \E r \in Requests : LateArrive(r) \/ Deliver(r) \/ Event(r) \/ Expire(r)
    BY <1>6 DEF Close, Event, Expire, files, thread, lanes, remote
  <1> QED BY <1>1, <1>2, <1>3, <1>4, <1>5, <1>6 DEF Next

\* Submissions are given up by breaks of the connection and arrive late.
LEMMA LateKept ==
    ASSUME Next
    PROVE  \/ UNCHANGED late
           \/ Reconnect
           \/ Disconnect
           \/ JobDone
           \/ LoseJob
           \/ LoseUpload
           \/ \E r \in Requests : LateArrive(r)
           \/ Restart
  <1>1. CASE Thread
    BY <1>1 DEF Thread, CollectStartup, StageBegin, StageCopied,
           StageCommit, StageFailed, CollectUnlink, CollectRow, files,
           thread, lanes, remote
  <1>2. CASE Worker
    BY <1>2 DEF Worker, Prepared, Connect, Recover, files, thread, lanes,
           remote
  <1>3. CASE Lane
    BY <1>3 DEF Lane, StartUpload, UploadEnds, Reserve, Transfer, Submit,
           files, thread, lanes, remote
  <1>4. CASE User
    BY <1>4 DEF User, Attach, RemoveDraft, Cancel, Send, CancelUpload,
           files, thread, lanes, remote
  <1>5. CASE Faulty
    BY <1>5 DEF Faulty, CollectFailed, StageFailed, UploadBreaks, files,
           thread, lanes, remote
  <1>6. CASE \/ ServeJob \/ ServeUpload \/ \E f \in Files : Close(f)
            \/ \E r \in Requests : LateArrive(r) \/ Deliver(r) \/ Event(r) \/ Expire(r)
    BY <1>6 DEF ServeJob, ServeUpload, Close, Deliver, Event, Expire, files,
           thread, lanes, remote
  <1> QED BY <1>1, <1>2, <1>3, <1>4, <1>5, <1>6 DEF Next

\* The relay changes its uploads, and cuts them short when the client stops.
LEMMA StoreKept ==
    ASSUME Next
    PROVE  \/ UNCHANGED store
           \/ \E r \in Requests : CancelUpload(r)
           \/ Reconnect
           \/ Disconnect
           \/ JobDone
           \/ ServeUpload
           \/ LoseUpload
           \/ \E f \in Files : Close(f)
           \/ Restart
  <1>1. CASE Thread
    BY <1>1 DEF Thread, CollectStartup, StageBegin, StageCopied,
           StageCommit, StageFailed, CollectUnlink, CollectRow, files,
           thread, lanes, remote
  <1>2. CASE Worker
    BY <1>2 DEF Worker, Prepared, Connect, Recover, files, thread, lanes,
           remote
  <1>3. CASE Lane
    BY <1>3 DEF Lane, StartUpload, UploadEnds, Reserve, Transfer, Submit,
           files, thread, lanes, remote
  <1>4. CASE User
    BY <1>4 DEF User, Attach, RemoveDraft, Cancel, Send, files, thread,
           lanes, remote
  <1>5. CASE Faulty
    BY <1>5 DEF Faulty, CollectFailed, StageFailed, UploadBreaks, LoseJob,
           files, thread, lanes, remote
  <1>6. CASE \/ ServeJob \/ ServeUpload \/ \E f \in Files : Close(f)
            \/ \E r \in Requests : LateArrive(r) \/ Deliver(r) \/ Event(r) \/ Expire(r)
    BY <1>6 DEF ServeJob, LateArrive, Deliver, Event, Expire, files, thread,
           lanes, remote
  <1> QED BY <1>1, <1>2, <1>3, <1>4, <1>5, <1>6 DEF Next

-----------------------------------------------------------------------------
(* What the operators do.                                                   *)

\* An outcome sets the state of one unanswered row and nothing else.
LEMMA OutcomeFacts ==
    ASSUME TypeInv, NEW r \in Requests, NEW state \in Unanswered
    PROVE  /\ Outcome(outbox, r, state) \in [Requests -> Row]
           /\ \A q \in Requests :
                 /\ Outcome(outbox, r, state)[q].files = outbox[q].files
                 /\ \/ Outcome(outbox, r, state)[q] = outbox[q]
                    \/ /\ q = r /\ outbox[q].state # "none"
                       /\ Outcome(outbox, r, state)[q].state = state
           /\ outbox[r].state \in Unanswered =>
                 Outcome(outbox, r, state)[r].state = state
  <1>1. outbox \in [Requests -> Row] /\ outbox[r] \in Row
    BY DEF TypeInv
  <1>2. /\ [outbox EXCEPT ![r].state = state] \in [Requests -> Row]
        /\ [outbox EXCEPT ![r].state = state][r].state = state
        /\ [outbox EXCEPT ![r].state = state][r].files = outbox[r].files
        /\ \A q \in Requests \ {r} :
              [outbox EXCEPT ![r].state = state][q] = outbox[q]
    BY <1>1 DEF Row
  <1>3. "none" \notin Unanswered
    BY DEF Unanswered
  <1> QED BY <1>1, <1>2, <1>3 DEF Outcome

\* A record changes the state of one row, to what the relay has; delivery retires
\* what the request owns.
LEMMA RecordFacts ==
    ASSUME TypeInv, OutboxAssumption, NEW r \in Requests, Record(r)
    PROVE  /\ outbox' \in [Requests -> Row]
           /\ \A q \in Requests :
                 /\ outbox'[q].files = outbox[q].files
                 /\ \/ outbox'[q] = outbox[q]
                    \/ q = r /\ outbox[q].state # "none" /\ outbox'[q].state = relay[r]
           /\ ledger' \in [Files -> {"none", "draft", "retired"} \cup Requests]
           /\ \A f \in Files :
                 \/ ledger'[f] = ledger[f]
                 \/ ledger[f] = r /\ relay[r] = "delivered" /\ ledger'[f] = "retired"
  <1>1. /\ outbox \in [Requests -> Row] /\ outbox[r] \in Row
        /\ relay[r] \in {"none", "recorded", "delivered"}
    BY DEF TypeInv
  <1>2. /\ [outbox EXCEPT ![r].state = relay[r]] \in [Requests -> Row]
        /\ [outbox EXCEPT ![r].state = relay[r]][r].state = relay[r]
        /\ [outbox EXCEPT ![r].state = relay[r]][r].files = outbox[r].files
        /\ \A q \in Requests \ {r} :
              [outbox EXCEPT ![r].state = relay[r]][q] = outbox[q]
    BY <1>1 DEF Row
  <1>3. /\ outbox' \in [Requests -> Row]
        /\ \A q \in Requests :
                 /\ outbox'[q].files = outbox[q].files
                 /\ \/ outbox'[q] = outbox[q]
                    \/ q = r /\ outbox[q].state # "none" /\ outbox'[q].state = relay[r]
    BY <1>1, <1>2 DEF Record
  <1>4. /\ ledger' \in [Files -> {"none", "draft", "retired"} \cup Requests]
        /\ \A f \in Files :
                 \/ ledger'[f] = ledger[f]
                 \/ ledger[f] = r /\ relay[r] = "delivered" /\ ledger'[f] = "retired"
    BY DEF Record, TypeInv
  <1> QED BY <1>3, <1>4

\* What is under way at a lane is at a request.
LEMMA LaneFacts ==
    ASSUME TypeInv, JobInv, LaneInv
    PROVE  /\ job # NoJob => job.request \in Requests
           /\ upload # NoUpload =>
                 /\ upload.request \in Requests
                 /\ upload.phase # "submit" => Current \in upload.left /\ Current \in Files
  <1>1. upload.left # {} => Current \in upload.left
    BY DEF Current
  <1> QED BY <1>1 DEF JobInv, LaneInv, TypeInv, Attempt

\* What may still arrive was posted.
LEMMA AbandonedFacts ==
    ASSUME JobInv, LaneInv
    PROVE  \A r \in Abandoned : r \in Requests /\ posts[r] > 0
  BY DEF Abandoned, JobInv, LaneInv, NoJob, NoUpload

\* Cutting a transfer short keeps the relay's uploads well formed.
LEMMA ReceivingFacts ==
    ASSUME TypeInv
    PROVE  Receiving \in [Files -> {"none", "reserved", "receiving", "ready"}]
  BY DEF TypeInv, Receiving

\* A record of the relay, once there, stays.
LEMMA AcceptFacts ==
    ASSUME TypeInv, NEW r \in Requests, Accept(r)
    PROVE  /\ relay' \in [Requests -> {"none", "recorded", "delivered"}]
           /\ \A q \in Requests : \/ relay'[q] = relay[q]
                                  \/ q = r /\ relay[q] = "none" /\ relay'[q] = "recorded"
  BY DEF Accept, TypeInv

-----------------------------------------------------------------------------
(* The types.                                                               *)

\* The state and files of the rows after a step; only Send gives a row files.
LEMMA OutboxStep ==
    ASSUME OutboxAssumption, Invariant, Next
    PROVE  /\ outbox' \in [Requests -> Row]
           /\ \/ \E r \in Requests : Send(r)
              \/ \A q \in Requests : outbox'[q].files = outbox[q].files
  <1>1. TypeInv /\ JobInv /\ LaneInv
    BY DEF Invariant
  <1>2. outbox \in [Requests -> Row]
    BY <1>1 DEF TypeInv
  <1>3. CASE \E r \in Requests : Send(r)
    <2>1. PICK r \in Requests : Send(r)
      BY <1>3
    <2>2. IsFiniteSet(used \cap Requests)
      BY <1>1, FS_Subset DEF TypeInv
    <2>3. Cardinality(used \cap Requests) + 1 \in Nat
      BY <2>2, FS_CardinalityType
    <2>4. DraftFiles \subseteq Files
      BY DEF DraftFiles
    <2>5. [state |-> IF DraftFiles = {} THEN "sending" ELSE "uploading",
           files |-> DraftFiles, row |-> Cardinality(used \cap Requests) + 1] \in Row
      BY <2>3, <2>4 DEF Row, Unanswered
    <2> QED BY <1>2, <1>3, <2>1, <2>5 DEF Send
  <1>4. CASE \E r \in Requests : CancelUpload(r)
    BY <1>1, <1>4, OutcomeFacts DEF CancelUpload, Unanswered
  <1>5. CASE Reconnect
    <2>1. job.kind = "send" => job.request \in Requests
      BY <1>1, LaneFacts DEF NoJob
    <2> QED BY <1>1, <1>2, <1>5, <2>1, OutcomeFacts DEF Reconnect, Unanswered
  <1>6. CASE \E r \in Requests : Expire(r)
    <2>1. PICK r \in Requests : Expire(r)
      BY <1>6
    <2>2. NoRow \in Row
      BY DEF NoRow, Row
    <2> QED BY <1>2, <2>1, <2>2 DEF Expire, NoRow
  <1>7. CASE JobDone
    <2>1. job.request \in Requests
      BY <1>1, <1>7, LaneFacts DEF JobDone, NoJob
    <2>2. CASE Record(job.request)
      BY <1>1, <2>1, <2>2, RecordFacts
    <2>3. CASE ~Record(job.request)
      <3>1. \/ outbox' = outbox
            \/ \E state \in Unanswered : outbox' = Outcome(outbox, job.request, state)
        <4>1. {"failed", "unknown", "unconfirmed"} \subseteq Unanswered
          BY DEF Unanswered
        <4> QED BY <1>7, <2>3, <4>1 DEF JobDone
      <3> QED BY <1>1, <1>2, <2>1, <3>1, OutcomeFacts
    <2> QED BY <2>2, <2>3
  <1>8. CASE UploadEnds
    <2>1. upload.request \in Requests
      BY <1>1, <1>8, LaneFacts DEF UploadEnds, NoUpload
    <2>2. CASE Record(upload.request)
      BY <1>1, <2>1, <2>2, RecordFacts
    <2>3. CASE ~Record(upload.request)
      BY <1>1, <1>8, <2>1, <2>3, OutcomeFacts DEF UploadEnds, Unanswered
    <2> QED BY <2>2, <2>3
  <1>9. CASE UploadBreaks
    <2>1. upload.request \in Requests
      BY <1>1, <1>9, LaneFacts DEF UploadBreaks, NoUpload
    <2> QED BY <1>1, <1>9, <2>1, OutcomeFacts DEF UploadBreaks, Unanswered
  <1>10. CASE Submit
    <2>1. upload.request \in Requests
      BY <1>1, <1>10, LaneFacts DEF Submit, NoUpload
    <2> QED BY <1>1, <1>10, <2>1, OutcomeFacts DEF Submit, Unanswered
  <1>11. CASE \E r \in Requests : Event(r)
    BY <1>1, <1>11, RecordFacts DEF Event
  <1>12. CASE UNCHANGED outbox
    BY <1>2, <1>12
  <1> QED BY <1>3, <1>4, <1>5, <1>6, <1>7, <1>8, <1>9, <1>10, <1>11, <1>12, OutboxKept

\* How the owner of a file may change.
LEMMA LedgerStep ==
    ASSUME OutboxAssumption, Invariant, Next
    PROVE  /\ ledger' \in [Files -> {"none", "draft", "retired"} \cup Requests]
           /\ \/ StageCommit
              \/ \E r \in Requests : Send(r)
              \/ \A f \in Files :
                    \/ ledger'[f] = ledger[f]
                    \/ ledger[f] = "draft" /\ ledger'[f] = "retired"
                    \/ /\ ledger[f] = "retired" /\ ledger'[f] = "none"
                       /\ CollectStartup \/ (prep.pc = "row" /\ prep.task.file = f)
                    \/ /\ ledger[f] \in Requests /\ relay[ledger[f]] = "delivered"
                       /\ ledger'[f] = "retired"
  <1>1. TypeInv /\ JobInv /\ LaneInv
    BY DEF Invariant
  <1>2. ledger \in [Files -> {"none", "draft", "retired"} \cup Requests]
    BY <1>1 DEF TypeInv
  <1>3. CASE \E r \in Requests : Send(r)
    BY <1>2, <1>3 DEF Send
  <1>4. CASE StageCommit
    BY <1>2, <1>4 DEF StageCommit
  <1>5. CASE CollectStartup
    BY <1>2, <1>5 DEF CollectStartup
  <1>6. CASE CollectRow
    BY <1>2, <1>6 DEF CollectRow
  <1>7. CASE Prepared
    BY <1>2, <1>7 DEF Prepared
  <1>8. CASE \E f \in Files : RemoveDraft(f)
    BY <1>2, <1>8 DEF RemoveDraft
  <1>9. CASE JobDone
    <2>1. job.request \in Requests
      BY <1>1, <1>9, LaneFacts DEF JobDone, NoJob
    <2>2. CASE Record(job.request)
      BY <1>1, <2>1, <2>2, RecordFacts
    <2>3. CASE ~Record(job.request)
      BY <1>2, <1>9, <2>3 DEF JobDone
    <2> QED BY <2>2, <2>3
  <1>10. CASE UploadEnds
    <2>1. upload.request \in Requests
      BY <1>1, <1>10, LaneFacts DEF UploadEnds, NoUpload
    <2>2. CASE Record(upload.request)
      BY <1>1, <2>1, <2>2, RecordFacts
    <2>3. CASE ~Record(upload.request)
      BY <1>2, <1>10, <2>3 DEF UploadEnds
    <2> QED BY <2>2, <2>3
  <1>11. CASE \E r \in Requests : Event(r)
    BY <1>1, <1>11, RecordFacts DEF Event
  <1>12. CASE UNCHANGED ledger
    BY <1>2, <1>12
  <1> QED BY <1>3, <1>4, <1>5, <1>6, <1>7, <1>8, <1>9, <1>10, <1>11, <1>12, LedgerKept

\* A relay's record is kept, and made only from a submission that is under way or
\* late; a delivered one stays delivered.
LEMMA RelayStep ==
    ASSUME Invariant, Next
    PROVE  /\ relay' \in [Requests -> {"none", "recorded", "delivered"}]
           /\ \A q \in Requests :
                 /\ relay[q] = "delivered" => relay'[q] = "delivered"
                 /\ relay[q] = "none" /\ relay'[q] # "none" => posts[q] > 0
  <1>1. TypeInv /\ JobInv /\ LaneInv /\ PostInv
    BY DEF Invariant
  <1>2. CASE ServeJob
    <2>1. job.request \in Requests
      BY <1>1, <1>2, LaneFacts DEF ServeJob
    <2>2. job.kind = "send" => posts[job.request] > 0
      BY <1>1, <1>2 DEF JobInv, ServeJob
    <2> QED BY <1>1, <1>2, <2>1, <2>2, AcceptFacts DEF ServeJob, TypeInv
  <1>3. CASE ServeUpload
    <2>1. upload.request \in Requests
      BY <1>1, <1>3, LaneFacts DEF ServeUpload
    <2>2. upload.phase = "submit" => posts[upload.request] > 0
      BY <1>1, <1>3 DEF LaneInv, ServeUpload
    <2>3. UNCHANGED relay \/ (upload.phase = "submit" /\ Accept(upload.request))
      BY <1>3 DEF ServeUpload
    <2> QED BY <1>1, <2>1, <2>2, <2>3, AcceptFacts DEF TypeInv
  <1>4. CASE \E r \in Requests : LateArrive(r)
    <2>1. PICK r \in Requests : LateArrive(r)
      BY <1>4
    <2>2. posts[r] # 0 /\ posts[r] \in Nat
      BY <1>1, <2>1 DEF LateArrive, PostInv, TypeInv
    <2> QED BY <1>1, <2>1, <2>2, AcceptFacts DEF LateArrive
  <1>5. CASE \E r \in Requests : Deliver(r)
    BY <1>1, <1>5 DEF Deliver, TypeInv
  <1>6. CASE UNCHANGED relay
    BY <1>1, <1>6 DEF TypeInv
  <1> QED BY <1>2, <1>3, <1>4, <1>5, <1>6, RelayKept

\* Only a submission that was posted is ever given up.
LEMMA LateStep ==
    ASSUME Invariant, Next
    PROVE  late' \subseteq Requests /\ \A q \in late' : q \in late \/ posts[q] > 0
  <1>1. TypeInv /\ JobInv /\ LaneInv
    BY DEF Invariant
  <1>2. \A r \in Abandoned : r \in Requests /\ posts[r] > 0
    BY <1>1, AbandonedFacts
  <1>3. late \subseteq Requests
    BY <1>1 DEF TypeInv
  <1> QED BY <1>2, <1>3, LateKept
          DEF Reconnect, Disconnect, JobDone, Offline, LoseJob, LoseUpload, LateArrive, Restart

\* Only Send and Submit post, each once.
LEMMA PostsStep ==
    ASSUME Invariant, Next
    PROVE  /\ posts' \in [Requests -> Nat]
           /\ \/ UNCHANGED posts
              \/ \E r \in Requests : /\ Send(r) \/ (Submit /\ upload.request = r)
                                     /\ posts' = [posts EXCEPT ![r] = @ + 1]
  <1>1. TypeInv /\ JobInv /\ LaneInv
    BY DEF Invariant
  <1>2. posts \in [Requests -> Nat]
    BY <1>1 DEF TypeInv
  <1>3. CASE Submit
    <2>1. upload.request \in Requests
      BY <1>1, <1>3, LaneFacts DEF Submit, NoUpload
    <2>2. posts' = [posts EXCEPT ![upload.request] = @ + 1]
      BY <1>3 DEF Submit
    <2>3. posts' \in [Requests -> Nat]
      BY <1>2, <2>1, <2>2
    <2>4. \E r \in Requests : /\ Submit /\ upload.request = r
                               /\ posts' = [posts EXCEPT ![r] = @ + 1]
      BY <1>3, <2>1, <2>2
    <2> QED BY <2>3, <2>4
  <1>4. CASE \E r \in Requests : Send(r)
    <2>1. PICK r \in Requests : Send(r)
      BY <1>4
    <2>2. UNCHANGED posts \/ posts' = [posts EXCEPT ![r] = @ + 1]
      BY <2>1 DEF Send
    <2> QED BY <1>2, <2>1, <2>2
  <1> QED BY <1>2, <1>3, <1>4, PostsKept

-----------------------------------------------------------------------------
(* The file thread.                                                         *)

\* A function on 1..n is a sequence of length n.
LEMMA FunctionIsSeq ==
    ASSUME NEW T, NEW n \in Nat, NEW c \in [1..n -> T]
    PROVE  c \in Seq(T) /\ Len(c) = n
  <1>0. c \in Seq(T)
    BY SeqDef
  <1>1. Len(c) \in Nat /\ DOMAIN c = 1..Len(c)
    BY <1>0, LenProperties
  <1>2. \A i \in Nat : i \in 1..Len(c) <=> i \in 1..n
    BY <1>1
  <1>3. Len(c) >= n
    <2>1. CASE n = 0
      BY <1>1, <2>1
    <2>2. CASE n > 0
      <3>1. n \in 1..n
        BY <2>2
      <3> QED BY <1>1, <1>2, <3>1
    <2> QED BY <2>1, <2>2
  <1>4. n >= Len(c)
    <2>1. CASE Len(c) = 0
      BY <2>1
    <2>2. CASE Len(c) > 0
      <3>1. Len(c) \in 1..Len(c)
        BY <1>1, <2>2
      <3> QED BY <1>1, <1>2, <3>1
    <2> QED BY <1>1, <2>1, <2>2
  <1> QED BY <1>0, <1>1, <1>3, <1>4

\* Marking every task as cancelled keeps their number and their files.
LEMMA CancelledFacts ==
    ASSUME NEW X, NEW q \in Seq([file: X, cancelled: BOOLEAN]),
           NEW c, c = [i \in DOMAIN q |-> [q[i] EXCEPT !.cancelled = TRUE]]
    PROVE  /\ c \in Seq([file: X, cancelled: BOOLEAN])
           /\ Len(c) = Len(q)
           /\ \A i \in 1..Len(q) : c[i].file = q[i].file
  <1> DEFINE T == [file: X, cancelled: BOOLEAN]
             n == Len(q)
  <1>1. n \in Nat /\ DOMAIN q = 1..n
    BY LenProperties
  <1>2. \A i \in 1..n : q[i] \in T
    BY ElementOfSeq
  <1>3. \A i \in 1..n : c[i] = [q[i] EXCEPT !.cancelled = TRUE]
    BY <1>1
  <1>4. \A i \in 1..n : c[i] \in T /\ c[i].file = q[i].file
    <2>1. \A t \in T : /\ [t EXCEPT !.cancelled = TRUE] \in T
                       /\ [t EXCEPT !.cancelled = TRUE].file = t.file
      OBVIOUS
    <2> HIDE DEF T, n
    <2> QED BY <1>2, <1>3, <2>1
  <1>5. c \in [1..n -> T]
    BY <1>1, <1>4
  <1>6. c \in Seq(T) /\ Len(c) = n
    <2> HIDE DEF T, n
    <2> QED BY <1>1, <1>5, FunctionIsSeq
  <1> QED BY <1>4, <1>6

\* A task loses its file when it fails.
LEMMA FailedFacts ==
    ASSUME NEW t \in Task
    PROVE  [t EXCEPT !.file = NoFile] \in Task
  BY DEF Task

\* What waits has a file.
LEMMA TaskFacts ==
    ASSUME TypeInv
    PROVE  /\ tasks \in Seq(Pending) /\ Len(tasks) \in Nat
           /\ results \in Seq(Task) /\ Len(results) \in Nat
           /\ Pending \subseteq Task
           /\ \A i \in 1..Len(tasks) : tasks[i] \in Pending /\ tasks[i].file \in Files
           /\ tasks # <<>> =>
                 /\ Len(tasks) >= 1
                 /\ Head(tasks) = tasks[1] /\ Head(tasks) \in Pending
                 /\ Tail(tasks) \in Seq(Pending) /\ Len(Tail(tasks)) = Len(tasks) - 1
                 /\ \A i \in 1..Len(Tail(tasks)) : Tail(tasks)[i] = tasks[i + 1]
           /\ prep \in Prep /\ prep.task \in Task
  <1>1. tasks \in Seq(Pending) /\ results \in Seq(Task) /\ prep \in Prep
    BY DEF TypeInv
  <1>2. Len(tasks) \in Nat /\ Len(results) \in Nat
    BY <1>1, LenProperties
  <1>3. Pending \subseteq Task
    BY DEF Pending, Task
  <1>4. \A i \in 1..Len(tasks) : tasks[i] \in Pending
    BY <1>1, ElementOfSeq
  <1>5. \A t \in Pending : t.file \in Files
    BY DEF Pending
  <1>6. tasks # <<>> =>
                 /\ Head(tasks) = tasks[1] /\ Head(tasks) \in Pending
                 /\ Tail(tasks) \in Seq(Pending) /\ Len(Tail(tasks)) = Len(tasks) - 1
                 /\ \A i \in 1..Len(Tail(tasks)) : Tail(tasks)[i] = tasks[i + 1]
    BY <1>1, HeadTailProperties
  <1>7. tasks # <<>> => Len(tasks) \in Nat \ {0}
    BY <1>1, EmptySeq
  <1>8. prep.task \in Task
    BY <1>1 DEF Prep
  <1> QED BY <1>1, <1>2, <1>3, <1>4, <1>5, <1>6, <1>7, <1>8

\* The tasks of the file thread keep their form, and their number its bound.
LEMMA ThreadStep ==
    ASSUME OutboxAssumption, Invariant, Next
    PROVE  /\ disk' \in [Files -> {"none", "partial", "synced"}]
           /\ tasks' \in Seq(Pending) /\ results' \in Seq(Task) /\ prep' \in Prep
           /\ Busy' <= TaskLimit
  <1> DEFINE n == Len(tasks)
             m == Len(results)
             k == IF prep.pc \in {"copy", "commit"} THEN 1 ELSE 0
             Fine == /\ disk' \in [Files -> {"none", "partial", "synced"}]
                     /\ tasks' \in Seq(Pending) /\ results' \in Seq(Task)
                     /\ prep' \in Prep /\ Busy' <= TaskLimit
  <1>1. TypeInv /\ n + m + k <= TaskLimit /\ TaskLimit \in Nat
    BY DEF Invariant, Busy, OutboxAssumption
  <1>2. /\ disk \in [Files -> {"none", "partial", "synced"}]
        /\ tasks \in Seq(Pending) /\ results \in Seq(Task) /\ prep \in Prep
        /\ n \in Nat /\ m \in Nat /\ k \in {0, 1} /\ prep.task \in Task
    BY <1>1, TaskFacts DEF TypeInv
  <1>3. \A f \in Files : /\ Created(f) \in [Files -> {"none", "partial", "synced"}]
                         /\ Copied(f) \in [Files -> {"none", "partial", "synced"}]
    BY <1>2 DEF Created, Copied
  <1>4. \A f : Removed(f) \in [Files -> {"none", "partial", "synced"}]
    BY <1>2 DEF Removed
  <1>5. \A t \in Task : /\ Append(results, t) \in Seq(Task)
                        /\ Len(Append(results, t)) = m + 1
    BY <1>2, AppendProperties
  <1>6. /\ <<>> \in Seq(Pending) /\ <<>> \in Seq(Task) /\ Len(<<>>) = 0
        /\ NoTask \in Task
    BY EmptySeq DEF NoTask, Task
  <1>7. CASE StageBegin
    <2>1. /\ Head(tasks) \in Pending /\ Head(tasks) \in Task /\ Head(tasks).file \in Files
          /\ Tail(tasks) \in Seq(Pending) /\ Len(Tail(tasks)) = n - 1
      BY <1>1, <1>7, TaskFacts DEF StageBegin, Pending
    <2>2. [Head(tasks) EXCEPT !.file = NoFile] \in Task
      BY <2>1, FailedFacts
    <2>3. k = 0 /\ tasks' = Tail(tasks)
      BY <1>7 DEF StageBegin
    <2>4. CASE Room
      <3>1. /\ disk' = Created(Head(tasks).file) /\ UNCHANGED results
            /\ prep' = [pc |-> "copy", task |-> Head(tasks)]
        BY <1>7, <2>4 DEF StageBegin
      <3>2. prep' \in Prep /\ prep'.pc = "copy"
        BY <2>1, <3>1 DEF Prep
      <3>3. Busy' = (n - 1) + m + 1
        BY <2>1, <2>3, <3>1, <3>2 DEF Busy
      <3> QED BY <1>1, <1>2, <1>3, <2>1, <2>3, <3>1, <3>2, <3>3
    <2>5. CASE ~Room
      <3>1. /\ UNCHANGED <<disk, prep>>
            /\ results' = Append(results, [Head(tasks) EXCEPT !.file = NoFile])
        BY <1>7, <2>5 DEF StageBegin
      <3>2. Busy' = (n - 1) + (m + 1) + k
        BY <1>5, <2>1, <2>2, <2>3, <3>1 DEF Busy
      <3> QED BY <1>1, <1>2, <1>5, <2>1, <2>2, <2>3, <3>1, <3>2
    <2> QED BY <2>4, <2>5
  <1>8. CASE StageFailed \/ StageCommit
    <2>1. k = 1 /\ UNCHANGED tasks /\ prep' = [pc |-> "idle", task |-> NoTask]
      BY <1>8 DEF StageFailed, StageCommit
    <2>2. \E t \in Task : results' = Append(results, t)
      <3>1. prep.task \in Task /\ [prep.task EXCEPT !.file = NoFile] \in Task
        BY <1>2, FailedFacts
      <3> QED BY <1>8, <3>1 DEF StageFailed, StageCommit
    <2>3. disk' \in [Files -> {"none", "partial", "synced"}]
      BY <1>2, <1>4, <1>8 DEF StageFailed, StageCommit
    <2>4. prep' \in Prep /\ prep'.pc = "idle"
      BY <1>6, <2>1 DEF Prep
    <2>5. results' \in Seq(Task) /\ Len(results') = m + 1
      BY <1>5, <2>2
    <2>6. Busy' = n + (m + 1) + 0
      BY <2>1, <2>4, <2>5 DEF Busy
    <2> QED BY <1>1, <1>2, <2>1, <2>3, <2>4, <2>5, <2>6
  <1>9. CASE \/ CollectStartup \/ StageCopied \/ CollectRow \/ \E f \in Files : CollectUnlink(f)
    <2>1. UNCHANGED <<tasks, results>>
      BY <1>9 DEF CollectStartup, StageCopied, CollectRow, CollectUnlink
    <2>2. /\ prep' \in Prep
          /\ prep'.pc \in {"copy", "commit"} <=> prep.pc \in {"copy", "commit"}
      <3>1. \A f \in Files : [NoTask EXCEPT !.file = f] \in Task
        BY DEF NoTask, Task
      <3> QED BY <1>2, <1>6, <1>9, <3>1
              DEF CollectStartup, StageCopied, CollectRow, CollectUnlink, Prep
    <2>3. disk' \in [Files -> {"none", "partial", "synced"}]
      BY <1>2, <1>4, <1>9 DEF CollectStartup, StageCopied, CollectRow, CollectUnlink, Copied
    <2>4. Busy' = n + m + k
      BY <2>1, <2>2 DEF Busy
    <2> QED BY <1>1, <1>2, <2>1, <2>2, <2>3, <2>4
  <1>10. CASE CollectFailed
    <2> DEFINE c == [i \in DOMAIN tasks |-> [tasks[i] EXCEPT !.file = NoFile]]
    <2>1. k = 0 /\ UNCHANGED disk /\ tasks' = <<>> /\ results' = results \o c
      BY <1>10 DEF CollectFailed, files
    <2>2. prep' \in Prep /\ prep'.pc = "failed"
      BY <1>2, <1>10 DEF CollectFailed, Prep
    <2>3. c \in Seq(Task) /\ Len(c) = n
      <3>1. DOMAIN tasks = 1..n
        BY <1>2, LenProperties
      <3>2. \A i \in 1..n : tasks[i] \in Task
        BY <1>1, TaskFacts
      <3>3. \A i \in 1..n : [tasks[i] EXCEPT !.file = NoFile] \in Task
        BY <3>2, FailedFacts
      <3>4. c \in [1..n -> Task]
        BY <3>1, <3>3
      <3> HIDE DEF c, n
      <3> QED BY <1>2, <3>4, FunctionIsSeq
    <2>4. results' \in Seq(Task) /\ Len(results') = m + n
      <3> HIDE DEF c, n
      <3> QED BY <1>2, <2>1, <2>3, ConcatProperties
    <2>5. Busy' = 0 + (m + n) + 0
      BY <1>6, <2>1, <2>2, <2>4 DEF Busy
    <2> QED BY <1>1, <1>2, <1>6, <2>1, <2>2, <2>4, <2>5
  <1>11. CASE \E f \in Files : Attach(f)
    <2>1. PICK f \in Files : Attach(f)
      BY <1>11
    <2>2. [file |-> f, cancelled |-> FALSE] \in Pending
      BY DEF Pending
    <2>3. /\ tasks' = Append(tasks, [file |-> f, cancelled |-> FALSE])
          /\ UNCHANGED <<disk, prep, results>> /\ n + m + k < TaskLimit
      BY <2>1 DEF Attach, files, Busy
    <2>4. tasks' \in Seq(Pending) /\ Len(tasks') = n + 1
      BY <1>2, <2>2, <2>3, AppendProperties
    <2>5. Busy' = (n + 1) + m + k
      BY <2>3, <2>4 DEF Busy
    <2> QED BY <1>1, <1>2, <2>3, <2>4, <2>5
  <1>12. CASE Cancel
    <2>1. /\ tasks' = [i \in DOMAIN tasks |-> [tasks[i] EXCEPT !.cancelled = TRUE]]
          /\ results' = [i \in DOMAIN results |-> [results[i] EXCEPT !.cancelled = TRUE]]
          /\ UNCHANGED disk
          /\ prep' = prep \/ prep' = [prep EXCEPT !.task.cancelled = TRUE]
      BY <1>12 DEF Cancel, files
    <2>2. tasks' \in Seq(Pending) /\ Len(tasks') = n
      BY <1>2, <2>1, CancelledFacts DEF Pending
    <2>3. results' \in Seq(Task) /\ Len(results') = m
      BY <1>2, <2>1, CancelledFacts DEF Task
    <2>4. prep' \in Prep /\ prep'.pc = prep.pc
      <3>1. [prep.task EXCEPT !.cancelled = TRUE] \in Task
        BY <1>2 DEF Task
      <3>2. [prep EXCEPT !.task.cancelled = TRUE]
                = [prep EXCEPT !.task = [prep.task EXCEPT !.cancelled = TRUE]]
        BY <1>2 DEF Prep
      <3>3. \A t \in Task : /\ [prep EXCEPT !.task = t] \in Prep
                            /\ [prep EXCEPT !.task = t].pc = prep.pc
        BY <1>2 DEF Prep
      <3> QED BY <1>2, <2>1, <3>1, <3>2, <3>3
    <2>5. Busy' = n + m + k
      BY <2>2, <2>3, <2>4 DEF Busy
    <2> QED BY <1>1, <1>2, <2>1, <2>2, <2>3, <2>4, <2>5
  <1>13. CASE Prepared
    <2>1. UNCHANGED <<disk, tasks, prep>> /\ results # <<>> /\ results' = Tail(results)
      BY <1>13 DEF Prepared
    <2>2. results' \in Seq(Task) /\ Len(results') = m - 1
      BY <1>2, <2>1, HeadTailProperties
    <2>3. Busy' = n + (m - 1) + k
      BY <2>1, <2>2 DEF Busy
    <2> QED BY <1>1, <1>2, <2>1, <2>2, <2>3
  <1>14. CASE Restart
    <2>1. UNCHANGED disk /\ tasks' = <<>> /\ results' = <<>>
          /\ prep' = [pc |-> "start", task |-> NoTask]
      BY <1>14 DEF Restart, files
    <2>2. prep' \in Prep /\ prep'.pc = "start"
      BY <1>6, <2>1 DEF Prep
    <2>3. Busy' = 0 + 0 + 0
      BY <1>6, <2>1, <2>2 DEF Busy
    <2> QED BY <1>1, <1>2, <1>6, <2>1, <2>2, <2>3
  <1>15. CASE UNCHANGED <<disk, tasks, prep, results>>
    <2>1. Busy' = n + m + k
      BY <1>15 DEF Busy
    <2> QED BY <1>1, <1>2, <1>15, <2>1
  <1> HIDE DEF Fine
  <1>16. Fine
    BY <1>7, <1>8, <1>9, <1>10, <1>11, <1>12, <1>13, <1>14, <1>15, ThreadKept DEF Fine
  <1> QED BY <1>16 DEF Fine

\* An identifier that is minted is new.
LEMMA FreshFacts ==
    ASSUME NEW all, NEW id, Fresh(id, all)
    PROVE  id \in all \ used
  BY DEF Fresh

\* Only a commit gives a file without an owner one.
LEMMA NoneStays ==
    ASSUME OutboxAssumption, Invariant, Next, NEW f \in Files, ledger[f] = "none"
    PROVE  ledger'[f] = "none" \/ (StageCommit /\ prep.task.file = f)
  <1>1. TypeInv /\ ledger \in [Files -> {"none", "draft", "retired"} \cup Requests]
        /\ "none" \notin Requests
    BY DEF Invariant, TypeInv, OutboxAssumption
  <1>2. CASE StageCommit
    BY <1>1, <1>2 DEF StageCommit
  <1>3. CASE \E r \in Requests : Send(r)
    BY <1>1, <1>3 DEF Send, DraftFiles
  <1> QED BY <1>1, <1>2, <1>3, LedgerStep

\* Identifiers stay minted; a new file is an attached one.
LEMMA UsedStep ==
    ASSUME Invariant, Next
    PROVE  /\ IsFiniteSet(used') /\ used \subseteq used'
           /\ \A f \in used' : \/ f \in used
                               \/ f \in Files /\ Attach(f)
                               \/ f \in Requests /\ Send(f)
  <1>1. IsFiniteSet(used)
    BY DEF Invariant, TypeInv
  <1>2. CASE \E f \in Files : Attach(f)
    <2>1. PICK f \in Files : Attach(f)
      BY <1>2
    <2>2. used' = used \cup {f}
      BY <2>1 DEF Attach
    <2>3. IsFiniteSet(used \cup {f})
      BY <1>1, FS_AddElement
    <2> QED BY <2>1, <2>2, <2>3
  <1>3. CASE \E r \in Requests : Send(r)
    <2>1. PICK r \in Requests : Send(r)
      BY <1>3
    <2>2. used' = used \cup {r}
      BY <2>1 DEF Send
    <2>3. IsFiniteSet(used \cup {r})
      BY <1>1, FS_AddElement
    <2> QED BY <2>1, <2>2, <2>3
  <1>4. CASE UNCHANGED used
    BY <1>1, <1>4
  <1> QED BY <1>2, <1>3, <1>4, UsedKept

\* Tasks come at the end and go from the front, or all at once.
LEMMA TasksMove ==
    ASSUME Invariant, Next
    PROVE  \/ tasks' = <<>>
           \/ StageBegin
           \/ \E f \in Files : Attach(f)
           \/ /\ Len(tasks') = Len(tasks)
              /\ \A i \in 1..Len(tasks) : tasks'[i].file = tasks[i].file
  <1>1. tasks \in Seq(Pending)
    BY DEF Invariant, TypeInv
  <1>2. CASE Cancel
    <2>1. tasks' = [i \in DOMAIN tasks |-> [tasks[i] EXCEPT !.cancelled = TRUE]]
      BY <1>2 DEF Cancel
    <2> QED BY <1>1, <2>1, CancelledFacts DEF Pending
  <1>3. CASE CollectFailed \/ Restart
    BY <1>3 DEF CollectFailed, Restart
  <1>4. CASE \/ CollectStartup \/ StageCopied \/ StageFailed \/ StageCommit \/ CollectRow
             \/ Prepared \/ \E f \in Files : CollectUnlink(f)
    BY <1>4 DEF CollectStartup, StageCopied, StageFailed, StageCommit, CollectRow,
                Prepared, CollectUnlink
  <1> QED BY <1>2, <1>3, <1>4, ThreadKept

\* The file thread takes a task, copies it, commits it and forgets it.
LEMMA PrepMove ==
    ASSUME Invariant, Next
    PROVE  \/ StageBegin
           \/ StageCopied
           \/ \E f \in Files : CollectUnlink(f)
           \/ prep'.pc \in {"start", "idle", "failed"}
           \/ /\ prep'.pc = prep.pc /\ prep'.task.file = prep.task.file
              /\ UNCHANGED disk /\ ~StageCommit
  <1>1. prep \in Prep
    BY DEF Invariant, TypeInv
  <1>2. CASE Cancel
    <2>1. /\ prep' = prep \/ prep' = [prep EXCEPT !.task.cancelled = TRUE]
          /\ UNCHANGED disk
      BY <1>2 DEF Cancel, files
    <2>2. \A t \in Task : [t EXCEPT !.cancelled = TRUE].file = t.file
      BY DEF Task
    <2>3. [prep EXCEPT !.task.cancelled = TRUE]
              = [prep EXCEPT !.task = [prep.task EXCEPT !.cancelled = TRUE]]
      BY <1>1 DEF Prep
    <2>4. \A t : [prep EXCEPT !.task = t].pc = prep.pc /\ [prep EXCEPT !.task = t].task = t
      BY <1>1 DEF Prep
    <2>5. prep'.pc = prep.pc /\ prep'.task.file = prep.task.file
      BY <1>1, <2>1, <2>2, <2>3, <2>4 DEF Prep
    <2>6. StageCommit => prep.pc = "commit" /\ prep'.pc = "idle"
      BY DEF StageCommit
    <2> QED BY <2>1, <2>5, <2>6
  <1>3. CASE \/ CollectStartup \/ CollectFailed \/ StageFailed \/ StageCommit \/ CollectRow
             \/ Restart
    BY <1>1, <1>3 DEF CollectStartup, CollectFailed, StageFailed, StageCommit, CollectRow,
                      Restart, Prep
  <1>4. CASE Prepared \/ (\E f \in Files : Attach(f)) \/ UNCHANGED <<disk, tasks, prep, results>>
    <2>1. UNCHANGED <<disk, prep>>
      BY <1>4 DEF Prepared, Attach, files
    <2>2. StageCommit => prep.pc = "commit" /\ prep'.pc = "idle"
      BY DEF StageCommit
    <2> QED BY <2>1, <2>2
  <1> QED BY <1>2, <1>3, <1>4, ThreadKept

\* Every task keeps a file of its own.
LEMMA StageStep ==
    ASSUME OutboxAssumption, Invariant, Next
    PROVE  StageInv' /\ FreshFiles'
  <1>1. /\ TypeInv /\ StageInv /\ FreshFiles
        /\ disk \in [Files -> {"none", "partial", "synced"}] /\ prep \in Prep
        /\ ledger \in [Files -> {"none", "draft", "retired"} \cup Requests]
    BY DEF Invariant, TypeInv
  <1>2. /\ Len(tasks) \in Nat
        /\ \A i \in 1..Len(tasks) : tasks[i].file \in Files
        /\ tasks # <<>> =>
                 /\ Len(tasks) >= 1 /\ Head(tasks) = tasks[1]
                 /\ Len(Tail(tasks)) = Len(tasks) - 1
                 /\ \A i \in 1..Len(Tail(tasks)) : Tail(tasks)[i] = tasks[i + 1]
    BY <1>1, TaskFacts
  <1>3. \A f \in Files : ledger[f] = "none" =>
            ledger'[f] = "none" \/ (StageCommit /\ prep.task.file = f)
    BY NoneStays
  \* The tasks that wait.
  <1>4. /\ \A i, j \in 1..Len(tasks') : tasks'[i].file = tasks'[j].file => i = j
        /\ \A i \in 1..Len(tasks') : ledger'[tasks'[i].file] = "none"
        /\ \A i \in 1..Len(tasks') : tasks'[i].file \in used'
        /\ prep'.pc \in {"copy", "commit"} =>
              \A i \in 1..Len(tasks') : tasks'[i].file # prep'.task.file
    <2>1. CASE tasks' = <<>>
      BY <2>1, EmptySeq
    <2>2. CASE StageBegin
      <3>1. tasks # <<>> /\ tasks' = Tail(tasks) /\ UNCHANGED <<ledger, used>> /\ prep.pc = "idle"
        BY <2>2 DEF StageBegin
      <3>2. prep'.pc \in {"copy", "commit"} => prep'.task = tasks[1]
        BY <1>2, <2>2, <3>1 DEF StageBegin
      <3>3. /\ Len(tasks') = Len(tasks) - 1 /\ 1 \in 1..Len(tasks)
            /\ \A i \in 1..Len(tasks') : i + 1 \in 1..Len(tasks) /\ i + 1 # 1
                                         /\ tasks'[i] = tasks[i + 1]
        BY <1>2, <3>1
      <3>4. \A i, j \in 1..Len(tasks') : tasks'[i].file = tasks'[j].file => i = j
        <4>1. SUFFICES ASSUME NEW i \in 1..Len(tasks'), NEW j \in 1..Len(tasks'),
                              tasks'[i].file = tasks'[j].file
                       PROVE  i = j
          OBVIOUS
        <4>2. i + 1 = j + 1
          BY <1>1, <3>3, <4>1 DEF StageInv
        <4> QED BY <4>2
      <3>5. \A i \in 1..Len(tasks') : ledger'[tasks'[i].file] = "none"
        BY <1>1, <3>1, <3>3 DEF StageInv
      <3>6. \A i \in 1..Len(tasks') : tasks'[i].file \in used'
        BY <1>1, <1>2, <3>1, <3>3 DEF FreshFiles
      <3>7. prep'.pc \in {"copy", "commit"} =>
                \A i \in 1..Len(tasks') : tasks'[i].file # prep'.task.file
        BY <1>1, <3>2, <3>3 DEF StageInv
      <3> QED BY <3>4, <3>5, <3>6, <3>7
    <2>3. CASE \E f \in Files : Attach(f)
      <3>1. PICK f \in Files : Attach(f)
        BY <2>3
      <3>2. f \in Files \ used
        BY <3>1, FreshFacts DEF Attach
      <3>3. /\ tasks' = Append(tasks, [file |-> f, cancelled |-> FALSE])
            /\ UNCHANGED <<prep, ledger>> /\ used' = used \cup {f}
        BY <3>1 DEF Attach, files
      <3>4. [file |-> f, cancelled |-> FALSE] \in Pending /\ tasks \in Seq(Pending)
        BY <1>1 DEF Pending, TypeInv
      <3>5. /\ Len(tasks') = Len(tasks) + 1 /\ tasks'[Len(tasks) + 1].file = f
            /\ \A i \in 1..Len(tasks) : tasks'[i] = tasks[i]
        BY <3>3, <3>4, AppendProperties
      <3>6. \A i \in 1..Len(tasks') : i \in 1..Len(tasks) \/ i = Len(tasks) + 1
        BY <1>2, <3>5
      <3>7. \A i \in 1..Len(tasks) : tasks[i].file # f
        BY <1>1, <3>2 DEF FreshFiles
      <3>8. ledger[f] = "none" /\ (prep.pc \in {"copy", "commit"} => prep.task.file # f)
        BY <1>1, <3>2 DEF FreshFiles
      <3>9. \A i, j \in 1..Len(tasks') : tasks'[i].file = tasks'[j].file => i = j
        BY <1>1, <3>5, <3>6, <3>7 DEF StageInv
      <3>10. \A i \in 1..Len(tasks') : ledger'[tasks'[i].file] = "none"
        BY <1>1, <3>3, <3>5, <3>6, <3>8 DEF StageInv
      <3>11. \A i \in 1..Len(tasks') : tasks'[i].file \in used'
        BY <1>1, <1>2, <3>3, <3>5, <3>6 DEF FreshFiles
      <3>12. prep'.pc \in {"copy", "commit"} =>
                \A i \in 1..Len(tasks') : tasks'[i].file # prep'.task.file
        BY <1>1, <3>3, <3>5, <3>6, <3>8 DEF StageInv
      <3> QED BY <3>9, <3>10, <3>11, <3>12
    <2>4. CASE /\ Len(tasks') = Len(tasks)
               /\ \A i \in 1..Len(tasks) : tasks'[i].file = tasks[i].file
               /\ ~StageBegin
      <3>1. \A i \in 1..Len(tasks) : tasks[i].file \in used
        BY <1>1, <1>2 DEF FreshFiles
      <3>2. prep'.pc \in {"copy", "commit"} =>
               prep.pc \in {"copy", "commit"} /\ prep'.task.file = prep.task.file
        <4>1. StageCopied => prep.pc = "copy" /\ prep'.task = prep.task
          BY <1>1 DEF StageCopied, Prep
        <4>2. \A f : CollectUnlink(f) => prep'.pc = "row"
          BY DEF CollectUnlink
        <4> QED BY <2>4, <4>1, <4>2, PrepMove
      <3>3. \A i \in 1..Len(tasks) : ledger'[tasks[i].file] = "none"
        <4>1. StageCommit => prep.pc = "commit"
          BY DEF StageCommit
        <4> QED BY <1>1, <1>2, <1>3, <4>1 DEF StageInv
      <3> QED BY <1>1, <2>4, <3>1, <3>2, <3>3, UsedStep DEF StageInv
    <2> QED BY <2>1, <2>2, <2>3, <2>4, TasksMove
  \* The task that is being copied.
  <1>5. /\ prep'.pc \in {"copy", "commit"} =>
              /\ prep'.task.file \in Files /\ ledger'[prep'.task.file] = "none"
              /\ prep'.task.file \in used'
        /\ prep'.pc = "commit" => disk'[prep'.task.file] = "synced"
        /\ prep'.pc = "row" => prep'.task.file \in Files /\ disk'[prep'.task.file] = "none"
    <2>1. CASE StageBegin
      <3>1. tasks # <<>> /\ UNCHANGED <<ledger, used>> /\ prep.pc = "idle"
        BY <2>1 DEF StageBegin
      <3>2. CASE prep' = prep
        BY <3>1, <3>2
      <3>3. CASE prep' # prep
        <4>1. prep' = [pc |-> "copy", task |-> tasks[1]]
          BY <1>2, <2>1, <3>1, <3>3 DEF StageBegin
        <4>2. 1 \in 1..Len(tasks)
          BY <1>2, <3>1
        <4>3. /\ tasks[1].file \in Files /\ ledger[tasks[1].file] = "none"
              /\ tasks[1].file \in used
          BY <1>1, <1>2, <4>2 DEF StageInv, FreshFiles
        <4> QED BY <3>1, <4>1, <4>3
      <3> QED BY <3>2, <3>3
    <2>2. CASE StageCopied
      <3>1. /\ prep.pc = "copy" /\ prep' = [prep EXCEPT !.pc = "commit"]
            /\ disk' = Copied(prep.task.file) /\ UNCHANGED <<ledger, used>>
        BY <2>2 DEF StageCopied
      <3>2. prep'.pc = "commit" /\ prep'.task = prep.task
        BY <1>1, <3>1 DEF Prep
      <3>3. prep.task.file \in Files /\ ledger[prep.task.file] = "none"
            /\ prep.task.file \in used
        BY <1>1, <3>1 DEF StageInv, FreshFiles
      <3>4. disk'[prep.task.file] = "synced"
        BY <1>1, <3>1, <3>3 DEF Copied
      <3> QED BY <3>1, <3>2, <3>3, <3>4
    <2>3. CASE \E f \in Files : CollectUnlink(f)
      <3>1. PICK f \in Files : CollectUnlink(f)
        BY <2>3
      <3>2. prep'.pc = "row" /\ prep'.task.file = f /\ disk'[f] = "none"
        BY <1>1, <3>1 DEF CollectUnlink, Removed, NoTask
      <3> QED BY <3>2
    <2>4. CASE prep'.pc \in {"start", "idle", "failed"}
      BY <2>4
    <2>5. CASE prep'.pc = prep.pc /\ prep'.task.file = prep.task.file
               /\ UNCHANGED disk /\ ~StageCommit
      <3>1. prep.pc \in {"copy", "commit"} =>
                prep.task.file \in Files /\ ledger[prep.task.file] = "none"
                /\ prep.task.file \in used
        BY <1>1 DEF StageInv, FreshFiles
      <3> QED BY <1>1, <1>3, <2>5, <3>1, UsedStep DEF StageInv
    <2> QED BY <2>1, <2>2, <2>3, <2>4, <2>5, PrepMove
  <1>6. StageInv'
    BY <1>4, <1>5 DEF StageInv
  <1>7. FreshFiles'
    <2>1. SUFFICES ASSUME NEW f \in Files, f \notin used'
                   PROVE  ledger'[f] = "none"
      BY <1>4, <1>5 DEF FreshFiles
    <2>2. f \notin used
      BY <2>1, UsedStep
    <2>3. StageCommit => prep.task.file # f
      BY <1>1, <2>2 DEF FreshFiles, StageCommit
    <2> QED BY <1>1, <1>3, <2>2, <2>3 DEF FreshFiles
  <1> QED BY <1>6, <1>7

-----------------------------------------------------------------------------
(* Originals and the quota.                                                 *)

\* A request that was minted keeps the files of its row; Send mints one.
LEMMA RowStays ==
    ASSUME OutboxAssumption, Invariant, Next, NEW q \in Requests
    PROVE  \/ Send(q)
           \/ outbox'[q].files = outbox[q].files
  <1>1. CASE \E r \in Requests : Send(r)
    <2>1. PICK r \in Requests : Send(r)
      BY <1>1
    <2>3. r # q => outbox'[q] = outbox[q]
      BY <2>1 DEF Send, Invariant, TypeInv
    <2> QED BY <2>1, <2>3
  <1> QED BY <1>1, OutboxStep

\* What is owned is not touched on disk.
LEMMA DiskStays ==
    ASSUME OutboxAssumption, Invariant, Next, NEW f \in Files, Owned(f)
    PROVE  disk'[f] = disk[f]
  <1>1. /\ TypeInv /\ StageInv /\ disk \in [Files -> {"none", "partial", "synced"}]
        /\ ledger[f] # "none" /\ ledger[f] # "retired"
    BY DEF Invariant, TypeInv, Owned, OutboxAssumption
  <1>2. CASE CollectStartup
    BY <1>2 DEF CollectStartup
  <1>3. CASE StageBegin
    <2>1. tasks # <<>>
      BY <1>3 DEF StageBegin
    <2>2. Head(tasks) = tasks[1] /\ 1 \in 1..Len(tasks)
      BY <1>1, <2>1, TaskFacts
    <2>3. Head(tasks).file # f
      BY <1>1, <2>2 DEF StageInv
    <2> QED BY <1>1, <1>3, <2>3 DEF StageBegin, Created
  <1>4. CASE StageCopied \/ StageFailed \/ StageCommit
    <2>1. prep.task.file # f
      BY <1>1, <1>4 DEF StageInv, StageCopied, StageFailed, StageCommit
    <2> QED BY <1>1, <1>4, <2>1 DEF StageCopied, StageFailed, StageCommit, Copied, Removed
  <1>5. CASE \E g \in Files : CollectUnlink(g)
    BY <1>1, <1>5 DEF CollectUnlink, Removed
  <1>6. CASE \/ CollectRow \/ CollectFailed \/ Cancel \/ Prepared \/ Restart
             \/ \E g \in Files : Attach(g)
    BY <1>6 DEF CollectRow, CollectFailed, Cancel, Prepared, Restart, Attach, files
  <1> QED BY <1>2, <1>3, <1>4, <1>5, <1>6, ThreadKept

\* The originals of drafts and requests are kept.
LEMMA OwnerStep ==
    ASSUME OutboxAssumption, Invariant, Next
    PROVE  OwnerInv'
  <1>1. /\ TypeInv /\ StageInv /\ OwnerInv /\ FreshRequests
        /\ ledger \in [Files -> {"none", "draft", "retired"} \cup Requests]
        /\ outbox \in [Requests -> Row]
        /\ Requests \cap {"none", "draft", "retired"} = {}
    BY DEF Invariant, TypeInv, OutboxAssumption
  <1>2. ASSUME NEW f \in Files, Owned(f)'
        PROVE  disk'[f] = "synced"
    <2>1. CASE Owned(f)
      BY <1>1, <2>1, DiskStays DEF OwnerInv
    <2>2. CASE ~Owned(f)
      <3>1. CASE StageCommit
        <4>1. /\ prep.task.file = f /\ UNCHANGED disk /\ prep.pc = "commit"
          BY <1>1, <1>2, <2>2, <3>1 DEF StageCommit, Owned
        <4> QED BY <1>1, <4>1 DEF StageInv
      <3>2. CASE \E r \in Requests : Send(r)
        BY <1>1, <1>2, <2>2, <3>2 DEF Send, DraftFiles, Owned
      <3> QED BY <1>1, <1>2, <2>2, <3>1, <3>2, LedgerStep DEF Owned
    <2> QED BY <2>1, <2>2
  <1>3. ASSUME NEW r \in Requests, Send(r)
        PROVE  /\ outbox[r].files = {} /\ outbox'[r].files = DraftFiles
               /\ \A f \in Files : ledger'[f] = IF f \in DraftFiles THEN r ELSE ledger[f]
    <2>1. r \notin used
      BY <1>3, FreshFacts DEF Send
    <2>2. outbox[r].files = {}
      BY <1>1, <2>1 DEF FreshRequests, NoRow
    <2> QED BY <1>1, <1>3, <2>2 DEF Send
  <1>4. ASSUME NEW f \in Files, NEW r \in Requests, ledger'[f] = r
        PROVE  f \in outbox'[r].files
    <2>1. CASE Send(r)
      BY <1>1, <1>3, <1>4, <2>1 DEF OwnerInv
    <2>2. CASE ~Send(r)
      <3>1. ledger[f] = r
        <4>1. CASE \E q \in Requests : Send(q)
          <5>1. PICK q \in Requests : Send(q)
            BY <4>1
          <5> QED BY <1>3, <1>4, <2>2, <5>1
        <4>2. CASE StageCommit
          BY <1>1, <1>4, <4>2 DEF StageCommit
        <4> QED BY <1>1, <1>4, <4>1, <4>2, LedgerStep
      <3> QED BY <1>1, <2>2, <3>1, RowStays DEF OwnerInv
    <2> QED BY <2>1, <2>2
  <1>5. ASSUME NEW r \in Requests, relay'[r] # "delivered", NEW f \in outbox'[r].files
        PROVE  ledger'[f] = r
    <2>1. relay[r] # "delivered"
      BY <1>5, RelayStep
    <2>2. CASE Send(r)
      BY <1>1, <1>3, <1>5, <2>2 DEF DraftFiles
    <2>3. CASE ~Send(r)
      <3>1. f \in outbox[r].files
        BY <1>5, <2>3, RowStays
      <3>2. ledger[f] = r /\ f \in Files
        BY <1>1, <2>1, <3>1 DEF OwnerInv, Row
      <3>3. CASE \E q \in Requests : Send(q)
        <4>1. PICK q \in Requests : Send(q)
          BY <3>3
        <4> QED BY <1>1, <1>3, <3>2, <4>1 DEF DraftFiles
      <3>4. CASE StageCommit
        BY <1>1, <3>2, <3>4 DEF StageCommit, StageInv
      <3> QED BY <1>1, <2>1, <3>2, <3>3, <3>4, LedgerStep
    <2> QED BY <2>2, <2>3
  <1> QED BY <1>2, <1>4, <1>5 DEF OwnerInv

\* Only a commit adds a row to the ledger, when there is room.
LEMMA RowsBound ==
    ASSUME OutboxAssumption, Invariant, Next
    PROVE  IsFiniteSet(Rows') /\ Cardinality(Rows') <= MaxStored
  <1>1. /\ TypeInv /\ IsFiniteSet(Rows) /\ Cardinality(Rows) <= MaxStored
        /\ ledger \in [Files -> {"none", "draft", "retired"} \cup Requests]
        /\ MaxStored \in Nat
    BY DEF Invariant, TypeInv, QuotaInv, OutboxAssumption
  <1>2. Cardinality(Rows) \in Nat
    BY <1>1, FS_CardinalityType
  <1>3. CASE StageCommit /\ Room
    <2>1. ledger' = [ledger EXCEPT ![prep.task.file] = "draft"]
      BY <1>3 DEF StageCommit
    <2>2. Rows' \subseteq Rows \cup {prep.task.file}
      BY <1>1, <2>1 DEF Rows
    <2>3. /\ IsFiniteSet(Rows \cup {prep.task.file})
          /\ Cardinality(Rows \cup {prep.task.file}) \in Nat
          /\ Cardinality(Rows \cup {prep.task.file}) <= MaxStored
      <3>1. Cardinality(Rows) < MaxStored
        BY <1>3 DEF Room
      <3>2. /\ IsFiniteSet(Rows \cup {prep.task.file})
            /\ Cardinality(Rows \cup {prep.task.file})
                 = IF prep.task.file \in Rows THEN Cardinality(Rows) ELSE Cardinality(Rows) + 1
        BY <1>1, FS_AddElement
      <3> QED BY <1>1, <1>2, <3>1, <3>2
    <2>4. /\ IsFiniteSet(Rows')
          /\ Cardinality(Rows') <= Cardinality(Rows \cup {prep.task.file})
      BY <2>2, <2>3, FS_Subset
    <2>5. Cardinality(Rows') \in Nat
      BY <2>4, FS_CardinalityType
    <2> QED BY <1>1, <2>3, <2>4, <2>5
  <1>4. CASE ~(StageCommit /\ Room)
    <2>1. StageCommit => UNCHANGED ledger
      BY <1>4 DEF StageCommit
    <2>2. Rows' \subseteq Rows
      BY <2>1, NoneStays DEF Rows
    <2>3. IsFiniteSet(Rows') /\ Cardinality(Rows') <= Cardinality(Rows)
      BY <1>1, <2>2, FS_Subset
    <2>4. Cardinality(Rows') \in Nat
      BY <2>3, FS_CardinalityType
    <2> QED BY <1>1, <1>2, <2>3, <2>4
  <1> QED BY <1>3, <1>4

\* No byte on disk escapes the quota.
LEMMA QuotaStep ==
    ASSUME OutboxAssumption, Invariant, Next
    PROVE  QuotaInv'
  <1>1. /\ TypeInv /\ StageInv /\ QuotaInv
        /\ disk \in [Files -> {"none", "partial", "synced"}] /\ prep \in Prep
        /\ ledger \in [Files -> {"none", "draft", "retired"} \cup Requests]
        /\ "none" \notin Requests
    BY DEF Invariant, TypeInv, OutboxAssumption
  <1> SUFFICES ASSUME NEW f \in Files, disk'[f] # "none"
               PROVE  \/ ledger'[f] # "none"
                      \/ prep'.pc \in {"start", "failed"}
                      \/ prep'.pc \in {"copy", "commit"} /\ prep'.task.file = f
    BY RowsBound DEF QuotaInv, Rows
  <1>2. CASE CollectStartup
    <2>1. disk[f] # "none" /\ Owned(f)
      BY <1>2 DEF CollectStartup, Entries
    <2> QED BY <1>1, <1>2, <2>1 DEF CollectStartup, Owned, OutboxAssumption
  <1>3. CASE CollectFailed \/ Restart
    BY <1>1, <1>3 DEF CollectFailed, Restart, Prep
  <1>4. CASE StageBegin
    <2>1. prep.pc = "idle" /\ UNCHANGED ledger
      BY <1>4 DEF StageBegin
    <2>2. disk[f] # "none" => ledger[f] # "none"
      BY <1>1, <2>1 DEF QuotaInv
    <2>3. disk'[f] = disk[f] \/ (prep'.pc = "copy" /\ prep'.task.file = f)
      BY <1>1, <1>4 DEF StageBegin, Created
    <2> QED BY <2>1, <2>2, <2>3
  <1>5. CASE StageCopied
    BY <1>1, <1>5 DEF StageCopied, Copied, QuotaInv, Prep
  <1>6. CASE StageFailed \/ StageCommit
    <2>1. prep.pc \in {"copy", "commit"} /\ prep.task.file \in Files
      BY <1>1, <1>6 DEF StageFailed, StageCommit, StageInv
    <2>2. CASE f = prep.task.file
      BY <1>1, <1>6, <2>1, <2>2 DEF StageFailed, StageCommit, Removed
    <2>3. CASE f # prep.task.file
      <3>1. ledger'[f] = ledger[f] /\ disk'[f] = disk[f]
        BY <1>1, <1>6, <2>1, <2>3 DEF StageFailed, StageCommit, Removed
      <3> QED BY <1>1, <2>1, <2>3, <3>1 DEF QuotaInv
    <2> QED BY <2>2, <2>3
  <1>7. CASE \E g \in Files : CollectUnlink(g)
    BY <1>1, <1>7 DEF CollectUnlink, Removed, QuotaInv
  <1>8. CASE CollectRow
    <2>1. prep.pc = "row" /\ UNCHANGED disk /\ disk[prep.task.file] = "none"
      BY <1>1, <1>8 DEF CollectRow, StageInv
    <2>2. f # prep.task.file
      BY <2>1
    <2> QED BY <1>1, <1>8, <2>1, <2>2 DEF CollectRow, QuotaInv
  <1>9. CASE \/ Cancel \/ Prepared \/ (\E g \in Files : Attach(g))
             \/ UNCHANGED <<disk, tasks, prep, results>>
    <2>1. UNCHANGED disk
      BY <1>9 DEF Cancel, Prepared, Attach, files
    <2>2. prep'.pc = prep.pc /\ prep'.task.file = prep.task.file
      <3>1. CASE Cancel
        <4>1. \A t \in Task : [t EXCEPT !.cancelled = TRUE].file = t.file
          BY DEF Task
        <4>2. [prep EXCEPT !.task.cancelled = TRUE]
                  = [prep EXCEPT !.task = [prep.task EXCEPT !.cancelled = TRUE]]
          BY <1>1 DEF Prep
        <4>3. \A t : [prep EXCEPT !.task = t].pc = prep.pc /\ [prep EXCEPT !.task = t].task = t
          BY <1>1 DEF Prep
        <4>4. prep' = prep \/ prep' = [prep EXCEPT !.task.cancelled = TRUE]
          BY <3>1 DEF Cancel
        <4> QED BY <1>1, <4>1, <4>2, <4>3, <4>4 DEF Prep
      <3> QED BY <1>9, <3>1 DEF Prepared, Attach
    <2>3. ledger[f] # "none" => ledger'[f] # "none"
      <3>1. CASE \E r \in Requests : Send(r)
        BY <1>1, <3>1 DEF Send
      <3>2. CASE StageCommit
        BY <1>1, <3>2 DEF StageCommit
      <3>3. CollectStartup => prep'.pc = "idle" /\ prep.pc = "start"
        BY <1>1 DEF CollectStartup, Prep
      <3>4. prep.pc = "row" => prep.task.file # f
        BY <1>1, <2>1 DEF StageInv
      <3> QED BY <1>1, <2>2, <3>1, <3>2, <3>3, <3>4, LedgerStep
    <2> QED BY <1>1, <2>1, <2>2, <2>3 DEF QuotaInv
  <1> QED BY <1>2, <1>3, <1>4, <1>5, <1>6, <1>7, <1>8, <1>9, ThreadKept

-----------------------------------------------------------------------------
(* Submissions.                                                             *)

\* A submission needs an attempt that found nothing submitted.
LEMMA SubmitFacts ==
    ASSUME Invariant, Submit
    PROVE  /\ upload.request \in Requests /\ upload # NoUpload
           /\ posts[upload.request] = 0
  <1>1. LaneInv /\ TypeInv /\ FreshRequests /\ upload.answer = "ready"
    BY DEF Invariant, Submit
  <1>2. upload # NoUpload
    BY <1>1 DEF NoUpload
  <1>3. upload.request \in Requests /\ upload.may /\ posts[upload.request] = 0
    BY <1>1, <1>2 DEF LaneInv
  <1> QED BY <1>2, <1>3

\* What is new was not there.
LEMMA SendFacts ==
    ASSUME Invariant, NEW r \in Requests, Send(r)
    PROVE  /\ outbox[r] = NoRow /\ posts[r] = 0 /\ r \notin used /\ r \in used'
           /\ job.request # r /\ upload.request # r /\ UNCHANGED upload
  <1>1. r \notin used
    BY FreshFacts DEF Send
  <1> QED BY <1>1 DEF Send, Invariant, FreshRequests

\* What another request was posted does not change.
LEMMA PostsOthers ==
    ASSUME Invariant, Next, NEW q \in Requests
    PROVE  \/ posts'[q] = posts[q]
           \/ /\ Send(q) \/ (Submit /\ upload.request = q)
              /\ posts[q] = 0 /\ posts'[q] = 1
  <1>1. posts \in [Requests -> Nat]
    BY DEF Invariant, TypeInv
  <1>2. ASSUME NEW r \in Requests, posts' = [posts EXCEPT ![r] = @ + 1],
               Send(r) \/ (Submit /\ upload.request = r)
        PROVE  posts'[q] = posts[q] \/ (q = r /\ posts[q] = 0 /\ posts'[q] = 1)
    <2>1. posts[r] = 0
      BY <1>2, SendFacts, SubmitFacts
    <2> QED BY <1>1, <1>2, <2>1
  <1>3. CASE UNCHANGED posts
    BY <1>3
  <1> QED BY <1>2, <1>3, PostsStep

\* What is uploading or cancelled after a step was not posted.
LEMMA StateStep ==
    ASSUME OutboxAssumption, Invariant, Next, NEW q \in Requests,
           outbox'[q].state \in {"uploading", "cancelled"}
    PROVE  posts'[q] = 0
  <1>1. /\ TypeInv /\ JobInv /\ LaneInv /\ PostInv
        /\ outbox \in [Requests -> Row] /\ posts \in [Requests -> Nat]
        /\ \A r \in Requests : relay[r] \in {"none", "recorded", "delivered"}
    BY DEF Invariant, TypeInv
  <1>2. outbox[q].state \in {"uploading", "cancelled"} => posts[q] = 0
    BY <1>1 DEF PostInv
  <1>3. CASE \E r \in Requests : Send(r)
    <2>1. PICK r \in Requests : Send(r)
      BY <1>3
    <2>2. CASE r = q
      BY <1>1, <2>1, <2>2, SendFacts DEF Send
    <2>3. CASE r # q
      BY <1>1, <1>2, <2>1, <2>3 DEF Send
    <2> QED BY <2>2, <2>3
  <1>4. CASE Submit
    <2>1. outbox' = Outcome(outbox, upload.request, "sending")
          /\ posts' = [posts EXCEPT ![upload.request] = @ + 1]
      BY <1>4 DEF Submit
    <2>2. upload.request \in Requests /\ "sending" \in Unanswered
      BY <1>4, SubmitFacts DEF Unanswered
    <2>3. CASE q = upload.request
      <3>1. outbox[q].state \in Unanswered => outbox'[q].state = "sending"
        BY <1>1, <2>1, <2>2, <2>3, OutcomeFacts
      <3>2. outbox[q].state \notin Unanswered => outbox'[q] = outbox[q]
        BY <2>1, <2>3 DEF Outcome
      <3> QED BY <3>1, <3>2 DEF Unanswered
    <2>4. CASE q # upload.request
      <3>1. outbox'[q] = outbox[q]
        BY <1>1, <2>1, <2>2, <2>4, OutcomeFacts
      <3> QED BY <1>1, <1>2, <2>1, <2>4, <3>1
    <2> QED BY <2>3, <2>4
  <1>5. CASE ~Submit /\ ~\E r \in Requests : Send(r)
    <2>1. UNCHANGED posts
      BY <1>5, PostsKept
    <2>2. SUFFICES ASSUME outbox'[q].state # outbox[q].state
                   PROVE  posts[q] = 0
      BY <1>2, <2>1
    <2>3. CASE \E r \in Requests : CancelUpload(r)
      <3>1. PICK r \in Requests : CancelUpload(r)
        BY <2>3
      <3>2. outbox[r].state = "uploading" /\ outbox' = Outcome(outbox, r, "cancelled")
        BY <3>1 DEF CancelUpload
      <3>3. q = r
        BY <1>1, <2>2, <3>2, OutcomeFacts DEF Unanswered
      <3> QED BY <1>2, <3>2, <3>3
    <2>4. CASE Reconnect
      <3>1. job.kind = "send" => job.request \in Requests
        BY <1>1, LaneFacts DEF NoJob
      <3>2. \/ outbox' = outbox
            \/ job.request \in Requests /\ outbox' = Outcome(outbox, job.request, "unknown")
        BY <2>4, <3>1 DEF Reconnect
      <3> QED BY <1>1, <2>2, <3>2, OutcomeFacts DEF Unanswered
    <2>5. CASE \E r \in Requests : Expire(r)
      BY <1>1, <2>2, <2>5 DEF Expire, NoRow
    <2>6. CASE JobDone
      <3>1. job.request \in Requests
        BY <1>1, <2>6, LaneFacts DEF JobDone, NoJob
      <3>2. CASE Record(job.request)
        BY <1>1, <2>2, <3>1, <3>2, RecordFacts
      <3>3. CASE ~Record(job.request)
        <4>1. \/ outbox' = outbox
              \/ \E state \in Unanswered \ {"uploading", "cancelled"} :
                     outbox' = Outcome(outbox, job.request, state)
          BY <2>6, <3>3 DEF JobDone, Unanswered
        <4> QED BY <1>1, <2>2, <3>1, <4>1, OutcomeFacts
      <3> QED BY <3>2, <3>3
    <2>7. CASE UploadEnds
      <3>1. upload.request \in Requests /\ upload # NoUpload
        BY <1>1, <2>7, LaneFacts DEF UploadEnds, NoUpload
      <3>2. CASE Record(upload.request)
        BY <1>1, <2>2, <3>1, <3>2, RecordFacts
      <3>3. CASE ~Record(upload.request)
        <4>1. upload.answer = "receiving" => upload.may
          BY <1>1, <3>1 DEF LaneInv
        <4>2. \E state \in Unanswered \ {"cancelled"} :
                  /\ outbox' = Outcome(outbox, upload.request, state)
                  /\ state = "uploading" => upload.may
          BY <2>7, <3>3, <4>1 DEF UploadEnds, Unanswered
        <4>3. upload.may => posts[upload.request] = 0
          BY <1>1, <3>1 DEF LaneInv
        <4>4. PICK state \in Unanswered \ {"cancelled"} :
                  /\ outbox' = Outcome(outbox, upload.request, state)
                  /\ state = "uploading" => upload.may
          BY <4>2
        <4>5. q = upload.request /\ outbox'[q].state = state
          BY <1>1, <2>2, <3>1, <4>4, OutcomeFacts
        <4> QED BY <4>3, <4>4, <4>5
      <3> QED BY <3>2, <3>3
    <2>8. CASE UploadBreaks
      <3>1. upload.request \in Requests
        BY <1>1, <2>8, LaneFacts DEF UploadBreaks, NoUpload
      <3>2. \E state \in Unanswered \ {"uploading", "cancelled"} :
                outbox' = Outcome(outbox, upload.request, state)
        BY <2>8 DEF UploadBreaks, Unanswered
      <3> QED BY <1>1, <2>2, <3>1, <3>2, OutcomeFacts
    <2>9. CASE \E r \in Requests : Event(r)
      <3>1. PICK r \in Requests : Record(r)
        BY <2>9 DEF Event
      <3> QED BY <1>1, <2>2, <3>1, RecordFacts
    <2> QED BY <1>5, <2>2, <2>3, <2>4, <2>5, <2>6, <2>7, <2>8, <2>9, OutboxKept
  <1> QED BY <1>3, <1>4, <1>5

\* Nothing is posted twice.
LEMMA PostStep ==
    ASSUME OutboxAssumption, Invariant, Next
    PROVE  PostInv'
  <1>1. PostInv /\ posts \in [Requests -> Nat]
    BY DEF Invariant, TypeInv
  <1> SUFFICES ASSUME NEW r \in Requests
               PROVE  /\ posts'[r] <= 1
                      /\ posts'[r] = 0 => relay'[r] = "none" /\ r \notin late'
    BY StateStep DEF PostInv
  <1>2. posts'[r] <= 1 /\ (posts'[r] = 0 => posts[r] = 0)
    BY <1>1, PostsOthers DEF PostInv
  <1>3. posts[r] = 0 => relay[r] = "none" /\ r \notin late
    BY <1>1 DEF PostInv
  <1>4. posts[r] = 0 => relay'[r] = "none" /\ r \notin late'
    BY <1>1, <1>3, RelayStep, LateStep
  <1> QED BY <1>2, <1>4

\* The request lane keeps to its request.
LEMMA JobStep ==
    ASSUME OutboxAssumption, Invariant, Next
    PROVE  job' \in Job /\ JobInv'
  <1>1. /\ TypeInv /\ JobInv /\ job \in Job /\ NoJob \in Job
        /\ posts \in [Requests -> Nat]
    BY DEF Invariant, TypeInv, NoJob, Job
  <1>2. \A q \in Requests : posts[q] > 0 => posts'[q] > 0
    BY <1>1, PostsOthers
  <1>3. CASE \E r \in Requests : Send(r)
    <2>1. PICK r \in Requests : Send(r)
      BY <1>3
    <2>2. posts[r] = 0
      BY <2>1, SendFacts
    <2>3. CASE job' = [kind |-> "send", request |-> r, answer |-> "none"] /\ posts'[r] = 1
      BY <2>3 DEF Job, JobInv
    <2>4. CASE job' = job \/ job' = NoJob
      BY <1>1, <1>2, <2>4 DEF JobInv
    <2> QED BY <1>1, <2>1, <2>2, <2>3, <2>4 DEF Send
  <1>4. CASE Reconnect \/ JobDone \/ Restart
    BY <1>1, <1>4 DEF Reconnect, JobDone, Restart, JobInv
  <1>5. CASE \E r \in Requests : Recover(r)
    <2>1. PICK r \in Requests : job' = [kind |-> "recover", request |-> r, answer |-> "none"]
      BY <1>5 DEF Recover
    <2> QED BY <2>1 DEF Job, JobInv
  <1>6. CASE ServeJob \/ LoseJob
    <2>1. /\ job # NoJob
          /\ \E a \in {"record", "rejected", "missing", "lost"} :
                 job' = [job EXCEPT !.answer = a]
      BY <1>6 DEF ServeJob, LoseJob
    <2>2. job' \in Job /\ job'.kind = job.kind /\ job'.request = job.request
      BY <1>1, <2>1 DEF Job
    <2> QED BY <1>1, <1>2, <2>1, <2>2 DEF JobInv
  <1>7. CASE UNCHANGED job
    BY <1>1, <1>2, <1>7 DEF JobInv
  <1> QED BY <1>3, <1>4, <1>5, <1>6, <1>7, JobKept

\* The relay's uploads keep their states.
LEMMA StoreStep ==
    ASSUME Invariant, Next
    PROVE  store' \in [Files -> {"none", "reserved", "receiving", "ready"}]
  <1>1. TypeInv /\ store \in [Files -> {"none", "reserved", "receiving", "ready"}]
    BY DEF Invariant, TypeInv
  <1>2. Receiving \in [Files -> {"none", "reserved", "receiving", "ready"}]
    BY <1>1, ReceivingFacts
  <1>3. CASE \/ (\E r \in Requests : CancelUpload(r)) \/ Reconnect \/ Disconnect \/ JobDone
             \/ LoseUpload \/ Restart
    BY <1>1, <1>2, <1>3 DEF CancelUpload, Reconnect, Disconnect, JobDone, Offline,
                            LoseUpload, Restart
  <1>4. CASE ServeUpload
    BY <1>1, <1>4 DEF ServeUpload
  <1>5. CASE \E f \in Files : Close(f)
    BY <1>1, <1>5 DEF Close
  <1> QED BY <1>1, <1>3, <1>4, <1>5, StoreKept

\* The attachment lane goes on to reserve, transfer and submit only while its
\* request has not been posted.
LEMMA LaneStep ==
    ASSUME OutboxAssumption, Invariant, Next
    PROVE  upload' \in Attempt /\ LaneInv'
  <1>1. /\ TypeInv /\ LaneInv /\ FreshRequests /\ upload \in Attempt /\ NoUpload \in Attempt
        /\ outbox \in [Requests -> Row] /\ posts \in [Requests -> Nat]
        /\ store \in [Files -> {"none", "reserved", "receiving", "ready"}]
    BY DEF Invariant, TypeInv, NoUpload, Attempt
  <1>2. ASSUME NEW q \in Requests, ~Send(q), ~(Submit /\ upload.request = q)
        PROVE  posts'[q] = posts[q] /\ outbox'[q].files = outbox[q].files
    BY <1>2, PostsOthers, RowStays
  <1>3. upload # NoUpload => upload.request \in Requests /\ ~Send(upload.request)
    BY <1>1, SendFacts DEF LaneInv
  <1>4. Submit => /\ upload.answer = "ready" /\ upload'.answer = "none"
                   /\ upload'.phase = "submit"
    BY <1>1 DEF Submit, Ask, Attempt
  <1>5. CASE \/ Reconnect \/ Disconnect \/ UploadEnds \/ UploadBreaks \/ Restart
             \/ upload' = NoUpload
    BY <1>1, <1>5 DEF Reconnect, Disconnect, Offline, UploadEnds, UploadBreaks, Restart, LaneInv
  <1>6. CASE UNCHANGED upload /\ ~Submit
    BY <1>1, <1>2, <1>3, <1>6 DEF LaneInv
  <1>7. CASE JobDone \/ \E r \in Requests : CancelUpload(r)
    <2>1. ~Submit \/ upload' = NoUpload
      BY <1>7, <1>4 DEF JobDone, CancelUpload, Offline
    <2> QED BY <1>5, <1>6, <1>7, <2>1 DEF JobDone, CancelUpload, Offline
  <1>8. CASE \E r \in Requests : StartUpload(r)
    <2>1. PICK r \in Requests : StartUpload(r)
      BY <1>8
    <2>2. /\ outbox[r].files # {} /\ UNCHANGED <<outbox, posts>>
          /\ upload' = [request |-> r, phase |-> "lookup", left |-> outbox[r].files,
                        may |-> outbox[r].state = "uploading", answer |-> "none"]
      BY <2>1 DEF StartUpload
    <2>3. outbox[r].files \subseteq Files
      BY <1>1 DEF Row
    <2>4. upload' \in Attempt
      BY <2>2, <2>3 DEF Attempt
    <2>5. outbox[r].state = "uploading" => posts[r] = 0
      BY DEF Invariant, PostInv
    <2> QED BY <2>2, <2>4, <2>5 DEF LaneInv
  <1>9. CASE Reserve \/ Transfer
    <2>1. /\ upload # NoUpload /\ upload.may /\ upload.phase # "submit" /\ ~Submit
          /\ \E phase \in {"reserve", "transfer"} :
                \E left \in SUBSET upload.left :
                    left # {} /\ upload' = Ask(phase, left)
      <3>1. upload # NoUpload /\ upload.phase # "submit" /\ upload.may
        BY <1>1, <1>9 DEF Reserve, Transfer, NoUpload, LaneInv
      <3>2. upload.left # {}
        BY <1>1, <3>1 DEF LaneInv
      <3>3. ~Submit
        BY <1>1, <1>9 DEF Reserve, Transfer, Submit, Ask, Attempt
      <3>4. CASE Reserve
        BY <3>1, <3>2, <3>3, <3>4 DEF Reserve
      <3>5. CASE Transfer
        BY <3>1, <3>2, <3>3, <3>5 DEF Transfer
      <3> QED BY <1>9, <3>4, <3>5
    <2>2. PICK phase \in {"reserve", "transfer"}, left \in SUBSET upload.left :
              left # {} /\ upload' = Ask(phase, left)
      BY <2>1
    <2>3. /\ upload' \in Attempt /\ upload'.request = upload.request
          /\ upload'.phase = phase /\ upload'.left = left /\ upload'.may = upload.may
          /\ upload'.answer = "none"
      BY <1>1, <2>2 DEF Ask, Attempt
    <2> QED BY <1>1, <1>2, <1>3, <2>1, <2>2, <2>3 DEF LaneInv
  <1>10. CASE Submit
    <2>1. upload' = [Ask("submit", {}) EXCEPT !.may = FALSE]
      BY <1>10 DEF Submit
    <2>2. /\ upload' \in Attempt /\ upload'.request = upload.request
          /\ upload'.phase = "submit" /\ upload'.left = {} /\ upload'.may = FALSE
          /\ upload'.answer = "none"
      BY <1>1, <2>1 DEF Ask, Attempt
    <2>3. posts'[upload.request] > 0 /\ upload.request \in Requests
      BY <1>1, <1>10, SubmitFacts DEF Submit
    <2> QED BY <2>2, <2>3 DEF LaneInv
  <1>11. CASE ServeUpload \/ LoseUpload
    <2>1. upload # NoUpload /\ ~Submit
      <3>1. ServeUpload => upload # NoUpload /\ upload.answer = "none"
        BY DEF ServeUpload
      <3>2. LoseUpload => upload # NoUpload /\ upload'.answer = "lost"
        BY <1>1 DEF LoseUpload, Attempt
      <3> QED BY <1>11, <1>4, <3>1, <3>2
    <2>2. \E a \in {"none", "record", "rejected", "missing", "lost", "reserved",
                    "receiving", "ready"} :
              /\ upload' = [upload EXCEPT !.answer = a]
              /\ a \in {"reserved", "receiving", "ready"}
                    => upload.phase \in {"reserve", "transfer"}
      <3>1. CASE LoseUpload
        BY <3>1 DEF LoseUpload
      <3>2. CASE ServeUpload /\ upload.phase = "reserve"
        <4>1. Current \in Files
          BY <1>1, <2>1, <3>2, LaneFacts DEF Invariant
        <4>2. \/ upload' = [upload EXCEPT !.answer = store'[Current]]
              \/ upload' = [upload EXCEPT !.answer = "rejected"]
          BY <3>2 DEF ServeUpload
        <4> QED BY <3>2, <4>1, <4>2, StoreStep
      <3>3. CASE ServeUpload /\ upload.phase # "reserve"
        BY <3>3 DEF ServeUpload
      <3> QED BY <1>11, <3>1, <3>2, <3>3
    <2>3. PICK a \in {"none", "record", "rejected", "missing", "lost", "reserved",
                      "receiving", "ready"} :
              /\ upload' = [upload EXCEPT !.answer = a]
              /\ a \in {"reserved", "receiving", "ready"}
                    => upload.phase \in {"reserve", "transfer"}
      BY <2>2
    <2>4. /\ upload' \in Attempt /\ upload'.request = upload.request
          /\ upload'.phase = upload.phase /\ upload'.left = upload.left
          /\ upload'.may = upload.may /\ upload'.answer = a
      BY <1>1, <2>3 DEF Attempt
    <2> QED BY <1>1, <1>2, <1>3, <2>1, <2>3, <2>4 DEF LaneInv
  <1> QED BY <1>5, <1>6, <1>7, <1>8, <1>9, <1>10, <1>11, UploadKept

\* What has not been minted stays nowhere.
LEMMA FreshStep ==
    ASSUME OutboxAssumption, Invariant, Next
    PROVE  FreshRequests'
  <1>1. /\ TypeInv /\ JobInv /\ LaneInv /\ FreshRequests
        /\ outbox \in [Requests -> Row] /\ job \in Job /\ upload \in Attempt
        /\ NoRequest \notin Requests
    BY DEF Invariant, TypeInv, OutboxAssumption
  <1> SUFFICES ASSUME NEW r \in Requests, r \notin used'
               PROVE  /\ outbox'[r] = NoRow /\ posts'[r] = 0
                      /\ job'.request # r /\ upload'.request # r
    BY DEF FreshRequests
  <1>2. r \notin used /\ ~Send(r)
    BY UsedStep, SendFacts
  <1>3. /\ outbox[r] = NoRow /\ outbox[r].state = "none" /\ posts[r] = 0
        /\ job.request # r /\ upload.request # r
    BY <1>1, <1>2 DEF FreshRequests, NoRow
  <1>4. posts'[r] = 0
    BY <1>2, <1>3, PostsOthers
  <1>5. outbox'[r] = NoRow
    <2>1. CASE \E q \in Requests : Send(q) \/ Expire(q)
      BY <1>1, <1>2, <1>3, <2>1 DEF Send, Expire
    <2>2. CASE \E q \in Requests : CancelUpload(q)
      BY <1>1, <1>3, <2>2, OutcomeFacts DEF CancelUpload, Unanswered
    <2>3. CASE Reconnect
      <3>1. job.kind = "send" => job.request \in Requests
        BY <1>1, LaneFacts DEF NoJob
      <3> QED BY <1>1, <1>3, <2>3, <3>1, OutcomeFacts DEF Reconnect, Unanswered
    <2>4. CASE JobDone
      <3>1. job.request \in Requests
        BY <1>1, <2>4, LaneFacts DEF JobDone, NoJob
      <3>2. CASE Record(job.request)
        BY <1>1, <1>3, <3>1, <3>2, RecordFacts
      <3>3. CASE ~Record(job.request)
        <4>1. outbox' = outbox \/ \E state \in Unanswered :
                                      outbox' = Outcome(outbox, job.request, state)
          BY <2>4, <3>3 DEF JobDone, Unanswered
        <4> QED BY <1>1, <1>3, <3>1, <4>1, OutcomeFacts
      <3> QED BY <3>2, <3>3
    <2>5. CASE UploadEnds \/ UploadBreaks \/ Submit
      <3>1. upload.request \in Requests
        <4>1. upload.answer # "none"
          BY <2>5 DEF UploadEnds, UploadBreaks, Submit
        <4> QED BY <1>1, <4>1, LaneFacts DEF NoUpload
      <3>2. CASE Record(upload.request)
        BY <1>1, <1>3, <3>1, <3>2, RecordFacts
      <3>3. CASE ~Record(upload.request)
        <4>1. \E state \in Unanswered : outbox' = Outcome(outbox, upload.request, state)
          BY <2>5, <3>3 DEF UploadEnds, UploadBreaks, Submit, Unanswered
        <4> QED BY <1>1, <1>3, <3>1, <4>1, OutcomeFacts
      <3> QED BY <3>2, <3>3
    <2>6. CASE \E q \in Requests : Event(q)
      <3>1. PICK q \in Requests : Record(q)
        BY <2>6 DEF Event
      <3> QED BY <1>1, <1>3, <3>1, RecordFacts
    <2> QED BY <1>3, <2>1, <2>2, <2>3, <2>4, <2>5, <2>6, OutboxKept
  <1>6. job'.request # r
    <2>1. CASE \E q \in Requests : Recover(q)
      BY <1>3, <2>1 DEF Recover, UncertainTexts
    <2>2. CASE \E q \in Requests : Send(q)
      BY <1>1, <1>2, <1>3, <2>2 DEF Send, NoJob
    <2>3. CASE Reconnect \/ JobDone \/ Restart
      BY <1>1, <2>3 DEF Reconnect, JobDone, Restart, NoJob
    <2>4. CASE ServeJob \/ LoseJob
      <3>1. \E a : job' = [job EXCEPT !.answer = a]
        BY <2>4 DEF ServeJob, LoseJob
      <3> QED BY <1>1, <1>3, <3>1 DEF Job
    <2> QED BY <1>3, <2>1, <2>2, <2>3, <2>4, JobKept
  <1>7. upload'.request # r
    <2>1. CASE \E q \in Requests : StartUpload(q)
      BY <1>3, <2>1 DEF StartUpload
    <2>2. CASE upload' = NoUpload \/ upload' = upload
      BY <1>1, <1>3, <2>2 DEF NoUpload
    <2>3. CASE \/ Reconnect \/ Disconnect \/ JobDone \/ UploadEnds \/ UploadBreaks \/ Restart
               \/ \E q \in Requests : CancelUpload(q)
      BY <2>2, <2>3 DEF Reconnect, Disconnect, JobDone, Offline, UploadEnds, UploadBreaks,
                        Restart, CancelUpload
    <2>4. CASE Reserve \/ Transfer \/ Submit
      <3>1. upload'.request = upload.request
        BY <1>1, <2>4 DEF Reserve, Transfer, Submit, Ask, Attempt
      <3> QED BY <1>3, <3>1
    <2>5. CASE ServeUpload \/ LoseUpload
      <3>1. \E a : upload' = [upload EXCEPT !.answer = a]
        BY <2>5 DEF ServeUpload, LoseUpload
      <3> QED BY <1>1, <1>3, <3>1 DEF Attempt
    <2> QED BY <2>1, <2>2, <2>3, <2>4, <2>5, UploadKept
  <1> QED BY <1>4, <1>5, <1>6, <1>7

-----------------------------------------------------------------------------
(* The theorems.                                                            *)

\* The strengthened invariant: types, files of tasks, owners of originals, the
\* quota, and what was posted.
THEOREM OutboxInvariance == Spec => []Invariant
  <1>1. Init => Invariant
    <2> SUFFICES ASSUME Init
                 PROVE  Invariant
      OBVIOUS
    <2>1. /\ "none" \notin Requests /\ "draft" \notin Requests /\ TaskLimit \in Nat
          /\ MaxStored \in Nat /\ NoRequest \notin Requests
      BY OutboxAssumption DEF OutboxAssumption
    <2>2. /\ <<>> \in Seq(Pending) /\ <<>> \in Seq(Task) /\ Len(<<>>) = 0
      BY EmptySeq
    <2>3. NoRow \in Row /\ NoJob \in Job /\ NoUpload \in Attempt /\ NoTask \in Task
      BY DEF NoRow, Row, NoJob, Job, NoUpload, Attempt, NoTask, Task
    <2>4. TypeInv
      BY <2>2, <2>3, FS_EmptySet DEF Init, TypeInv, Prep
    <2>5. FreshRequests
      BY <2>1 DEF Init, FreshRequests, NoJob, NoUpload
    <2>6. FreshFiles /\ StageInv
      BY <2>2 DEF Init, FreshFiles, StageInv
    <2>7. OwnerInv /\ PostInv
      BY <2>1 DEF Init, OwnerInv, PostInv, Owned, NoRow
    <2>8. JobInv /\ LaneInv
      BY DEF Init, JobInv, LaneInv
    <2>9. QuotaInv
      <3>1. Rows = {}
        BY DEF Init, Rows
      <3> QED BY <2>1, <3>1, FS_EmptySet DEF Init, QuotaInv
    <2>10. Busy <= TaskLimit
      BY <2>1, <2>2 DEF Init, Busy
    <2> QED BY <2>4, <2>5, <2>6, <2>7, <2>8, <2>9, <2>10 DEF Invariant
  <1>2. Invariant /\ [Next]_vars => Invariant'
    <2>1. CASE Invariant /\ Next
      <3>1. TypeInv'
        BY OutboxAssumption, <2>1, LedgerStep, ThreadStep, OutboxStep, JobStep, LaneStep,
           RelayStep, StoreStep, LateStep, PostsStep, UsedStep DEF TypeInv
      <3>2. (Busy <= TaskLimit)'
        BY OutboxAssumption, <2>1, ThreadStep
      <3>3. FreshRequests' /\ FreshFiles' /\ StageInv'
        BY OutboxAssumption, <2>1, FreshStep, StageStep
      <3>4. OwnerInv' /\ PostInv' /\ QuotaInv'
        BY OutboxAssumption, <2>1, OwnerStep, PostStep, QuotaStep
      <3>5. JobInv' /\ LaneInv'
        BY OutboxAssumption, <2>1, JobStep, LaneStep
      <3> QED BY <3>1, <3>2, <3>3, <3>4, <3>5 DEF Invariant
    <2>2. CASE Invariant /\ UNCHANGED vars
      BY <2>2 DEF Invariant, TypeInv, FreshRequests, FreshFiles, StageInv, OwnerInv, PostInv,
                  JobInv, LaneInv, QuotaInv, Owned, Rows, Busy, vars
    <2> QED BY <2>1, <2>2
  <1> QED BY <1>1, <1>2, PTL DEF Spec

\* A message is submitted at most once, and never after its upload was cancelled,
\* whatever is lost and whenever the client dies.  (Upload.poll, uploadFiles,
\* schedule, .cancel_upload)
THEOREM NeverPostedTwice == Spec => []PostedOnce
  <1>1. Invariant => PostedOnce
    <2> SUFFICES ASSUME Invariant, NEW r \in Requests
                 PROVE  posts[r] <= (IF outbox[r].state = "cancelled" THEN 0 ELSE 1)
      BY DEF PostedOnce
    <2> QED BY DEF Invariant, PostInv
  <1> QED BY <1>1, OutboxInvariance, PTL

\* The originals of drafts and requests are on disk, found from their row, and
\* owned while the attachment lane reads them.  (stage, collect, expireUnknown,
\* Files.open)
THEOREM OriginalsOnDisk == Spec => []OriginalsKept
  <1>1. Invariant => OriginalsKept
    <2> SUFFICES ASSUME Invariant
                 PROVE  OriginalsKept
      OBVIOUS
    <2>1. /\ TypeInv /\ JobInv /\ LaneInv /\ OwnerInv /\ PostInv
      BY DEF Invariant
    <2>2. ASSUME upload.phase = "transfer"
          PROVE  ledger[Current] = upload.request
      <3>1. upload # NoUpload
        BY <2>2 DEF NoUpload
      <3>2. /\ upload.request \in Requests /\ Current \in upload.left
            /\ upload.left \subseteq outbox[upload.request].files
            /\ posts[upload.request] = 0
        BY <2>1, <2>2, <3>1, LaneFacts DEF LaneInv
      <3>3. relay[upload.request] # "delivered"
        BY <2>1, <3>2 DEF PostInv
      <3> QED BY <2>1, <3>2, <3>3 DEF OwnerInv
    <2> QED BY <2>1, <2>2 DEF OwnerInv, OriginalsKept
  <1> QED BY <1>1, OutboxInvariance, PTL

\* The ledger keeps its limit, and every byte on disk has a row, is being copied or
\* will be collected at startup.  (checkAdd, addDraft, collect)
THEOREM DiskInLedger == Spec => []DiskAccounted
  <1>1. Invariant => DiskAccounted
    BY DEF Invariant, QuotaInv, DiskAccounted
  <1> QED BY <1>1, OutboxInvariance, PTL

=============================================================================
