------------------------------ MODULE Uploads ------------------------------
(***************************************************************************)
(* The relay's staging area for outgoing files.  A device reserves an        *)
(* upload, streams its bytes with PUT, and names it in a send request, which  *)
(* pins it.  A row of table uploads and a directory on disk are kept in step   *)
(* by three kinds of threads: HTTP connections (one stream per PUT), the       *)
(* ingest thread's cleanup pass, and send requests.                            *)
(*                                                                         *)
(*   src/relay/uploads.zig           the ledger: one critical section of the   *)
(*                                   Core mutex per operation                *)
(*   src/relay/uploads/Files.zig, uploads.c   directories, outside the mutex   *)
(*   src/relay/Server/uploads.zig, Request.zig   the life of one PUT         *)
(*   src/relay/Core.zig              cleanupUploads, releaseUpload           *)
(*                                                                         *)
(* A file's name, length and hash are one descriptor; the bytes a client      *)
(* sends are the descriptor they would verify as.  A refused request leaves    *)
(* the ledger alone and has no action, except that a refused PUT keeps its    *)
(* permit until its stream closes.  Definitions named Mut... are plausible     *)
(* mistakes in the definition that follows them and belong to no specification.*)
(***************************************************************************)
EXTENDS Naturals, FiniteSets, Functions, FiniteSetsExt

CONSTANTS
    Ids,             \* upload identifiers
    Owners,          \* certificate fingerprints of devices
    NoOwner,
    Descriptors,     \* attachments.Upload without its identifier
    NoDescriptor,    \* no file, or no row
    SizeOf,          \* [Descriptors -> Nat]: declared bytes
    Requests,        \* send requests
    NoRequest,
    Streams,         \* HTTP/2 streams with a PUT
    NoId,
    MaxReservations, \* max_reservations, and the slots of upload_releases
    MaxBytes,        \* max_reserved_bytes
    MaxUploads,      \* permits of Server.uploads_active
    CleanupBatch,    \* uploads one cleanup pass removes
    Lifetime,        \* unused_lifetime_ms
    MaxNow,          \* bound: clock
    MaxEpoch,        \* bound: journal resets
    MaxToken,        \* bound: writer leases
    FaultKinds,      \* the faults that may happen
    MaxFaults        \* bound: number of faults

ASSUME UploadsAssumption ==
    /\ IsFiniteSet(Ids)      \* validId: 128 bits
    /\ NoOwner \notin Owners
    /\ NoDescriptor \notin Descriptors
    /\ NoRequest \notin Requests
    /\ NoId \notin Ids
    /\ SizeOf \in [Descriptors -> Nat]
    /\ {MaxReservations, MaxBytes, MaxUploads, CleanupBatch, Lifetime,
        MaxNow, MaxEpoch, MaxToken, MaxFaults} \subseteq Nat
    /\ MaxEpoch > 0          \* there is a first epoch

VARIABLES
    epoch,    \* relay_meta.epoch, numbered from 1
    row,      \* table uploads, by id
    dir,      \* the private directory of each id
    stream,   \* Request.upload, the PUT of each stream
    queue,    \* Core.upload_releases
    cleaner,  \* what cleanupUploads is doing
    tokens,   \* leases handed out
    now,      \* wall clock
    faults    \* faults so far

vars == <<epoch, row, dir, stream, queue, cleaner, tokens, now, faults>>

Phase == {"none", "reserved", "receiving", "ready", "pinned", "deleting"}

\* "claimed": a lease and no transfer yet; "failed": a transfer whose request
\* is rejected; "closing": files closed, lease not released; "answered": a
\* permit and no lease.
StreamState == {"idle", "answered", "claimed", "receiving", "sealed",
                "failed", "published", "closing"}

Row == [phase: Phase, owner: Owners \cup {NoOwner}, epoch: 0..MaxEpoch,
        file: Descriptors \cup {NoDescriptor}, lease: 0..MaxToken,
        created: 0..MaxNow, request: Requests \cup {NoRequest}]

NoRow == [phase |-> "none", owner |-> NoOwner, epoch |-> 0,
          file |-> NoDescriptor, lease |-> 0, created |-> 0,
          request |-> NoRequest]

\* A directory belongs to the transfer that created it (a descriptor opened on
\* an earlier directory of the same name no longer reaches it).  "bytes" is
\* what its files may grow to.
Directory == [by: 0..MaxToken, temporary: BOOLEAN,
              file: Descriptors \cup {NoDescriptor}, bytes: Nat]

NoDirectory == [by |-> 0, temporary |-> FALSE, file |-> NoDescriptor,
                bytes |-> 0]

\* The lease a stream holds, the file it was reserved for, the bytes sent.
Upload == [state: StreamState, id: Ids \cup {NoId},
           epoch: 0..MaxEpoch, token: 0..MaxToken,
           file: Descriptors \cup {NoDescriptor},
           body: Descriptors \cup {NoDescriptor}]

Idle == [state |-> "idle", id |-> NoId, epoch |-> 0, token |-> 0,
         file |-> NoDescriptor, body |-> NoDescriptor]

Release == [id: Ids, epoch: 1..MaxEpoch, token: 1..MaxToken]

\* The one type invariant.
TypeOK ==
    /\ epoch \in 1..MaxEpoch
    /\ row \in [Ids -> Row]
    /\ dir \in [Ids -> Directory]
    /\ stream \in [Streams -> Upload]
    /\ queue \subseteq Release
    /\ cleaner \in [ids: SUBSET Ids, purging: Ids \cup {NoId}]
    /\ tokens \in 0..MaxToken
    /\ now \in 0..MaxNow
    /\ faults \in 0..MaxFaults

Init ==
    /\ epoch = 1
    /\ row = [id \in Ids |-> NoRow]
    /\ dir = [id \in Ids |-> NoDirectory]
    /\ stream = [s \in Streams |-> Idle]
    /\ queue = {}
    /\ cleaner = [ids |-> {}, purging |-> NoId]
    /\ tokens = 0
    /\ now = 0
    /\ faults = 0

Fault(kind) ==
    /\ kind \in FaultKinds
    /\ faults < MaxFaults
    /\ faults' = faults + 1

NoFault == faults' = faults

-----------------------------------------------------------------------------
(* The ledger. *)

Rows == {id \in Ids : row[id].phase # "none"}

UsedBytes == SumFunctionOnSet([id \in Rows |-> SizeOf[row[id].file]], Rows)

\* Room for one more reservation of this file.
HasQuota(file) ==
    /\ Cardinality(Rows) < MaxReservations
    /\ UsedBytes + SizeOf[file] <= MaxBytes

\* lookup: the row another operation of this device may work on.
Visible(owner, id) ==
    /\ row[id].phase \notin {"none", "deleting"}
    /\ row[id].owner = owner
    /\ row[id].epoch = epoch

\* reserve of an id without a row; any other reserve reads or is refused.
Reserve(owner, id, file) ==
    /\ row[id].phase = "none"
    /\ HasQuota(file)
    /\ row' = [row EXCEPT ![id] =
                 [phase |-> "reserved", owner |-> owner, epoch |-> epoch,
                  file |-> file, lease |-> 0, created |-> now,
                  request |-> NoRequest]]
    /\ UNCHANGED <<epoch, dir, stream, queue, cleaner, tokens, now, faults>>

MayCancel(id) == row[id].phase \in {"reserved", "ready"}

\* cancel (DELETE).
Cancel(owner, id) ==
    /\ Visible(owner, id)
    /\ MayCancel(id)
    /\ row' = [row EXCEPT ![id].phase = "deleting"]
    /\ UNCHANGED <<epoch, dir, stream, queue, cleaner, tokens, now, faults>>

\* pin, in the transaction that accepts a request with these files.
Pin(owner, request, ids) ==
    /\ \A id \in Ids : row[id].request # request
    /\ \A id \in ids : Visible(owner, id) /\ row[id].phase = "ready"
    /\ row' = [id \in Ids |-> IF id \in ids
                              THEN [row[id] EXCEPT !.phase = "pinned",
                                                   !.request = request]
                              ELSE row[id]]
    /\ UNCHANGED <<epoch, dir, stream, queue, cleaner, tokens, now, faults>>

\* releasePart: the request no longer needs the original.
ReleasePart(request, id) ==
    /\ row[id].phase = "pinned"
    /\ row[id].request = request
    /\ row' = [row EXCEPT ![id].phase = "deleting"]
    /\ UNCHANGED <<epoch, dir, stream, queue, cleaner, tokens, now, faults>>

\* Journal.reset moves the epoch and leaves the uploads alone.
Reset ==
    /\ epoch < MaxEpoch
    /\ epoch' = epoch + 1
    /\ UNCHANGED <<row, dir, stream, queue, cleaner, tokens, now, faults>>

\* Whether the writer of this lease still holds the row.
MutHolds(r, lease) ==
    /\ row[r].epoch = lease.epoch
    /\ row[r].lease = lease.token
    /\ row[r].phase \in {"receiving", "ready"}

Holds(r, lease) ==
    /\ row[r].epoch = lease.epoch
    /\ row[r].lease = lease.token
    /\ row[r].phase = "receiving"

\* Release.apply of a set of leases.
Released(leases) ==
    [id \in Ids |-> IF \E l \in leases : l.id = id /\ Holds(id, l)
                    THEN [row[id] EXCEPT !.phase = "reserved"]
                    ELSE row[id]]

-----------------------------------------------------------------------------
(* One PUT. *)

\* Server.uploads_active: every PUT past its header checks has a permit.
Active == Cardinality({s \in Streams : stream[s].state # "idle"})

MutMayClaim(id) == row[id].phase \in {"reserved", "receiving"}

MayClaim(id) == row[id].phase = "reserved"

\* begin: claim the one writer of the upload, whose length must be the declared
\* one.
PutClaim(s, owner, id, body) ==
    /\ stream[s].state = "idle"
    /\ Active < MaxUploads
    /\ Visible(owner, id)
    /\ SizeOf[body] = SizeOf[row[id].file]
    /\ MayClaim(id)
    /\ tokens < MaxToken
    /\ tokens' = tokens + 1
    /\ row' = [row EXCEPT ![id].phase = "receiving", ![id].lease = tokens + 1]
    /\ stream' = [stream EXCEPT ![s] =
                    [state |-> "claimed", id |-> id, epoch |-> epoch,
                     token |-> tokens + 1, file |-> row[id].file,
                     body |-> body]]
    /\ UNCHANGED <<epoch, dir, queue, cleaner, now, faults>>

\* begin: refused, or the retry of a completed PUT, answered without writing.
PutAnswer(s) ==
    /\ stream[s].state = "idle"
    /\ Active < MaxUploads
    /\ stream' = [stream EXCEPT ![s].state = "answered"]
    /\ UNCHANGED <<epoch, row, dir, queue, cleaner, tokens, now, faults>>

\* Files.begin, outside the mutex: replace what an earlier transfer left by a
\* new directory with one temporary file.  Failing, it may have come anywhere.
PutOpen(s) ==
    LET up == stream[s]
        opened == [by |-> up.token, temporary |-> TRUE,
                   file |-> NoDescriptor, bytes |-> SizeOf[up.file]]
    IN  /\ up.state = "claimed"
        /\ \/ /\ dir' = [dir EXCEPT ![up.id] = opened]
              /\ stream' = [stream EXCEPT ![s].state = "receiving"]
              /\ NoFault
           \/ /\ Fault("io")
              /\ \E left \in {dir[up.id], NoDirectory,
                              [opened EXCEPT !.temporary = FALSE]} :
                    dir' = [dir EXCEPT ![up.id] = left]
              /\ stream' = [stream EXCEPT ![s].state = "closing"]
        /\ UNCHANGED <<epoch, row, queue, cleaner, tokens, now>>

MutVerified(up) == TRUE

\* seal's checks: the bytes received are the ones the reservation describes.
Verified(up) == up.body = up.file

\* A transfer reaches its files through the directory it created.
Reaches(up) == dir[up.id].by = up.token

\* handle: the body has ended; verify, fsync, rename, fsync, outside the mutex.
PutSeal(s) ==
    LET up == stream[s]
        installed == IF Reaches(up)
                     THEN [dir EXCEPT ![up.id].temporary = FALSE,
                                      ![up.id].file = up.body]
                     ELSE dir
    IN  /\ up.state = "receiving"
        /\ \/ /\ Verified(up)
              /\ Reaches(up)
              /\ dir' = installed
              /\ stream' = [stream EXCEPT ![s].state = "sealed"]
              /\ NoFault
           \/ /\ ~Verified(up)
              /\ stream' = [stream EXCEPT ![s].state = "failed"]
              /\ UNCHANGED dir
              /\ NoFault
           \/ /\ Fault("io")
              /\ dir' \in {dir, installed}   \* the rename may have happened
              /\ stream' = [stream EXCEPT ![s].state = "failed"]
        /\ UNCHANGED <<epoch, row, queue, cleaner, tokens, now>>

\* The request is rejected meanwhile: a write fails, too many bytes, the
\* certificate has expired.
PutReject(s) ==
    /\ stream[s].state \in {"receiving", "sealed"}
    /\ stream' = [stream EXCEPT ![s].state = "failed"]
    /\ UNCHANGED <<epoch, row, dir, queue, cleaner, tokens, now, faults>>

\* handle: complete under the mutex, then publish.
PutComplete(s) ==
    LET up == stream[s]
        done == up.epoch = epoch /\ Holds(up.id, up)
    IN  /\ up.state = "sealed"
        /\ \/ /\ done
              /\ row' = [row EXCEPT ![up.id].phase = "ready"]
              /\ stream' = [stream EXCEPT ![s].state = "published"]
              /\ NoFault
           \/ /\ \/ ~done /\ NoFault
                 \/ Fault("db")
              /\ stream' = [stream EXCEPT ![s].state = "failed"]
              /\ UNCHANGED row
        /\ UNCHANGED <<epoch, dir, queue, cleaner, tokens, now>>

\* Transfer.deinit unlinks what was not published.
LeavesFiles(up) == up.state = "published"

\* The stream closes, for whatever reason; closed calls Request.deinit, whose
\* first half closes the transfer.
PutClose(s) ==
    LET up == stream[s]
    IN  /\ up.state \in {"receiving", "sealed", "failed", "published"}
        /\ stream' = [stream EXCEPT ![s].state = "closing"]
        /\ \/ /\ dir' = IF LeavesFiles(up) \/ ~Reaches(up) THEN dir
                        ELSE [dir EXCEPT ![up.id].temporary = FALSE,
                                         ![up.id].file = NoDescriptor]
              /\ NoFault
           \/ /\ Fault("io")                 \* unlinkat's result is ignored
              /\ UNCHANGED dir
        /\ UNCHANGED <<epoch, row, queue, cleaner, tokens, now>>

\* deinit's second half, under the mutex: releaseUpload, of a published upload
\* too.  A release that fails waits for the cleanup pass.  With no slot left
\* the code is at "unreachable": the process panics, which is Crash.
PutRelease(s) ==
    LET up == stream[s]
        lease == [id |-> up.id, epoch |-> up.epoch, token |-> up.token]
    IN  /\ up.state = "closing"
        /\ stream' = [stream EXCEPT ![s] = Idle]
        /\ \/ /\ row' = Released({lease})
              /\ UNCHANGED queue
              /\ NoFault
           \/ /\ Fault("db")
              /\ Cardinality(queue) < MaxReservations
              /\ queue' = queue \cup {lease}
              /\ UNCHANGED row
        /\ UNCHANGED <<epoch, dir, cleaner, tokens, now>>

\* deinit of a request without lease.
PutAnswered(s) ==
    /\ stream[s].state = "answered"
    /\ stream' = [stream EXCEPT ![s] = Idle]
    /\ UNCHANGED <<epoch, row, dir, queue, cleaner, tokens, now, faults>>

-----------------------------------------------------------------------------
(* The cleanup pass of the ingest thread. *)

\* expire: what no send can use any more, of the rows as they are in table.
Expired(table, id) ==
    /\ table[id].phase \in {"reserved", "ready"}
    /\ \/ table[id].created + Lifetime < now
       \/ table[id].epoch # epoch

Retired(table) ==
    [id \in Ids |-> IF Expired(table, id)
                    THEN [table[id] EXCEPT !.phase = "deleting"]
                    ELSE table[id]]

\* The rows one pass will remove: LIMIT without order.
Snapshots(table) ==
    LET deleting == {id \in Ids : table[id].phase = "deleting"}
    IN  IF Cardinality(deleting) <= CleanupBatch THEN {deleting}
        ELSE kSubset(CleanupBatch, deleting)

MutRetried(failed) == {}

\* The queued releases a pass gets applied.
Retried(failed) == queue \ failed

\* First critical section: retry the failed releases, expire, snapshot.
CleanBegin ==
    /\ cleaner.ids = {}
    /\ \E failed \in SUBSET queue :
          LET freed == Released(Retried(failed))
              table == Retired(freed)
          IN  \/ /\ IF failed = {} THEN NoFault ELSE Fault("db")
                 /\ queue' = failed
                 /\ row' = table
                 /\ \E ids \in Snapshots(table) :
                       cleaner' = [ids |-> ids, purging |-> NoId]
              \/ /\ Fault("db")              \* expire or the query fails
                 /\ queue' = failed
                 /\ row' \in {freed, table}
                 /\ UNCHANGED cleaner
    /\ UNCHANGED <<epoch, dir, stream, tokens, now>>

MutPurges(removed) == TRUE

\* Quota is given back only for a directory that is gone.
Purges(removed) == removed

\* Outside the mutex: files.remove of the next id of the snapshot.
CleanRemove(id) ==
    /\ cleaner.purging = NoId
    /\ id \in cleaner.ids
    /\ \E removed \in BOOLEAN :
          /\ IF removed THEN NoFault ELSE Fault("io")
          /\ IF removed THEN dir' = [dir EXCEPT ![id] = NoDirectory]
             ELSE dir' \in {dir, [dir EXCEPT ![id].temporary = FALSE,
                                             ![id].file = NoDescriptor]}
          /\ cleaner' = IF Purges(removed)
                        THEN [cleaner EXCEPT !.purging = id]
                        ELSE [cleaner EXCEPT !.ids = @ \ {id}]
    /\ UNCHANGED <<epoch, row, stream, queue, tokens, now>>

\* Second critical section, once per removed directory.
CleanPurge ==
    LET id == cleaner.purging
    IN  /\ id # NoId
        /\ \/ /\ row' = IF row[id].phase = "deleting"
                        THEN [row EXCEPT ![id] = NoRow] ELSE row
              /\ cleaner' = [ids |-> cleaner.ids \ {id}, purging |-> NoId]
              /\ NoFault
           \/ /\ Fault("db")                 \* the pass ends with the error
              /\ cleaner' = [ids |-> {}, purging |-> NoId]
              /\ UNCHANGED row
    /\ UNCHANGED <<epoch, dir, stream, queue, tokens, now>>

-----------------------------------------------------------------------------
\* Files.recover keeps the directories of completed uploads.
Survives(id) == row[id].phase \in {"ready", "pinned"}

\* The process dies and starts again: recover runs before any thread or
\* connection, so nothing sees it half done, and a crash within it is another.
Crash ==
    /\ Fault("crash")
    /\ stream' = [s \in Streams |-> Idle]
    /\ queue' = {}
    /\ cleaner' = [ids |-> {}, purging |-> NoId]
    /\ dir' = [id \in Ids |-> IF Survives(id) THEN dir[id] ELSE NoDirectory]
    /\ row' = [id \in Ids |-> IF row[id].phase = "receiving"
                              THEN [row[id] EXCEPT !.phase = "reserved"]
                              ELSE row[id]]
    /\ UNCHANGED <<epoch, tokens, now>>

Tick ==
    /\ now < MaxNow
    /\ now' = now + 1
    /\ UNCHANGED <<epoch, row, dir, stream, queue, cleaner, tokens, faults>>

Ledger ==
    \/ \E o \in Owners, id \in Ids, f \in Descriptors : Reserve(o, id, f)
    \/ \E o \in Owners, id \in Ids : Cancel(o, id)
    \/ \E o \in Owners, r \in Requests, ids \in SUBSET Ids :
          ids # {} /\ Pin(o, r, ids)
    \/ \E r \in Requests, id \in Ids : ReleasePart(r, id)
    \/ Reset

Put(s) ==
    \/ \E o \in Owners, id \in Ids, b \in Descriptors : PutClaim(s, o, id, b)
    \/ PutAnswer(s)
    \/ PutOpen(s)
    \/ PutSeal(s)
    \/ PutReject(s)
    \/ PutComplete(s)
    \/ PutClose(s)
    \/ PutRelease(s)
    \/ PutAnswered(s)

CleanupUploads ==
    \/ CleanBegin
    \/ \E id \in Ids : CleanRemove(id)
    \/ CleanPurge

Next ==
    \/ Ledger
    \/ \E s \in Streams : Put(s)
    \/ CleanupUploads
    \/ Crash
    \/ Tick

Spec == Init /\ [][Next]_vars

\* The ingest loop runs a pass every second; a stream is closed by its peer or
\* by its deadline, and its thread then finishes deinit.
FairSpec ==
    /\ Spec
    /\ WF_vars(CleanupUploads)
    /\ WF_vars(Tick)
    /\ \A s \in Streams :
          WF_vars(PutOpen(s) \/ PutClose(s) \/ PutRelease(s) \/ PutAnswered(s))

-----------------------------------------------------------------------------
(* Properties. *)

\* An upload that answers as complete, or that a send has pinned, has its
\* verified bytes on disk: whatever closes, fails, crashes or is cleaned up
\* around it, dispatch will find the original it was promised.
ReadyHasFile ==
    \A id \in Ids : row[id].phase \in {"ready", "pinned"} =>
        dir[id].file = row[id].file

\* Two streams never write the same upload's directory, even if a lease was
\* abandoned, retried by the cleanup pass and handed out again.
OneWriter ==
    \A s, z \in Streams :
        /\ stream[s].state \in {"claimed", "receiving", "sealed"}
        /\ stream[z].state \in {"claimed", "receiving", "sealed"}
        /\ stream[s].id = stream[z].id
        => s = z

\* What lies on disk, leftovers of failed transfers included, stays within the
\* quota that was given out.
DiskWithinQuota ==
    SumFunctionOnSet([id \in Ids |-> dir[id].bytes], Ids) <= MaxBytes

\* A completed upload is never reopened for writing: late releases, stale
\* leases and cleanup can only pin it or retire it, and a pinned one leaves its
\* send only to be retired.
CompletedStays ==
    [][\A id \in Ids :
          /\ row[id].phase = "ready"
                => row'[id].phase \in {"ready", "pinned", "deleting"}
          /\ row[id].phase = "pinned"
                => row'[id].phase \in {"pinned", "deleting"}]_vars

\* Uploads nobody sends are all given back in the end: transfers that die,
\* releases that fail and removals that fail are retried, and no upload keeps
\* another from its turn.
Overdue ==
    \E id \in Ids : /\ row[id].phase \notin {"none", "pinned"}
                     /\ row[id].created + Lifetime < MaxNow
Reclaimed == Overdue ~> ~Overdue

\* The claim of releaseUpload's last comment: a stream whose lease is still to
\* be released finds a free slot should the release fail.
ReleaseHasSlot ==
    (\E s \in Streams : stream[s].state = "closing")
        => Cardinality(queue) < MaxReservations
=============================================================================
