-------------------------------- MODULE Sync --------------------------------
(***************************************************************************)
(* How a client's cache follows the relay's journal: bootstrap from paged    *)
(* directories, then replay of the event stream from a saved cursor.         *)
(*                                                                         *)
(*   src/relay/Journal.zig   one event per revision, pruning, reset          *)
(*   src/relay/Server.zig    /v1/status, sync, conversations, identities,     *)
(*                           events; each request one critical section       *)
(*   src/client/Worker.zig   one thread: at most one request (job) and one    *)
(*                           event stream at a time                          *)
(*   src/client/Store.zig    the durable cache; one transaction per page      *)
(*                           and per delivery of the stream                  *)
(*                                                                         *)
(* A revision is the sequence number of the event that announced it.  A       *)
(* record is its identifier and revision; identifiers of different epochs     *)
(* differ, so the cache is indexed by epoch.  Definitions named Mut... are     *)
(* plausible mistakes in the definition that follows them.                   *)
(***************************************************************************)
EXTENDS Naturals, Sequences, FiniteSets, FiniteSetsExt

CONSTANTS
    Chats,       \* conversation identifiers, numbered in key order
    Identities,  \* contact identifiers, numbered in key order
    Messages,    \* identifiers of incoming messages, all of one conversation
    Top,         \* the key "~" above every identifier
    PageSize,    \* records per directory page
    Batch,       \* events per replay query
    MaxEpoch,    \* bound: relay resets
    MaxEvents,   \* bound: events of one epoch
    FaultKinds,  \* the faults and user interruptions that may happen
    MaxFaults    \* bound: how many of them

Directory == Chats \cup Identities
Records == Directory \cup Messages

ASSUME SyncAssumption ==
    /\ Records \subseteq Nat \ {0}
    /\ Chats \cap Identities = {}
    /\ Directory \cap Messages = {}
    /\ IsFiniteSet(Messages)
    /\ Top \in Nat
    /\ \A d \in Directory : d < Top
    /\ {PageSize, Batch, MaxEpoch} \subseteq Nat \ {0}
    /\ {MaxEvents, MaxFaults} \subseteq Nat

NoKey == 0
Epochs == 1..MaxEpoch

VARIABLES
    epoch,      \* relay_meta.epoch, numbered from 1
    logs,       \* table events by epoch, with what was pruned or reset away
    pruned,     \* relay_meta.pruned_through
    cEpoch,     \* meta.epoch of the client, 0 before its first sync
    cursor,     \* meta.cursor: sequence number in epoch cEpoch
    booted,     \* meta.bootstrapped
    cache,      \* cached revision of each record by epoch, 0 if none
    seen,       \* table live_seen: messages by epoch
    unread,     \* table unread
    job,        \* Worker.job: the request under way
    stream,     \* the event stream, both ends and what is between
    online,     \* Worker.online
    needSync,   \* Worker.need_sync
    before,     \* Worker.identities_before
    blocked,    \* Worker.auth_blocked
    viewed,     \* Worker.viewed
    base,       \* ghost: cursor at the last beginSync
    notified,   \* ghost: desktop notifications of each message by epoch
    faults      \* faults so far

relayVars == <<epoch, logs, pruned>>
storeVars == <<cEpoch, cursor, booted, cache, seen, unread, base>>
workerVars == <<job, stream, online, needSync, before, blocked, viewed>>
vars == <<relayVars, storeVars, workerVars, notified, faults>>

JobKind == {"idle", "status", "sync", "chats", "identities", "send"}
StreamState == {"none", "opening", "open", "refused", "closed"}

\* epoch and at: the relay's epoch and sequence when it answered.
Job == [kind: JobKind, key: 0..Top, epoch: 0..MaxEpoch, at: 0..MaxEvents]
Stream == [state: StreamState, epoch: 0..MaxEpoch, sent: 0..MaxEvents,
           wire: Seq(1..MaxEvents)]

Ask(kind, key) == [kind |-> kind, key |-> key, epoch |-> 0, at |-> 0]
Idle == Ask("idle", NoKey)
NoStream == [state |-> "none", epoch |-> 0, sent |-> 0, wire |-> <<>>]

Log == logs[epoch]

\* The sequence number of the last event of record d among the first n, or 0.
RevisionAt(e, n, d) ==
    Max({0} \cup {i \in 1..n : logs[e][i].id = d})

Init ==
    /\ epoch = 1
    /\ logs = [e \in Epochs |-> <<>>]
    /\ pruned = 0
    /\ cEpoch = 0
    /\ cursor = 0
    /\ booted = FALSE
    /\ cache = [e \in Epochs |-> [d \in Directory |-> 0]]
    /\ seen = [e \in Epochs |-> {}]
    /\ unread = 0
    /\ job = Idle
    /\ stream = NoStream
    /\ online = FALSE
    /\ needSync = FALSE
    /\ before = NoKey
    /\ blocked = FALSE
    /\ viewed = FALSE
    /\ base = 0
    /\ notified = [e \in Epochs |-> [m \in Messages |-> 0]]
    /\ faults = 0

Fault(kind) ==
    /\ kind \in FaultKinds
    /\ faults < MaxFaults
    /\ faults' = faults + 1

-----------------------------------------------------------------------------
(* The relay.  A record's change takes the next sequence number and appends   *)
(* one event in the transaction that writes the record.                      *)

AppendEvent(d, live) ==
    /\ Len(Log) < MaxEvents
    /\ logs' = [logs EXCEPT ![epoch] = Append(@, [id |-> d, live |-> live])]
    /\ UNCHANGED <<epoch, pruned, storeVars, workerVars, notified, faults>>

\* Every revision of a conversation that changes its content.
PublishConversation(d) == AppendEvent(d, FALSE)

\* The origin of a message's event says whether it arrived live; a later
\* revision of it may be live again.
PublishMessage(m, live) == AppendEvent(m, live)

\* A new address, or a contact card that changed.
PublishIdentity(d) == AppendEvent(d, FALSE)

\* Events go by age and by number, so any prefix may.
Prune(cut) ==
    /\ pruned < cut
    /\ cut <= Len(Log)
    /\ pruned' = cut
    /\ UNCHANGED <<epoch, logs, storeVars, workerVars, notified, faults>>

\* The source database changed, or some client asked for it.
Reset ==
    /\ epoch < MaxEpoch
    /\ epoch' = epoch + 1
    /\ pruned' = 0
    /\ UNCHANGED <<logs, storeVars, workerVars, notified, faults>>

\* checkCursor, of a cursor of epoch e.
CheckCursor(e, n) ==
    /\ e = epoch
    /\ n <= Len(Log)
    /\ pruned <= n

\* Every request of the job slot reads the journal once, under the Core mutex.
Serve ==
    /\ job.kind # "idle"
    /\ job.epoch = 0
    /\ job' = [kind |-> job.kind, key |-> job.key,
               epoch |-> epoch, at |-> Len(Log)]
    /\ UNCHANGED <<relayVars, storeVars, stream, online, needSync, before,
                   blocked, viewed, notified, faults>>

\* The identifiers below key that exist after n events, in pages.
Below(ids, e, n, key) == {d \in ids : d < key /\ RevisionAt(e, n, d) > 0}

PageOf(ids, e, n, key) ==
    LET all == Below(ids, e, n, key)
    IN  {d \in all : Cardinality({x \in all : x > d}) < PageSize}

MorePages(ids, e, n, key) ==
    Cardinality(Below(ids, e, n, key)) > PageSize

OpenStream ==
    /\ stream.state = "opening"
    /\ stream' = [stream EXCEPT !.state =
                    IF CheckCursor(stream.epoch, stream.sent)
                    THEN "open" ELSE "refused"]
    /\ UNCHANGED <<relayVars, storeVars, job, online, needSync, before, blocked,
                   viewed, notified, faults>>

\* The rows of one replay query after sequence number n.
RowsAfter(n) ==
    LET from == Max({n, pruned})
    IN  [i \in 1..Min({Batch, Len(Log) - from}) |-> from + i]

\* A stream whose cursor is no longer good is reset, with frames still on the
\* way.
PollEvents ==
    /\ stream.state = "open"
    /\ IF CheckCursor(stream.epoch, stream.sent)
       THEN LET rows == RowsAfter(stream.sent)
            IN  /\ rows # <<>>
                /\ stream' = [state |-> "open", epoch |-> stream.epoch,
                              sent |-> rows[Len(rows)],
                              wire |-> stream.wire \o rows]
       ELSE stream' = [stream EXCEPT !.state = "closed"]
    /\ UNCHANGED <<relayVars, storeVars, job, online, needSync, before, blocked,
                   viewed, notified, faults>>

-----------------------------------------------------------------------------
(* The client's store.                                                     *)

MutWriteRecord(old, revision) == IF revision > 0 THEN revision ELSE old

\* writeRecord: a record replaces the cached one only if it is newer.
WriteRecord(old, revision) == IF revision > old THEN revision ELSE old

\* A page of the directory, as the relay's epoch e had it after n events.
WithPage(ids, e, n) ==
    [cache EXCEPT ![e] = [d \in Directory |->
        IF d \in ids THEN WriteRecord(@[d], RevisionAt(e, n, d)) ELSE @[d]]]

MutBeginSync(e, n) ==
    /\ UNCHANGED <<cache, seen, unread>>
    /\ cEpoch' = e
    /\ cursor' = n
    /\ base' = n
    /\ booted' = FALSE

\* beginSync: a new epoch empties the cache; the cursor jumps to the relay's
\* sequence either way.
BeginSync(e, n) ==
    /\ IF e = cEpoch
       THEN UNCHANGED <<cache, seen, unread>>
       ELSE /\ cache' = [x \in Epochs |-> [d \in Directory |-> 0]]
            /\ seen' = [x \in Epochs |-> {}]
            /\ unread' = 0
    /\ cEpoch' = e
    /\ cursor' = n
    /\ base' = n
    /\ booted' = FALSE

\* The events of one delivery that eventNotification does not skip.
Fresh(frames) == {i \in frames : i > cursor}

EventsOf(d, frames) == {i \in Fresh(frames) : logs[cEpoch][i].id = d}

MutAlerts(frames) ==
    {m \in Messages :
        /\ ~viewed
        /\ EventsOf(m, frames) # {}
        /\ logs[cEpoch][Min(EventsOf(m, frames))].live}

\* Messages that this delivery is the first to show, as live, to a user who
\* is not looking at their conversation.
Alerts(frames) ==
    {m \in Messages :
        /\ ~viewed
        /\ m \notin seen[cEpoch]
        /\ EventsOf(m, frames) # {}
        /\ logs[cEpoch][Min(EventsOf(m, frames))].live}

\* receiveBatch: records, unread state and cursor of the complete frames of
\* one delivery commit together; notifications follow the commit.
ReceiveBatch(frames) ==
    /\ cache' = [cache EXCEPT ![cEpoch] = [d \in Directory |->
            WriteRecord(@[d], Max({0} \cup EventsOf(d, frames)))]]
    /\ seen' = [seen EXCEPT ![cEpoch] =
            @ \cup {m \in Messages : EventsOf(m, frames) # {}}]
    /\ unread' = unread + Cardinality(Alerts(frames))
    /\ notified' = [notified EXCEPT ![cEpoch] = [m \in Messages |->
            IF m \in Alerts(frames) THEN @[m] + 1 ELSE @[m]]]
    /\ cursor' = Max({cursor} \cup frames)

-----------------------------------------------------------------------------
(* The client's worker.  Waiting between attempts is not modelled; whatever   *)
(* follows a failure may come at once or late.                               *)

Active == stream.state # "none"

\* disconnected: a failure that needs the user's attention stops all requests
\* until Reconnect.
Disconnected(block) ==
    /\ online' = FALSE
    /\ blocked' = (blocked \/ block)
    /\ stream' = NoStream

\* attach: the stream starts at the saved cursor.
Attached(e, n) ==
    IF Active THEN stream
    ELSE [state |-> "opening", epoch |-> e, sent |-> n, wire |-> <<>>]

WantsIdentities == ~needSync /\ before # NoKey

\* schedule, when no request is under way.
AskIdentities ==
    /\ job = Idle
    /\ ~blocked
    /\ WantsIdentities
    /\ job' = Ask("identities", before)
    /\ UNCHANGED <<relayVars, storeVars, stream, online, needSync, before,
                   blocked, viewed, notified, faults>>

AskSync ==
    /\ job = Idle
    /\ ~blocked
    /\ ~online
    /\ ~Active
    /\ needSync
    /\ needSync' = FALSE
    /\ job' = Ask("sync", NoKey)
    /\ UNCHANGED <<relayVars, storeVars, stream, online, before, blocked,
                   viewed, notified, faults>>

AskStatus ==
    /\ job = Idle
    /\ ~blocked
    /\ ~WantsIdentities
    /\ \/ online
       \/ ~Active /\ ~needSync
    /\ job' = Ask("status", NoKey)
    /\ UNCHANGED <<relayVars, storeVars, stream, online, needSync, before,
                   blocked, viewed, notified, faults>>

\* The send command; it preempts a status poll, never a POST.
AskSend ==
    /\ online
    /\ job.kind \in {"idle", "status"}
    /\ job' = Ask("send", NoKey)
    /\ UNCHANGED <<relayVars, storeVars, stream, online, needSync, before,
                   blocked, viewed, notified, faults>>

Answered(kind) == job.kind = kind /\ job.epoch # 0

CompleteStatus ==
    /\ Answered("status")
    /\ ~blocked
    /\ IF job.epoch # cEpoch \/ ~booted
       THEN /\ stream' = NoStream
            /\ online' = FALSE
            /\ job' = Ask("sync", NoKey)
       ELSE /\ stream' = Attached(cEpoch, cursor)
            /\ job' = Idle
            /\ UNCHANGED online
    /\ UNCHANGED <<relayVars, storeVars, needSync, before, blocked, viewed,
                   notified, faults>>

CompleteSync ==
    /\ Answered("sync")
    /\ ~blocked
    /\ BeginSync(job.epoch, job.at)
    /\ before' = NoKey
    /\ job' = Ask("chats", Top)
    /\ UNCHANGED <<relayVars, stream, online, needSync, blocked, viewed,
                   notified, faults>>

\* The page a directory answer carries, and what the cache becomes.
Answer(ids) == PageOf(ids, job.epoch, job.at, job.key)

MutNextKey(ids) == IF MorePages(ids, job.epoch, job.at, job.key)
                   THEN Min(Answer(ids)) - 1 ELSE NoKey

NextKey(ids) == IF MorePages(ids, job.epoch, job.at, job.key)
                THEN Min(Answer(ids)) ELSE NoKey
Paged(ids) == WithPage(Answer(ids), job.epoch, job.at)

CompleteChats ==
    /\ Answered("chats")
    /\ ~blocked
    /\ cache' = Paged(Chats)
    /\ IF NextKey(Chats) # NoKey
       THEN job' = Ask("chats", NextKey(Chats)) /\ UNCHANGED before
       ELSE job' = Idle /\ before' = Top
    /\ UNCHANGED <<relayVars, cEpoch, cursor, booted, seen, unread, base, stream,
                   online, needSync, blocked, viewed, notified, faults>>

\* The last page ends the bootstrap and attaches the stream.
CompleteIdentities ==
    /\ Answered("identities")
    /\ ~blocked
    /\ cache' = Paged(Identities)
    /\ job' = Idle
    /\ before' = NextKey(Identities)
    /\ IF NextKey(Identities) = NoKey
       THEN /\ booted' = TRUE
            /\ stream' = Attached(cEpoch, cursor)
       ELSE UNCHANGED <<booted, stream>>
    /\ UNCHANGED <<relayVars, cEpoch, cursor, seen, unread, base, online,
                   needSync, blocked, viewed, notified, faults>>

\* A send of another epoch is refused with resync_required.
CompleteSend ==
    /\ Answered("send")
    /\ job' = Idle
    /\ IF job.epoch # cEpoch
       THEN needSync' = TRUE /\ Disconnected(FALSE)
       ELSE UNCHANGED <<needSync, online, blocked, stream>>
    /\ UNCHANGED <<relayVars, storeVars, before, viewed, notified, faults>>

\* While blocked, an answer other than a send's is thrown away.
DropAnswer ==
    /\ blocked
    /\ job.kind \notin {"idle", "send"}
    /\ job.epoch # 0
    /\ job' = Idle
    /\ UNCHANGED <<relayVars, storeVars, stream, online, needSync, before,
                   blocked, viewed, notified, faults>>

\* A request fails, before or after the relay served it, or its answer could
\* not be applied; a sync answer clears identities_before first.
FailJob ==
    /\ job # Idle
    /\ \/ Fault("cut") /\ Disconnected(FALSE)
       \/ Fault("block") /\ Disconnected(TRUE)
    /\ job' = Idle
    /\ before' \in IF Answered("sync") THEN {before, NoKey} ELSE {before}
    /\ UNCHANGED <<relayVars, storeVars, needSync, viewed, notified>>

\* The stream's HTTP 200 is noticed.
GoOnline ==
    /\ stream.state \in {"open", "closed"}
    /\ ~online
    /\ ~blocked
    /\ online' = TRUE
    /\ UNCHANGED <<relayVars, storeVars, job, stream, needSync, before, blocked,
                   viewed, notified, faults>>

\* The network delivers n complete frames at once.
Deliver(n) ==
    /\ stream.state \in {"open", "closed"}
    /\ stream.epoch = cEpoch
    /\ n <= Len(stream.wire)
    /\ ReceiveBatch({stream.wire[i] : i \in 1..n})
    /\ stream' = [stream EXCEPT !.wire = SubSeq(@, n + 1, Len(@))]
    /\ UNCHANGED <<relayVars, cEpoch, booted, base, job, online, needSync, before,
                   blocked, viewed, faults>>

\* A delivery of frames of another epoch, or whose transaction fails, rolls
\* back and aborts the stream.
RejectBatch ==
    /\ stream.state \in {"open", "closed"}
    /\ stream.wire # <<>>
    /\ IF stream.epoch = cEpoch THEN Fault("rollback") ELSE UNCHANGED faults
    /\ Disconnected(FALSE)
    /\ UNCHANGED <<relayVars, storeVars, job, needSync, before, viewed, notified>>

MutStreamRefused ==
    /\ stream.state = "refused"
    /\ stream' = NoStream
    /\ online' = FALSE
    /\ UNCHANGED <<relayVars, storeVars, job, needSync, before, blocked, viewed,
                   notified, faults>>

\* 409 or 410: the cursor cannot be resumed.
StreamRefused ==
    /\ stream.state = "refused"
    /\ stream' = NoStream
    /\ needSync' = TRUE
    /\ online' = FALSE
    /\ UNCHANGED <<relayVars, storeVars, job, before, blocked, viewed, notified,
                   faults>>

\* Any other end of the stream.
StreamEnds ==
    /\ Active
    /\ \/ stream.state = "closed" /\ Disconnected(FALSE) /\ UNCHANGED faults
       \/ Fault("cut") /\ Disconnected(FALSE)
       \/ Fault("block") /\ Disconnected(TRUE)
    /\ UNCHANGED <<relayVars, storeVars, job, needSync, before, viewed, notified>>

\* The user's Reconnect command drops the connection with all that runs on
\* it.  Without need it counts as a fault.
Reconnect ==
    /\ IF blocked THEN UNCHANGED faults ELSE Fault("reconnect")
    /\ before' = NoKey
    /\ blocked' = FALSE
    /\ online' = FALSE
    /\ job' = Idle
    /\ stream' = NoStream
    /\ UNCHANGED <<relayVars, storeVars, needSync, viewed, notified>>

\* Selecting the conversation, looking at it or not, preempts a contact page.
Select(looking) ==
    /\ Fault("select")
    /\ viewed' = looking
    /\ unread' = IF looking THEN 0 ELSE unread
    /\ job' = IF job.kind = "identities" THEN Idle ELSE job
    /\ UNCHANGED <<relayVars, cEpoch, cursor, booted, cache, seen, base, stream,
                   online, needSync, before, blocked, notified>>

\* The viewed command: the window shows or hides the selected conversation.
View(looking) ==
    /\ "view" \in FaultKinds
    /\ viewed' = looking
    /\ unread' = IF looking THEN 0 ELSE unread
    /\ UNCHANGED <<relayVars, cEpoch, cursor, booted, cache, seen, base, job,
                   stream, online, needSync, before, blocked, notified, faults>>

\* The client stops and starts again.  A page may have been committed without
\* what follows its commit.
Crash ==
    /\ Fault("crash")
    /\ cache' \in {cache}
                  \cup (IF Answered("chats") THEN {Paged(Chats)} ELSE {})
                  \cup (IF Answered("identities") THEN {Paged(Identities)} ELSE {})
    /\ job' = Idle
    /\ stream' = NoStream
    /\ online' = FALSE
    /\ needSync' = FALSE
    /\ before' = NoKey
    /\ blocked' = FALSE
    /\ viewed' = FALSE
    /\ UNCHANGED <<relayVars, cEpoch, cursor, booted, seen, unread, base, notified>>

RelayNext ==
    \/ \E d \in Chats : PublishConversation(d)
    \/ \E m \in Messages, live \in BOOLEAN : PublishMessage(m, live)
    \/ \E d \in Identities : PublishIdentity(d)
    \/ \E cut \in 1..MaxEvents : Prune(cut)
    \/ Reset

StreamNext ==
    \/ OpenStream
    \/ PollEvents
    \/ GoOnline
    \/ \E n \in 1..MaxEvents : Deliver(n)
    \/ RejectBatch
    \/ StreamRefused
    \/ StreamEnds

JobNext ==
    \/ AskIdentities \/ AskSync \/ AskStatus \/ AskSend
    \/ Serve
    \/ CompleteStatus \/ CompleteSync \/ CompleteChats \/ CompleteIdentities
    \/ CompleteSend
    \/ DropAnswer
    \/ FailJob

UserNext ==
    \/ Reconnect
    \/ \E looking \in BOOLEAN : Select(looking) \/ View(looking)
    \/ Crash

Next == RelayNext \/ StreamNext \/ JobNext \/ UserNext

Spec == Init /\ [][Next]_vars

\* Each turn of the worker's loop completes what has ended, notices the
\* stream and schedules a request; the relay serves every stream and request.
FairSpec ==
    /\ Spec
    /\ WF_vars(AskIdentities)
    /\ WF_vars(AskSync)
    /\ WF_vars(AskStatus)
    /\ WF_vars(Serve)
    /\ WF_vars(CompleteStatus \/ CompleteSync \/ CompleteChats
               \/ CompleteIdentities \/ CompleteSend \/ DropAnswer)
    /\ WF_vars(OpenStream)
    /\ WF_vars(PollEvents)
    /\ WF_vars(GoOnline)
    /\ WF_vars(\E n \in 1..MaxEvents : Deliver(n))
    /\ WF_vars(StreamRefused)
    /\ WF_vars(stream.state = "closed" /\ StreamEnds)

-----------------------------------------------------------------------------
(* Properties.                                                             *)

\* Every variable holds a value of its kind.
TypeOK ==
    /\ epoch \in Epochs
    /\ logs \in [Epochs -> Seq([id: Records, live: BOOLEAN])]
    /\ \A e \in Epochs : Len(logs[e]) <= MaxEvents
    /\ pruned \in 0..MaxEvents
    /\ cEpoch \in 0..MaxEpoch
    /\ cursor \in 0..MaxEvents
    /\ booted \in BOOLEAN
    /\ cache \in [Epochs -> [Directory -> 0..MaxEvents]]
    /\ seen \in [Epochs -> SUBSET Messages]
    /\ unread \in Nat
    /\ job \in Job
    /\ stream \in Stream
    /\ {online, needSync, blocked, viewed} \subseteq BOOLEAN
    /\ before \in 0..Top
    /\ base \in 0..MaxEvents
    /\ notified \in [Epochs -> [Messages -> Nat]]
    /\ faults \in 0..MaxFaults

\* A bootstrapped cache of the relay's epoch misses nothing up to its cursor:
\* it holds every conversation and contact at a revision at least as new as
\* their last event there, although the pages were read one by one while the
\* relay went on and the cursor was taken before the first, and it has seen
\* every message announced since.  (Worker.handleResponse, Store.beginSync,
\* eventNotification)
Coverage ==
    booted /\ cEpoch = epoch =>
        \A i \in 1..cursor :
            LET d == Log[i].id
            IN  /\ d \in Directory => cache[cEpoch][d] >= i
                /\ d \in Messages /\ i > base => d \in seen[cEpoch]

\* A client of the relay's epoch caches nothing of another epoch, although a
\* directory page carries no epoch and the relay may be reset between the
\* answer to /v1/sync and the pages.  (Store.beginSync)
EpochIsolation ==
    cEpoch = epoch =>
        \A e \in Epochs \ {cEpoch} :
            /\ \A d \in Directory : cache[e][d] = 0
            /\ seen[e] = {}

\* A message raises at most one desktop notification and counts once as
\* unread, whatever is replayed after a rollback, a lost connection, a crash
\* or an expired cursor.  (Store.eventNotification, Worker.receiveBatch)
NotifiedOnce ==
    /\ \A e \in Epochs, m \in Messages : notified[e][m] <= 1
    /\ cEpoch # 0 => unread <= Cardinality(seen[cEpoch])

\* As long as the epoch stays, no step replaces a cached record by an older
\* revision, forgets a message it deduplicates or moves the cursor back; an
\* expired cursor does not empty the cache.  (Store.writeRecord, beginSync)
NoRegress ==
    [][cEpoch' = cEpoch /\ cEpoch # 0 =>
        /\ cursor' >= cursor
        /\ seen[cEpoch] \subseteq seen'[cEpoch]
        /\ \A d \in Directory : cache'[cEpoch][d] >= cache[cEpoch][d]]_vars

\* The client has caught up and follows the relay.
Current ==
    /\ cEpoch = epoch
    /\ booted
    /\ online
    /\ cursor = Len(Log)
    /\ \A d \in Directory : cache[cEpoch][d] = RevisionAt(epoch, Len(Log), d)

\* Once the relay is quiet and nothing more goes wrong, the client catches up
\* and stays so, or waits for the user to reconnect.  (Worker.schedule,
\* complete)
Converges == <>[](blocked \/ Current)
=============================================================================
