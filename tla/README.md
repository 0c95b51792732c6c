# Verification of zimbr

zimbr brings iMessage to Linux. A relay on a Mac reads the Messages database, sends through
Messages automation and serves an HTTP/2 API over mutual TLS. A Linux client keeps a cache
of what the relay reports, lets a person read and write, and survives offline periods.
This directory holds TLA+ models of the parts whose correctness depends on threads, crashes,
resets and lost answers, the TLC runs that check them and the proofs TLAPS checks.

Paths below are relative to the repository's root. `tlc -config X.cfg M` runs a check,
`tlapm M.tla` a proof module.

## 1. Inventory

### The relay (`src/relay`)

| Part | State it keeps | Operations | Where it is hard |
| --- | --- | --- | --- |
| Journal (`Journal.zig`) | epoch, sequence, events, conversations, messages, identities, send requests and parts | publish a revision with its event, accept, update, recover, reset, prune, pages, replay | every public change and its event must commit together; a reset starts a new epoch under running threads and streams |
| Sender (`Core.senderLoop`, `sends.zig`) | the part being dispatched, recovery flag | prepare (durable dispatch boundary), call Messages, record the outcome, recover | the call runs without the mutex; nobody can tell after a crash whether Messages took the part |
| Ingest (`Core.ingest`, `adapter/MessagesDb.zig`) | live, backfill, pending and rolling cursors, anchors | import rows, reconcile text sends, reset or rebase when the source changed | rows appear before their chat join; identical texts; several cursors meet |
| Observation (`sends/observation.zig`) | the part it looks at, a snapshot of candidates | prepare, look (hash files), publish | two steps with the mutex released between them |
| Uploads (`uploads.zig`, `uploads/Files.zig`, `Server/uploads.zig`) | ledger rows with leases and quota, directories on disk, queued releases | reserve, PUT, cancel, pin, release, expire, remove, purge | ledger and disk change in different steps, each of which may fail |
| Server (`Server.zig`, `Server/*`, `http2.zig`) | connections, streams, permits | one request per stream; event streams | limits, slow peers, streams over pruned or reset journals |
| Enrichment, reactions, assets, contacts | work tables, blobs, representations | background workers that revise messages | revisions merged from several workers |
| Menu, settings, service | files | start, stop, doctor | no protocol state |

Threads: HTTP connections, ingest, sender, observation, contacts, assets. They share one
SQLite journal and one mutex in `Core`; each critical section is one transaction.

### The client (`src/client`)

| Part | State it keeps | Operations | Where it is hard |
| --- | --- | --- | --- |
| Worker (`Worker.zig`) | one request (`job`), one event stream, flags | schedule, complete, receive, commands of the user | answers overtaken by streams, resets and user commands |
| Store (`Store.zig`) | epoch, cursor, records, deduplication, unread, pages, outbox, drafts | beginSync, writeRecord, event, page, persistSend, outcome | pages and replay overlap; crash at any commit |
| Outgoing (`outgoing*`) | private originals and their ledger, drafts, the outbox, one upload | prepare, cancel, upload, submit, recover, expire, collect | a request must not be posted twice; two threads and a directory that outlives crashes |
| Media (`Media.zig`, `Media/DiskCache.zig`, `media.c`) | a queue, two lanes, one result, a directory of pictures and its usage | request, download, install, evict, deliver | contexts change under transfers; borrowed descriptors; power cuts |
| Transport (`bridge.c`) | five slots over one connection | start, poll, classify, acknowledge | a slot's outcome and descriptor belong to its owner until acknowledged |
| Notifications (`Notification*`, `notifications.c`) | waiting notices, slots, calls under way | submit, show, dismiss, replies and signals of the daemon | late replies, a daemon that restarts, calls that outlive the client |
| Desktop (`desktop.c`, `desktop/wayland.c`, `drop.c`) | offers, one transfer, a wake-up flag | drag, drop, read, wait, wake | callbacks in any order, a silent source, a wake-up between test and wait |
| Image cache, editor, drawing (`ImageCache.zig`, `client_main.zig` and others) | textures, widgets | drawing, input | no protocol state |

The client talks to the relay with idempotent GETs, one POST per send, PUTs for uploads and
one server-sent event stream. Threads: the window, the worker, the file thread and the media
worker. The window talks to the worker with a command queue and reads published snapshots;
a worker wakes the window with a flag and an event.

### What makes it correct

* Sending: a part is handed to Messages at most once; what the client is told about it is
  true; requests and parts keep their order; an echo confirms the operation that caused it;
  nothing is stuck.
* Uploads: what answers as complete is on disk; one writer; quota bounds the disk; nothing
  is leaked.
* Synchronisation: no gap between pages and replay; nothing goes back or crosses epochs;
  one alert per message; the client catches up.
* Ingestion (planned): every row is imported, exactly the new ones as live; a replaced
  source is noticed.
* Client outbox: one POST per request identifier; originals are kept as long as a draft or
  a request needs them and freed afterwards; every send resolves.
* Pictures: answers only to what the present context asked for; a cached file is whole; the
  cache keeps its budget; avatars go with their permission.
* Notifications: a stalled window loses only the oldest; an alert can always be taken down
  and opens its own conversation; reading a conversation dismisses its alert.
* Desktop: offers are destroyed once; a dropped list is taken whole; no wake-up is lost.

`PROJECT.json` lists every component with its status and, under "hazards", what is hard to
test, at its line.

## 2. Modules

| Module | Models |
| --- | --- |
| `SendParts` | the functions of `sends.zig`: a request's parts and the request's summary |
| `Sends` | the send pipeline: HTTP acceptance, sender, ingest, observation, Messages |
| `SendsProofs`, `SendOrderProofs` | lemmas and theorems about both |
| `Uploads`, `UploadsProofs` | the upload ledger, PUT streams, the cleanup pass; theorems about them |
| `Sync`, `SyncProofs` | the journal's events and the client's cache that follows them; theorems |
| `Outbox`, `OutboxProofs` | the client's originals, drafts, outbox and its two lanes to the relay; theorems about them |
| `Transport` | the slots of `bridge.c`: start, outcome, classification |
| `Pictures` | what the media worker promises: an abstract specification |
| `Media` | the media worker, its lanes, the transport and the disk cache; implements `Pictures` |
| `MediaProofs` | theorems about `Media`, the refinement included |
| `Notices`, `NoticesProofs` | alerts from the worker's queue to the desktop's notification daemon; theorems about them |
| `Desktop`, `DesktopProofs` | drag and drop, and the wake-up of the window; theorems about them |
| `MCSends`, `MCUploads`, `MCSync`, `MCOutbox`, `MCMedia`, `MCNotices`, `MCDesktop` | instances for TLC |

Names follow the code. Each module keeps all of the control of what it models and reduces
data to what the properties tell apart; identifiers, texts and file contents are model
values. Definitions whose names begin with `Mut` are plausible mistakes; no
specification uses them. They show that each property can fail: put in the place of the
definition that follows them, they make TLC report a violation.

### Sends

*State.* `requests`, `epochOf`, `acceptedAt` are table `send_requests` with `send_parts`;
`uploads` the pin of each file; `messages` the imported outgoing rows; `jgen` the source
identity ingestion recorded. `sender` and `observer` are the local variables two threads
keep while the mutex is free. `source`, `gen`, `outbox` are Messages: its database, the
identity of the file, and operations it took but has not written yet. `calls` and `taken`
are history variables: automation calls made and operations taken.

*Actions.* One action is one critical section of the Core mutex, or one thing a thread
does outside it.

| Action | Code |
| --- | --- |
| `Accept`, `ClientReset` | `Journal.acceptImpl`, the conditional reset of `Server.handle` |
| `Probe`, `PrepareSend`, `RefuseSend`, `RejectQueued` | `senderLoop`, `prepareSend`, `rejectQueued` |
| `Invoke` | `invokePart`, `invokeText`: the call, without the mutex; it may be taken or not, return or time out |
| `FinishSend`, `FinishFails`, `RecoverSends` | the result transaction of `dispatchOne`, its failure, `Journal.recover` |
| `Ingest`, `IngestFails` | `ingest` with `reconcile`, a source reset included |
| `ObservePrepare`, `ObserveLook`, `ObserveNothing`, `ObservePublish` | `observation.prepare`, `step`, `publish` |
| `InsertEcho`, `ForeignSend`, `JoinRow`, `ChangeStatus`, `ReplaceSource` | Messages and other devices (external) |
| `Crash` | the relay stops; start-up runs `recover` |

*Limits.* One scan imports every joined row; the batches and cursors of ingestion are a
module of their own in the plan. The observation thread's bounds of 64 candidates and
4,096 rows, its throttling and its hashing are not modelled; `ObserveNothing` stands for a
look that ends without result. The clock does not go back. `EchoDelay` does not exceed
`Window` in the runs. Two identical sends that overlap stay unknown, which is what the code
intends. Messages of other devices may be claimed when they match; `NoStolenEcho` is about
operations of the relay's current epoch.

*Whose echo.* `NoStolenEcho` is not true of every use, by construction of the heuristic. It
fails where an operation takes another message for its echo and a second one then takes the
echo left over. That needs one of three things: an echo written later than the window
(automation may take 15 s, the window is 10 s); an echo that joins its chat after the window
together with an identical message of another device or of an earlier epoch, because
`Core.reconcile` sees joined rows only where `observation.snapshot` counts the unjoined ones;
or, for parts, an identical message written after the observation thread's last look before the
window closed (section 6). Section 4 proves where it holds. `sends_queue` lets joins come late and
has no foreign text, and `sends_texts` has foreign texts and joins at once.

### Uploads

*State.* `row` is table `uploads`; `dir` the directory of each identifier with its bytes
and its verified file; `stream` the PUT of each HTTP/2 stream (`Request.upload`) with its
lease; `queue` is `Core.upload_releases`; `cleaner` the local variables of
`cleanupUploads`.

*Actions.* `Reserve`, `Cancel`, `Pin`, `ReleasePart`, `Reset` are ledger operations. A PUT
goes through `PutClaim` (lease), `PutOpen` (temporary file), `PutSeal` (length and hash,
rename), `PutComplete` (ledger) and, on the stream's end, `PutClose` (files) and
`PutRelease` (lease, or the queue when the database fails); `PutReject` and `PutAnswer`
are the early ends. The cleanup pass is `CleanBegin` (retry releases, expire,
snapshot), `CleanRemove` (one directory, mutex free), `CleanPurge`. `Crash` runs the
start-up recovery.

*Limits.* `reset_required`, which only a legacy epoch sets at start-up, is not modelled.
Start-up recovery is one step with the crash. When the queue is full, `releaseUpload`
reaches `unreachable`; the model takes that as a crash. A client that keeps reclaiming
an upload delays its expiry, as in the code.

### Sync

*State.* Relay: `epoch`, `logs` (table `events` of every epoch, with what was pruned),
`pruned`. Client, durable: `cEpoch`, `cursor`, `booted`, `cache`, `seen`, `unread`.
Client, volatile: `job`, `stream` (both ends and the frames between them), `online`,
`needSync`, `before` (`identities_before`), `blocked` (`auth_blocked`), `viewed`.
`base` and `notified` are history variables.

*Actions.*

| Action | Code |
| --- | --- |
| `PublishConversation`, `PublishMessage`, `PublishIdentity`, `Prune`, `Reset` | `Journal` |
| `Serve`, `OpenStream`, `PollEvents` | `Server.handle`, `events`, `pollEvents`, each one critical section |
| `AskIdentities`, `AskSync`, `AskStatus`, `AskSend` | `Worker.schedule` and the send command |
| `CompleteStatus` ... `CompleteSend`, `DropAnswer`, `FailJob` | `Worker.complete`, `handleResponse`, with `Store.beginSync` and `upsertDecoded` |
| `GoOnline`, `Deliver`, `RejectBatch`, `StreamRefused`, `StreamEnds` | the loop of `Worker.work`, `receive`, `receiveBatch`, `Store.eventNotification` |
| `Reconnect`, `Select`, `View`, `Crash` | user commands and a restart of the client |

A page or frame is derived from `logs` and the point at which the relay read it, so
publication, pruning and resets may happen between the read and its arrival. Frames of one
stream arrive in order and in batches of any length; a closed stream may still deliver.

*Limits.* The cached text of messages, their pages and previews belong to the planned
History module; of a message this module keeps that it was seen. Events of send requests
take sequence numbers like others and are left out. The relay of this repository always
offers `identity-v1`, so the negotiation of extensions and `identity_bootstrapped`, which
then only changes together with `bootstrapped`, are left out. Back-off delays are left
out: whatever follows may come at once or late. The at most eight event streams of the
server are covered by failing streams.

### Outbox

*State.* `ledger` is table `outgoing_files` (a draft's, a request's, retired), `disk` the
private directory with what was synced. `tasks`, `prep`, `results` are the queue of the file
thread, its local variables and what it hands back. `outbox` is the table of that name;
"recorded" and "delivered" stand for the states a record of the relay gives. `job` and
`upload` are the request lane and the attachment lane with the answer under way. The relay
is external: `relay` (the requests it has), `store` (its uploads), `late` (submissions given
up that may still arrive). `posts` counts POSTs and is a history variable.

*Actions.* `CollectStartup`, `StageBegin`, `StageCopied`, `StageFailed`, `StageCommit`,
`CollectUnlink` and `CollectRow` are the file thread (`Preparation.work`, `Files.stage`,
`Files.collect`), one action per commit or file operation. `Attach`, `Cancel`,
`RemoveDraft`, `Send`, `CancelUpload` and `Reconnect` are commands as `drain` handles them.
`Prepared`, `Connect`, `Disconnect`, `Expire`, `Recover` and `JobDone` are the worker's loop,
`StartUpload`, `Reserve`, `Transfer`, `Submit`, `UploadEnds` and `UploadBreaks` are
`uploadFiles` and `Upload.poll`; `Event` is a record that comes with the stream. `LoseJob`,
`LoseUpload`, `LateArrive`, `Close` and `Restart` are what goes wrong.

*Limits.* Identifiers are fresh and which one is taken makes no difference, so one is
chosen. Unlinking is taken to succeed; the code retries a failed one at the next start.
The relay may refuse any request of the attachment lane, a look-up of a request it has
included, which the code then reports as failed. A refused credential takes the client
offline; that it then waits for the person is not modelled. The periodic look-up of recorded requests is folded into `Event`. The relay's
side of uploads and requests is in `Uploads` and `Sends`.

### Transport, Pictures and Media

*State.* `generation`, `online`, `avatars` are the context the window sets; `queue`,
`active`, `result`, `delivering`, `evict`, `stop` the fields under the mutex; `w` the locals
of `Media.work`; `net` the two slots of its connection; `files` the cached pictures from
the least recently used on, `temps` the temporary ones, `usage` `DiskCache.usage`. `hand` is
the result the window holds.

*Actions.* `Context`, `Ask`, `Take`, `Release`, `Shutdown` belong to the window. A turn
of the worker is `Turn` (the critical section that cancels), `Poll` (evict, `zc_net_poll`)
and for each lane `Pass`, `Save`, `Refuse`, or `Dequeue` followed by one of the `Open`
actions, and `Deliver`. `Crash` ends a process at any moment; a power cut may break what was
not synced. An orderly end is two steps, as the defers of `Media.work` run last to first:
`Abandon` destroys the requests in the lanes although their transfers still hold the
descriptors, `Leave` frees the transport and ends the process. So `SlotOwnsFile` (a request
outlives its transfer) is claimed while the worker polls; between the two steps it says that
no lane has a request left, so no file can be given a descriptor that a slot still
holds. `Transport` classifies an outcome as `zc_net_poll` does.

*Refinement.* `Pictures` has what was asked for in this context, at most one answer, and
whether avatars are allowed. `Implements` states that `Media` implements it with
`asked <- Outstanding`, `answer <- result`, `allowed <- avatars`: nothing unasked,
forbidden or of an earlier context is ever answered, and an answer is not overwritten.

*Limits.* Pictures have one size each of which the cache knows or not (`Sized`, `Cap`).
Retry timers are left out. A prune that fails may have removed any files, no more than one
that succeeds. A failing `openat` in `zc_cache_clear_avatars`, which loses an
eviction silently, and allocation failures are not modelled. A request for a retired
picture is never made by `ImageCache.get`.

### Notices

*State.* `queue` is the worker's bounded list; `waiting` `Queue.pending`; `n` the struct of
`notifications.c` with its slots, generation, references and calls under way; `daemon` and
`events` the notification service and what it has sent that was not dispatched yet.
`abandoned` holds the Notify calls given up, whose alert nobody can close.

*Actions.* `Arrive` (event batch), `Deliver`, `Read`, `Poll` (`deliverNotifications` with
`Queue.submit`, `dismiss`, `poll`), `Turn` (the person changes conversation), `Dispatch`
(one reply, signal or owner change: `notified`, `capabilities`, `signal_received`,
`appeared`, `vanished`), `CallFails`, `Quit`. `Start`, `Die`, `Serve`, `Expire`, `Click`
are the service and the person.

*Limits.* What an alert says and its picture are left out. Whether an avatar is waited for
may go either way. After `Quit` only what was under way goes on. `CallFails` is a call that
times out although the daemon may have served it.

### Desktop

*State.* `d` holds the static variables of `wayland.c` and `drop.c` (offers, drag, transfer,
what was parsed, flags); `stage` what the compositor has said of each offer; `content` and
`pipe` the source of a transfer; `gui` and `worker` are program counters around `wake` (the
atomic flag), `event` (SDL's queue) and `fresh` (something published and unread).

*Actions.* `Offered`, `Mime`, `Enter`, `Leave`, `Dropped`, `Selection`, `BindDevice`,
`Removed` are the compositor's callbacks in the orders the protocol allows, `PollBegin` and
`PollEnd` a turn of `zc_desktop_poll` with `zc_wayland_poll`, `Check`, `Woken`, `TimedOut`,
`Clear` the steps of `zc_desktop_wait`, `Signal` and `Push` those of `zc_desktop_wake`.

*Limits.* A list is a sequence of lines that are files, bad or NUL; decoding of a line is
left out. Drops reported by the toolkit (`zc_drop_paths`), clipboard, text input and activation tokens are not
modelled.

## 3. Runs

Deadlock is checked in every run but `notices_alerts` and `outbox_sends`, where a client that
has quit, or has nothing left to do within the bounds, rightly stops.

| Run | Shows | Bounds, and why they suffice |
| --- | --- | --- |
| `sends_faults` | at-most-once calls, predecessors first, honest errors, kept originals, no regression | one request of two parts and two faults of nine kinds: every pair of faults around the same part. 0.37 M states |
| `sends_queue` | acceptance order; no stolen echo between the threads | two requests with three parts, one text equal to the caption, one fault, two echoes joined at once or later: an echo is stolen between two. 1.9 M states |
| `sends_texts` | no stolen echo, no echo claimed twice | two equal texts and a foreign one, three rows, a window of two ticks with echoes one tick late. 2.1 M states |
| `sends_live` | every accepted request leaves the queue; a joined, unambiguous echo is confirmed | a captioned file and one crash, reset, lost result or failed look, before, between or after its parts |
| `uploads_race` | ready uploads have their file, one writer, completed uploads stay, the disk keeps the quota; unsent uploads are reclaimed | two uploads for one unit of quota, two streams, two contents of equal length, a reset, one fault of three kinds. Two compete for the quota, and two streams for one upload |
| `uploads_release_doc` | a commented claim that does not hold (section 6) | one upload, two failed writes |
| `sync_epochs` | no record crosses epochs, and convergence | two epochs, two events in each, one fault of five kinds. 0.38 M states |
| `sync_replay` | nothing missed, nothing goes back, one alert per message | two chats in pages of one, a message, three events, one fault of three kinds. 0.80 M states |
| `outbox_sends` | one POST at most, none after a cancellation; owned originals kept, disk and ledger agree; every send resolves, delivered originals are freed | one request, text or up to two of three files, two stored at most so that the quota refuses, two faults and a restart. 0.29 M states. With two requests and two files, one fault and a restart (0.83 M states, three minutes) the properties hold as well |
| `media_pictures` | a slot writes its own file as long as the worker polls, cached files are whole, budget, avatars evicted; refinement of `Pictures`; every request is served | an avatar, a picture and a local preview, two requests, two contexts, one response of each class, a fault and a restart or power cut; a cache of two units trimmed to one, so that each download may prune |
| `notices_alerts` | the newest are kept, clicks open their conversation, every alert is accounted for, reading dismisses | two conversations in one slot, so that each message evicts, two messages, two lives of the daemon, one call that times out |
| `desktop_drops` | offers are accounted for, lists are whole, publications are seen, transfers end | two offers, so that a drag meets a transfer; lists that fit, are too long, or are bad after a good line; one worker |

Counters are bounded by guards that name their bound (`MaxNow`, `MaxRows`, `MaxEvents`,
`MaxEpoch`, `MaxToken`, `MaxFaults`, `MaxStarts`, `MaxRequests`, `MaxContexts`,
`MaxMessages`, `MaxTimeouts`). Pages of one record and batches of one or two events
make pages and batches split at every place. No symmetry is used: runs with liveness cannot,
and in the others the requests differ.

`TypeOK` of each module gives the types of its state. A run checks that of `Sends`; those of
`Sends`, `Uploads` and `Sync` are proved, as conjuncts of the inductive invariants of section 4, as are the
types of `Outbox` and `Media` in the form their proofs need.

### Fairness

* `Sends`: weak fairness of the sender's and the ingest loop, which run for ever on
  timers, and of the clock; strong fairness of `ObservePrepare` for each part, because
  the thread takes the part it has not looked at for longest (`ORDER BY attempt_ms`), so
  none is passed over for ever. Nothing is assumed of Messages, and no fault is fair.
* `Uploads`: weak fairness of the cleanup pass (once a second), of the clock, and of the end
  of each stream, which its peer or its deadline brings about.
* `Sync`: weak fairness of each step of the worker's loop (one turn polls the network,
  completes, notices the stream and schedules) and of the relay's answers. The user's
  commands, faults, publication and resets are not fair, and there are finitely many.
  `Converges` allows the state in which the client waits for Reconnect.
* `Outbox`: weak fairness of the file thread, the worker's loop, the attachment lane, and of
  the relay's answers. The person's commands and faults are not fair. A file thread that
  failed to start ends the obligation, as in the code.
* `Media`: weak fairness of the worker, which turns at least every 50 ms, and of the window
  taking and releasing a result, once per frame; strong fairness of the end of transfers,
  which curl's timeouts (3, 7 and 30 s) bring about.
* `Notices`: weak fairness of `deliverNotifications` and of the dispatch of callbacks, once
  per turn of the main loop (at least every 25 ms), and of the daemon serving
  what it received. Timeouts and restarts of the daemon are not fair.
* `Desktop`: weak fairness of the main loop, of workers and of the clock. The timeout of the
  wait is fair only while a transfer runs, when `zc_wayland_wait_limit` caps it at 10 ms:
  `PublicationSeen` gets no help from it.

## 4. Proofs

Eight modules hold the proofs. Each theorem is about `Spec` of the module it extends and holds
for every value of the constants that satisfies the named assumptions of that module:

| Assumption | Says |
| --- | --- |
| `NoFileAssumption`, `SendsAssumption` | distinct null values, well-formed payloads, natural bounds |
| `UploadsAssumption` | finitely many identifiers, null values that are no owner, file, request or identifier, sizes and bounds natural, a first epoch |
| `SyncAssumption` | keys are positive numbers with an upper bound for the directory, chats, contacts and messages are disjoint, finitely many messages, page and batch sizes at least one |
| `OutboxAssumption` | null values, ownership states that are no request identifiers, limits of at least one |
| `NoticesAssumption` | the null conversation is none, queue and slots hold at least one, a daemon reports known abilities, natural bounds |
| `MediaAssumption` | null values that are no request or answer, avatars and local previews are pictures and differ, trimming stays below the cache's limits |
| `DesktopAssumption` | the null offer is none, a list is a sequence of kinds of lines, natural limits |

| Module | Theorem | States |
| --- | --- | --- |
| `SendsProofs` | `Invariance`, `TypeCorrect` | `[]IInv`, `[]TypeOK` |
| | `CalledAtMostOnce` | `[]AtMostOnce` |
| | `UnstartedNotTaken` | `[]UnstartedIsTrue` |
| `SendOrderProofs` | `OrderInvariance` | `[]OInv` |
| | `PredecessorsHandedOver` | `[]PredecessorsTaken` |
| | `OriginalsPinned` | `[]OriginalKept` |
| | `DispatchedInOrder` | `[]AcceptanceOrder` |
| | `NoOperationGoesBack` | `NoRegression`, an action property |
| | `EchoInvariance` | `[](OInv /\ EchoInv)` |
| | `ConfirmedFits`, `ConfirmedOnce` | `[]ClaimInv`, `[]ClaimedOnce`: what is confirmed bears what was sent, and is confirmed once |
| | `WaitingKeepsEcho` | `[]MistakenFirst`, if echoes come within the window |
| | `OwnEchoAlone`, `OwnEchoOfTexts` | `[]NoStolenEcho`, each under its condition |
| | `TextEchoesKept` | `[]TextEchoKept`, if echoes come and join before the window closes |
| `UploadsProofs` | `Invariance` | `[]IInv` |
| | `CompletedHasFile` | `[]ReadyHasFile` |
| | `SingleWriter` | `[]OneWriter` |
| | `QuotaHolds` | `[]DiskWithinQuota` |
| | `CompletedIsFinal` | `CompletedStays`, an action property |
| `SyncProofs` | `SyncInvariance` | `[]SyncInv` |
| | `OwnEpoch` | `[]EpochIsolation` |
| | `OneNotification` | `[]NotifiedOnce` |
| | `NothingMissed` | `[]Coverage` |
| | `NothingGoesBack` | `NoRegress`, an action property |
| `OutboxProofs` | `OutboxInvariance` | `[]Invariant` |
| | `NeverPostedTwice` | `[]PostedOnce` |
| | `OriginalsOnDisk` | `[]OriginalsKept` |
| | `DiskInLedger` | `[]DiskAccounted` |
| `NoticesProofs` | `InvarianceHolds`, `TypeCorrect` | `[]Invariant`, `[]TypeOK` |
| | `NewestInQueue` | `[]NewestKept` |
| | `ClickFindsItsChat` | `[]ClickOpensItsChat` |
| | `EveryAlertAccounted` | `[]Accounted` |
| | `ReferencesCounted` | `[]RefsInv(n)`: a reference for the owner and for each call |
| `MediaProofs` | `MediaInvariance` | `[]WorkInv` |
| | `OwnFile`, `WholeFiles` | `[]SlotOwnsFile`, `[]CachedIsWhole` |
| | `BudgetKept` | `[]WithinBudget` |
| | `AvatarsGone` | `[]AvatarsEvicted` |
| | `ServiceImplemented` | `Implements`: the refinement of `Pictures` |
| `DesktopProofs` | `InvarianceHolds` | `[]Invariant` |
| | `NoOfferForgotten` | `[]OffersAccounted` |
| | `WholeLists` | `[]AllOrNone` |
| | `AwakeForNews` | `[]NeverAsleep`: what is unread has a wake-up on its way |

`SendsProofs` begins with the lemmas about `sends.zig`'s functions, which `SendOrderProofs`
cites as well. Every strengthened invariant below was checked by TLC on the instances of
section 3 before it was proved.

### One call per operation (`SendsProofs`)

`AtMostOnce` is not inductive: that a call is the first one depends on what the journal,
the sender's local copy and the observer know. `IInv` adds

* `ShapeInv`: a request keeps its number of parts, and one not yet accepted is as submitted;
* `CallInv`: an operation is called at most once, a queued one not at all, and what Messages
  took was called;
* `ErrorInv`: an operation reported unstarted is failed or skipped and was not taken, and
  every failed or skipped operation has an error;
* `SummaryInv`: a request with parts that says unstarted has only unstarted parts;
* `SenderInv`: the operation in the sender's hands has left the queue, is not reported
  unstarted, is dispatching unless a reset came between, is not yet called while only
  prepared, and was not taken when its outcome is unstarted;
* `ObserverInv`: the observer looks at a part of an accepted request.

The argument has one idea: almost every step changes requests *quietly*. A quiet change
keeps a request's shape, never returns an operation to "queued", and never claims
"unstarted" for an operation that was not queued. `QuietKeeps` shows once that quiet changes
keep the invariant; each action's lemma shows that its change is quiet. Four steps are not:
`PrepareSend`, `RejectQueued` and `FinishSend`, each proved on its own, and `Invoke`, the
only one that adds to `calls` and `taken`.

### Order of sends, and their originals (`SendOrderProofs`)

That every predecessor of a called part was taken cannot be seen from the part: the sender
prepares it when the summary of its request says "queued", and a restart, an observation or
a late result may have rewritten that summary since. `OInv` adds to `IInv`

* `FilesInv`: a request keeps the files it was submitted with;
* `SummedInv`: the summary of a request is that of its parts;
* `HoldInv`: once a part ended without being taken nothing of its request is queued, so a
  queued part has only taken predecessors behind it;
* `DispatchInv`: a dispatching operation is the one in the sender's hands, or recovery comes
  before the next dispatch;
* `HandInv`: the predecessors of what the sender holds were taken, and so was what returned
  as invoked;
* `OrderInv`: acceptance is never in the future, and when an operation was called, or is
  about to be, whatever was accepted earlier has left the queue;

and the two properties themselves. `Tidy` is what each change of a request keeps, as `Quiet` is
in `SendsProofs`. `NoRegression` comes with `Further`, the order of the stages of an
operation: every action moves operations along it.

### Whose echo is confirmed (`SendOrderProofs`)

The second half of the module is about what `reconcile` and `publish` attribute. Which
operation caused a row is known to the model only (`op`), so the invariant says what the code's
comparisons must be worth. `EchoInv` consists of

* `SourceInv`, `MessagesInv`: the row of an operation bears what it sent, is its only one, and
  has a date between its dispatch and the latest echo; imported rows are those of the source as
  long as this is the recorded one;
* `GenInv`, `BoundInv`, `SettledInv`: requests of the epoch were accepted against the recorded
  source, their boundaries (time and row) are not in the future, and a finished operation without a
  message was never started;
* `ClaimInv`, `ClaimedOnce`: a confirmed message is imported, fits, and is confirmed once;
* `MistakenFirst`, when `EchoDelay <= Window`: whoever confirmed the echo of another operation
  finds that this one has confirmed something else;
* `LookInv`: what the observation thread carries between two critical sections is of an operation
  of the epoch, of the recorded source, and fits.

`EchoStep` is what every action does to an operation: it stays (`Still`), is new or dispatched
(`Fresh`), or claims (`Claims`). Only `Ingest` and `ObservePublish` claim; `ClaimsKeep` and
its companions show once what such a step keeps. Three theorems follow: `ConfirmedFits` and
`ConfirmedOnce` hold for every delay, foreign message and fault; `WaitingKeepsEcho` says that
the loops over unclaimed operations protect whoever still waits.

`NoStolenEcho` needs more, since an operation that took a foreign message leaves its own echo
to others. Two conditions exclude this, and each gives a theorem:

* `Alone`: echoes come within the window, other devices send other texts, and the epoch does not
  end. Nothing but another operation's echo can be mistaken, so by `MistakenFirst` there is no first
  mistake (`NotStolen`). Joins may be late, and requests have parts: this is the thief between
  the two threads that `sends_queue` looks for;
* `Prompt`: echoes come and join before the window closes. Then a text that is confirmed, at the
  end of its window and in the ingestion that reads the source, has its own echo among the
  candidates if it has one (`OnlyEcho`), and gets no later one (`NoLateEcho`): `TextKept`. So no
  operation, text or part, takes the echo of a text (`TextEchoesKept`), and with texts only there
  is no theft (`OwnEchoOfTexts`), whatever other devices send and however often epochs end.
  `sends_texts` is an instance.

Neither condition can be dropped: TLC finds a theft with an echo after the window, with a late join
and an identical foreign message, and with a part, a prompt echo and an identical foreign message
between the last look and the publication.

### Staged uploads (`UploadsProofs`)

`IInv` ties a stream to the row it claimed. `StreamInv` and `TokenInv`: a stream with a lease
knows its identifier, epoch, token and file, and no two streams, nor a stream and a release
that waits, have the same token. `LeaseInv`: a stream that may still write holds its row,
which has kept its file; this is what a lease that expires, is retried by the cleanup pass or
outlives its request must not break, and gives `OneWriter`. `SealInv`: the bytes of a sealed
transfer lie in its own directory. `CleanInv`: what the cleanup pass has in hand is being
deleted and stays so. `BytesInv`: a directory holds no more than its row reserved, and
nothing without a row. The quota then follows from `QuotaInv`, what the rows reserve, which only
`Reserve` raises.

### Pages, replay and resets (`SyncProofs`)

`SyncInv` is `TypeOK` with

* `EpochOrder`: where the client is, and the answer on its way, are points the relay has
  been at, and an answer is never of an earlier epoch than the client;
* `Phases`: at most one of the stream and the three steps of a bootstrap is under way;
* `Following`: a stream is of the client's epoch and carries exactly the events after the
  cursor. It shows in passing that the comparison of epochs in `receiveBatch` never finds a
  difference: the stream was closed before the client adopted another epoch.

`EpochIsolation` follows. `Noticed` (a message of the present epoch that was notified is
remembered as seen) gives `NotifiedOnce`. `AnswerFresh` (an answer is at least as new as the
position it will be applied to) gives `NoRegress` and is half of `Coverage`. The other half is the
hard one: the pages are read one at a time while records change places, and the cursor was
taken before the first. `PagedFrom` says what they have covered, from the last key
on: every event before the bootstrap of a record whose key is not below it; `Replayed`
says that all later events were applied. `PageFacts` shows, for any page size, that a
page leaves out no record between its bounds, and `PageCovers` that applying one extends
what is covered.

### The client's outbox (`OutboxProofs`)

The outbox row alone does not say that a request was not posted: the lanes, a submission given up
while it travelled and the relay know more. `Invariant` is the types with

* `PostInv`: nothing is posted twice; what is uploading or cancelled was not posted; and of what
  was not posted the relay knows nothing and nothing is late;
* `LaneInv` and `JobInv`: the attachment lane is at files of its row, it reserves, transfers and
  submits only when its attempt found the request unsubmitted, and then it is still unposted;
  what the request lane sends was posted;
* `OwnerInv`: what a draft or request owns is on disk; a request owns files of its row only, and
  all of them until the relay delivered it. With the two above this shows that the file being
  transferred is owned: what was not posted cannot have been delivered;
* `StageInv`: the tasks of the file thread have different files without an owner, the one to be
  committed is synced, and the one whose row is to go is not on disk;
* `FreshRequests`, `FreshFiles`: an identifier not yet minted is nowhere;
* `QuotaInv` and the bound on tasks: `DiskAccounted` with finiteness, as only a commit adds a row,
  after checking for room.

### Alerts (`NoticesProofs`)

An alert, the notice it was made for, the Notify request, its reply, a click and a request to
close it all speak of one message, each by another key: a slot, a serial, a number of the daemon,
a generation. Neither property is inductive; `Invariant` says what holds these keys together.
It is a predicate of the struct, the daemon, the bus and the calls given up (`Sound`), so the
lemma about each function of `notifications.c` is about states of the struct within a step too:

* `NoticeInv`, `CallInv`, `AskInv`, `AnswerInv`: serials are never used twice; a notice waits, or
  has its call under way and no number yet, or has its number; a Notify request or reply is the
  only one of its serial, and there is never a request with a reply;
* `DaemonInv`: daemons and their alerts are numbered upwards, and a reported closing is of an
  alert that is gone: `signal_received` never clears the notice of one that is shown;
* `WatchInv`: the owner changes on the bus lead from the client's generation to the daemon's
  state with none missing, so a call of the current generation is to the current owner. Without
  this, `notified` would compare generations in vain after a restart;
* `NameInv`: whatever names the same alert means the same conversation. `ClickOpensItsChat` is
  a part of it once the reply that will give a notice its number is included;
* `GivenUp`, `AlertInv`: a request that the daemon will still serve belongs to a call under way
  or given up; with `CallInv` this is what becomes `Accounted` when the alert appears.

`RefsInv` counts the calls and is inductive beside the others. `MCNotices` has one slot; an
instance with two was searched to eight million states, without an error and without the end in
reach. The theorems hold for any number of slots.

### Pictures (`MediaProofs`)

`WorkInv` is the types, `SlotOwnsFile`, and `Serving`: the request the worker is busy with is its
lane's and its transfer does not run. `SlotOwnsFile` is proved by two lemmas: `SlotKept` for the
steps of a running worker, and `ExitFacts`, that the worker is past its loop only between
`Abandon` and the end of the process. Three invariants stand on `WorkInv`. `BudgetInv` needs the lemmas
on what pruning, removal and the temporaries left by an earlier start weigh.
`AvatarInv` adds `EvictionDue`: while avatars are forbidden, a request for one that is still
in a lane came before a context that the worker has not seen, so its next turn cancels it
before it evicts. `AskedInv` (a picture is asked for at most once in a context; the worker goes to
its lanes only when no answer is on offer) is what the refinement needs. `ServiceImplemented`
shows that the initial states map to initial states of `Pictures` and that each step is
an `Ask`, `Reply`, `Forget`, `Take`, `Release`, `Change` or `Restart` there, or a stutter.

### Window (`DesktopProofs`)

`Invariant` has a part for each of the three things that meet in the window:

* `OfferInv`: the offer dragged is over the window, that of the transfer was dropped, and any
  other one kept is still fresh; at most one offer is over the window. So a callback that
  replaces the drag or the transfer destroys an offer nobody else holds;
* `PipeInv`: the source of the transfer closes its end only after the whole list. What
  `zc_drop_parse` is given at the end of the file is then a whole list, although the transfer
  may be read in pieces, time out, or be replaced by the next drop;
* `WakeInv`: once the window has passed the reading of what was published, anything unread has
  the flag or a worker about to set it behind it, and a set flag of a waiting window has an
  event queued or a worker about to push one.

`NeverAsleep`, the safety half of `PublicationSeen`, follows from the last: with it the
liveness run only needs the event to be delivered.

### Recursion without recursion

Sums over rows, the least key, pages, and the enumeration of a set are defined by `CHOOSE` or by
recursive functions of the library, about which nothing can be shown by induction over an
operator. Where a proof needs one, it takes a least counterexample (`NatLessThanWellFounded`
with `WFMin`) or counts (`FS_CardinalityType`, `FS_Subset` and their kin), and states the outcome once
as a lemma: `LeastNat` and `GreatestNat` (extremes), `PageFacts` (pages), `SumsExist` to
`SumAtMost` (sums over a finite set), `CountUp` (a finite set listed in its order, for pruning and
for the loops over slots: `InOrder` of `Notices` with `InOrderFacts`).

### What is only model-checked

* `NoStolenEcho` of `Sends` outside the two conditions of `OwnEchoAlone` and `OwnEchoOfTexts`. It is
  false there in general, but not on the instance of `sends_queue`, whose faults include one
  reset: two requests are too few for the theft it makes possible.
* `TypeOK` of `Desktop`: that the files of a list form a sequence of lines is an induction over
  the list. The proofs only say of what was parsed that it is the files of a valid list.
* `PublicationSeen` of `Desktop`, of which `NeverAsleep` is the part that is an invariant.
* Every liveness property: fairness and `ENABLED` are beyond the prover.

## 5. Not modelled, and the plan

Not modelled and not planned: rendering, text layout and input, clipboard and window
activation, configuration files and credentials on disk (`zc_private_read`, `platform.c`),
the menu, parsing of property lists, decoding and conversion of images (`relay/media.c`), the
relay's TLS set-up (`relay/tls.c`). They hold no protocol state, or are subjects for other
methods.

Planned, in this order:

1. `History`: message pages of a conversation against background events, the recent
   window, text projections and their upgrade. Abstract specification: the cached window
   equals the relay's.
2. `Ingest`: live, backfill, pending and rolling cursors, anchors, rebase and reset; every
   row imported, exactly the new ones as live. It refines the single scan of `Sends`.
3. `ClientReset`: one conditional reset despite lost answers and several clients.
4. The composition of `Outbox` with `Uploads` and the acceptance of `Sends`.
5. `Assets`, enrichment and contacts: representation ledger, blobs and quota, merged
   revisions.
6. Publication of snapshots: generations, acknowledgement, coalescing.
7. Pure algorithms: editor and scroll arithmetic, pagination, cursor parsing, against
   reference definitions.
8. Connection and stream limits of the server.

## 6. Disagreements found

* The comment at `src/relay/Core.zig:208` says that a queue slot is always free for a
  failed release. A completed upload's lease is released as well; when that release
  keeps failing while the cleanup pass expires and purges the row, the slot outlives its
  reservation and the next failed release finds none, which is `unreachable`
  (`uploads_release_doc`). It takes two database failures.

Three more were met while modelling and are not kept as runs:

* `DESIGN.md:265` says of a queued request that it "has not started dispatch". Between two
  parts `sends.summarize` reports the request as queued again, although Messages has taken
  the first part.
* `src/client/drop.zig:11` says that `hovered` tells "whether a file offer is over the window,
  before it is dropped or leaves". `zc_drop_offer` clears it when the transfer of an earlier
  drop completes, also while a second drag is over the window; `dropped` then ignores the
  second drop.
* `docs/api.md:66` says that confirmation of a part "waits for the complete 10-second observation
  window and rejects competing requests, duplicate echoes". `publish` compares the clock with the
  end of the window when it publishes (`observation.zig:377`), but confirms what `step` saw
  before. An echo found by a look shortly before the end is confirmed although a duplicate was
  written, and dated, within the window after that look: on the model `Ingest`, `Probe`,
  `Accept`, `PrepareSend`, `Invoke`, `InsertEcho`, `Ingest`, `FinishSend`, `ObservePrepare`,
  `ObserveLook`, `ForeignSend`, `Tick`, `ObservePublish`, with a caption and an equal text of
  another device.
