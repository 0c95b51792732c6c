------------------------------- MODULE Media -------------------------------
(***************************************************************************)
(* Pictures of the Linux client.  The user-interface thread asks for them;     *)
(* one worker thread owns the transport, two download lanes and the cache      *)
(* directory, and offers one decoded picture at a time.                        *)
(*                                                                         *)
(*   src/client/Media.zig            the shared queue and the worker's loop     *)
(*   src/client/Media/DiskCache.zig  accounting of the cache directory         *)
(*   src/client/media.c              the cache directory itself                 *)
(*   src/client/bridge.c             the transport (module Transport)           *)
(*                                                                         *)
(* One action is one critical section of the mutex, or the code between two.   *)
(* A file is one unit of space, the largest one Cap.  The system calls that    *)
(* may fail do so under a budget, MaxFaults.  Allocation failures, which end    *)
(* the worker, are left out, and so are requests for retired pictures:         *)
(* ImageCache.get, the only caller, never makes one.  Definitions named Mut... *)
(* are plausible mistakes in the definition that follows them and belong to no *)
(* specification.                                                             *)
(***************************************************************************)
EXTENDS Transport, FiniteSets, Sequences, SequencesExt, FiniteSetsExt

CONSTANTS
    Keys,         \* pictures
    Avatars,      \* the private ones
    Locals,       \* previews of staged attachments
    Sized,        \* pictures whose size the relay advertised
    Cap,          \* 8 MiB, the largest picture
    QueueLimit,   \* 128
    Bytes, Trim, Entries, TrimEntries,  \* DiskCache.Limits
    Responses,    \* what the relay and the network may answer
    NoRequest, NoResult, NoNet,
    MaxRequests,  \* bound: pictures asked for
    MaxContexts,  \* bound: changes of context
    MaxStarts,    \* bound: starts of the program
    MaxFaults     \* bound: failing calls

Lanes == 0..1
Fds == 1..2

States == {"ready", "offline", "pending", "failed", "retired", "denied"}

\* A request in a lane may have a temporary file; 0 is none.
Request == [key: Keys, generation: Nat, fd: {0} \cup Fds, temp: Nat]

\* Result, the answer to a request.
Answers == [key: Keys, state: States]

ASSUME MediaAssumption ==
    /\ Avatars \subseteq Keys /\ Locals \subseteq Keys \ Avatars
    /\ Sized \subseteq Keys
    /\ Responses \subseteq Response
    /\ {Cap, QueueLimit, MaxRequests, MaxContexts, MaxStarts, MaxFaults}
         \subseteq Nat
    /\ {Bytes, Trim, Entries, TrimEntries} \subseteq Nat
    /\ Cap >= 1 /\ Trim < Bytes /\ TrimEntries < Entries
    /\ NoRequest \notin Request /\ NoResult \notin Answers

VARIABLES
    generation, online, avatars,  \* the context the interface set
    evict,       \* evict_avatars
    queue, active,  \* requests waiting and in a lane
    result,      \* the answer on offer
    delivering,  \* the interface holds an answer
    hand,        \* the answer it holds
    stop,
    w,           \* the worker's local variables
    net,         \* its transport, or NoNet
    files,       \* pictures under their keys, least recently used first
    temps,       \* temporary files
    usage,       \* DiskCache.usage
    requests, contexts, starts, faults  \* progress towards the bounds

gui == <<generation, online, avatars>>
bounds == <<requests, contexts, starts, faults>>
vars == <<generation, online, avatars, evict, queue, active, result,
          delivering, hand, stop, w, net, files, temps, usage, requests,
          contexts, starts, faults>>

Unknown == [known |-> FALSE, bytes |-> 0, entries |-> 0]

\* A call that fails costs one fault.
MayFail == IF faults < MaxFaults THEN BOOLEAN ELSE {FALSE}
Charge(failed) == faults' = faults + (IF failed THEN 1 ELSE 0)

-----------------------------------------------------------------------------
(* The cache directory.  A file under a key may have reached the medium or     *)
(* not (synced); a power cut breaks it if not.  A temporary's content is       *)
(* "none", "broken" or "whole".                                                *)

HasFile(k) == \E i \in DOMAIN files : files[i].key = k

\* The other files, in their order.
Increasing(f) == \A i, j \in DOMAIN f : i < j => f[i] < f[j]
Without(fs, keys) ==
    LET kept == {i \in DOMAIN fs : fs[i].key \notin keys}
        order == CHOOSE f \in [1..Cardinality(kept) -> kept] : Increasing(f)
    IN  [i \in 1..Cardinality(kept) |-> fs[order[i]]]

\* zc_cache_clear_avatars: the keys of avatars begin with an a.
ClearAvatars == Without(files, Avatars)

TempBytes(ts) == Cardinality({t \in ts : t.content # "none"})

\* zc_cache_prune after its listing: the least recently used files go until the
\* rest fits, temporaries included.
Pruned(fs, ts) ==
    LET Fits(n) == /\ Len(fs) - n + TempBytes(ts) <= Trim
                   /\ Len(fs) - n <= TrimEntries
        n == Min({m \in 0..Len(fs) : Fits(m)} \cup {Len(fs)})
    IN  SubSeq(fs, n + 1, Len(fs))

\* What a prune that met no error reports.
Scanned(fs, ts) ==
    IF Len(fs) + TempBytes(ts) <= Trim
    THEN [known |-> TRUE, bytes |-> Len(fs) + TempBytes(ts),
          entries |-> Len(fs)]
    ELSE Unknown

\* trim.  A prune that cannot list or unlink some files goes on with the others;
\* no more go than otherwise would, and the usage is left unknown.
TrimDisk(fs, ts, failed) ==
    IF failed
    THEN /\ \E gone \in SUBSET {fs[i].key : i \in DOMAIN fs} :
              /\ Cardinality(gone) <= Len(fs) - Len(Pruned(fs, ts))
              /\ files' = Without(fs, gone)
         /\ usage' = Unknown
    ELSE /\ files' = Pruned(fs, ts)
         /\ usage' = Scanned(Pruned(fs, ts), ts)

\* downloaded.
Downloaded(fs, ts, bytes, failed) ==
    LET counted == [usage EXCEPT !.bytes = @ + bytes, !.entries = @ + 1]
    IN  IF usage.known /\ counted.bytes <= Bytes /\ counted.entries <= Entries
        THEN files' = fs /\ usage' = counted
        ELSE TrimDisk(fs, ts, failed)

\* zc_cache_install: fsync, then rename.  The file is in place even when the
\* last call, the fsync of the directory, fails.
MutInstalled(k) ==
    Append(Without(files, {k}), [key |-> k, whole |-> TRUE, synced |-> FALSE])
Installed(k) ==
    Append(Without(files, {k}), [key |-> k, whole |-> TRUE, synced |-> TRUE])

\* The temporary files these requests own; Request.destroy unlinks them.
TempsOf(rs) == {r.temp : r \in rs \ {NoRequest}}
Unlinked(ts, rs) == {t \in ts : t.name \notin TempsOf(rs)}

\* zc_cache_temp: a new name; the kernel gives the lowest free descriptor.
NewName == CHOOSE n \in 1..(Cardinality(temps) + 1) :
              \A t \in temps : t.name # n
NewFd == CHOOSE fd \in Fds :
            /\ \A l \in Lanes : active[l] = NoRequest \/ active[l].fd # fd
            /\ \A other \in Fds :
                 (\A l \in Lanes : active[l] = NoRequest
                                   \/ active[l].fd # other) => fd <= other

-----------------------------------------------------------------------------
(* The user interface. *)

\* The locals of a new process, and after a turn, whose successor sets them anew.
Fresh(pc, seen) ==
    [pc |-> pc, net_generation |-> seen, online |-> FALSE, evict |-> FALSE,
     busy |-> FALSE, lane |-> 0, state |-> "failed"]

Init ==
    /\ generation = 0 /\ online = FALSE /\ avatars = TRUE
    /\ evict = FALSE
    /\ queue = <<>>
    /\ active = [l \in Lanes |-> NoRequest]
    /\ result = NoResult /\ delivering = FALSE /\ hand = NoResult
    /\ stop = FALSE
    /\ w = Fresh("start", 0)
    /\ net = NoNet
    /\ files = <<>> /\ temps = {}
    /\ usage = Unknown
    /\ requests = 0 /\ contexts = 0 /\ starts = 1 /\ faults = 0

Idle == ~stop /\ hand = NoResult

\* context: a new generation; nothing asked for before survives it.
Context(line, permission) ==
    /\ Idle
    /\ contexts < MaxContexts
    /\ contexts' = contexts + 1
    /\ generation' = generation + 1
    /\ online' = line
    /\ evict' = (evict \/ (avatars /\ ~permission))
    /\ avatars' = permission
    /\ queue' = <<>>
    /\ result' = NoResult
    /\ UNCHANGED <<active, delivering, hand, stop, w, net, files, temps, usage,
                   requests, starts, faults>>

\* enqueue's tests: the picture is on its way or on offer already.
Known(k) ==
    \/ \E l \in Lanes : /\ active[l] # NoRequest
                        /\ active[l].generation = generation
                        /\ active[l].key = k
    \/ \E i \in DOMAIN queue : queue[i].key = k
    \/ result # NoResult /\ result.key = k

\* enqueue's bound.
Room == Len(queue) < QueueLimit

\* request and requestLocal.  Without a context there is no epoch and only
\* local previews are taken.
Ask(k) ==
    /\ Idle
    /\ k \in Locals \/ generation > 0
    /\ k \in Avatars => avatars
    /\ ~Known(k)
    /\ Room
    /\ requests < MaxRequests
    /\ requests' = requests + 1
    /\ queue' = Append(queue, [key |-> k, generation |-> generation, fd |-> 0,
                               temp |-> 0])
    /\ UNCHANGED <<gui, evict, active, result, delivering, hand, stop, w, net,
                   files, temps, usage, contexts, starts, faults>>

\* take.
Take ==
    /\ Idle
    /\ result # NoResult
    /\ hand' = result
    /\ result' = NoResult
    /\ delivering' = TRUE
    /\ UNCHANGED <<gui, evict, queue, active, stop, w, net, files, temps, usage,
                   bounds>>

\* The worker is never told that its picture was used.
MutRelease ==
    /\ hand # NoResult
    /\ hand' = NoResult
    /\ UNCHANGED <<gui, evict, queue, active, result, delivering, stop, w, net,
                   files, temps, usage, bounds>>

\* release, after ImageCache.accept.
Release ==
    /\ hand # NoResult
    /\ hand' = NoResult
    /\ delivering' = FALSE
    /\ UNCHANGED <<gui, evict, queue, active, result, stop, w, net, files,
                   temps, usage, bounds>>

\* shutdown up to the join; the worker's Abandon and Leave are the rest.
Shutdown ==
    /\ Idle
    /\ starts < MaxStarts
    /\ stop' = TRUE
    /\ UNCHANGED <<gui, evict, queue, active, result, delivering, hand, w, net,
                   files, temps, usage, bounds>>

-----------------------------------------------------------------------------
(* The worker. *)

\* The end of a turn, zc_net_wait included: at most 50 ms, less when woken.
Rested == Fresh("turn", w.net_generation)

\* zc_cache_open and DiskCache.init: no lane is in use, every temporary is an
\* orphan.
Start ==
    /\ w.pc = "start"
    /\ \E failed \in MayFail :
        /\ Charge(failed)
        /\ temps' \in IF failed THEN SUBSET temps ELSE {{}}
        /\ TrimDisk(files, temps', failed)
    /\ w' = [w EXCEPT !.pc = "turn"]
    /\ UNCHANGED <<gui, evict, queue, active, result, delivering, hand, stop,
                   net, requests, contexts, starts>>

\* A transfer cancelled without zc_net_ack.
MutTurn(gone) ==
    /\ w.pc = "turn" /\ ~stop
    /\ \A l \in gone : active[l] # NoRequest
    /\ LET old == w.net_generation # generation
           cancelled == IF old THEN Lanes ELSE gone
       IN  /\ active' = [l \in Lanes |-> IF l \in cancelled THEN NoRequest
                                         ELSE active[l]]
           /\ temps' = Unlinked(temps, {active[l] : l \in cancelled})
           /\ net' = IF old THEN NoNet ELSE net
    /\ w' = [w EXCEPT !.pc = "poll", !.net_generation = generation,
                      !.online = online, !.evict = evict,
                      !.busy = result # NoResult \/ delivering, !.lane = 0]
    /\ evict' = FALSE
    /\ UNCHANGED <<gui, queue, result, delivering, hand, stop, files, usage,
                   bounds>>

\* The loop's first critical section: a new generation cancels every transfer;
\* pictures not wanted for two seconds (gone) are cancelled one by one.  The
\* transport lets go of a descriptor before it is closed.
Turn(gone) ==
    /\ w.pc = "turn" /\ ~stop
    /\ \A l \in gone : active[l] # NoRequest
    /\ LET old == w.net_generation # generation
           cancelled == IF old THEN Lanes ELSE gone
       IN  /\ active' = [l \in Lanes |-> IF l \in cancelled THEN NoRequest
                                         ELSE active[l]]
           /\ temps' = Unlinked(temps, {active[l] : l \in cancelled})
           /\ net' = IF old \/ net = NoNet THEN NoNet
                     ELSE [l \in Lanes |-> IF l \in gone THEN IdleSlot
                                           ELSE net[l]]
    /\ w' = [w EXCEPT !.pc = "poll", !.net_generation = generation,
                      !.online = online, !.evict = evict,
                      !.busy = result # NoResult \/ delivering, !.lane = 0]
    /\ evict' = FALSE
    /\ UNCHANGED <<gui, queue, result, delivering, hand, stop, files, usage,
                   bounds>>

\* Bytes a transfer may have left in its file: decodable or not for an image of
\* the declared length and type, none for the diagnostics of an error.
Bodies(r) ==
    IF r.code = "ok" /\ r.status = 200 /\ r.fits THEN {"broken", "whole"}
                                                ELSE {"same"}

\* What zc_net_poll may find a slot's transfer to have become.
Outcomes(slot) ==
    IF ~slot.easy \/ slot.done THEN {[slot |-> slot, content |-> "same"]}
    ELSE {[slot |-> slot, content |-> "broken"]}
         \cup UNION {{[slot |-> FinishMedia(slot, r), content |-> c] :
                         c \in Bodies(r)} : r \in Responses}

\* receive writes into the temporary file that the slot's descriptor denotes.
Written(outcome) ==
    LET Writers(t) == {l \in Lanes :
            /\ outcome[l].content # "same"
            /\ \E m \in Lanes : /\ active[m] # NoRequest
                                /\ active[m].temp = t.name
                                /\ active[m].fd = outcome[l].slot.fd}
    IN  {IF Writers(t) = {} THEN t
         ELSE [t EXCEPT !.content = outcome[Max(Writers(t))].content] :
            t \in temps}

\* Between the critical sections: evict the avatars, then zc_net_poll.
Poll ==
    /\ w.pc = "poll"
    /\ files' = IF w.evict THEN ClearAvatars ELSE files
    /\ IF net = NoNet THEN UNCHANGED <<net, temps>>
       ELSE \E first \in Outcomes(net[0]), second \in Outcomes(net[1]) :
              LET outcome == [l \in Lanes |-> IF l = 0 THEN first ELSE second]
              IN  /\ net' = [l \in Lanes |-> outcome[l].slot]
                  /\ temps' = Written(outcome)
    /\ w' = IF w.busy THEN Rested
            ELSE [w EXCEPT !.pc = "lane", !.evict = FALSE]
    /\ UNCHANGED <<gui, evict, queue, active, result, delivering, hand, stop,
                   usage, bounds>>

\* On to the second lane, or to the end of the turn.
NextLane == w' = IF w.lane = 0 THEN [w EXCEPT !.pc = "lane", !.lane = 1]
                 ELSE Rested

\* A lane whose transfer runs, or that finds nothing queued.
Pass ==
    /\ w.pc = "lane"
    /\ IF active[w.lane] = NoRequest
       THEN w.net_generation = generation /\ queue = <<>>
       ELSE net = NoNet \/ ~net[w.lane].done
    /\ NextLane
    /\ UNCHANGED <<gui, evict, queue, active, result, delivering, hand, stop,
                   net, files, temps, usage, bounds>>

\* A free lane takes nothing for a context it has not seen.
Overtaken ==
    /\ w.pc = "lane"
    /\ active[w.lane] = NoRequest
    /\ w.net_generation # generation
    /\ w' = Rested
    /\ UNCHANGED <<gui, evict, queue, active, result, delivering, hand, stop,
                   net, files, temps, usage, bounds>>

\* The state that a finished transfer other than a good image answers with; a
\* 409 whose body says so may be retried.
Refused(slot, retryable) ==
    IF slot.status = 410 THEN "retired"
    ELSE IF \/ slot.status \in {401, 403}
            \/ slot.kind \in {"trust", "credentials", "rejected", "config"}
         THEN "denied"
    ELSE IF slot.status = 409 /\ retryable THEN "pending"
    ELSE "failed"

\* The lane's transfer is done; its bytes are an image that zc_image_read can
\* decode, or not.
Done == /\ w.pc = "lane"
        /\ active[w.lane] # NoRequest
        /\ net # NoNet /\ net[w.lane].done

Decoded == /\ Done
           /\ net[w.lane].code = "ok" /\ net[w.lane].status = 200
           /\ \E t \in temps : t.name = active[w.lane].temp
                               /\ t.content = "whole"

\* Only an installation that succeeded is accounted.
MutSave ==
    /\ Decoded
    /\ LET r == active[w.lane]
           mine == {t \in temps : t.name = r.temp}
           bytes == IF r.key \in Sized THEN 1 ELSE Cap
       IN  \E fault \in {"none"} \cup
                  {x \in {"stuck", "late", "scan"} : faults < MaxFaults} :
             LET placed == IF fault = "stuck" THEN files ELSE Installed(r.key)
             IN  /\ Charge(fault # "none")
                 /\ temps' = IF fault = "stuck" THEN temps ELSE temps \ mine
                 /\ IF fault \in {"stuck", "late"}
                    THEN files' = placed /\ UNCHANGED usage
                    ELSE Downloaded(placed, temps', bytes, fault = "scan")
                 /\ w' = [w EXCEPT !.pc = "deliver",
                             !.state = IF fault \in {"stuck", "late"}
                                       THEN "failed" ELSE "ready"]
    /\ net' = [net EXCEPT ![w.lane] = IdleSlot]
    /\ UNCHANGED <<gui, evict, queue, active, result, delivering, hand, stop,
                   requests, contexts, starts>>

\* Install, account, zc_net_ack.  The install may fail before the rename
\* (stuck) or after it (late); either is accounted.
Save ==
    /\ Decoded
    /\ LET r == active[w.lane]
           mine == {t \in temps : t.name = r.temp}
           bytes == IF r.key \in Sized THEN 1 ELSE Cap
       IN  \E fault \in {"none"} \cup
                  {x \in {"stuck", "late", "scan"} : faults < MaxFaults} :
             LET placed == IF fault = "stuck" THEN files ELSE Installed(r.key)
             IN  /\ Charge(fault # "none")
                 /\ temps' = IF fault = "stuck" THEN temps ELSE temps \ mine
                 /\ Downloaded(placed, temps', bytes, fault = "scan")
                 /\ w' = [w EXCEPT !.pc = "deliver",
                             !.state = IF fault \in {"stuck", "late"}
                                       THEN "failed" ELSE "ready"]
    /\ net' = [net EXCEPT ![w.lane] = IdleSlot]
    /\ UNCHANGED <<gui, evict, queue, active, result, delivering, hand, stop,
                   requests, contexts, starts>>

\* Any other end: classify, zc_net_ack.
Refuse ==
    /\ Done /\ ~Decoded
    /\ \E retryable \in BOOLEAN :
         w' = [w EXCEPT !.pc = "deliver",
                        !.state = Refused(net[w.lane], retryable)]
    /\ net' = [net EXCEPT ![w.lane] = IdleSlot]
    /\ UNCHANGED <<gui, evict, queue, active, result, delivering, hand, stop,
                   files, temps, usage, bounds>>

\* A free lane takes the oldest request.
Dequeue ==
    /\ w.pc = "lane"
    /\ active[w.lane] = NoRequest
    /\ w.net_generation = generation
    /\ queue # <<>>
    /\ active' = [active EXCEPT ![w.lane] = Head(queue)]
    /\ queue' = Tail(queue)
    /\ w' = [w EXCEPT !.pc = "open"]
    /\ UNCHANGED <<gui, evict, result, delivering, hand, stop, net, files,
                   temps, usage, bounds>>

Opening == w.pc = "open"
Asked == active[w.lane].key
AnswerWith(state) == w' = [w EXCEPT !.pc = "deliver", !.state = state]

\* localPreview: the staged original decodes or not.
OpenLocal ==
    /\ Opening /\ Asked \in Locals
    /\ \E state \in {"ready", "failed"} : AnswerWith(state)
    /\ UNCHANGED <<gui, evict, queue, active, result, delivering, hand, stop,
                   net, files, temps, usage, bounds>>

\* A cached picture; reading it makes it the most recently used.
OpenCached ==
    /\ Opening /\ Asked \notin Locals
    /\ \E i \in DOMAIN files :
         /\ files[i].key = Asked /\ files[i].whole
         /\ files' = Append(Without(files, {Asked}), files[i])
    /\ AnswerWith("ready")
    /\ UNCHANGED <<gui, evict, queue, active, result, delivering, hand, stop,
                   net, temps, usage, bounds>>

\* No file, or one that cannot be read (by a fault) or decoded and is removed.
Missed(unread) ==
    /\ Opening /\ Asked \notin Locals
    /\ unread => HasFile(Asked)
    /\ \A i \in DOMAIN files :
         files[i].key = Asked => unread \/ ~files[i].whole
    /\ files' = Without(files, {Asked})

OpenOffline ==
    /\ \E unread \in MayFail : Missed(unread) /\ Charge(unread)
    /\ ~w.online
    /\ AnswerWith("offline")
    /\ UNCHANGED <<gui, evict, queue, active, result, delivering, hand, stop,
                   net, temps, usage, requests, contexts, starts>>

\* zc_net_new cannot read the credentials.
OpenDenied ==
    /\ Missed(FALSE)
    /\ w.online /\ net = NoNet
    /\ faults < MaxFaults /\ Charge(TRUE)
    /\ AnswerWith("denied")
    /\ UNCHANGED <<gui, evict, queue, active, result, delivering, hand, stop,
                   net, temps, usage, requests, contexts, starts>>

\* zc_net_new if need be, zc_cache_temp, zc_net_start_file.  A fault leaves no
\* temporary (temp), no transfer (start), or one that is over (setup).
OpenTransfer ==
    /\ w.online
    /\ \E fault \in {"none"} \cup {x \in {"unread", "temp", "start", "setup"} :
                                    faults < MaxFaults} :
        LET slots == IF net = NoNet THEN [l \in Lanes |-> IdleSlot] ELSE net
            opened == [active[w.lane] EXCEPT !.fd = NewFd, !.temp = NewName]
            slot == IF fault = "setup" THEN SetupError(NewFd)
                    ELSE StartSlot(NewFd)
            started == fault \notin {"temp", "start"} /\ ~slots[w.lane].easy
        IN  /\ Missed(fault = "unread")
            /\ Charge(fault # "none")
            /\ active' = IF fault = "temp" THEN active
                         ELSE [active EXCEPT ![w.lane] = opened]
            /\ temps' = IF fault = "temp" THEN temps
                        ELSE temps \cup {[name |-> NewName,
                                          content |-> "none"]}
            /\ net' = IF started THEN [slots EXCEPT ![w.lane] = slot] ELSE slots
            /\ IF started THEN NextLane ELSE AnswerWith("failed")
    /\ UNCHANGED <<gui, evict, queue, result, delivering, hand, stop, usage,
                   requests, contexts, starts>>

\* deliver: the answer counts if the context is still its own; the request is
\* destroyed.
Delivered(current) ==
    /\ w.pc = "deliver"
    /\ LET r == active[w.lane]
       IN  /\ result' = IF current /\ result = NoResult
                        THEN [key |-> r.key, state |-> w.state] ELSE result
           /\ temps' = Unlinked(temps, {r})
    /\ active' = [active EXCEPT ![w.lane] = NoRequest]
    /\ w' = Rested
    /\ UNCHANGED <<gui, evict, queue, delivering, hand, stop, net, files, usage,
                   bounds>>

MutDeliver == Delivered(TRUE)
Deliver == Delivered(w.pc = "deliver"
                     /\ active[w.lane].generation = generation)

\* Avatars are off until the first context says otherwise.
MutRestarted ==
    /\ generation' = 0 /\ online' = FALSE /\ avatars' = FALSE
    /\ evict' = FALSE
    /\ queue' = <<>>
    /\ active' = [l \in Lanes |-> NoRequest]
    /\ result' = NoResult /\ delivering' = FALSE /\ hand' = NoResult
    /\ stop' = FALSE
    /\ w' = Fresh("start", 0)
    /\ net' = NoNet
    /\ usage' = Unknown

\* The program's memory when it starts again.
Restarted ==
    /\ generation' = 0 /\ online' = FALSE /\ avatars' = TRUE
    /\ evict' = FALSE
    /\ queue' = <<>>
    /\ active' = [l \in Lanes |-> NoRequest]
    /\ result' = NoResult /\ delivering' = FALSE /\ hand' = NoResult
    /\ stop' = FALSE
    /\ w' = Fresh("start", 0)
    /\ net' = NoNet
    /\ usage' = Unknown

\* work returns.  Its last defer is the first to run: it destroys the requests in
\* the lanes although their transfers still hold the descriptors.
Abandon ==
    /\ w.pc = "turn" /\ stop
    /\ temps' = Unlinked(temps, {active[l] : l \in Lanes})
    /\ active' = [l \in Lanes |-> NoRequest]
    /\ w' = [w EXCEPT !.pc = "exit"]
    /\ UNCHANGED <<gui, evict, queue, result, delivering, hand, stop, net, files,
                   usage, bounds>>

\* Then its first defer frees the transport, the thread is joined, and what is
\* queued or on offer is destroyed.  The program is started again.
Leave ==
    /\ w.pc = "exit"
    /\ Restarted
    /\ starts' = starts + 1
    /\ UNCHANGED <<files, temps, requests, contexts, faults>>

\* A crash or a power cut, and the next start: only the directory survives,
\* without the bytes that had not reached the medium.
Crash ==
    /\ w.pc # "start"
    /\ starts < MaxStarts
    /\ Restarted
    /\ files' = [i \in DOMAIN files |->
                    [files[i] EXCEPT !.whole = @ /\ files[i].synced]]
    /\ starts' = starts + 1
    /\ UNCHANGED <<temps, requests, contexts, faults>>

Worker ==
    \/ Start
    \/ \E gone \in SUBSET Lanes : Turn(gone)
    \/ Poll \/ Pass \/ Overtaken \/ Save \/ Refuse \/ Dequeue
    \/ OpenLocal \/ OpenCached \/ OpenOffline \/ OpenDenied \/ OpenTransfer
    \/ Deliver \/ Abandon \/ Leave

Next ==
    \/ \E line, permission \in BOOLEAN : Context(line, permission)
    \/ \E k \in Keys : Ask(k)
    \/ Take \/ Release \/ Shutdown
    \/ Worker
    \/ Crash

Spec == Init /\ [][Next]_vars

\* Curl's timeouts end every transfer: 3 s to connect, 7 s without a byte, 30 s
\* in all.
TransfersEnd ==
    /\ Poll
    /\ net # NoNet => \A l \in Lanes : net'[l].easy => net'[l].done

\* The worker's loop wakes at least every 50 ms, and the interface takes and
\* releases answers once per frame.
FairSpec ==
    /\ Spec
    /\ WF_vars(Worker)
    /\ SF_vars(TransfersEnd)
    /\ WF_vars(Take \/ Release)

-----------------------------------------------------------------------------
(* Properties. *)

\* Type invariant; a slot's descriptor is one a request was given.
TypeOK ==
    /\ generation \in 0..MaxContexts /\ online \in BOOLEAN
    /\ avatars \in BOOLEAN /\ evict \in BOOLEAN
    /\ queue \in Seq(Request) /\ Len(queue) <= QueueLimit
    /\ active \in [Lanes -> Request \cup {NoRequest}]
    /\ {result, hand} \subseteq Answers \cup {NoResult}
    /\ delivering \in BOOLEAN /\ stop \in BOOLEAN
    /\ w.pc \in {"start", "turn", "poll", "lane", "open", "deliver",
                "exit"}
    /\ w.pc \in {"open", "deliver"} => active[w.lane] # NoRequest
    /\ net = NoNet \/ \A l \in Lanes : net[l].fd \in {0} \cup Fds
    /\ \A i, j \in DOMAIN files : files[i].key = files[j].key => i = j
    /\ \A t, u \in temps : t.name = u.name => t = u
    /\ requests \in 0..MaxRequests /\ contexts \in 0..MaxContexts
    /\ starts \in 1..MaxStarts /\ faults \in 0..MaxFaults

\* A transfer writes into the file of the request in its own lane: as long as the
\* worker polls, a request is never destroyed, and its descriptor never reused,
\* while the transport still holds the descriptor (clear_slot before
\* Request.destroy).  When work returns its defers run in the other order: slots
\* are left with closed descriptors, no request is left to be given one, and the
\* transport is only freed.
SlotOwnsFile ==
    net # NoNet => \A l \in Lanes :
        net[l].easy => IF w.pc = "exit" THEN active[l] = NoRequest
                       ELSE active[l] # NoRequest /\ net[l].fd = active[l].fd

\* Every file under a cache key is a whole picture, also after a crash or a
\* power cut at any moment of an install.
CachedIsWhole == \A i \in DOMAIN files : files[i].whole

\* The accounting never undercounts what is on disk, so the cache keeps its
\* budget although it scans the directory only when the count reaches it; an
\* install whose last fsync failed is on disk too.
OnDisk == Len(files) + TempBytes(Unlinked(temps, {active[l] : l \in Lanes}))

WithinBudget ==
    usage.known => /\ OnDisk <= usage.bytes /\ usage.bytes <= Bytes
                   /\ Len(files) <= usage.entries /\ usage.entries <= Entries

\* Private pictures do not outlive the permission: as long as one is on disk
\* while avatars are off, an eviction is due.  A download that was under way
\* when the permission went may still be installed, but before the eviction.
AvatarsEvicted ==
    avatars \/ evict \/ w.evict \/ \A k \in Avatars : ~HasFile(k)

\* Once the interface stops asking, every picture it asked for is answered,
\* dropped as no longer wanted, or overtaken by a new context: neither an answer
\* in the interface's hands nor a transfer that never ends blocks the lanes for
\* good.
Outstanding ==
    {queue[i].key : i \in DOMAIN queue} \cup
    {active[l].key : l \in {m \in Lanes : active[m] # NoRequest
                              /\ active[m].generation = generation}}

Served == Outstanding # {} ~> Outstanding = {}

\* The worker, its lanes, transport and cache implement the service: answers
\* only to what was asked in this context, one at a time, no avatar without
\* the permission.
Service == INSTANCE Pictures WITH asked <- Outstanding, answer <- result,
                                  allowed <- avatars
Implements == Service!Spec
=============================================================================
