------------------------------ MODULE Desktop ------------------------------
(***************************************************************************)
(* The client's window: how worker threads wake the user-interface thread,   *)
(* and how files dragged over the window reach the composer.                 *)
(*                                                                         *)
(*   src/client/desktop.c           zc_desktop_wake and zc_desktop_wait, the   *)
(*                                  order of zc_desktop_poll                 *)
(*   src/client/desktop/wayland.c   callbacks of a Wayland data device, the    *)
(*                                  one transfer; its statics are variable d   *)
(*   src/client/drop.c              parsing and delivery of a list of files    *)
(*   src/client_main.zig            the main loop, handleDrops               *)
(*                                                                         *)
(* Wayland callbacks run on the user-interface thread while SDL pumps events,  *)
(* in zc_desktop_poll and in SDL_WaitEventTimeout.  The compositor, the source  *)
(* of a drag and SDL's event queue are external.  A list of files is a sequence *)
(* of lines, each of a kind the parser tells apart, and a byte is a line.      *)
(* Activation tokens, text input and the clipboard, which SDL owns, are left   *)
(* out.  Definitions named Mut... are plausible mistakes in the definition that *)
(* follows them and belong to no specification.                               *)
(***************************************************************************)
EXTENDS Naturals, FiniteSets, Sequences

CONSTANTS
    Offers,      \* data offers the compositor may announce
    NoOffer,
    Contents,    \* the lists a source may write
    OfferLimit,  \* offers kept: 32
    FileLimit,   \* ZC_DROP_FILES
    ByteLimit,   \* ZC_DROP_BYTES, in lines
    Patience,    \* steps of the clock until a transfer's deadline: 2 s
    Workers      \* threads that call zc_desktop_wake

\* What zc_drop_parse tells apart: a local file, a comment or an empty line, a
\* line it refuses; a NUL is seen before parsing.
Lines == {"file", "comment", "bad", "nul"}

ASSUME DesktopAssumption ==
    /\ NoOffer \notin Offers
    /\ Contents \subseteq Seq(Lines)
    /\ {OfferLimit, FileLimit, ByteLimit, Patience} \subseteq Nat

VARIABLES
    d,        \* wayland.c and drop.c
    stage,    \* each offer at the compositor (external)
    content,  \* the list the source of the transfer writes (external)
    pipe,     \* the pipe of the transfer (external)
    gui,      \* where the user-interface thread is
    worker,   \* where each worker is in zc_desktop_wake
    wake,     \* wake_pending
    event,    \* a wake event in SDL's queue (external)
    fresh     \* a worker has published something the interface has not read

vars == <<d, stage, content, pipe, gui, worker, wake, event, fresh>>

NoTransfer == [offer |-> NoOffer, length |-> 0, left |-> 0]

Init ==
    /\ d = [offers |-> {}, uris |-> {}, drag |-> NoOffer,
            transfer |-> NoTransfer, device |-> FALSE, hovered |-> FALSE,
            rejected |-> FALSE, pending |-> <<>>]
    /\ stage = [o \in Offers |-> "none"]
    /\ content = <<>>
    /\ pipe = [written |-> 0, closed |-> FALSE]
    /\ gui = "poll"
    /\ worker = [w \in Workers |-> "idle"]
    /\ wake = FALSE
    /\ event = FALSE
    /\ fresh = FALSE

-----------------------------------------------------------------------------
(* drop.c, and the offers of wayland.c.  Every operator takes d as s. *)

FilesOf(list) == SelectSeq(list, LAMBDA line : line = "file")

Valid(list) ==
    /\ Len(list) <= ByteLimit
    /\ \A i \in DOMAIN list : list[i] \notin {"bad", "nul"}
    /\ Len(FilesOf(list)) <= FileLimit

MutParse(s, list) ==
    IF Valid(list) THEN [s EXCEPT !.pending = FilesOf(list)]
    ELSE [s EXCEPT !.pending = FilesOf(SubSeq(list, 1, FileLimit)),
                   !.rejected = TRUE]

\* zc_drop_parse into pending: the whole list or nothing.
Parse(s, list) ==
    IF Valid(list) THEN [s EXCEPT !.pending = FilesOf(list)]
    ELSE [s EXCEPT !.pending = <<>>, !.rejected = TRUE]

\* zc_drop_offer.
DropOffer(s, list) == Parse([s EXCEPT !.hovered = FALSE], list)

\* zc_drop_reject.
DropReject(s) == [s EXCEPT !.rejected = TRUE]

\* destroy_offer.
DestroyOffer(s, o) ==
    [s EXCEPT !.offers = @ \ {o}, !.uris = @ \ {o},
              !.drag = IF @ = o THEN NoOffer ELSE @]

MutFinishTransfer(s, complete) ==
    LET t == s.transfer
        list == SubSeq(content, 1, t.length)
    IN  IF t.offer = NoOffer THEN s
        ELSE [(IF complete THEN DropOffer(s, list) ELSE DropReject(s))
              EXCEPT !.transfer = NoTransfer]

\* finish_transfer: deliver or reject, then release the pipe and the offer.
FinishTransfer(s, complete) ==
    LET t == s.transfer
        list == SubSeq(content, 1, t.length)
    IN  IF t.offer = NoOffer THEN s
        ELSE [DestroyOffer(IF complete THEN DropOffer(s, list)
                           ELSE DropReject(s), t.offer)
              EXCEPT !.transfer = NoTransfer]

MutWaylandPoll(s) ==
    LET t == s.transfer
        got == SubSeq(content, t.length + 1, pipe.written)
        read == [s EXCEPT !.transfer.length = pipe.written]
    IN  IF t.offer = NoOffer THEN s
        ELSE IF \E i \in DOMAIN got : got[i] = "nul" THEN FinishTransfer(s, FALSE)
        ELSE IF pipe.written > ByteLimit THEN FinishTransfer(read, FALSE)
        ELSE IF pipe.closed THEN FinishTransfer(read, TRUE)
        ELSE read

\* zc_wayland_poll: read what the pipe holds.
WaylandPoll(s) ==
    LET t == s.transfer
        got == SubSeq(content, t.length + 1, pipe.written)
        read == [s EXCEPT !.transfer.length = pipe.written]
    IN  IF t.offer = NoOffer THEN s
        ELSE IF t.left = 0 THEN FinishTransfer(s, FALSE)
        ELSE IF \E i \in DOMAIN got : got[i] = "nul" THEN FinishTransfer(s, FALSE)
        ELSE IF pipe.written > ByteLimit THEN FinishTransfer(read, FALSE)
        ELSE IF pipe.closed THEN FinishTransfer(read, TRUE)
        ELSE read

\* free_device.
FreeDevice(s) ==
    [FinishTransfer(s, FALSE) EXCEPT
        !.offers = {}, !.uris = {}, !.drag = NoOffer, !.device = FALSE,
        !.hovered = FALSE]

-----------------------------------------------------------------------------
(* The data device's callbacks, as the compositor may send them. *)

Pumping == gui \in {"pump", "wait"}

\* A transfer that starts has a new pipe and a source with some list; what the
\* source of an ended one would write does not matter.
Sources ==
    IF d'.transfer.offer = d.transfer.offer THEN UNCHANGED <<content, pipe>>
    ELSE /\ content' \in IF d'.transfer.offer = NoOffer THEN {<<>>} ELSE Contents
         /\ pipe' = [written |-> 0, closed |-> FALSE]

\* bind_device, once manager and seat are there.
BindDevice ==
    /\ Pumping
    /\ ~d.device
    /\ d' = [d EXCEPT !.device = TRUE]
    /\ UNCHANGED <<stage, content, pipe, gui, worker, wake, event, fresh>>

\* removed, of the seat or the manager; zc_wayland_free does the same.
Removed ==
    /\ Pumping
    /\ d.device
    /\ d' = FreeDevice(d)
    /\ stage' = [o \in Offers |-> "none"]
    /\ Sources
    /\ UNCHANGED <<gui, worker, wake, event, fresh>>

\* offered: at the limit, or out of memory, the proxy is destroyed at once.
Offered(o) ==
    /\ Pumping
    /\ d.device
    /\ stage[o] = "none"
    /\ o \notin d.offers
    /\ d' = IF Cardinality(d.offers) < OfferLimit
            THEN [d EXCEPT !.offers = @ \cup {o}]
            ELSE DropReject(d)
    /\ stage' = [stage EXCEPT ![o] = "fresh"]
    /\ UNCHANGED <<content, pipe, gui, worker, wake, event, fresh>>

\* mime: the offer has a list of files.
Mime(o) ==
    /\ Pumping
    /\ stage[o] = "fresh"
    /\ o \in d.offers \ d.uris
    /\ d' = [d EXCEPT !.uris = @ \cup {o}]
    /\ UNCHANGED <<stage, content, pipe, gui, worker, wake, event, fresh>>

\* enter; the proxy of an offer destroyed before arrives as NULL.
Enter(o, own) ==
    /\ Pumping
    /\ stage[o] = "fresh"
    /\ \A p \in Offers : stage[p] # "over"
    /\ LET left == [DestroyOffer(d, d.drag) EXCEPT !.hovered = FALSE]
       IN  d' = IF o \notin d.offers THEN left
                ELSE [left EXCEPT !.drag = o,
                                  !.hovered = o \in d.uris /\ own]
    /\ stage' = [stage EXCEPT ![o] = "over"]
    /\ Sources
    /\ UNCHANGED <<gui, worker, wake, event, fresh>>

\* leave.
Leave(o) ==
    /\ Pumping
    /\ stage[o] = "over"
    /\ d' = DestroyOffer([d EXCEPT !.hovered = FALSE], d.drag)
    /\ stage' = [stage EXCEPT ![o] = "none"]
    /\ Sources
    /\ UNCHANGED <<gui, worker, wake, event, fresh>>

\* The transfer dropped starts, if it can: one at a time, and a pipe and a
\* buffer must be had.
StartTransfer(s, can) ==
    IF s.transfer.offer # NoOffer \/ ~can THEN DropReject(s)
    ELSE [s EXCEPT !.transfer = [offer |-> s.drag, length |-> 0,
                                 left |-> Patience],
                   !.drag = NoOffer]

\* dropped.
Dropped(o, can) ==
    /\ Pumping
    /\ stage[o] = "over"
    /\ LET s == IF d.drag # NoOffer /\ d.hovered THEN StartTransfer(d, can)
                ELSE d
       IN  d' = DestroyOffer([s EXCEPT !.hovered = FALSE], s.drag)
    /\ stage' = [stage EXCEPT ![o] = "none"]
    /\ Sources
    /\ UNCHANGED <<gui, worker, wake, event, fresh>>

\* selection: the clipboard is SDL's.
Selection(o) ==
    /\ Pumping
    /\ stage[o] = "fresh"
    /\ d' = DestroyOffer(d, o)
    /\ stage' = [stage EXCEPT ![o] = "none"]
    /\ Sources
    /\ UNCHANGED <<gui, worker, wake, event, fresh>>

-----------------------------------------------------------------------------
(* The source of the transfer, and the clock. *)

Source ==
    /\ d.transfer.offer # NoOffer
    /\ ~pipe.closed
    /\ pipe' = IF pipe.written < Len(content)
               THEN [pipe EXCEPT !.written = @ + 1]
               ELSE [pipe EXCEPT !.closed = TRUE]
    /\ UNCHANGED <<d, stage, content, gui, worker, wake, event, fresh>>

Tick ==
    /\ d.transfer.left > 0
    /\ d' = [d EXCEPT !.transfer.left = @ - 1]
    /\ UNCHANGED <<stage, content, pipe, gui, worker, wake, event, fresh>>

-----------------------------------------------------------------------------
(* The main loop. *)

\* zc_desktop_poll up to the pump.
PollBegin ==
    /\ gui = "poll"
    /\ gui' = "pump"
    /\ d' = WaylandPoll(d)
    /\ Sources
    /\ UNCHANGED <<stage, worker, wake, event, fresh>>

\* The rest of zc_desktop_poll; the event loop then empties SDL's queue.
PollEnd ==
    /\ gui = "pump"
    /\ gui' = "update"
    /\ d' = WaylandPoll(d)
    /\ event' = FALSE
    /\ Sources
    /\ UNCHANGED <<stage, worker, wake, fresh>>

\* App.update reads what workers published and handleDrops takes the files.
Update ==
    /\ gui = "update"
    /\ gui' = "check"
    /\ fresh' = FALSE
    /\ d' = [d EXCEPT !.rejected = FALSE, !.pending = <<>>]
    /\ UNCHANGED <<stage, content, pipe, worker, wake, event>>

MutCheck ==
    /\ gui = "check"
    /\ gui' = "wait"
    /\ UNCHANGED <<d, stage, content, pipe, worker, wake, event, fresh>>

\* zc_desktop_wait waits only if nobody has called zc_desktop_wake.
Check ==
    /\ gui = "check"
    /\ gui' = IF wake THEN "clear" ELSE "wait"
    /\ UNCHANGED <<d, stage, content, pipe, worker, wake, event, fresh>>

\* SDL_WaitEventTimeout ends with an event, which it leaves queued.
Woken ==
    /\ gui = "wait"
    /\ event
    /\ gui' = "clear"
    /\ UNCHANGED <<d, stage, content, pipe, worker, wake, event, fresh>>

\* It ends with the timeout.
TimedOut ==
    /\ gui = "wait"
    /\ gui' = "clear"
    /\ UNCHANGED <<d, stage, content, pipe, worker, wake, event, fresh>>

\* zc_desktop_wait: take the flag.
Clear ==
    /\ gui = "clear"
    /\ gui' = "poll"
    /\ wake' = FALSE
    /\ UNCHANGED <<d, stage, content, pipe, worker, event, fresh>>

-----------------------------------------------------------------------------
(* Workers. *)

Publish(w) ==
    /\ worker[w] = "idle"
    /\ worker' = [worker EXCEPT ![w] = "published"]
    /\ fresh' = TRUE
    /\ UNCHANGED <<d, stage, content, pipe, gui, wake, event>>

\* zc_desktop_wake: set the flag; who finds it clear pushes the event.
Signal(w) ==
    /\ worker[w] = "published"
    /\ worker' = [worker EXCEPT ![w] = IF wake THEN "idle" ELSE "pushing"]
    /\ wake' = TRUE
    /\ UNCHANGED <<d, stage, content, pipe, gui, event, fresh>>

Push(w) ==
    /\ worker[w] = "pushing"
    /\ worker' = [worker EXCEPT ![w] = "idle"]
    /\ event' = TRUE
    /\ UNCHANGED <<d, stage, content, pipe, gui, wake, fresh>>

Compositor ==
    \/ BindDevice
    \/ Removed
    \/ \E o \in Offers :
          \/ Offered(o)
          \/ Mime(o)
          \/ \E own \in BOOLEAN : Enter(o, own)
          \/ Leave(o)
          \/ \E can \in BOOLEAN : Dropped(o, can)
          \/ Selection(o)

Gui ==
    \/ PollBegin
    \/ PollEnd
    \/ Update
    \/ Check
    \/ Woken
    \/ Clear

Next ==
    \/ Compositor
    \/ Source
    \/ Tick
    \/ Gui
    \/ TimedOut
    \/ \E w \in Workers : Publish(w) \/ Signal(w) \/ Push(w)

Spec == Init /\ [][Next]_vars

\* Threads run on.  A wait times out for certain only while a transfer is under
\* way, when zc_wayland_wait_limit keeps it to 10 ms.  The compositor and the
\* source owe nothing.
FairSpec ==
    /\ Spec
    /\ WF_vars(Gui)
    /\ WF_vars(TimedOut /\ d.transfer.offer # NoOffer)
    /\ WF_vars(Tick)
    /\ \A w \in Workers : WF_vars(Signal(w) \/ Push(w))

-----------------------------------------------------------------------------
(* Properties. *)

\* The one type invariant.
TypeOK ==
    /\ d.offers \subseteq Offers /\ d.uris \subseteq d.offers
    /\ d.drag \in Offers \cup {NoOffer}
    /\ d.transfer.offer \in Offers \cup {NoOffer}
    /\ d.transfer.length \in 0..(ByteLimit + 1)
    /\ d.transfer.left \in 0..Patience
    /\ d.pending \in Seq(Lines) /\ Len(d.pending) <= FileLimit
    /\ {d.device, d.hovered, d.rejected} \subseteq BOOLEAN
    /\ stage \in [Offers -> {"none", "fresh", "over"}]
    /\ gui \in {"poll", "pump", "update", "check", "wait", "clear"}
    /\ worker \in [Workers -> {"idle", "published", "pushing"}]

\* No callback uses an offer that was destroyed, and none is forgotten: the
\* offers kept are the drag, the transfer and those the compositor has still to
\* give a purpose.
OffersAccounted ==
    /\ {d.drag, d.transfer.offer} \subseteq d.offers \cup {NoOffer}
    /\ d.drag = d.transfer.offer => d.drag = NoOffer
    /\ d.offers \subseteq {d.drag, d.transfer.offer}
                          \cup {o \in Offers : stage[o] = "fresh"}

\* "All-or-none delivery": what the composer takes is a whole list that a source
\* has written, never part of one.
AllOrNone ==
    d.pending # <<>> =>
        \E list \in Contents : Valid(list) /\ d.pending = FilesOf(list)

\* What a worker publishes is read, without the help of a timeout.
PublicationSeen == fresh ~> ~fresh

\* A transfer ends even if its source never writes or never closes.
TransferEnds == (d.transfer.offer # NoOffer) ~> (d.transfer.offer = NoOffer)

=============================================================================
