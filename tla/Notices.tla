------------------------------ MODULE Notices ------------------------------
(***************************************************************************)
(* Desktop alerts of the Linux client.  The worker thread queues a notice    *)
(* per incoming message; the user-interface thread takes them, may wait for   *)
(* an avatar, and hands them to a backend that speaks to the notification     *)
(* daemon in asynchronous D-Bus calls.  The daemon may be slow, absent, or    *)
(* restart and number its alerts afresh.                                      *)
(*                                                                         *)
(*   src/client/notifications.c      the backend; its struct is variable n,   *)
(*                                   and each of its functions an operator    *)
(*                                   from the struct to the struct            *)
(*   src/client/Notification/Queue.zig   notices waiting for an avatar        *)
(*   src/client/Worker.zig           the bounded queue between the threads    *)
(*   src/client_main.zig             deliverNotifications, notificationAction *)
(*                                                                         *)
(* The daemon and the bus are external.  A bus connection delivers in order,  *)
(* and so do "out" and "events".  Wording, markup and pixels are left out: a   *)
(* message is its conversation and its number.  Definitions named Mut... are   *)
(* plausible mistakes in the definition that follows them and belong to no     *)
(* specification.                                                             *)
(***************************************************************************)
EXTENDS Naturals, FiniteSets, Sequences, SequencesExt, FiniteSetsExt

CONSTANTS
    Chats,        \* conversations
    NoChat,
    QueueLimit,   \* Worker.notifications: 64
    Limit,        \* Queue.pending and LIMIT: 64
    Abilities,    \* the capability sets a daemon may report
    MaxMessages,  \* bound: incoming messages
    MaxStarts,    \* bound: daemon incarnations
    MaxTimeouts   \* bound: calls that time out at a live daemon

ASSUME NoticesAssumption ==
    /\ NoChat \notin Chats
    /\ {QueueLimit, Limit} \subseteq Nat \ {0}
    /\ Abilities \subseteq SUBSET {"actions", "images"}
    /\ {MaxMessages, MaxStarts, MaxTimeouts} \subseteq Nat

VARIABLES
    arrived,   \* messages so far
    queue,     \* Worker.notifications
    reading,   \* the conversation readingConversation() would answer for
    waiting,   \* Queue.pending
    n,         \* ZcNotifications
    daemon,    \* the notification daemon (external)
    events,    \* bus messages the client has not dispatched (external)
    timeouts,  \* calls that timed out
    abandoned  \* serials of Notify calls given up while their daemon lived

vars == <<arrived, queue, reading, waiting, n, daemon, events, timeouts,
          abandoned>>

Slots == 1..Limit

\* These slots, in the order of the loops over them.
Increasing(f) == \A i, j \in DOMAIN f : i < j => f[i] < f[j]
InOrder(slots) ==
    CHOOSE f \in [1..Cardinality(slots) -> slots] : Increasing(f)

NoMessage == [chat |-> NoChat, number |-> 0]

Message == [chat: Chats \cup {NoChat}, number: 0..MaxMessages]

\* A slot of notices[]; clear_notice zeroes it.
NoNotice == [chat |-> NoChat, number |-> 0, id |-> 0, serial |-> 0,
             pending |-> FALSE]

Init ==
    /\ arrived = 0
    /\ queue = <<>>
    /\ reading = NoChat
    /\ waiting = [i \in Slots |-> NoMessage]
    /\ n = [refs |-> 1, serial |-> 0, generation |-> 0, stopped |-> FALSE,
            ready |-> FALSE, abilities |-> {}, owner |-> 0,
            notices |-> [i \in Slots |-> NoNotice], calls |-> {},
            out |-> <<>>]
    /\ daemon = [alive |-> 0, started |-> 0, ids |-> 0, shown |-> {}]
    /\ events = <<>>
    /\ timeouts = 0
    /\ abandoned = {}

-----------------------------------------------------------------------------
(* The backend.  Every operator takes the struct as s. *)

\* clear_notice.
ClearNotice(s, slot) == [s EXCEPT !.notices[slot] = NoNotice]

\* close_id: a call without reply.
CloseId(s, id) ==
    IF id # 0 /\ s.owner # 0
    THEN [s EXCEPT !.out = Append(@, [kind |-> "close", to |-> s.owner,
                                      id |-> id])]
    ELSE s

\* close_id of the alerts of these slots.
CloseSlots(s, slots) ==
    LET open == InOrder({i \in slots : s.notices[i].id # 0})
    IN  IF s.owner = 0 THEN s
        ELSE [s EXCEPT !.out = @ \o
                [k \in DOMAIN open |-> [kind |-> "close", to |-> s.owner,
                                        id |-> s.notices[open[k]].id]]]

\* close_id and clear_notice of these slots.
DropSlots(s, slots) ==
    [CloseSlots(s, slots) EXCEPT
        !.notices = [i \in Slots |-> IF i \in slots THEN NoNotice ELSE @[i]]]

\* new_call: the call keeps the object alive and remembers whose it is.
NewCall(s, kind, slot) ==
    [kind |-> kind, generation |-> s.generation, slot |-> slot,
     serial |-> s.notices[slot].serial, to |-> s.owner]

Request(s, call, message) ==
    [kind |-> call.kind, to |-> s.owner, call |-> call, message |-> message,
     actions |-> "actions" \in s.abilities]

\* release, of one finished call.
Release(s, call) == [s EXCEPT !.refs = @ - 1, !.calls = @ \ {call}]

\* send_notice of these slots, once the daemon's abilities are known.
SendNotices(s, slots) ==
    LET due == {i \in slots : s.notices[i].chat # NoChat
                              /\ s.notices[i].pending}
        order == InOrder(due)
        MessageIn(i) == [chat |-> s.notices[i].chat,
                         number |-> s.notices[i].number]
    IN  IF ~s.ready THEN s
        ELSE [s EXCEPT
                !.refs = @ + Cardinality(due),
                !.notices = [i \in Slots |-> IF i \in due
                                THEN [@[i] EXCEPT !.pending = FALSE] ELSE @[i]],
                !.calls = @ \cup {NewCall(s, "notify", i) : i \in due},
                !.out = @ \o [k \in DOMAIN order |->
                    Request(s, NewCall(s, "notify", order[k]),
                            MessageIn(order[k]))]]

\* zc_notifications_images: known not to show pictures.
WithoutImages(s) == s.ready /\ "images" \notin s.abilities

\* zc_notifications_dismiss.
Dismiss(s, chat) == DropSlots(s, {i \in Slots : s.notices[i].chat = chat})

\* The slot of a notice of this conversation, whose old notices go: the first free
\* one, or else the oldest notice's.
SlotFor(s, chat) ==
    LET free == {i \in Slots : s.notices[i].chat \in {chat, NoChat}}
    IN  IF free # {} THEN Min(free)
        ELSE CHOOSE i \in Slots :
                \A j \in Slots : s.notices[i].serial <= s.notices[j].serial

\* zc_notifications_show: the old notices of the conversation go, and whichever
\* is in the slot of the new one.
Show(s, message) ==
    LET slot == SlotFor(s, message.chat)
        gone == {slot} \cup {i \in Slots : s.notices[i].chat = message.chat}
        serial == s.serial + 1
        stored == [DropSlots(s, gone) EXCEPT
                     !.serial = serial,
                     !.notices[slot] =
                        [chat |-> message.chat, number |-> message.number,
                         id |-> 0, serial |-> serial, pending |-> TRUE]]
    IN  SendNotices(stored, {slot})

MutNotified(s, call, id) ==
    Release(IF s.notices[call.slot].chat # NoChat
            THEN [s EXCEPT !.notices[call.slot].id = id] ELSE s, call)

MutLateNotified(s, call, id) ==
    Release(IF s.notices[call.slot].serial = call.serial
            THEN [s EXCEPT !.notices[call.slot].id = id] ELSE s, call)

\* notified with a reply: the notice it was for learns its number, and an alert
\* nobody wants any more is closed.
Notified(s, call, id) ==
    LET v == s.notices[call.slot]
    IN  Release(IF s.stopped \/ call.generation # s.generation THEN s
                ELSE IF v.chat # NoChat /\ v.serial = call.serial
                THEN [s EXCEPT !.notices[call.slot].id = id]
                ELSE CloseId(s, id), call)

\* notified without a reply.
NotifyFailed(s, call) ==
    Release(IF /\ call.generation = s.generation
               /\ s.notices[call.slot].serial = call.serial
            THEN ClearNotice(s, call.slot) ELSE s, call)

\* capabilities: with or without a reply the daemon is ready, and the notices
\* that waited for it are sent.
Capabilities(s, call, reply, abilities) ==
    Release(IF s.stopped \/ call.generation # s.generation THEN s
            ELSE SendNotices([s EXCEPT !.ready = TRUE,
                                       !.abilities = IF reply THEN abilities
                                                     ELSE {}],
                             Slots), call)

\* appeared.
Appeared(s, owner) ==
    LET t == [s EXCEPT !.generation = @ + 1, !.ready = FALSE, !.owner = owner]
        call == NewCall(t, "capabilities", 1)
    IN  [t EXCEPT !.refs = @ + 1, !.calls = @ \cup {call},
                  !.out = Append(@, Request(t, call, NoMessage))]

\* vanished.
Vanished(s) ==
    [s EXCEPT !.generation = @ + 1, !.ready = FALSE, !.owner = 0,
              !.notices = [i \in Slots |-> NoNotice]]

\* zc_notifications_free: the calls under way keep the object.
Stop(s) == [CloseSlots(s, Slots) EXCEPT !.stopped = TRUE, !.refs = @ - 1]

\* The notice a signal of the daemon is about.
NoticesOf(s, id) == {i \in Slots : s.notices[i].chat # NoChat
                                   /\ id # 0 /\ s.notices[i].id = id}

-----------------------------------------------------------------------------
(* The queues in front of the backend. *)

MutEnqueue(message) ==
    IF Len(queue) = QueueLimit THEN queue ELSE Append(queue, message)

\* receiveEvents: keep the newest notices during a delivery stall.
Enqueue(message) ==
    Append(IF Len(queue) = QueueLimit THEN Tail(queue) ELSE queue, message)

\* The worker commits a live message of a conversation and queues its notice.
Arrive(chat) ==
    /\ arrived < MaxMessages
    /\ ~n.stopped
    /\ arrived' = arrived + 1
    /\ queue' = Enqueue([chat |-> chat, number |-> arrived + 1])
    /\ UNCHANGED <<reading, waiting, n, daemon, events, timeouts, abandoned>>

\* Queue.dismiss: forget what waits for this conversation.
Without(chat) ==
    [i \in Slots |-> IF waiting[i].chat = chat THEN NoMessage ELSE waiting[i]]

\* The slot Queue.submit waits in: the first free one, or else the one with the
\* earliest deadline, which is the one submitted first.
WaitSlot(w) ==
    LET free == {i \in Slots : w[i] = NoMessage}
    IN  IF free # {} THEN Min(free)
        ELSE CHOOSE i \in Slots : \A j \in Slots : w[i].number <= w[j].number

\* takeNotification and Queue.submit.  Whether an avatar is worth waiting for
\* depends on the media cache too, and may go either way.
Deliver ==
    /\ queue # <<>>
    /\ ~n.stopped
    /\ queue' = Tail(queue)
    /\ LET message == Head(queue)
           rest == Without(message.chat)
           dismissed == Dismiss(n, message.chat)
           slot == WaitSlot(rest)
       IN  \/ /\ reading = message.chat        \* being read: no alert
              /\ UNCHANGED <<waiting, n>>
           \/ /\ reading # message.chat
              /\ waiting' = rest
              /\ n' = Show(n, message)         \* dismisses as well
           \/ /\ reading # message.chat
              /\ ~WithoutImages(n)
              /\ waiting' = [rest EXCEPT ![slot] = message]
              /\ n' = IF rest[slot] = NoMessage THEN dismissed
                      ELSE Show(dismissed, rest[slot])
    /\ UNCHANGED <<arrived, reading, daemon, events, timeouts, abandoned>>

\* deliverNotifications: the conversation being read has no alert.
Read ==
    /\ reading # NoChat
    /\ ~n.stopped
    /\ queue = <<>>
    /\ waiting' = Without(reading)
    /\ n' = Dismiss(n, reading)
    /\ UNCHANGED <<arrived, queue, reading, daemon, events, timeouts,
                   abandoned>>

\* Queue.poll after the deadline, or Queue.accept with or without a picture.
Poll(slot) ==
    /\ waiting[slot] # NoMessage
    /\ ~n.stopped
    /\ n' = Show(n, waiting[slot])
    /\ waiting' = [waiting EXCEPT ![slot] = NoMessage]
    /\ UNCHANGED <<arrived, queue, reading, daemon, events, timeouts,
                   abandoned>>

\* The user turns to a conversation, or away from all of them.
Turn(chat) ==
    /\ ~n.stopped
    /\ chat # reading
    /\ reading' = chat
    /\ UNCHANGED <<arrived, queue, waiting, n, daemon, events, timeouts,
                   abandoned>>

\* The Notify calls of this struct whose daemon may still show an alert.
Live(s) == {c.serial : c \in {d \in s.calls : /\ d.kind = "notify"
                                              /\ d.to = daemon.alive}}

\* The client ends: Worker.deinit and Queue.deinit.  Cancelling gives up the
\* calls under way.  What the user and the daemon do of their own accord after
\* that is left out.
Quit ==
    /\ ~n.stopped
    /\ queue' = <<>>
    /\ reading' = NoChat
    /\ waiting' = [i \in Slots |-> NoMessage]
    /\ n' = Stop(n)
    /\ abandoned' = abandoned \cup Live(n)
    /\ UNCHANGED <<arrived, daemon, events, timeouts>>

-----------------------------------------------------------------------------
(* Callbacks, one per bus message. *)

\* A reply to a call that is still under way.
ReplyArrives(e) ==
    /\ e.kind \in {"notify", "capabilities"}
    /\ n' = IF e.call \notin n.calls THEN n
            ELSE IF e.kind = "notify" THEN Notified(n, e.call, e.id)
            ELSE Capabilities(n, e.call, TRUE, e.abilities)

\* signal_received: unsubscribed when stopped, and only from the owner.  The
\* notice a signal is about, if there is one; an activation token that comes
\* before a click is kept with it.
Heard(e) == IF n.stopped \/ e.from # n.owner THEN {} ELSE NoticesOf(n, e.id)

\* notificationAction opens the conversation and leaves the notice alone.
SignalArrives(e) ==
    /\ e.kind \in {"closed", "action"}
    /\ n' = IF e.kind = "action" \/ Heard(e) = {} THEN n
            ELSE ClearNotice(n, Min(Heard(e)))

\* The name watch, which ends when stopped.
OwnerChanges(e) ==
    /\ e.kind \in {"appeared", "vanished"}
    /\ n' = IF n.stopped THEN n
            ELSE IF e.kind = "appeared" THEN Appeared(n, e.from)
            ELSE Vanished(n)

Dispatch ==
    /\ events # <<>>
    /\ events' = Tail(events)
    /\ LET e == Head(events)
       IN  ReplyArrives(e) \/ SignalArrives(e) \/ OwnerChanges(e)
    /\ UNCHANGED <<arrived, queue, reading, waiting, daemon, timeouts,
                   abandoned>>

\* A call ends without a reply: its daemon is gone, it was cancelled, or two
\* seconds have passed.
CallFails(call) ==
    /\ call \in n.calls
    /\ LET gone == n.stopped \/ call.to # daemon.alive
       IN  /\ ~gone => timeouts < MaxTimeouts
           /\ timeouts' = IF gone THEN timeouts ELSE timeouts + 1
    /\ abandoned' = IF call.kind = "notify" /\ call.to = daemon.alive
                    THEN abandoned \cup {call.serial} ELSE abandoned
    /\ n' = IF call.kind = "notify" THEN NotifyFailed(n, call)
            ELSE Capabilities(n, call, FALSE, {})
    /\ UNCHANGED <<arrived, queue, reading, waiting, daemon, events>>

-----------------------------------------------------------------------------
(* The daemon (external). *)

Start ==
    /\ ~n.stopped
    /\ daemon.alive = 0
    /\ daemon.started < MaxStarts
    /\ daemon' = [alive |-> daemon.started + 1, started |-> daemon.started + 1,
                  ids |-> 0, shown |-> {}]
    /\ events' = Append(events, [kind |-> "appeared",
                                 from |-> daemon.started + 1])
    /\ UNCHANGED <<arrived, queue, reading, waiting, n, timeouts, abandoned>>

Die ==
    /\ ~n.stopped
    /\ daemon.alive # 0
    /\ daemon.started < MaxStarts   \* only to start again
    /\ daemon' = [daemon EXCEPT !.alive = 0, !.shown = {}]
    /\ events' = Append(events, [kind |-> "vanished", from |-> daemon.alive])
    /\ UNCHANGED <<arrived, queue, reading, waiting, n, timeouts, abandoned>>

\* The daemon serves its next request; a request to an earlier one is lost.
Serve ==
    /\ n.out # <<>>
    /\ n' = [n EXCEPT !.out = Tail(@)]
    /\ LET r == Head(n.out)
           id == daemon.ids + 1
           closed == {a \in daemon.shown : r.kind = "close" /\ a.id = r.id}
       IN  IF r.to # daemon.alive THEN UNCHANGED <<daemon, events>>
           ELSE \/ /\ r.kind = "notify"
                   /\ daemon' = [daemon EXCEPT !.ids = id, !.shown = @ \cup
                                   {[id |-> id, chat |-> r.message.chat,
                                     number |-> r.message.number,
                                     serial |-> r.call.serial,
                                     actions |-> r.actions]}]
                   /\ events' = Append(events, [kind |-> "notify",
                                    from |-> r.to, call |-> r.call, id |-> id])
                \/ /\ r.kind = "capabilities"
                   /\ \E abilities \in Abilities :
                        events' = Append(events, [kind |-> "capabilities",
                            from |-> r.to, call |-> r.call,
                            abilities |-> abilities])
                   /\ UNCHANGED daemon
                \/ /\ r.kind = "close"
                   /\ daemon' = [daemon EXCEPT !.shown = @ \ closed]
                   /\ events' = IF closed = {} THEN events
                                ELSE Append(events, [kind |-> "closed",
                                                from |-> r.to, id |-> r.id])
    /\ UNCHANGED <<arrived, queue, reading, waiting, timeouts, abandoned>>

\* An alert expires, or the user closes it.
Expire(alert) ==
    /\ ~n.stopped
    /\ alert \in daemon.shown
    /\ daemon' = [daemon EXCEPT !.shown = @ \ {alert}]
    /\ events' = Append(events, [kind |-> "closed", from |-> daemon.alive,
                                 id |-> alert.id])
    /\ UNCHANGED <<arrived, queue, reading, waiting, n, timeouts, abandoned>>

\* The user clicks an alert that offers it; one click is under way at a time.
Click(alert) ==
    /\ ~n.stopped
    /\ alert \in daemon.shown
    /\ alert.actions
    /\ \A i \in DOMAIN events : events[i].kind # "action"
    /\ events' = Append(events, [kind |-> "action", from |-> daemon.alive,
                                 id |-> alert.id, chat |-> alert.chat])
    /\ UNCHANGED <<arrived, queue, reading, waiting, n, daemon, timeouts,
                   abandoned>>

\* The two things every turn of the user interface's main loop does:
\* deliverNotifications and zc_notifications_poll.
DeliverNotifications ==
    \/ Deliver
    \/ Read
    \/ \E i \in Slots : Poll(i)

Callbacks ==
    \/ Dispatch
    \/ \E c \in n.calls : CallFails(c)

Next ==
    \/ \E c \in Chats : Arrive(c)
    \/ \E c \in Chats \cup {NoChat} : Turn(c)
    \/ DeliverNotifications
    \/ Callbacks
    \/ Quit
    \/ Start
    \/ Die
    \/ Serve
    \/ \E a \in daemon.shown : Expire(a) \/ Click(a)

Spec == Init /\ [][Next]_vars

\* The main loop turns at least every 25 ms; a living daemon reads its socket; a
\* call to a dead one fails.
FairSpec ==
    /\ Spec
    /\ WF_vars(DeliverNotifications)
    /\ WF_vars(Callbacks)
    /\ WF_vars(Serve)

-----------------------------------------------------------------------------
(* Properties. *)

\* The one type invariant.
TypeOK ==
    /\ arrived \in 0..MaxMessages
    /\ queue \in Seq(Message) /\ Len(queue) <= QueueLimit
    /\ reading \in Chats \cup {NoChat}
    /\ waiting \in [Slots -> Message]
    /\ n.refs \in Nat /\ n.serial \in Nat /\ n.generation \in Nat
    /\ n.notices \in [Slots -> [chat: Chats \cup {NoChat},
                                number: 0..MaxMessages, id: Nat, serial: Nat,
                                pending: BOOLEAN]]
    /\ daemon.alive \in 0..MaxStarts
    /\ timeouts \in 0..MaxTimeouts

\* The worker's queue holds the newest notices with none missing between them,
\* so a stalled window loses only the oldest.
NewestKept ==
    \A i \in DOMAIN queue : queue[i].number = arrived - Len(queue) + i

\* A click opens the conversation its alert was for: late replies, reused slots,
\* a restarted daemon's recycled numbers never lead to another one.
ClickOpensItsChat ==
    (events # <<>> /\ Head(events).kind = "action") =>
        \A i \in Heard(Head(events)) :
            n.notices[i].chat = Head(events).chat

\* Every alert on the screen of a running client has somebody who can take it
\* down: the notice that knows its number, a request to close it, or a reply that
\* will tell its number.  The exceptions are the Notify calls given up.
Accounted ==
    \A a \in daemon.shown :
        \/ a.serial \in abandoned
        \/ \E i \in DOMAIN n.out : n.out[i].kind = "close"
                                   /\ n.out[i].to = daemon.alive
                                   /\ n.out[i].id = a.id
        \/ \E i \in DOMAIN events : events[i].kind = "notify"
                                    /\ events[i].id = a.id
                                    /\ events[i].call \in n.calls
        \/ ~n.stopped /\ \E i \in Slots : /\ n.notices[i].id = a.id
                                          /\ n.notices[i].chat = a.chat
                                          /\ n.notices[i].number = a.number

\* "Reading the conversation dismisses its current alert": the conversation being
\* read never keeps an alert for good, not even one whose Notify call was under
\* way.
ReadingDismisses ==
    []<>(n.stopped \/ \A a \in daemon.shown :
            a.chat = reading => a.serial \in abandoned)

=============================================================================
