---------------------------- MODULE DesktopProofs ----------------------------
(***************************************************************************)
(* Proofs about Desktop for any offers, lists, limits and workers: what the    *)
(* composer takes is a whole list, no offer is used after it was destroyed or  *)
(* forgotten, and the window does not sleep over what a worker published.      *)
(***************************************************************************)
EXTENDS Desktop, SequenceTheorems, TLAPS
-----------------------------------------------------------------------------
(* The inductive invariant.                                                 *)

\* The whole lists that may be delivered.
Delivered == {FilesOf(list) : list \in {l \in Contents : Valid(l)}}

Transfer == [offer: Offers \cup {NoOffer}, length: Nat, left: Nat]

Device == [offers: SUBSET Offers, uris: SUBSET Offers, drag: Offers \cup {NoOffer},
           transfer: Transfer, device: BOOLEAN, hovered: BOOLEAN, rejected: BOOLEAN,
           pending: {<<>>} \cup Delivered]

\* The offers of wayland.c, s, as the compositor has them, g: the one dragged is over
\* the window, the one of the transfer was dropped, the others are still fresh.
OfferInv(s, g) ==
    /\ s \in Device /\ g \in [Offers -> {"none", "fresh", "over"}]
    /\ s.uris \subseteq s.offers
    /\ {s.drag, s.transfer.offer} \subseteq s.offers \cup {NoOffer}
    /\ s.drag # NoOffer => g[s.drag] = "over"
    /\ s.transfer.offer # NoOffer => g[s.transfer.offer] = "none"
    /\ \A o \in s.offers : o \in {s.drag, s.transfer.offer} \/ g[o] = "fresh"
    /\ \A o, p \in Offers : g[o] = "over" /\ g[p] = "over" => o = p

\* The source of the transfer writes a whole list before it closes the pipe.
PipeInv(s, list, p) ==
    s.transfer.offer # NoOffer =>
        /\ list \in Contents /\ p.written \in 0..Len(list) /\ p.closed \in BOOLEAN
        /\ p.closed => p.written = Len(list)

\* What was published and not read has a worker or the flag behind it, and the flag
\* of a window that waits an event or a worker that will push one.
WakeInv ==
    /\ worker \in [Workers -> {"idle", "published", "pushing"}]
    /\ {wake, event, fresh} \subseteq BOOLEAN
    /\ gui \in {"check", "wait", "clear"} /\ fresh =>
         wake \/ \E w \in Workers : worker[w] = "published"
    /\ gui = "wait" /\ wake => event \/ \E w \in Workers : worker[w] = "pushing"

Invariant == OfferInv(d, stage) /\ PipeInv(d, content, pipe) /\ WakeInv

\* A window that waits while something published is unread is about to be woken.
NeverAsleep == gui = "wait" /\ fresh => event \/ \E w \in Workers : worker[w] # "idle"

-----------------------------------------------------------------------------
(* Offers and the transfer.                                                 *)

\* The fields of a state of the device.
LEMMA DeviceFacts ==
    ASSUME NEW s \in Device
    PROVE  /\ s.offers \subseteq Offers /\ s.uris \subseteq Offers
           /\ s.drag \in Offers \cup {NoOffer}
           /\ s.transfer.offer \in Offers \cup {NoOffer}
           /\ s.transfer.length \in Nat /\ s.transfer.left \in Nat
           /\ s.transfer \in Transfer
           /\ s.pending \in {<<>>} \cup Delivered
  BY DEF Device, Transfer

\* destroy_offer.
LEMMA DestroyFacts ==
    ASSUME NEW s \in Device, NEW o
    PROVE  LET t == DestroyOffer(s, o)
           IN  /\ t \in Device
               /\ t.offers = s.offers \ {o} /\ t.uris = s.uris \ {o}
               /\ t.drag = IF s.drag = o THEN NoOffer ELSE s.drag
               /\ t.transfer = s.transfer /\ t.pending = s.pending
               /\ t.hovered = s.hovered
  <1> DEFINE offers == s.offers \ {o}
             uris == s.uris \ {o}
             drag == IF s.drag = o THEN NoOffer ELSE s.drag
             t == DestroyOffer(s, o)
  <1>1. /\ offers \in SUBSET Offers /\ uris \in SUBSET Offers
        /\ drag \in Offers \cup {NoOffer}
    BY DeviceFacts
  <1>2. t = [s EXCEPT !.offers = offers, !.uris = uris, !.drag = drag]
    BY DEF DestroyOffer, Device
  <1> HIDE DEF offers, uris, drag, t
  <1>3. /\ t \in Device /\ t.offers = offers /\ t.uris = uris /\ t.drag = drag
        /\ t.transfer = s.transfer /\ t.pending = s.pending /\ t.hovered = s.hovered
    BY <1>1, <1>2 DEF Device
  <1> QED BY <1>3 DEF t, offers, uris, drag

\* What is delivered or rejected leaves the offers alone.
LEMMA DropFacts ==
    ASSUME NEW s \in Device, NEW list
    PROVE  /\ LET t == DropReject(s)
              IN  /\ t \in Device /\ t.offers = s.offers /\ t.uris = s.uris
                  /\ t.drag = s.drag /\ t.transfer = s.transfer
           /\ list \in Contents =>
                LET t == DropOffer(s, list)
                IN  /\ t \in Device /\ t.offers = s.offers /\ t.uris = s.uris
                    /\ t.drag = s.drag /\ t.transfer = s.transfer
  <1>1. LET t == DropReject(s)
        IN  /\ t \in Device /\ t.offers = s.offers /\ t.uris = s.uris
            /\ t.drag = s.drag /\ t.transfer = s.transfer
    BY DEF DropReject, Device
  <1>2. ASSUME list \in Contents
        PROVE  LET t == DropOffer(s, list)
               IN  /\ t \in Device /\ t.offers = s.offers /\ t.uris = s.uris
                   /\ t.drag = s.drag /\ t.transfer = s.transfer
    <2> DEFINE u == [s EXCEPT !.hovered = FALSE]
               files == FilesOf(list)
               none == <<>>
    <2>1. /\ u \in Device /\ u.offers = s.offers /\ u.uris = s.uris
          /\ u.drag = s.drag /\ u.transfer = s.transfer
      BY DEF Device
    <2> HIDE DEF u
    <2>2. CASE Valid(list)
      <3>1. files \in {none} \cup Delivered
        BY <1>2, <2>2 DEF Delivered
      <3> DEFINE t == [u EXCEPT !.pending = files]
      <3>2. DropOffer(s, list) = t
        BY <2>2 DEF DropOffer, Parse, u
      <3> HIDE DEF files
      <3>3. /\ t \in Device /\ t.offers = u.offers /\ t.uris = u.uris
            /\ t.drag = u.drag /\ t.transfer = u.transfer
        BY <2>1, <3>1 DEF Device
      <3> QED BY <2>1, <3>2, <3>3
    <2>3. CASE ~Valid(list)
      <3> DEFINE t == [u EXCEPT !.pending = none, !.rejected = TRUE]
      <3>1. DropOffer(s, list) = t
        BY <2>3 DEF DropOffer, Parse, u
      <3>2. none \in {<<>>} \cup Delivered
        OBVIOUS
      <3> HIDE DEF none
      <3>3. /\ t \in Device /\ t.offers = u.offers /\ t.uris = u.uris
            /\ t.drag = u.drag /\ t.transfer = u.transfer
        BY <2>1, <3>2 DEF Device
      <3> QED BY <2>1, <3>1, <3>3
    <2> QED BY <2>2, <2>3
  <1> QED BY <1>1, <1>2

\* finish_transfer: the offer of the transfer goes, and no other.
LEMMA FinishFacts ==
    ASSUME NEW s \in Device, NEW complete \in BOOLEAN,
           complete /\ s.transfer.offer # NoOffer =>
              SubSeq(content, 1, s.transfer.length) \in Contents
    PROVE  LET t == FinishTransfer(s, complete)
               o == s.transfer.offer
           IN  /\ t \in Device /\ t.transfer.offer = NoOffer
               /\ t.offers = s.offers \ {o} /\ t.uris = s.uris \ {o}
               /\ t.drag = IF s.drag = o THEN NoOffer ELSE s.drag
  <1> DEFINE o == s.transfer.offer
             list == SubSeq(content, 1, s.transfer.length)
             u == IF complete THEN DropOffer(s, list) ELSE DropReject(s)
             v == DestroyOffer(u, o)
             t == [v EXCEPT !.transfer = NoTransfer]
  <1>1. CASE o = NoOffer
    <2>1. FinishTransfer(s, complete) = s
      BY <1>1 DEF FinishTransfer
    <2>2. NoOffer \notin s.offers /\ NoOffer \notin s.uris
      BY DeviceFacts, DesktopAssumption
    <2> QED BY <1>1, <2>1, <2>2
  <1>2. CASE o # NoOffer
    <2>1. /\ u \in Device /\ u.offers = s.offers /\ u.uris = s.uris
          /\ u.drag = s.drag /\ u.transfer = s.transfer
      <3> HIDE DEF list
      <3>1. complete => list \in Contents
        BY <1>2 DEF list
      <3> QED BY <3>1, DropFacts
    <2>2. FinishTransfer(s, complete) = t
      BY <1>2 DEF FinishTransfer
    <2> HIDE DEF u
    <2>3. /\ v \in Device /\ v.offers = s.offers \ {o} /\ v.uris = s.uris \ {o}
          /\ v.drag = IF s.drag = o THEN NoOffer ELSE s.drag
      BY <2>1, DestroyFacts
    <2> HIDE DEF v
    <2>4. NoTransfer \in Transfer /\ NoTransfer.offer = NoOffer
      BY DEF NoTransfer, Transfer
    <2>5. /\ t \in Device /\ t.transfer = NoTransfer /\ t.offers = v.offers
          /\ t.uris = v.uris /\ t.drag = v.drag
      BY <2>3, <2>4 DEF Device
    <2> QED BY <2>2, <2>3, <2>4, <2>5
  <1> QED BY <1>1, <1>2

\* A transfer that ends, whole or not.
LEMMA FinishKeeps ==
    ASSUME NEW s, NEW g, OfferInv(s, g), NEW complete \in BOOLEAN,
           complete /\ s.transfer.offer # NoOffer =>
              SubSeq(content, 1, s.transfer.length) \in Contents
    PROVE  /\ OfferInv(FinishTransfer(s, complete), g)
           /\ FinishTransfer(s, complete).transfer.offer = NoOffer
  <1> DEFINE t == FinishTransfer(s, complete)
             o == s.transfer.offer
  <1>1. s \in Device
    BY DEF OfferInv
  <1>2. /\ t \in Device /\ t.transfer.offer = NoOffer
        /\ t.offers = s.offers \ {o} /\ t.uris = s.uris \ {o}
        /\ t.drag = IF s.drag = o THEN NoOffer ELSE s.drag
    BY <1>1, FinishFacts
  <1> HIDE DEF t
  <1>3. OfferInv(t, g)
    BY <1>1, <1>2, DeviceFacts DEF OfferInv
  <1> QED BY <1>2, <1>3 DEF t

\* zc_wayland_poll: only a whole list is complete, as the source closes the pipe last.
LEMMA PollKeeps ==
    ASSUME NEW g, OfferInv(d, g), PipeInv(d, content, pipe)
    PROVE  /\ OfferInv(WaylandPoll(d), g)
           /\ WaylandPoll(d).transfer.offer \in {d.transfer.offer, NoOffer}
  <1> DEFINE read == [d EXCEPT !.transfer.length = pipe.written]
             t == WaylandPoll(d)
  <1>1. d \in Device
    BY DEF OfferInv
  <1>2. CASE d.transfer.offer = NoOffer
    BY <1>2 DEF WaylandPoll
  <1>3. CASE d.transfer.offer # NoOffer
    <2>1. /\ content \in Contents /\ pipe.written \in 0..Len(content)
          /\ pipe.closed \in BOOLEAN
          /\ pipe.closed => pipe.written = Len(content)
      BY <1>3 DEF PipeInv
    <2>2. content \in Seq(Lines) /\ Len(content) \in Nat
      BY <2>1, DesktopAssumption, LenProperties
    <2>3. /\ read \in Device /\ read.offers = d.offers /\ read.uris = d.uris
          /\ read.drag = d.drag /\ read.transfer.offer = d.transfer.offer
          /\ read.transfer.length = pipe.written
      <3> DEFINE transfer == [d.transfer EXCEPT !.length = pipe.written]
      <3>1. /\ transfer \in Transfer /\ transfer.offer = d.transfer.offer
            /\ transfer.length = pipe.written
        BY <1>1, <2>1, <2>2, DeviceFacts DEF Transfer
      <3>2. read = [d EXCEPT !.transfer = transfer]
        BY <1>1 DEF Device, Transfer
      <3> HIDE DEF transfer, read
      <3>3. /\ read \in Device /\ read.offers = d.offers /\ read.uris = d.uris
            /\ read.drag = d.drag /\ read.transfer = transfer
        BY <1>1, <3>1, <3>2 DEF Device
      <3> QED BY <3>1, <3>3
    <2>4. \/ t = FinishTransfer(d, FALSE)
          \/ t = FinishTransfer(read, FALSE)
          \/ t = FinishTransfer(read, TRUE) /\ pipe.closed
          \/ t = read
      BY <1>3 DEF WaylandPoll
    <2> HIDE DEF read, t
    <2>5. OfferInv(read, g)
      BY <2>3 DEF OfferInv
    <2>6. pipe.closed => SubSeq(content, 1, read.transfer.length) \in Contents
      BY <2>1, <2>2, <2>3, SubSeqFull
    <2>7. /\ OfferInv(FinishTransfer(d, FALSE), g)
          /\ FinishTransfer(d, FALSE).transfer.offer = NoOffer
          /\ OfferInv(FinishTransfer(read, FALSE), g)
          /\ FinishTransfer(read, FALSE).transfer.offer = NoOffer
      BY <2>5, FinishKeeps
    <2>8. pipe.closed => /\ OfferInv(FinishTransfer(read, TRUE), g)
                         /\ FinishTransfer(read, TRUE).transfer.offer = NoOffer
      BY <2>5, <2>6, FinishKeeps
    <2> QED BY <2>3, <2>4, <2>5, <2>7, <2>8 DEF t
  <1> QED BY <1>2, <1>3

\* The pipe of a transfer that goes on, and the one of a new transfer.
LEMMA SourcesKeep ==
    ASSUME PipeInv(d, content, pipe), Sources
    PROVE  PipeInv(d, content, pipe)'
  <1>1. CASE d'.transfer.offer = d.transfer.offer
    BY <1>1 DEF Sources, PipeInv
  <1>2. CASE d'.transfer.offer # d.transfer.offer
    <2>1. SUFFICES ASSUME d'.transfer.offer # NoOffer
                   PROVE  /\ content' \in Contents /\ pipe'.written \in 0..Len(content')
                          /\ pipe'.closed \in BOOLEAN
                          /\ pipe'.closed => pipe'.written = Len(content')
      BY DEF PipeInv
    <2>2. content' \in Contents /\ pipe' = [written |-> 0, closed |-> FALSE]
      BY <1>2, <2>1 DEF Sources
    <2>3. Len(content') \in Nat
      BY <2>2, DesktopAssumption, LenProperties
    <2> QED BY <2>2, <2>3
  <1> QED BY <1>1, <1>2

-----------------------------------------------------------------------------
(* The compositor's callbacks.                                              *)

\* A device is bound, or an offer names its types.
LEMMA BoundKeeps ==
    ASSUME OfferInv(d, stage), BindDevice \/ \E o \in Offers : Mime(o)
    PROVE  OfferInv(d, stage)' /\ d'.transfer = d.transfer
  <1>1. d \in Device
    BY DEF OfferInv
  <1>2. CASE BindDevice
    <2>1. d' = [d EXCEPT !.device = TRUE] /\ stage' = stage
      BY <1>2 DEF BindDevice
    <2>2. /\ d' \in Device /\ d'.offers = d.offers /\ d'.uris = d.uris
          /\ d'.drag = d.drag /\ d'.transfer = d.transfer
      BY <1>1, <2>1 DEF Device
    <2> QED BY <2>1, <2>2 DEF OfferInv
  <1>3. ASSUME NEW o \in Offers, Mime(o)
        PROVE  OfferInv(d, stage)' /\ d'.transfer = d.transfer
    <2> DEFINE uris == d.uris \cup {o}
    <2>1. d' = [d EXCEPT !.uris = uris] /\ stage' = stage /\ o \in d.offers
      BY <1>1, <1>3 DEF Mime, Device
    <2>2. uris \in SUBSET Offers
      BY <1>1, DeviceFacts
    <2> HIDE DEF uris
    <2>3. /\ d' \in Device /\ d'.offers = d.offers /\ d'.uris = uris
          /\ d'.drag = d.drag /\ d'.transfer = d.transfer
      BY <1>1, <2>1, <2>2 DEF Device
    <2>4. uris \subseteq d.offers
      BY <2>1 DEF uris, OfferInv
    <2> QED BY <2>1, <2>3, <2>4 DEF OfferInv
  <1> QED BY <1>2, <1>3

\* The seat or the manager is removed, and with it the device.
LEMMA RemovedKeeps ==
    ASSUME OfferInv(d, stage), Removed
    PROVE  OfferInv(d, stage)'
  <1> DEFINE t == FinishTransfer(d, FALSE)
             none == {}
  <1>1. d \in Device
    BY DEF OfferInv
  <1>2. t \in Device /\ t.transfer.offer = NoOffer
    BY <1>1, FinishFacts
  <1>3. /\ d' = [t EXCEPT !.offers = none, !.uris = none, !.drag = NoOffer,
                          !.device = FALSE, !.hovered = FALSE]
        /\ stage' = [o \in Offers |-> "none"]
    BY DEF Removed, FreeDevice
  <1>4. none \in SUBSET Offers /\ none = {}
    OBVIOUS
  <1> HIDE DEF t, none
  <1>5. /\ d' \in Device /\ d'.offers = none /\ d'.uris = none /\ d'.drag = NoOffer
        /\ d'.transfer = t.transfer
    BY <1>2, <1>3, <1>4 DEF Device
  <1> QED BY <1>2, <1>3, <1>4, <1>5 DEF OfferInv

\* A new offer is kept, or destroyed at once.
LEMMA OfferedKeeps ==
    ASSUME OfferInv(d, stage), NEW o \in Offers, Offered(o)
    PROVE  OfferInv(d, stage)' /\ d'.transfer = d.transfer
  <1>1. d \in Device /\ stage \in [Offers -> {"none", "fresh", "over"}]
    BY DEF OfferInv
  <1>2. /\ stage[o] = "none" /\ o \notin d.offers
        /\ stage' = [stage EXCEPT ![o] = "fresh"]
    BY DEF Offered
  <1>3. /\ d' \in Device /\ d'.offers \in {d.offers, d.offers \cup {o}}
        /\ d'.uris = d.uris /\ d'.drag = d.drag /\ d'.transfer = d.transfer
    <2>1. CASE Cardinality(d.offers) < OfferLimit
      <3> DEFINE offers == d.offers \cup {o}
      <3>1. d' = [d EXCEPT !.offers = offers]
        BY <1>1, <2>1 DEF Offered, Device
      <3>2. offers \in SUBSET Offers
        BY <1>1, DeviceFacts
      <3> HIDE DEF offers
      <3>3. /\ d' \in Device /\ d'.offers = offers /\ d'.uris = d.uris
            /\ d'.drag = d.drag /\ d'.transfer = d.transfer
        BY <1>1, <3>1, <3>2 DEF Device
      <3> QED BY <3>3 DEF offers
    <2>2. CASE ~(Cardinality(d.offers) < OfferLimit)
      <3>1. d' = DropReject(d)
        BY <2>2 DEF Offered
      <3> QED BY <1>1, <3>1, DropFacts
    <2> QED BY <2>1, <2>2
  <1>4. d.drag \in Offers \cup {NoOffer} /\ d.transfer.offer \in Offers \cup {NoOffer}
    BY <1>1, DeviceFacts
  <1>5. /\ d.drag # o /\ d.transfer.offer # o
        /\ \A p \in Offers : p # o => stage'[p] = stage[p]
        /\ stage'[o] = "fresh" /\ stage' \in [Offers -> {"none", "fresh", "over"}]
    BY <1>1, <1>2, DesktopAssumption DEF OfferInv
  <1>6. /\ d'.uris \subseteq d'.offers
        /\ {d'.drag, d'.transfer.offer} \subseteq d'.offers \cup {NoOffer}
    BY <1>3 DEF OfferInv
  <1>7. /\ d'.drag # NoOffer => stage'[d'.drag] = "over"
        /\ d'.transfer.offer # NoOffer => stage'[d'.transfer.offer] = "none"
    BY <1>3, <1>4, <1>5 DEF OfferInv
  <1>8. \A p \in d'.offers : p \in {d'.drag, d'.transfer.offer} \/ stage'[p] = "fresh"
    <2>1. \A p \in d.offers : p \in Offers /\ p # o
      BY <1>1, <1>2, DeviceFacts
    <2> QED BY <1>3, <1>5, <2>1 DEF OfferInv
  <1>9. \A p, q \in Offers : stage'[p] = "over" /\ stage'[q] = "over" => p = q
    BY <1>5 DEF OfferInv
  <1> QED BY <1>3, <1>5, <1>6, <1>7, <1>8, <1>9 DEF OfferInv

\* An offer of its own list of files enters the window, or another one does.
LEMMA EnterKeeps ==
    ASSUME OfferInv(d, stage), NEW o \in Offers, NEW own \in BOOLEAN, Enter(o, own)
    PROVE  OfferInv(d, stage)'
  <1> DEFINE v == DestroyOffer(d, d.drag)
             left == [v EXCEPT !.hovered = FALSE]
             hovered == o \in d.uris /\ own
  <1>1. d \in Device /\ stage \in [Offers -> {"none", "fresh", "over"}]
    BY DEF OfferInv
  <1>2. /\ stage[o] = "fresh" /\ \A p \in Offers : stage[p] # "over"
        /\ stage' = [stage EXCEPT ![o] = "over"]
    BY DEF Enter
  <1>3. d.drag = NoOffer
    BY <1>1, <1>2, DeviceFacts DEF OfferInv
  <1>4. /\ v \in Device /\ v.offers = d.offers /\ v.uris = d.uris
        /\ v.drag = NoOffer /\ v.transfer = d.transfer
    <2>1. NoOffer \notin d.offers /\ NoOffer \notin d.uris
      BY <1>1, DeviceFacts, DesktopAssumption
    <2>2. /\ v \in Device /\ v.offers = d.offers \ {d.drag}
          /\ v.uris = d.uris \ {d.drag}
          /\ v.drag = NoOffer /\ v.transfer = d.transfer
      BY <1>1, DestroyFacts
    <2> HIDE DEF v
    <2> QED BY <1>3, <2>1, <2>2
  <1>5. d' = IF o \notin d.offers THEN left
             ELSE [left EXCEPT !.drag = o, !.hovered = hovered]
    BY DEF Enter
  <1> HIDE DEF v
  <1>6. /\ left \in Device /\ left.offers = v.offers /\ left.uris = v.uris
        /\ left.drag = v.drag /\ left.transfer = v.transfer
    BY <1>4 DEF Device
  <1> HIDE DEF left
  <1>7. hovered \in BOOLEAN
    OBVIOUS
  <1> HIDE DEF hovered
  <1>8. /\ d' \in Device /\ d'.offers = d.offers /\ d'.uris = d.uris
        /\ d'.transfer = d.transfer
        /\ d'.drag = IF o \in d.offers THEN o ELSE NoOffer
    BY <1>4, <1>5, <1>6, <1>7 DEF Device
  <1>9. /\ \A p \in Offers : p # o => stage'[p] = stage[p]
        /\ stage'[o] = "over" /\ stage' \in [Offers -> {"none", "fresh", "over"}]
    BY <1>1, <1>2
  <1>10. d.transfer.offer \in Offers \cup {NoOffer} /\ d.transfer.offer # o
    BY <1>1, <1>2, DeviceFacts, DesktopAssumption DEF OfferInv
  <1>11. /\ d'.uris \subseteq d'.offers
         /\ {d'.drag, d'.transfer.offer} \subseteq d'.offers \cup {NoOffer}
    BY <1>8 DEF OfferInv
  <1>12. /\ d'.drag # NoOffer => stage'[d'.drag] = "over"
         /\ d'.transfer.offer # NoOffer => stage'[d'.transfer.offer] = "none"
    BY <1>8, <1>9, <1>10 DEF OfferInv
  <1>13. \A p \in d'.offers : p \in {d'.drag, d'.transfer.offer} \/ stage'[p] = "fresh"
    <2> SUFFICES ASSUME NEW p \in d.offers
                 PROVE  p \in {d'.drag, d'.transfer.offer} \/ stage'[p] = "fresh"
      BY <1>8
    <2>1. CASE p = o
      BY <1>8, <2>1
    <2>2. CASE p # o
      <3>1. p \in Offers /\ p # NoOffer
        BY <1>1, DeviceFacts, DesktopAssumption
      <3>2. p = d.transfer.offer \/ stage[p] = "fresh"
        BY <1>3, <3>1 DEF OfferInv
      <3> QED BY <1>8, <1>9, <2>2, <3>1, <3>2
    <2> QED BY <2>1, <2>2
  <1>14. \A p, q \in Offers : stage'[p] = "over" /\ stage'[q] = "over" => p = q
    BY <1>2, <1>9
  <1> QED BY <1>8, <1>9, <1>11, <1>12, <1>13, <1>14 DEF OfferInv

\* An offer loses its purpose: it leaves, is the clipboard's, or was not taken.
LEMMA GoneKeeps ==
    ASSUME NEW s, NEW g, OfferInv(s, g), NEW o \in Offers, g[o] # "none",
           NEW t, t = DestroyOffer(s, IF g[o] = "over" THEN s.drag ELSE o)
    PROVE  OfferInv(t, [g EXCEPT ![o] = "none"])
  <1> DEFINE h == [g EXCEPT ![o] = "none"]
             k == IF g[o] = "over" THEN s.drag ELSE o
  <1>1. s \in Device /\ g \in [Offers -> {"none", "fresh", "over"}]
    BY DEF OfferInv
  <1>2. /\ t \in Device /\ t.offers = s.offers \ {k} /\ t.uris = s.uris \ {k}
        /\ t.drag = IF s.drag = k THEN NoOffer ELSE s.drag
        /\ t.transfer = s.transfer
    <2> HIDE DEF k
    <2>1. t = DestroyOffer(s, k)
      BY DEF k
    <2> QED BY <1>1, <2>1, DestroyFacts
  <1>3. /\ \A p \in Offers : p # o => h[p] = g[p]
        /\ h[o] = "none" /\ h \in [Offers -> {"none", "fresh", "over"}]
    BY <1>1
  <1>4. /\ s.drag \in Offers \cup {NoOffer}
        /\ s.transfer.offer \in Offers \cup {NoOffer} /\ s.offers \subseteq Offers
    BY <1>1, DeviceFacts
  <1>5. s.drag # NoOffer => g[s.drag] = "over"
    BY DEF OfferInv
  <1>6. s.transfer.offer # NoOffer => g[s.transfer.offer] = "none"
    BY DEF OfferInv
  <1>7. t.drag # NoOffer => t.drag = s.drag /\ t.drag # o /\ t.drag \in t.offers
    <2>1. SUFFICES ASSUME t.drag # NoOffer
                   PROVE  t.drag = s.drag /\ t.drag # o /\ t.drag \in t.offers
      OBVIOUS
    <2>2. t.drag = s.drag /\ s.drag # k
      BY <1>2, <2>1
    <2>3. g[o] # "over"
      BY <2>2
    <2>4. s.drag \in s.offers
      BY <2>1, <2>2 DEF OfferInv
    <2> QED BY <1>2, <1>5, <2>1, <2>2, <2>3, <2>4
  <1>8. s.transfer.offer # NoOffer => s.transfer.offer # k /\ s.transfer.offer # o
    BY <1>4, <1>5, <1>6
  <1>9. \A p \in t.offers : p \in {t.drag, t.transfer.offer} \/ h[p] = "fresh"
    <2> SUFFICES ASSUME NEW p \in t.offers
                 PROVE  p \in {t.drag, t.transfer.offer} \/ h[p] = "fresh"
      OBVIOUS
    <2>1. p \in s.offers /\ p # k
      BY <1>2
    <2>2. p \in {s.drag, s.transfer.offer} \/ g[p] = "fresh"
      BY <2>1 DEF OfferInv
    <2>3. CASE p = s.drag
      BY <1>2, <2>1, <2>3
    <2>4. CASE p = s.transfer.offer
      BY <1>2, <2>4
    <2>5. CASE g[p] = "fresh"
      <3>1. p # o
        BY <2>1, <2>5
      <3> QED BY <1>3, <1>4, <2>1, <2>5, <3>1
    <2> QED BY <2>2, <2>3, <2>4, <2>5
  <1>10. /\ t.uris \subseteq t.offers
         /\ {t.drag, t.transfer.offer} \subseteq t.offers \cup {NoOffer}
    BY <1>2, <1>7, <1>8 DEF OfferInv
  <1>11. t.drag # NoOffer => h[t.drag] = "over"
    BY <1>3, <1>4, <1>5, <1>7
  <1>12. t.transfer.offer # NoOffer => h[t.transfer.offer] = "none"
    BY <1>2, <1>3, <1>4, <1>6, <1>8
  <1>13. \A p, q \in Offers : h[p] = "over" /\ h[q] = "over" => p = q
    BY <1>3 DEF OfferInv
  <1> QED BY <1>2, <1>3, <1>9, <1>10, <1>11, <1>12, <1>13 DEF OfferInv, h

\* An offer leaves the window, or becomes the selection.
LEMMA LeaveKeeps ==
    ASSUME OfferInv(d, stage), NEW o \in Offers, Leave(o) \/ Selection(o)
    PROVE  OfferInv(d, stage)'
  <1>1. d \in Device
    BY DEF OfferInv
  <1>2. CASE Selection(o)
    <2>1. /\ stage[o] = "fresh" /\ d' = DestroyOffer(d, o)
          /\ stage' = [stage EXCEPT ![o] = "none"]
      BY <1>2 DEF Selection
    <2> QED BY <2>1, GoneKeeps
  <1>3. CASE Leave(o)
    <2> DEFINE s == [d EXCEPT !.hovered = FALSE]
    <2>1. /\ s \in Device /\ s.offers = d.offers /\ s.uris = d.uris
          /\ s.drag = d.drag /\ s.transfer = d.transfer
      BY <1>1 DEF Device
    <2>2. /\ stage[o] = "over" /\ d' = DestroyOffer(s, d.drag)
          /\ stage' = [stage EXCEPT ![o] = "none"]
      BY <1>3 DEF Leave
    <2> HIDE DEF s
    <2>3. OfferInv(s, stage)
      BY <2>1 DEF OfferInv
    <2> QED BY <2>1, <2>2, <2>3, GoneKeeps
  <1> QED BY <1>2, <1>3

\* What was dropped is transferred, or destroyed.
LEMMA DroppedKeeps ==
    ASSUME OfferInv(d, stage), NEW o \in Offers, NEW can \in BOOLEAN, Dropped(o, can)
    PROVE  OfferInv(d, stage)'
  <1> DEFINE s == IF d.drag # NoOffer /\ d.hovered THEN StartTransfer(d, can) ELSE d
             u == [s EXCEPT !.hovered = FALSE]
             transfer == [offer |-> d.drag, length |-> 0, left |-> Patience]
             x == [d EXCEPT !.transfer = transfer, !.drag = NoOffer]
             h == [stage EXCEPT ![o] = "none"]
  <1>1. d \in Device /\ stage \in [Offers -> {"none", "fresh", "over"}]
    BY DEF OfferInv
  <1>2. /\ stage[o] = "over" /\ d' = DestroyOffer(u, s.drag) /\ stage' = h
    BY DEF Dropped
  <1>3. \/ s = d
        \/ s = DropReject(d)
        \/ d.drag # NoOffer /\ d.transfer.offer = NoOffer /\ s = x
    BY DEF StartTransfer
  <1> HIDE DEF s
  <1>4. ASSUME s \in {d, DropReject(d)}
        PROVE  OfferInv(d, stage)'
    <2>1. /\ s \in Device /\ s.offers = d.offers /\ s.uris = d.uris
          /\ s.drag = d.drag /\ s.transfer = d.transfer
      BY <1>1, <1>4, DropFacts
    <2>2. /\ u \in Device /\ u.offers = s.offers /\ u.uris = s.uris
          /\ u.drag = s.drag /\ u.transfer = s.transfer
      BY <2>1 DEF Device
    <2> HIDE DEF u
    <2>3. OfferInv(u, stage)
      BY <2>1, <2>2 DEF OfferInv
    <2> QED BY <1>2, <2>2, <2>3, GoneKeeps
  <1>5. ASSUME d.drag # NoOffer, d.transfer.offer = NoOffer, s = x
        PROVE  OfferInv(d, stage)'
    <2>1. d.drag \in Offers /\ stage[d.drag] = "over" /\ d.drag \in d.offers
      BY <1>1, <1>5, DeviceFacts DEF OfferInv
    <2>2. d.drag = o
      BY <1>2, <2>1 DEF OfferInv
    <2>3. transfer \in Transfer /\ transfer.offer = d.drag
      BY <1>1, DesktopAssumption, DeviceFacts DEF Transfer
    <2> HIDE DEF transfer
    <2>4. /\ s \in Device /\ s.offers = d.offers /\ s.uris = d.uris
          /\ s.drag = NoOffer /\ s.transfer = transfer
      BY <1>1, <1>5, <2>3 DEF Device
    <2>5. /\ u \in Device /\ u.offers = s.offers /\ u.uris = s.uris
          /\ u.drag = s.drag /\ u.transfer = s.transfer
      BY <2>4 DEF Device
    <2> HIDE DEF u
    <2>6. NoOffer \notin d.offers /\ NoOffer \notin d.uris
      BY <1>1, DeviceFacts, DesktopAssumption
    <2>7. /\ d' \in Device /\ d'.offers = d.offers /\ d'.uris = d.uris
          /\ d'.drag = NoOffer /\ d'.transfer.offer = o
      <3>1. /\ d' \in Device /\ d'.offers = u.offers \ {s.drag}
            /\ d'.uris = u.uris \ {s.drag}
            /\ d'.drag = IF u.drag = s.drag THEN NoOffer ELSE u.drag
            /\ d'.transfer = u.transfer
        BY <1>2, <2>5, DestroyFacts
      <3> QED BY <2>2, <2>3, <2>4, <2>5, <2>6, <3>1
    <2>8. /\ \A p \in Offers : p # o => h[p] = stage[p]
          /\ h[o] = "none" /\ h \in [Offers -> {"none", "fresh", "over"}]
      BY <1>1
    <2> HIDE DEF h
    <2>9. \A p \in d.offers : p = o \/ h[p] = "fresh"
      BY <1>1, <1>5, <2>2, <2>6, <2>8, DeviceFacts DEF OfferInv
    <2>10. \A p, q \in Offers : h[p] = "over" /\ h[q] = "over" => p = q
      BY <2>8 DEF OfferInv
    <2>11. d.uris \subseteq d.offers
      BY DEF OfferInv
    <2> QED BY <1>2, <2>1, <2>2, <2>7, <2>8, <2>9, <2>10, <2>11 DEF OfferInv
  <1> QED BY <1>3, <1>4, <1>5

-----------------------------------------------------------------------------
(* Every step keeps the invariant.                                          *)

\* The compositor and the source have nothing to do with the wake-up.
LEMMA WakeAlone ==
    ASSUME WakeInv, UNCHANGED <<gui, worker, wake, event, fresh>>
    PROVE  WakeInv'
  BY DEF WakeInv

\* A callback of the data device.
LEMMA CompositorKeeps ==
    ASSUME Invariant, Compositor
    PROVE  Invariant'
  <1>1. OfferInv(d, stage) /\ PipeInv(d, content, pipe) /\ WakeInv
    BY DEF Invariant
  <1>2. UNCHANGED <<gui, worker, wake, event, fresh>>
    BY DEF Compositor, BindDevice, Removed, Offered, Mime, Enter, Leave, Dropped,
           Selection
  <1>3. WakeInv'
    BY <1>1, <1>2, WakeAlone
  <1>4. ASSUME OfferInv(d, stage)', Sources
        PROVE  Invariant'
    BY <1>1, <1>3, <1>4, SourcesKeep DEF Invariant
  <1>5. ASSUME OfferInv(d, stage)', d'.transfer = d.transfer,
               UNCHANGED <<content, pipe>>
        PROVE  Invariant'
    BY <1>1, <1>3, <1>5 DEF Invariant, PipeInv
  <1>6. CASE BindDevice \/ \E o \in Offers : Mime(o)
    <2>1. UNCHANGED <<content, pipe>>
      BY <1>6 DEF BindDevice, Mime
    <2> QED BY <1>1, <1>5, <1>6, <2>1, BoundKeeps
  <1>7. ASSUME NEW o \in Offers, Offered(o)
        PROVE  Invariant'
    <2>1. UNCHANGED <<content, pipe>>
      BY <1>7 DEF Offered
    <2> QED BY <1>1, <1>5, <1>7, <2>1, OfferedKeeps
  <1>8. CASE Removed
    <2>1. Sources
      BY <1>8 DEF Removed
    <2> QED BY <1>1, <1>4, <1>8, <2>1, RemovedKeeps
  <1>9. ASSUME NEW o \in Offers, NEW own \in BOOLEAN, Enter(o, own)
        PROVE  Invariant'
    <2>1. Sources
      BY <1>9 DEF Enter
    <2> QED BY <1>1, <1>4, <1>9, <2>1, EnterKeeps
  <1>10. ASSUME NEW o \in Offers, Leave(o) \/ Selection(o)
         PROVE  Invariant'
    <2>1. Sources
      BY <1>10 DEF Leave, Selection
    <2> QED BY <1>1, <1>4, <1>10, <2>1, LeaveKeeps
  <1>11. ASSUME NEW o \in Offers, NEW can \in BOOLEAN, Dropped(o, can)
         PROVE  Invariant'
    <2>1. Sources
      BY <1>11 DEF Dropped
    <2> QED BY <1>1, <1>4, <1>11, <2>1, DroppedKeeps
  <1> QED BY <1>6, <1>7, <1>8, <1>9, <1>10, <1>11 DEF Compositor

\* The source writes or closes, and time passes.
LEMMA SourceKeeps ==
    ASSUME Invariant, Source \/ Tick
    PROVE  Invariant'
  <1>1. OfferInv(d, stage) /\ PipeInv(d, content, pipe) /\ WakeInv /\ d \in Device
    BY DEF Invariant, OfferInv
  <1>2. WakeInv'
    BY <1>1, WakeAlone DEF Source, Tick
  <1>3. CASE Source
    <2>1. /\ content \in Contents /\ pipe.written \in 0..Len(content)
          /\ pipe.closed \in BOOLEAN /\ ~pipe.closed
          /\ pipe' = IF pipe.written < Len(content)
                     THEN [pipe EXCEPT !.written = @ + 1]
                     ELSE [pipe EXCEPT !.closed = TRUE]
          /\ content' = content /\ d' = d /\ stage' = stage
      BY <1>1, <1>3 DEF PipeInv, Source
    <2>2. Len(content) \in Nat
      BY <2>1, DesktopAssumption, LenProperties
    <2>3. OfferInv(d, stage)'
      BY <1>1, <2>1 DEF OfferInv
    <2> SUFFICES ASSUME TRUE
                 PROVE  PipeInv(d, content, pipe)'
      BY <1>2, <2>3 DEF Invariant
    <2>4. CASE pipe.written < Len(content)
      <3>1. pipe'.written \in {pipe.written + 1, pipe.written}
            /\ pipe'.closed = pipe.closed
        BY <2>1, <2>4
      <3> QED BY <2>1, <2>2, <2>4, <3>1 DEF PipeInv
    <2>5. CASE ~(pipe.written < Len(content))
      <3>1. pipe'.written = pipe.written /\ pipe'.closed \in BOOLEAN
        BY <2>1, <2>5
      <3> QED BY <2>1, <2>2, <2>5, <3>1 DEF PipeInv
    <2> QED BY <2>4, <2>5
  <1>4. CASE Tick
    <2> DEFINE transfer == [d.transfer EXCEPT !.left = @ - 1]
    <2>1. /\ d' = [d EXCEPT !.transfer = transfer] /\ d.transfer.left > 0
          /\ UNCHANGED <<stage, content, pipe>>
      BY <1>1, <1>4 DEF Tick, Device, Transfer
    <2>2. transfer \in Transfer /\ transfer.offer = d.transfer.offer
      BY <1>1, <2>1, DeviceFacts DEF Transfer
    <2> HIDE DEF transfer
    <2>3. /\ d' \in Device /\ d'.offers = d.offers /\ d'.uris = d.uris
          /\ d'.drag = d.drag /\ d'.transfer.offer = d.transfer.offer
      BY <1>1, <2>1, <2>2 DEF Device
    <2> QED BY <1>1, <1>2, <2>1, <2>3 DEF Invariant, OfferInv, PipeInv
  <1> QED BY <1>3, <1>4

\* A turn of the main loop: the flag is taken before what it announces is read.
LEMMA GuiKeeps ==
    ASSUME Invariant, Gui \/ TimedOut
    PROVE  Invariant'
  <1>1. OfferInv(d, stage) /\ PipeInv(d, content, pipe) /\ WakeInv /\ d \in Device
    BY DEF Invariant, OfferInv
  <1>2. CASE PollBegin \/ PollEnd
    <2>1. d' = WaylandPoll(d) /\ stage' = stage /\ Sources
      BY <1>2 DEF PollBegin, PollEnd
    <2>2. OfferInv(d, stage)'
      BY <1>1, <2>1, PollKeeps
    <2>3. PipeInv(d, content, pipe)'
      BY <1>1, <2>1, SourcesKeep
    <2>4. WakeInv'
      BY <1>1, <1>2 DEF WakeInv, PollBegin, PollEnd
    <2> QED BY <2>2, <2>3, <2>4 DEF Invariant
  <1>3. CASE Update
    <2> DEFINE none == <<>>
    <2>1. /\ d' = [d EXCEPT !.rejected = FALSE, !.pending = none]
          /\ UNCHANGED <<stage, content, pipe>>
      BY <1>3 DEF Update
    <2>2. none \in {<<>>} \cup Delivered
      OBVIOUS
    <2> HIDE DEF none
    <2>3. /\ d' \in Device /\ d'.offers = d.offers /\ d'.uris = d.uris
          /\ d'.drag = d.drag /\ d'.transfer = d.transfer
      BY <1>1, <2>1, <2>2 DEF Device
    <2>4. WakeInv'
      BY <1>1, <1>3 DEF WakeInv, Update
    <2> QED BY <1>1, <2>1, <2>3, <2>4 DEF Invariant, OfferInv, PipeInv
  <1>4. CASE Check \/ Woken \/ TimedOut \/ Clear
    <2>1. UNCHANGED <<d, stage, content, pipe>>
      BY <1>4 DEF Check, Woken, TimedOut, Clear
    <2>2. WakeInv'
      <3>1. CASE Check
        <4>1. CASE wake
          BY <1>1, <3>1, <4>1 DEF WakeInv, Check
        <4>2. CASE ~wake
          BY <1>1, <3>1, <4>2 DEF WakeInv, Check
        <4> QED BY <4>1, <4>2
      <3>2. CASE Woken \/ TimedOut
        BY <1>1, <3>2 DEF WakeInv, Woken, TimedOut
      <3>3. CASE Clear
        BY <1>1, <3>3 DEF WakeInv, Clear
      <3> QED BY <1>4, <3>1, <3>2, <3>3
    <2> QED BY <1>1, <2>1, <2>2 DEF Invariant, OfferInv, PipeInv
  <1> QED BY <1>2, <1>3, <1>4 DEF Gui

\* A worker publishes, or wakes the window.
LEMMA WorkersKeep ==
    ASSUME Invariant, NEW w \in Workers, Publish(w) \/ Signal(w) \/ Push(w)
    PROVE  Invariant'
  <1>1. OfferInv(d, stage) /\ PipeInv(d, content, pipe) /\ WakeInv
    BY DEF Invariant
  <1>2. UNCHANGED <<d, stage, content, pipe, gui>>
    BY DEF Publish, Signal, Push
  <1>3. WakeInv'
    <2>1. CASE Publish(w)
      BY <1>1, <2>1 DEF WakeInv, Publish
    <2>2. CASE Signal(w)
      BY <1>1, <2>2 DEF WakeInv, Signal
    <2>3. CASE Push(w)
      BY <1>1, <2>3 DEF WakeInv, Push
    <2> QED BY <2>1, <2>2, <2>3
  <1> QED BY <1>1, <1>2, <1>3 DEF Invariant, OfferInv, PipeInv

-----------------------------------------------------------------------------
(* The theorems.                                                            *)

\* The inductive invariant holds throughout.
THEOREM InvarianceHolds == Spec => []Invariant
  <1>1. Init => Invariant
    <2> SUFFICES ASSUME Init
                 PROVE  Invariant
      OBVIOUS
    <2> DEFINE none == {}
               empty == <<>>
    <2>1. d = [offers |-> none, uris |-> none, drag |-> NoOffer,
               transfer |-> NoTransfer, device |-> FALSE, hovered |-> FALSE,
               rejected |-> FALSE, pending |-> empty]
          /\ stage = [o \in Offers |-> "none"]
      BY DEF Init
    <2>2. /\ none \in SUBSET Offers /\ none = {} /\ empty \in {<<>>} \cup Delivered
          /\ NoTransfer \in Transfer /\ NoTransfer.offer = NoOffer
      BY DEF NoTransfer, Transfer
    <2> HIDE DEF none, empty
    <2>3. /\ d \in Device /\ d.offers = none /\ d.uris = none /\ d.drag = NoOffer
          /\ d.transfer = NoTransfer
      BY <2>1, <2>2 DEF Device
    <2>4. OfferInv(d, stage)
      BY <2>1, <2>2, <2>3 DEF OfferInv
    <2>5. PipeInv(d, content, pipe)
      BY <2>2, <2>3 DEF PipeInv
    <2>6. WakeInv
      BY DEF WakeInv, Init
    <2> QED BY <2>4, <2>5, <2>6 DEF Invariant
  <1>2. Invariant /\ [Next]_vars => Invariant'
    <2> SUFFICES ASSUME Invariant, [Next]_vars
                 PROVE  Invariant'
      OBVIOUS
    <2>1. CASE UNCHANGED vars
      BY <2>1 DEF vars, Invariant, OfferInv, PipeInv, WakeInv
    <2>2. CASE Next
      BY <2>2, CompositorKeeps, SourceKeeps, GuiKeeps, WorkersKeep DEF Next
    <2> QED BY <2>1, <2>2
  <1> QED BY <1>1, <1>2, PTL DEF Spec

\* offered, enter, leave, dropped, selection and finish_transfer: no offer is used
\* after it was destroyed and none is forgotten, in any order of callbacks.
THEOREM NoOfferForgotten == Spec => []OffersAccounted
  <1>1. ASSUME Invariant
        PROVE  OffersAccounted
    <2>1. OfferInv(d, stage) /\ d \in Device
      BY <1>1 DEF Invariant, OfferInv
    <2>2. d.drag = d.transfer.offer => d.drag = NoOffer
      BY <2>1 DEF OfferInv
    <2>3. /\ d.offers \subseteq Offers
          /\ \A o \in d.offers : o \in {d.drag, d.transfer.offer} \/ stage[o] = "fresh"
      BY <2>1, DeviceFacts DEF OfferInv
    <2> QED BY <2>1, <2>2, <2>3 DEF OfferInv, OffersAccounted
  <1> QED BY <1>1, InvarianceHolds, PTL

\* zc_wayland_poll and zc_drop_parse: what the composer takes is a whole list that a
\* source has written, whatever its transfer was cut short by.
THEOREM WholeLists == Spec => []AllOrNone
  <1>1. ASSUME Invariant
        PROVE  AllOrNone
    <2>1. d.pending \in {<<>>} \cup Delivered
      BY <1>1, DeviceFacts DEF Invariant, OfferInv
    <2> QED BY <2>1 DEF AllOrNone, Delivered
  <1> QED BY <1>1, InvarianceHolds, PTL

\* zc_desktop_wait tests the flag that zc_desktop_wake sets: a window that waits while
\* something published is unread has an event queued, or a worker about to push one.
THEOREM AwakeForNews == Spec => []NeverAsleep
  <1>1. Invariant => NeverAsleep
    BY DEF Invariant, WakeInv, NeverAsleep
  <1> QED BY <1>1, InvarianceHolds, PTL

=============================================================================
