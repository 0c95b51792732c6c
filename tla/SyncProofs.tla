----------------------------- MODULE SyncProofs -----------------------------
(***************************************************************************)
(* Proofs about Sync for every set of conversations, contacts and messages,   *)
(* every page and batch size, and any number of events, resets and faults: a  *)
(* bootstrapped cache misses nothing up to its cursor, holds nothing of       *)
(* another epoch, never goes back, and a message alerts once.                 *)
(***************************************************************************)
EXTENDS Sync, FiniteSetTheorems, SequenceTheorems, WellFoundedInduction, NaturalsInduction, TLAPS
-----------------------------------------------------------------------------
(* Extremes, revisions and pages.                                           *)

\* A non-empty set of numbers has a least one.
LEMMA LeastNat ==
    ASSUME NEW T \in SUBSET Nat, T # {}
    PROVE  Min(T) \in T /\ \A m \in T : Min(T) <= m
  <1>1. IsWellFoundedOn(OpToRel(<, Nat), Nat)
    BY NatLessThanWellFounded
  <1>2. PICK n \in T : \A m \in T : ~(<<m, n>> \in OpToRel(<, Nat))
    BY <1>1, WFMin
  <1>3. \A m \in T : ~(m < n)
    BY <1>2 DEF OpToRel
  <1>4. \E k \in T : \A m \in T : k <= m
    BY <1>3
  <1>5. Min(T) = CHOOSE k \in T : \A m \in T : k <= m
    BY DEF Min
  <1> QED BY <1>4, <1>5

\* A non-empty set of numbers with a bound has a greatest one.
LEMMA GreatestNat ==
    ASSUME NEW n \in Nat, NEW T \in SUBSET Nat, T # {}, \A m \in T : m <= n
    PROVE  Max(T) \in T /\ \A m \in T : m <= Max(T)
  <1> DEFINE U == {u \in Nat : \A m \in T : m <= u}
             u == Min(U)
  <1>1. u \in U /\ \A v \in U : u <= v
    <2>1. U \in SUBSET Nat /\ n \in U
      OBVIOUS
    <2> HIDE DEF U
    <2> QED BY <2>1, LeastNat
  <1> HIDE DEF u
  <1>2. u \in T
    <2>1. SUFFICES ASSUME u \notin T
                   PROVE  FALSE
      OBVIOUS
    <2>2. PICK m \in T : TRUE
      OBVIOUS
    <2>3. u - 1 \in U
      <3>1. \A k \in T : k \in Nat /\ k <= u /\ k # u
        BY <1>1, <2>1
      <3>2. u \in Nat /\ \A k \in T : k \in Nat /\ k <= u - 1
        BY <1>1, <3>1
      <3>3. u - 1 \in Nat
        BY <2>2, <3>2
      <3> QED BY <3>2, <3>3
    <2> QED BY <1>1, <2>3
  <1>3. Max(T) = CHOOSE k \in T : \A m \in T : k >= m
    BY DEF Max
  <1>4. \A m \in T : u >= m
    BY <1>1
  <1>5. \E k \in T : \A m \in T : k >= m
    BY <1>2, <1>4
  <1>6. Max(T) \in T /\ \A m \in T : Max(T) >= m
    BY <1>3, <1>5
  <1> QED BY <1>6

\* The revision of a record after n events is the last event of it.
LEMMA RevisionFacts ==
    ASSUME NEW e, NEW n \in Nat, NEW d
    PROVE  /\ RevisionAt(e, n, d) \in 0..n
           /\ \A i \in 1..n : logs[e][i].id = d => i <= RevisionAt(e, n, d)
  <1> DEFINE T == {0} \cup {i \in 1..n : logs[e][i].id = d}
  <1>1. T \in SUBSET Nat /\ T # {} /\ \A m \in T : m <= n
    OBVIOUS
  <1>2. Max(T) \in T /\ \A m \in T : m <= Max(T)
    <2> HIDE DEF T
    <2> QED BY <1>1, GreatestNat
  <1>3. RevisionAt(e, n, d) = Max(T)
    BY DEF RevisionAt
  <1>4. RevisionAt(e, n, d) \in T /\ \A m \in T : m <= RevisionAt(e, n, d)
    BY <1>2, <1>3
  <1> QED BY <1>4

\* A page is the end of what is left; without another page it is all of it.
LEMMA PageFacts ==
    ASSUME SyncAssumption, NEW ids \in SUBSET Directory, NEW e,
           NEW n \in Nat, NEW key \in Nat
    PROVE  /\ PageOf(ids, e, n, key) \subseteq Below(ids, e, n, key)
           /\ MorePages(ids, e, n, key) =>
                /\ Min(PageOf(ids, e, n, key)) \in PageOf(ids, e, n, key)
                /\ \A d \in Below(ids, e, n, key) :
                      d >= Min(PageOf(ids, e, n, key)) =>
                         d \in PageOf(ids, e, n, key)
           /\ ~MorePages(ids, e, n, key) =>
                PageOf(ids, e, n, key) = Below(ids, e, n, key)
  <1> DEFINE all == Below(ids, e, n, key)
             page == PageOf(ids, e, n, key)
             above(d) == {x \in all : x > d}
  <1>1. all \in SUBSET Nat /\ IsFiniteSet(all) /\ \A d \in all : d <= key
    <2>1. all \in SUBSET Nat /\ \A d \in all : d <= key
      BY DEF Below, SyncAssumption, Directory, Records
    <2> HIDE DEF all
    <2> QED BY <2>1, FS_BoundedSetOfNaturals
  <1>2. page = {d \in all : Cardinality(above(d)) < PageSize}
    BY DEF PageOf
  <1>3. MorePages(ids, e, n, key) <=> Cardinality(all) > PageSize
    BY DEF MorePages
  <1>4. PageSize \in Nat \ {0}
    BY DEF SyncAssumption
  <1> HIDE DEF all, page
  <1>5. Cardinality(all) \in Nat
    BY <1>1, FS_CardinalityType
  <1>6. ASSUME NEW d
        PROVE  above(d) \subseteq all /\ IsFiniteSet(above(d))
               /\ Cardinality(above(d)) \in Nat
    <2>1. above(d) \in SUBSET all
      OBVIOUS
    <2> HIDE DEF above
    <2>2. IsFiniteSet(above(d))
      BY <1>1, <2>1, FS_Subset
    <2>3. Cardinality(above(d)) \in Nat
      BY <2>2, FS_CardinalityType
    <2> QED BY <2>1, <2>2, <2>3
  <1>7. ASSUME Cardinality(all) > PageSize
        PROVE  page # {}
    <2>1. all # {}
      <3>1. Cardinality({}) = 0
        BY FS_EmptySet
      <3> QED BY <1>4, <1>5, <1>7, <3>1
    <2>2. Max(all) \in all /\ \A m \in all : m <= Max(all)
      BY <1>1, <2>1, GreatestNat
    <2>3. above(Max(all)) = {}
      <3>1. \A x \in all : x \in Nat /\ x <= Max(all) /\ Max(all) \in Nat
        BY <1>1, <2>2
      <3>2. \A x \in all : ~(x > Max(all))
        BY <3>1
      <3> QED BY <3>2
    <2>4. Cardinality(above(Max(all))) = 0
      BY <2>3, FS_EmptySet
    <2> HIDE DEF above
    <2> QED BY <1>2, <1>4, <2>2, <2>4
  <1>8. ASSUME Cardinality(all) > PageSize
        PROVE  Min(page) \in page
    <2>1. page \in SUBSET Nat
      BY <1>1, <1>2
    <2> QED BY <1>7, <1>8, <2>1, LeastNat
  <1>9. ASSUME NEW d \in all, NEW c \in page, d >= c
        PROVE  d \in page
    <2>1. c \in all /\ Cardinality(above(c)) < PageSize
      BY <1>2
    <2>2. above(d) \in SUBSET above(c)
      <3>1. d \in Nat /\ c \in Nat
        BY <1>1, <2>1
      <3>2. \A x \in all : x > d => x > c
        BY <1>1, <1>9, <3>1
      <3> QED BY <3>2
    <2>3. Cardinality(above(d)) <= Cardinality(above(c))
      BY <1>6, <2>2, FS_Subset
    <2>4. Cardinality(above(d)) \in Nat /\ Cardinality(above(c)) \in Nat
      BY <1>6
    <2>5. Cardinality(above(d)) < PageSize
      BY <1>4, <2>1, <2>3, <2>4
    <2> HIDE DEF above
    <2> QED BY <1>2, <2>5
  <1>10. ASSUME NEW d \in all, ~(Cardinality(all) > PageSize)
         PROVE  d \in page
    <2>1. above(d) \in SUBSET all /\ above(d) # all
      BY <1>1
    <2>2. /\ Cardinality(above(d)) <= Cardinality(all)
          /\ Cardinality(above(d)) # Cardinality(all)
      <3> HIDE DEF above
      <3> QED BY <1>1, <2>1, FS_Subset
    <2>3. Cardinality(above(d)) \in Nat
      BY <1>6
    <2>4. Cardinality(above(d)) < PageSize
      <3> HIDE DEF above
      <3> QED BY <1>4, <1>5, <1>10, <2>2, <2>3
    <2> HIDE DEF above
    <2> QED BY <1>2, <2>4
  <1>11. page \subseteq all
    BY <1>2
  <1> QED BY <1>3, <1>8, <1>9, <1>10, <1>11 DEF all, page
-----------------------------------------------------------------------------
(* Which steps touch which part of the state.                               *)

\* The relay appends one event to the log of its epoch, or moves to the next.
LEMMA RelayKept ==
    ASSUME Next
    PROVE  \/ UNCHANGED <<epoch, logs>>
           \/ Reset
           \/ \E d \in Records, live \in BOOLEAN : AppendEvent(d, live)
  <1>1. RelayNext => \/ UNCHANGED <<epoch, logs>>
                     \/ Reset
                     \/ \E d \in Records, live \in BOOLEAN : AppendEvent(d, live)
    BY DEF RelayNext, PublishConversation, PublishMessage, PublishIdentity,
           Prune, Records, Directory
  <1>2. StreamNext => UNCHANGED <<epoch, logs>>
    BY DEF StreamNext, OpenStream, PollEvents, GoOnline, Deliver, RejectBatch,
           StreamRefused, StreamEnds, relayVars
  <1>3. JobNext => UNCHANGED <<epoch, logs>>
    BY DEF JobNext, AskIdentities, AskSync, AskStatus, AskSend, Serve,
           CompleteStatus, CompleteSync, CompleteChats, CompleteIdentities,
           CompleteSend, DropAnswer, FailJob, relayVars
  <1>4. UserNext => UNCHANGED <<epoch, logs>>
    BY DEF UserNext, Reconnect, Select, View, Crash, relayVars
  <1> QED BY <1>1, <1>2, <1>3, <1>4 DEF Next

\* The client's epoch and position change with a sync answer or a delivery.
LEMMA PositionKept ==
    ASSUME Next
    PROVE  \/ UNCHANGED <<cEpoch, cursor, base>>
           \/ CompleteSync
           \/ \E n \in 1..MaxEvents : Deliver(n)
  <1>1. RelayNext => UNCHANGED <<cEpoch, cursor, base>>
    BY DEF RelayNext, PublishConversation, PublishMessage, PublishIdentity,
           AppendEvent, Prune, Reset, storeVars
  <1>2. StreamNext => \/ UNCHANGED <<cEpoch, cursor, base>>
                      \/ \E n \in 1..MaxEvents : Deliver(n)
    BY DEF StreamNext, OpenStream, PollEvents, GoOnline, RejectBatch,
           StreamRefused, StreamEnds, storeVars
  <1>3. JobNext => UNCHANGED <<cEpoch, cursor, base>> \/ CompleteSync
    BY DEF JobNext, AskIdentities, AskSync, AskStatus, AskSend, Serve,
           CompleteStatus, CompleteChats, CompleteIdentities,
           CompleteSend, DropAnswer, FailJob, storeVars
  <1>4. UserNext => UNCHANGED <<cEpoch, cursor, base>>
    BY DEF UserNext, Reconnect, Select, View, Crash, storeVars
  <1> QED BY <1>1, <1>2, <1>3, <1>4 DEF Next

\* A bootstrap begins with a sync answer and ends with the last contact page.
LEMMA BootedKept ==
    ASSUME Next
    PROVE  UNCHANGED booted \/ CompleteSync \/ CompleteIdentities
  <1>1. RelayNext => UNCHANGED booted
    BY DEF RelayNext, PublishConversation, PublishMessage, PublishIdentity,
           AppendEvent, Prune, Reset, storeVars
  <1>2. StreamNext => UNCHANGED booted
    BY DEF StreamNext, OpenStream, PollEvents, GoOnline, Deliver, RejectBatch,
           StreamRefused, StreamEnds, storeVars
  <1>3. JobNext => UNCHANGED booted \/ CompleteSync \/ CompleteIdentities
    BY DEF JobNext, AskIdentities, AskSync, AskStatus, AskSend, Serve,
           CompleteStatus, CompleteChats, CompleteSend, DropAnswer, FailJob,
           storeVars
  <1>4. UserNext => UNCHANGED booted
    BY DEF UserNext, Reconnect, Select, View, Crash
         , storeVars
  <1> QED BY <1>1, <1>2, <1>3, <1>4 DEF Next

\* The cached records change with a sync answer, a page or a delivery.
LEMMA CacheKept ==
    ASSUME Next
    PROVE  \/ UNCHANGED cache
           \/ CompleteSync \/ CompleteChats \/ CompleteIdentities \/ Crash
           \/ \E n \in 1..MaxEvents : Deliver(n)
  <1>1. RelayNext => UNCHANGED cache
    BY DEF RelayNext, PublishConversation, PublishMessage, PublishIdentity,
           AppendEvent, Prune, Reset, storeVars
  <1>2. StreamNext => \/ UNCHANGED cache
                      \/ \E n \in 1..MaxEvents : Deliver(n)
    BY DEF StreamNext, OpenStream, PollEvents, GoOnline, RejectBatch,
           StreamRefused, StreamEnds, storeVars
  <1>3. JobNext => \/ UNCHANGED cache
                   \/ CompleteSync \/ CompleteChats \/ CompleteIdentities
    BY DEF JobNext, AskIdentities, AskSync, AskStatus, AskSend, Serve,
           CompleteStatus, CompleteSend, DropAnswer, FailJob, storeVars
  <1>4. UserNext => UNCHANGED cache \/ Crash
    BY DEF UserNext, Reconnect, Select, View, storeVars
  <1> QED BY <1>1, <1>2, <1>3, <1>4 DEF Next

\* What was seen and notified changes with a sync answer or a delivery; the
\* user's looking only clears the unread count.
LEMMA SeenKept ==
    ASSUME Next
    PROVE  \/ UNCHANGED <<seen, notified>> /\ unread' \in {unread, 0}
           \/ CompleteSync
           \/ \E n \in 1..MaxEvents : Deliver(n)
  <1>1. RelayNext => UNCHANGED <<seen, notified, unread>>
    BY DEF RelayNext, PublishConversation, PublishMessage, PublishIdentity,
           AppendEvent, Prune, Reset, storeVars
  <1>2. StreamNext => \/ UNCHANGED <<seen, notified, unread>>
                      \/ \E n \in 1..MaxEvents : Deliver(n)
    BY DEF StreamNext, OpenStream, PollEvents, GoOnline, RejectBatch,
           StreamRefused, StreamEnds, storeVars
  <1>3. JobNext => UNCHANGED <<seen, notified, unread>> \/ CompleteSync
    BY DEF JobNext, AskIdentities, AskSync, AskStatus, AskSend, Serve,
           CompleteStatus, CompleteChats, CompleteIdentities, CompleteSend,
           DropAnswer, FailJob, storeVars
  <1>4. UserNext => UNCHANGED <<seen, notified>> /\ unread' \in {unread, 0}
    BY DEF UserNext, Reconnect, Select, View, Crash, storeVars
  <1> QED BY <1>1, <1>2, <1>3, <1>4 DEF Next

\* How the request under way changes.
LEMMA JobKept ==
    ASSUME Next
    PROVE  \/ UNCHANGED job
           \/ job' \in {Idle, Ask("status", NoKey), Ask("send", NoKey)}
           \/ AskIdentities \/ AskSync \/ Serve
           \/ CompleteStatus \/ CompleteSync \/ CompleteChats
  <1>1. RelayNext => UNCHANGED job
    BY DEF RelayNext, PublishConversation, PublishMessage, PublishIdentity,
           AppendEvent, Prune, Reset, workerVars
  <1>2. StreamNext => UNCHANGED job
    BY DEF StreamNext, OpenStream, PollEvents, GoOnline, Deliver, RejectBatch,
           StreamRefused, StreamEnds
  <1>3. JobNext => \/ job' \in {Idle, Ask("status", NoKey), Ask("send", NoKey)}
                   \/ AskIdentities \/ AskSync \/ Serve
                   \/ CompleteStatus \/ CompleteSync \/ CompleteChats
    BY DEF JobNext, AskStatus, AskSend, CompleteIdentities, CompleteSend,
           DropAnswer, FailJob
  <1>4. UserNext => UNCHANGED job \/ job' = Idle
    BY DEF UserNext, Reconnect, Select, View, Crash
  <1> QED BY <1>1, <1>2, <1>3, <1>4 DEF Next

\* How the event stream changes.
LEMMA StreamKept ==
    ASSUME Next
    PROVE  \/ UNCHANGED stream
           \/ stream' = NoStream
           \/ OpenStream \/ PollEvents \/ CompleteStatus \/ CompleteIdentities
           \/ \E n \in 1..MaxEvents : Deliver(n)
  <1>1. RelayNext => UNCHANGED stream
    BY DEF RelayNext, PublishConversation, PublishMessage, PublishIdentity,
           AppendEvent, Prune, Reset, workerVars
  <1>2. StreamNext => \/ UNCHANGED stream
                      \/ stream' = NoStream
                      \/ OpenStream \/ PollEvents
                      \/ \E n \in 1..MaxEvents : Deliver(n)
    BY DEF StreamNext, GoOnline, RejectBatch, StreamRefused, StreamEnds,
           Disconnected
  <1>3. JobNext => \/ UNCHANGED stream
                   \/ stream' = NoStream
                   \/ CompleteStatus \/ CompleteIdentities
    BY DEF JobNext, AskIdentities, AskSync, AskStatus, AskSend, Serve,
           CompleteSync, CompleteChats, CompleteSend, DropAnswer, FailJob,
           Disconnected
  <1>4. UserNext => UNCHANGED stream \/ stream' = NoStream
    BY DEF UserNext, Reconnect, Select, View, Crash
  <1> QED BY <1>1, <1>2, <1>3, <1>4 DEF Next

\* Where the contact pages stand changes with a page, or is forgotten together
\* with a request.
LEMMA BeforeKept ==
    ASSUME Next
    PROVE  \/ UNCHANGED before
           \/ before' = NoKey /\ job' = Idle
           \/ CompleteSync \/ CompleteChats \/ CompleteIdentities
  <1>1. RelayNext => UNCHANGED before
    BY DEF RelayNext, PublishConversation, PublishMessage, PublishIdentity,
           AppendEvent, Prune, Reset, workerVars
  <1>2. StreamNext => UNCHANGED before
    BY DEF StreamNext, OpenStream, PollEvents, GoOnline, Deliver, RejectBatch,
           StreamRefused, StreamEnds
  <1>3. JobNext => \/ UNCHANGED before
                   \/ before' = NoKey /\ job' = Idle
                   \/ CompleteSync \/ CompleteChats \/ CompleteIdentities
    BY DEF JobNext, AskIdentities, AskSync, AskStatus, AskSend, Serve,
           CompleteStatus, CompleteSend, DropAnswer, FailJob
  <1>4. UserNext => \/ UNCHANGED before
                    \/ before' = NoKey /\ job' = Idle
    BY DEF UserNext, Reconnect, Select, View, Crash
  <1> QED BY <1>1, <1>2, <1>3, <1>4 DEF Next
-----------------------------------------------------------------------------
(* The helpers of the steps.                                                *)

\* What the types say of the relay's log.
LEMMA LogFacts ==
    ASSUME TypeOK
    PROVE  /\ epoch \in Nat /\ epoch # 0 /\ epoch \in 0..MaxEpoch
           /\ Log \in Seq([id: Records, live: BOOLEAN])
           /\ Len(Log) \in Nat /\ Len(Log) \in 0..MaxEvents
  <1>1. epoch \in Nat /\ epoch # 0 /\ epoch \in 0..MaxEpoch
    BY SyncAssumption DEF TypeOK, Epochs, SyncAssumption
  <1>2. Log \in Seq([id: Records, live: BOOLEAN]) /\ Len(Log) <= MaxEvents
    BY DEF TypeOK, Log
  <1>3. Len(Log) \in Nat
    BY <1>2
  <1>4. MaxEvents \in Nat
    BY SyncAssumption DEF SyncAssumption
  <1> QED BY <1>1, <1>2, <1>3, <1>4

\* An answered request knows the epoch and the position it was answered at.
LEMMA AnsweredFacts ==
    ASSUME TypeOK, NEW kind, Answered(kind)
    PROVE  /\ job.kind = kind /\ job.epoch # 0 /\ job.epoch \in Epochs
           /\ job.at \in 0..MaxEvents /\ job.at \in Nat
           /\ job.key \in 0..Top /\ job.key \in Nat
  <1>1. MaxEpoch \in Nat /\ MaxEvents \in Nat /\ Top \in Nat
    BY SyncAssumption DEF SyncAssumption
  <1>2. /\ job.epoch \in 0..MaxEpoch /\ job.at \in 0..MaxEvents
        /\ job.key \in 0..Top
    BY DEF TypeOK, Job
  <1>3. job.kind = kind /\ job.epoch # 0
    BY DEF Answered
  <1> QED BY <1>1, <1>2, <1>3 DEF Epochs

\* A page brings its records to their revision at the time of the answer, and
\* leaves no record older than it was.
LEMMA WithPageFacts ==
    ASSUME TypeOK, NEW ids \in SUBSET Directory, NEW e \in Epochs,
           NEW n \in 0..MaxEvents
    PROVE  /\ WithPage(ids, e, n) \in [Epochs -> [Directory -> 0..MaxEvents]]
           /\ \A x \in Epochs, d \in Directory :
                 cache[x][d] <= WithPage(ids, e, n)[x][d]
           /\ \A x \in Epochs \ {e} : WithPage(ids, e, n)[x] = cache[x]
           /\ \A d \in ids : RevisionAt(e, n, d) <= WithPage(ids, e, n)[e][d]
  <1> DEFINE row == [d \in Directory |->
                        IF d \in ids THEN WriteRecord(cache[e][d], RevisionAt(e, n, d))
                                     ELSE cache[e][d]]
  <1>1. MaxEvents \in Nat /\ n \in Nat /\ n <= MaxEvents
    BY SyncAssumption DEF SyncAssumption
  <1>2. cache \in [Epochs -> [Directory -> 0..MaxEvents]]
    BY DEF TypeOK
  <1>3. WithPage(ids, e, n) = [cache EXCEPT ![e] = row]
    BY <1>2 DEF WithPage
  <1>4. ASSUME NEW d \in Directory
        PROVE  /\ row[d] \in 0..MaxEvents /\ cache[e][d] <= row[d]
               /\ d \in ids => RevisionAt(e, n, d) <= row[d]
    <2>1. cache[e][d] \in 0..MaxEvents
      BY <1>2
    <2>2. RevisionAt(e, n, d) \in 0..n
      BY <1>1, RevisionFacts
    <2> QED BY <1>1, <2>1, <2>2 DEF WriteRecord
  <1>5. row \in [Directory -> 0..MaxEvents]
    BY <1>4
  <1> HIDE DEF row
  <1>6. \A x \in Epochs, d \in Directory : cache[x][d] \in Nat
    BY <1>1, <1>2
  <1>7. /\ WithPage(ids, e, n)[e] = row
        /\ \A x \in Epochs \ {e} : WithPage(ids, e, n)[x] = cache[x]
        /\ WithPage(ids, e, n) \in [Epochs -> [Directory -> 0..MaxEvents]]
    BY <1>2, <1>3, <1>5
  <1>8. \A x \in Epochs, d \in Directory :
           cache[x][d] <= WithPage(ids, e, n)[x][d]
    <2> SUFFICES ASSUME NEW x \in Epochs, NEW d \in Directory
                 PROVE  cache[x][d] <= WithPage(ids, e, n)[x][d]
      OBVIOUS
    <2>1. CASE x = e
      BY <1>4, <1>7, <2>1
    <2>2. CASE x # e
      BY <1>6, <1>7, <2>2
    <2> QED BY <2>1, <2>2
  <1> QED BY <1>4, <1>7, <1>8

\* The next key of a directory: none when the page was the last.
LEMMA NextKeyFacts ==
    ASSUME TypeOK, NEW kind, Answered(kind), NEW ids \in SUBSET Directory
    PROVE  /\ NextKey(ids) \in 0..Top /\ NextKey(ids) \in Nat
           /\ Answer(ids) \subseteq ids
           /\ \A d \in Below(ids, job.epoch, job.at, job.key) :
                 d >= NextKey(ids) => d \in Answer(ids)
  <1> DEFINE all == Below(ids, job.epoch, job.at, job.key)
             page == Answer(ids)
             more == MorePages(ids, job.epoch, job.at, job.key)
  <1>1. job.at \in Nat /\ job.key \in Nat /\ job.key <= Top /\ Top \in Nat
    BY AnsweredFacts, SyncAssumption DEF SyncAssumption
  <1>2. /\ page \subseteq all
        /\ more => /\ Min(page) \in page
                   /\ \A d \in all : d >= Min(page) => d \in page
        /\ ~more => page = all
    BY <1>1, SyncAssumption, PageFacts DEF Answer
  <1>3. NextKey(ids) = IF more THEN Min(page) ELSE 0
    BY DEF NextKey, NoKey
  <1>4. all \subseteq ids /\ \A d \in all : d \in Nat /\ d < job.key
    BY SyncAssumption DEF Below, SyncAssumption, Records, Directory
  <1> HIDE DEF all, page, more
  <1>5. NextKey(ids) \in Nat /\ NextKey(ids) <= Top
    <2>1. CASE more
      <3>1. NextKey(ids) \in Nat /\ NextKey(ids) < job.key
        BY <1>2, <1>3, <1>4, <2>1
      <3> QED BY <1>1, <3>1
    <2>2. CASE ~more
      BY <1>1, <1>3, <2>2
    <2> QED BY <2>1, <2>2
  <1>6. NextKey(ids) \in 0..Top
    BY <1>1, <1>5
  <1>7. \A d \in all : d >= NextKey(ids) => d \in page
    BY <1>2, <1>3
  <1>8. page \subseteq ids
    BY <1>2, <1>4
  <1> QED BY <1>5, <1>6, <1>7, <1>8 DEF all, page

\* One query of a good stream sends the events that follow the last one sent.
LEMMA PollFacts ==
    ASSUME TypeOK, PollEvents, CheckCursor(stream.epoch, stream.sent)
    PROVE  /\ stream.epoch = epoch
           /\ \E k \in Nat \ {0} :
                 /\ stream.sent + k <= Len(Log)
                 /\ stream' = [state |-> "open", epoch |-> stream.epoch,
                               sent |-> stream.sent + k,
                               wire |-> stream.wire
                                        \o [i \in 1..k |-> stream.sent + i]]
  <1> DEFINE from == Max({stream.sent, pruned})
             k == Min({Batch, Len(Log) - from})
             rows == RowsAfter(stream.sent)
  <1>1. /\ stream.epoch = epoch /\ stream.sent <= Len(Log)
        /\ pruned <= stream.sent
    BY DEF CheckCursor
  <1>2. /\ stream.sent \in Nat /\ pruned \in Nat /\ Len(Log) \in Nat
        /\ Batch \in Nat \ {0}
    BY SyncAssumption, LogFacts DEF SyncAssumption, TypeOK, Stream
  <1>3. from = stream.sent
    <2>1. {stream.sent, pruned} \in SUBSET Nat /\ {stream.sent, pruned} # {}
          /\ \A m \in {stream.sent, pruned} : m <= stream.sent
      BY <1>1, <1>2
    <2>2. from \in {stream.sent, pruned}
          /\ \A m \in {stream.sent, pruned} : m <= from
      BY <1>2, <2>1, GreatestNat
    <2> HIDE DEF from
    <2> QED BY <1>1, <1>2, <2>2
  <1>4. k \in Nat /\ k <= Len(Log) - stream.sent
    <2>1. Len(Log) - stream.sent \in Nat
      BY <1>1, <1>2
    <2>2. {Batch, Len(Log) - stream.sent} \in SUBSET Nat
          /\ {Batch, Len(Log) - stream.sent} # {}
      BY <1>2, <2>1
    <2>3. Min({Batch, Len(Log) - stream.sent}) \in {Batch, Len(Log) - stream.sent}
          /\ \A m \in {Batch, Len(Log) - stream.sent} :
                Min({Batch, Len(Log) - stream.sent}) <= m
      BY <2>2, LeastNat
    <2>4. k = Min({Batch, Len(Log) - stream.sent})
      BY <1>3
    <2> HIDE DEF k
    <2> QED BY <1>2, <2>1, <2>3, <2>4
  <1>5. rows = [i \in 1..k |-> stream.sent + i]
    BY <1>3 DEF RowsAfter
  <1>6. /\ rows # <<>>
        /\ stream' = [state |-> "open", epoch |-> stream.epoch,
                      sent |-> rows[Len(rows)], wire |-> stream.wire \o rows]
    BY DEF PollEvents
  <1> HIDE DEF from, k, rows
  <1>7. k # 0
    <2>1. ASSUME k = 0
          PROVE  rows = <<>>
      BY <1>5, <2>1
    <2> QED BY <1>6, <2>1
  <1>8. Len(rows) = k /\ rows[Len(rows)] = stream.sent + k
    BY <1>2, <1>4, <1>5, <1>7
  <1>9. stream.sent + k <= Len(Log)
    BY <1>2, <1>4
  <1> QED BY <1>1, <1>4, <1>5, <1>6, <1>7, <1>8, <1>9

Frames(n) == {stream.wire[i] : i \in 1..n}

\* The frames of a delivery are positions in a log.
LEMMA FramesFacts ==
    ASSUME TypeOK, NEW n \in 1..MaxEvents, n <= Len(stream.wire)
    PROVE  /\ Frames(n) \in SUBSET (1..MaxEvents)
           /\ \A d : EventsOf(d, Frames(n)) \in SUBSET (1..MaxEvents)
           /\ \A d, f : f \in EventsOf(d, Frames(n)) <=>
                 f \in Frames(n) /\ f > cursor /\ logs[cEpoch][f].id = d
           /\ MaxEvents \in Nat
  <1>1. MaxEvents \in Nat
    BY SyncAssumption DEF SyncAssumption
  <1>2. stream.wire \in Seq(1..MaxEvents)
    BY DEF TypeOK, Stream
  <1>3. \A i \in 1..n : stream.wire[i] \in 1..MaxEvents
    BY <1>1, <1>2
  <1>4. Frames(n) \in SUBSET (1..MaxEvents)
    BY <1>3 DEF Frames
  <1>5. \A d, f : f \in EventsOf(d, Frames(n)) <=>
           f \in Frames(n) /\ f > cursor /\ logs[cEpoch][f].id = d
    BY DEF EventsOf, Fresh
  <1>6. \A d : EventsOf(d, Frames(n)) \in SUBSET (1..MaxEvents)
    BY <1>4, <1>5
  <1> QED BY <1>1, <1>4, <1>5, <1>6

\* A delivery moves the cursor to its last frame.
LEMMA DeliverCursor ==
    ASSUME TypeOK, NEW n \in 1..MaxEvents, Deliver(n)
    PROVE  /\ cursor' \in 0..MaxEvents /\ cursor <= cursor'
           /\ cursor' \in {cursor} \cup Frames(n)
           /\ \A f \in Frames(n) : f <= cursor'
  <1> DEFINE T == {cursor} \cup Frames(n)
  <1>1. Frames(n) \in SUBSET (1..MaxEvents) /\ MaxEvents \in Nat
    BY FramesFacts DEF Deliver
  <1>2. cursor \in 0..MaxEvents
    BY DEF TypeOK
  <1>3. T \in SUBSET Nat /\ T # {} /\ \A m \in T : m <= MaxEvents
    BY <1>1, <1>2
  <1>4. cursor' = Max(T)
    BY DEF Deliver, ReceiveBatch, Frames
  <1>5. Max(T) \in T /\ \A m \in T : m <= Max(T)
    <2> HIDE DEF T
    <2> QED BY <1>1, <1>3, GreatestNat
  <1>6. cursor' \in T /\ \A m \in T : m <= cursor'
    BY <1>4, <1>5
  <1>7. cursor' \in 0..MaxEvents
    BY <1>1, <1>2, <1>6
  <1> QED BY <1>6, <1>7

\* A delivery brings every record up to its events, and leaves none older.
LEMMA DeliverCache ==
    ASSUME TypeOK, NEW n \in 1..MaxEvents, Deliver(n)
    PROVE  /\ cache' \in [Epochs -> [Directory -> 0..MaxEvents]]
           /\ \A x \in Epochs, d \in Directory : cache[x][d] <= cache'[x][d]
           /\ \A x \in Epochs : x # cEpoch => cache'[x] = cache[x]
           /\ cEpoch \in Epochs =>
                 \A d \in Directory : \A f \in EventsOf(d, Frames(n)) :
                    f <= cache'[cEpoch][d]
  <1> DEFINE E(d) == EventsOf(d, Frames(n))
             latest(d) == Max({0} \cup E(d))
             row == [d \in Directory |-> WriteRecord(cache[cEpoch][d], latest(d))]
  <1>1. cache \in [Epochs -> [Directory -> 0..MaxEvents]]
    BY DEF TypeOK
  <1>2. cache' = [cache EXCEPT ![cEpoch] = row]
    BY <1>1 DEF Deliver, ReceiveBatch, Frames
  <1>3. MaxEvents \in Nat /\ \A d : E(d) \in SUBSET (1..MaxEvents)
    BY FramesFacts DEF Deliver
  <1>4. ASSUME NEW d
        PROVE  latest(d) \in 0..MaxEvents /\ \A f \in E(d) : f <= latest(d)
    <2> HIDE DEF E
    <2>1. /\ {0} \cup E(d) \in SUBSET Nat /\ {0} \cup E(d) # {}
          /\ \A m \in {0} \cup E(d) : m <= MaxEvents
      BY <1>3
    <2>2. /\ latest(d) \in {0} \cup E(d)
          /\ \A m \in {0} \cup E(d) : m <= latest(d)
      BY <1>3, <2>1, GreatestNat
    <2> QED BY <1>3, <2>2
  <1>5. \A x \in Epochs, d \in Directory : cache[x][d] \in 0..MaxEvents
    BY <1>1
  <1> HIDE DEF E, latest
  <1>6. ASSUME cEpoch \in Epochs, NEW d \in Directory
        PROVE  /\ row[d] \in 0..MaxEvents /\ cache[cEpoch][d] <= row[d]
               /\ \A f \in E(d) : f <= row[d]
    <2>1. cache[cEpoch][d] \in 0..MaxEvents
      BY <1>5, <1>6
    <2>2. row[d] = IF latest(d) > cache[cEpoch][d] THEN latest(d) ELSE cache[cEpoch][d]
      BY DEF WriteRecord
    <2> QED BY <1>3, <1>4, <2>1, <2>2
  <1>7. cEpoch \in Epochs => row \in [Directory -> 0..MaxEvents]
    BY <1>6
  <1> HIDE DEF row
  <1>8. CASE cEpoch \notin Epochs
    <2>1. cache' = cache
      BY <1>1, <1>2, <1>8
    <2> QED BY <1>1, <1>3, <1>5, <1>8, <2>1
  <1>9. CASE cEpoch \in Epochs
    <2>1. /\ cache'[cEpoch] = row
          /\ \A x \in Epochs : x # cEpoch => cache'[x] = cache[x]
          /\ cache' \in [Epochs -> [Directory -> 0..MaxEvents]]
      BY <1>1, <1>2, <1>7, <1>9
    <2>2. \A x \in Epochs, d \in Directory : cache[x][d] <= cache'[x][d]
      <3> SUFFICES ASSUME NEW x \in Epochs, NEW d \in Directory
                   PROVE  cache[x][d] <= cache'[x][d]
        OBVIOUS
      <3>1. cache[x][d] <= cache[x][d]
        BY <1>3, <1>5
      <3> QED BY <1>6, <1>9, <2>1, <3>1
    <2>3. \A d \in Directory : \A f \in E(d) : f <= cache'[cEpoch][d]
      BY <1>6, <1>9, <2>1
    <2> QED BY <2>1, <2>2, <2>3 DEF E
  <1> QED BY <1>8, <1>9

\* A delivery has every message of its events seen, and alerts only to those
\* it is the first to show.
LEMMA DeliverSeen ==
    ASSUME TypeOK, NEW n \in 1..MaxEvents, Deliver(n)
    PROVE  \E new, alerts \in SUBSET Messages :
              /\ \A m \in Messages : EventsOf(m, Frames(n)) # {} => m \in new
              /\ alerts \subseteq new
              /\ alerts \cap seen[cEpoch] = {}
              /\ seen' = [seen EXCEPT ![cEpoch] = @ \cup new]
              /\ unread' = unread + Cardinality(alerts)
              /\ Cardinality(alerts) \in Nat
              /\ notified' = [notified EXCEPT ![cEpoch] = [m \in Messages |->
                    IF m \in alerts THEN @[m] + 1 ELSE @[m]]]
  <1> DEFINE new == {m \in Messages : EventsOf(m, Frames(n)) # {}}
             alerts == Alerts(Frames(n))
  <1>1. /\ alerts \subseteq new /\ alerts \cap seen[cEpoch] = {}
        /\ new \in SUBSET Messages /\ alerts \in SUBSET Messages
    BY DEF Alerts
  <1>2. /\ seen' = [seen EXCEPT ![cEpoch] = @ \cup new]
        /\ unread' = unread + Cardinality(alerts)
    BY DEF Deliver, ReceiveBatch, Frames
  <1>3. notified' = [notified EXCEPT ![cEpoch] = [m \in Messages |->
                       IF m \in alerts THEN @[m] + 1 ELSE @[m]]]
    BY DEF Deliver, ReceiveBatch, Frames
  <1>4. Cardinality(alerts) \in Nat
    <2>1. IsFiniteSet(Messages)
      BY SyncAssumption DEF SyncAssumption
    <2> HIDE DEF alerts
    <2>2. IsFiniteSet(alerts)
      BY <1>1, <2>1, FS_Subset
    <2> QED BY <2>2, FS_CardinalityType
  <1>5. \A m \in Messages : EventsOf(m, Frames(n)) # {} => m \in new
    OBVIOUS
  <1> HIDE DEF new, alerts
  <1> QED BY <1>1, <1>2, <1>3, <1>4, <1>5
-----------------------------------------------------------------------------
(* Types.                                                                   *)

\* The relay's journal keeps its type.
LEMMA TypeRelay ==
    ASSUME TypeOK, Next
    PROVE  /\ epoch' \in Epochs
           /\ logs' \in [Epochs -> Seq([id: Records, live: BOOLEAN])]
           /\ \A e \in Epochs : Len(logs'[e]) <= MaxEvents
  <1>1. CASE UNCHANGED <<epoch, logs>>
    BY <1>1 DEF TypeOK
  <1>2. CASE Reset
    <2>1. epoch' = epoch + 1 /\ epoch < MaxEpoch /\ UNCHANGED logs
      BY <1>2 DEF Reset
    <2>2. epoch \in Nat /\ MaxEpoch \in Nat
      BY LogFacts, SyncAssumption DEF SyncAssumption
    <2>3. epoch' \in Epochs
      BY <2>1, <2>2 DEF Epochs
    <2> QED BY <2>1, <2>3 DEF TypeOK
  <1>3. ASSUME NEW d \in Records, NEW live \in BOOLEAN, AppendEvent(d, live)
        PROVE  /\ epoch' \in Epochs
               /\ logs' \in [Epochs -> Seq([id: Records, live: BOOLEAN])]
               /\ \A e \in Epochs : Len(logs'[e]) <= MaxEvents
    <2> DEFINE new == Append(Log, [id |-> d, live |-> live])
    <2>1. /\ UNCHANGED epoch /\ Len(Log) < MaxEvents
          /\ logs' = [logs EXCEPT ![epoch] = new]
      BY <1>3 DEF AppendEvent, Log
    <2>2. /\ epoch \in Epochs
          /\ logs \in [Epochs -> Seq([id: Records, live: BOOLEAN])]
          /\ \A e \in Epochs : Len(logs[e]) <= MaxEvents
      BY DEF TypeOK
    <2>3. Log \in Seq([id: Records, live: BOOLEAN]) /\ Len(Log) \in Nat
          /\ MaxEvents \in Nat
      BY LogFacts, SyncAssumption DEF SyncAssumption
    <2>4. [id |-> d, live |-> live] \in [id: Records, live: BOOLEAN]
      OBVIOUS
    <2>5. /\ new \in Seq([id: Records, live: BOOLEAN])
          /\ Len(new) = Len(Log) + 1
      BY <2>3, <2>4
    <2>6. Len(new) <= MaxEvents
      BY <2>1, <2>3, <2>5
    <2> HIDE DEF new
    <2> QED BY <2>1, <2>2, <2>5, <2>6
  <1> QED BY <1>1, <1>2, <1>3, RelayKept

\* Events are only ever added, and the epoch only moves on.
LEMMA LogsGrow ==
    ASSUME TypeOK, Next
    PROVE  /\ epoch <= epoch'
           /\ \A e \in Epochs :
                 /\ Len(logs[e]) \in Nat /\ Len(logs'[e]) \in Nat
                 /\ Len(logs[e]) <= Len(logs'[e])
                 /\ \A i \in 1..Len(logs[e]) : logs'[e][i] = logs[e][i]
  <1>1. /\ epoch \in Nat
        /\ logs \in [Epochs -> Seq([id: Records, live: BOOLEAN])]
        /\ \A e \in Epochs : Len(logs[e]) \in Nat
    <2>1. epoch \in Nat
      BY LogFacts
    <2>2. logs \in [Epochs -> Seq([id: Records, live: BOOLEAN])]
      BY DEF TypeOK
    <2>3. \A e \in Epochs : logs[e] \in Seq([id: Records, live: BOOLEAN])
      BY <2>2
    <2>4. \A e \in Epochs : Len(logs[e]) \in Nat
      BY <2>3
    <2> QED BY <2>1, <2>2, <2>4
  <1>2. CASE UNCHANGED <<epoch, logs>>
    BY <1>1, <1>2
  <1>3. CASE Reset
    BY <1>1, <1>3 DEF Reset
  <1>4. ASSUME NEW d \in Records, NEW live \in BOOLEAN, AppendEvent(d, live)
        PROVE  /\ epoch <= epoch'
               /\ \A e \in Epochs :
                     /\ Len(logs[e]) \in Nat /\ Len(logs'[e]) \in Nat
                     /\ Len(logs[e]) <= Len(logs'[e])
                     /\ \A i \in 1..Len(logs[e]) : logs'[e][i] = logs[e][i]
    <2> DEFINE r == [id |-> d, live |-> live]
               new == Append(logs[epoch], r)
    <2>1. /\ UNCHANGED epoch
          /\ logs' = [logs EXCEPT ![epoch] = new]
      BY <1>4 DEF AppendEvent
    <2>2. epoch \in Epochs /\ r \in [id: Records, live: BOOLEAN]
          /\ logs[epoch] \in Seq([id: Records, live: BOOLEAN])
      BY <1>1 DEF TypeOK
    <2> HIDE DEF r
    <2>3. /\ Len(new) = Len(logs[epoch]) + 1
          /\ \A i \in 1..Len(logs[epoch]) : new[i] = logs[epoch][i]
      BY <1>1, <2>2
    <2> HIDE DEF new
    <2> QED BY <1>1, <2>1, <2>2, <2>3
  <1> QED BY <1>2, <1>3, <1>4, RelayKept

\* The client's position keeps its type.
LEMMA TypePosition ==
    ASSUME TypeOK, Next
    PROVE  cEpoch' \in 0..MaxEpoch /\ cursor' \in 0..MaxEvents /\ base' \in 0..MaxEvents
  <1>1. CASE UNCHANGED <<cEpoch, cursor, base>>
    BY <1>1 DEF TypeOK
  <1>2. CASE CompleteSync
    <2>1. cEpoch' = job.epoch /\ cursor' = job.at /\ base' = job.at
      BY <1>2 DEF CompleteSync, BeginSync
    <2> QED BY <2>1 DEF TypeOK, Job
  <1>3. ASSUME NEW n \in 1..MaxEvents, Deliver(n)
        PROVE  cEpoch' \in 0..MaxEpoch /\ cursor' \in 0..MaxEvents
               /\ base' \in 0..MaxEvents
    <2>1. UNCHANGED <<cEpoch, base>>
      BY <1>3 DEF Deliver
    <2> QED BY <1>3, <2>1, DeliverCursor DEF TypeOK
  <1> QED BY <1>1, <1>2, <1>3, PositionKept

\* The flags keep their type.
LEMMA TypeFlags ==
    ASSUME TypeOK, Next
    PROVE  /\ booted' \in BOOLEAN /\ online' \in BOOLEAN /\ needSync' \in BOOLEAN
           /\ blocked' \in BOOLEAN /\ viewed' \in BOOLEAN
  <1>1. /\ booted \in BOOLEAN /\ online \in BOOLEAN /\ needSync \in BOOLEAN
        /\ blocked \in BOOLEAN /\ viewed \in BOOLEAN
    BY DEF TypeOK
  <1>2. booted' \in BOOLEAN
    BY <1>1, BootedKept DEF CompleteSync, BeginSync, CompleteIdentities
  <1>3. RelayNext => UNCHANGED <<online, needSync, blocked, viewed>>
    BY DEF RelayNext, PublishConversation, PublishMessage, PublishIdentity,
           AppendEvent, Prune, Reset, workerVars
  <1>4. StreamNext => /\ UNCHANGED viewed
                      /\ online' \in {online, TRUE, FALSE}
                      /\ needSync' \in {needSync, TRUE}
                      /\ blocked' \in {blocked, blocked \/ TRUE, blocked \/ FALSE}
    BY <1>1 DEF StreamNext, OpenStream, PollEvents, GoOnline, Deliver, RejectBatch,
           StreamRefused, StreamEnds, Disconnected
  <1>5. JobNext => /\ UNCHANGED viewed
                   /\ online' \in {online, TRUE, FALSE}
                   /\ needSync' \in {needSync, TRUE, FALSE}
                   /\ blocked' \in {blocked, blocked \/ TRUE, blocked \/ FALSE}
    BY <1>1 DEF JobNext, AskIdentities, AskSync, AskStatus, AskSend, Serve,
           CompleteStatus, CompleteSync, CompleteChats, CompleteIdentities,
           CompleteSend, DropAnswer, FailJob, Disconnected
  <1>6. UserNext => /\ viewed' \in {viewed, TRUE, FALSE}
                    /\ online' \in {online, FALSE}
                    /\ needSync' \in {needSync, FALSE}
                    /\ blocked' \in {blocked, FALSE}
    BY DEF UserNext, Reconnect, Select, View, Crash
  <1> QED BY <1>1, <1>2, <1>3, <1>4, <1>5, <1>6 DEF Next

\* The bounded counters keep their type.
LEMMA TypeCounters ==
    ASSUME TypeOK, Next
    PROVE  pruned' \in 0..MaxEvents /\ faults' \in 0..MaxFaults
  <1>1. /\ pruned \in 0..MaxEvents /\ faults \in 0..MaxFaults
        /\ MaxEvents \in Nat /\ MaxFaults \in Nat
    BY SyncAssumption DEF SyncAssumption, TypeOK
  <1>2. \A kind : Fault(kind) => faults' \in 0..MaxFaults
    BY <1>1 DEF Fault
  <1>3. RelayNext => UNCHANGED faults /\ pruned' \in {pruned, 0} \cup 1..MaxEvents
    BY DEF RelayNext, PublishConversation, PublishMessage, PublishIdentity,
           AppendEvent, Prune, Reset
  <1>4. StreamNext => /\ UNCHANGED pruned
                      /\ UNCHANGED faults \/ \E kind : Fault(kind)
    BY DEF StreamNext, OpenStream, PollEvents, GoOnline, Deliver, RejectBatch,
           StreamRefused, StreamEnds, relayVars
  <1>5. JobNext => /\ UNCHANGED pruned
                   /\ UNCHANGED faults \/ \E kind : Fault(kind)
    BY DEF JobNext, AskIdentities, AskSync, AskStatus, AskSend, Serve,
           CompleteStatus, CompleteSync, CompleteChats, CompleteIdentities,
           CompleteSend, DropAnswer, FailJob, relayVars
  <1>6. UserNext => /\ UNCHANGED pruned
                    /\ UNCHANGED faults \/ \E kind : Fault(kind)
    BY DEF UserNext, Reconnect, Select, View, Crash, relayVars
  <1> QED BY <1>1, <1>2, <1>3, <1>4, <1>5, <1>6 DEF Next

\* Cached records keep their type, and none gets older unless a new epoch
\* begins.
LEMMA CacheStep ==
    ASSUME TypeOK, Next
    PROVE  /\ cache' \in [Epochs -> [Directory -> 0..MaxEvents]]
           /\ \/ \A x \in Epochs, d \in Directory : cache[x][d] <= cache'[x][d]
              \/ /\ CompleteSync /\ job.epoch # cEpoch
                 /\ \A x \in Epochs, d \in Directory : cache'[x][d] = 0
  <1>1. MaxEvents \in Nat /\ cache \in [Epochs -> [Directory -> 0..MaxEvents]]
        /\ \A x \in Epochs, d \in Directory : cache[x][d] <= cache[x][d]
    BY SyncAssumption DEF SyncAssumption, TypeOK
  <1>2. CASE UNCHANGED cache
    BY <1>1, <1>2
  <1>3. CASE CompleteSync
    <2>1. CASE job.epoch = cEpoch
      BY <1>1, <1>3, <2>1 DEF CompleteSync, BeginSync
    <2>2. CASE job.epoch # cEpoch
      <3>1. cache' = [x \in Epochs |-> [d \in Directory |-> 0]]
        BY <1>3, <2>2 DEF CompleteSync, BeginSync
      <3>2. 0 \in 0..MaxEvents
        BY <1>1
      <3> QED BY <1>3, <2>2, <3>1, <3>2
    <2> QED BY <2>1, <2>2
  <1>4. ASSUME NEW kind \in {"chats", "identities"}, Answered(kind),
               NEW ids \in SUBSET Directory, cache' = Paged(ids)
        PROVE  /\ cache' \in [Epochs -> [Directory -> 0..MaxEvents]]
               /\ \A x \in Epochs, d \in Directory : cache[x][d] <= cache'[x][d]
    <2>1. job.epoch \in Epochs /\ job.at \in 0..MaxEvents
      BY <1>4, AnsweredFacts
    <2>2. Answer(ids) \in SUBSET Directory
      BY <1>4, NextKeyFacts
    <2>3. cache' = WithPage(Answer(ids), job.epoch, job.at)
      BY <1>4 DEF Paged
    <2> QED BY <2>1, <2>2, <2>3, WithPageFacts
  <1>5. Chats \in SUBSET Directory /\ Identities \in SUBSET Directory
    BY DEF Directory
  <1>6. CASE CompleteChats
    BY <1>4, <1>5, <1>6 DEF CompleteChats
  <1>7. CASE CompleteIdentities
    BY <1>4, <1>5, <1>7 DEF CompleteIdentities
  <1>8. CASE Crash
    <2>1. \/ UNCHANGED cache
          \/ Answered("chats") /\ cache' = Paged(Chats)
          \/ Answered("identities") /\ cache' = Paged(Identities)
      BY <1>8 DEF Crash
    <2> QED BY <1>2, <1>4, <1>5, <2>1
  <1>9. ASSUME NEW n \in 1..MaxEvents, Deliver(n)
        PROVE  /\ cache' \in [Epochs -> [Directory -> 0..MaxEvents]]
               /\ \A x \in Epochs, d \in Directory : cache[x][d] <= cache'[x][d]
    BY <1>9, DeliverCache
  <1> QED BY <1>2, <1>3, <1>6, <1>7, <1>8, <1>9, CacheKept

\* What was seen and notified keeps its type.
LEMMA TypeSeen ==
    ASSUME TypeOK, Next
    PROVE  /\ seen' \in [Epochs -> SUBSET Messages]
           /\ unread' \in Nat
           /\ notified' \in [Epochs -> [Messages -> Nat]]
  <1>1. /\ seen \in [Epochs -> SUBSET Messages] /\ unread \in Nat
        /\ notified \in [Epochs -> [Messages -> Nat]]
    BY DEF TypeOK
  <1>2. CASE UNCHANGED <<seen, notified>> /\ unread' \in {unread, 0}
    BY <1>1, <1>2
  <1>3. CASE CompleteSync
    BY <1>1, <1>3 DEF CompleteSync, BeginSync
  <1>4. ASSUME NEW n \in 1..MaxEvents, Deliver(n)
        PROVE  /\ seen' \in [Epochs -> SUBSET Messages]
               /\ unread' \in Nat
               /\ notified' \in [Epochs -> [Messages -> Nat]]
    <2>1. PICK new, alerts \in SUBSET Messages :
             /\ seen' = [seen EXCEPT ![cEpoch] = @ \cup new]
             /\ unread' = unread + Cardinality(alerts)
             /\ Cardinality(alerts) \in Nat
             /\ notified' = [notified EXCEPT ![cEpoch] = [m \in Messages |->
                    IF m \in alerts THEN @[m] + 1 ELSE @[m]]]
      BY <1>4, DeliverSeen
    <2>2. unread' \in Nat
      BY <1>1, <2>1
    <2>3. seen' \in [Epochs -> SUBSET Messages]
      BY <1>1, <2>1
    <2> DEFINE row == [m \in Messages |->
                  IF m \in alerts THEN notified[cEpoch][m] + 1 ELSE notified[cEpoch][m]]
    <2>4. notified' = [notified EXCEPT ![cEpoch] = row]
      BY <2>1
    <2>5. cEpoch \in Epochs => row \in [Messages -> Nat]
      BY <1>1
    <2> HIDE DEF row
    <2>6. notified' \in [Epochs -> [Messages -> Nat]]
      BY <1>1, <2>4, <2>5
    <2> QED BY <2>2, <2>3, <2>6
  <1> QED BY <1>2, <1>3, <1>4, SeenKept

\* The contact pages stand at a key.
LEMMA TypeBefore ==
    ASSUME TypeOK, Next
    PROVE  before' \in 0..Top
  <1>1. before \in 0..Top /\ 0 \in 0..Top /\ Top \in 0..Top
    BY SyncAssumption DEF SyncAssumption, TypeOK
  <1>2. CASE CompleteSync
    BY <1>1, <1>2 DEF CompleteSync, NoKey
  <1>3. CASE CompleteChats
    BY <1>1, <1>3 DEF CompleteChats
  <1>4. CASE CompleteIdentities
    <2>1. Answered("identities") /\ before' = NextKey(Identities)
      BY <1>4 DEF CompleteIdentities
    <2>2. Identities \in SUBSET Directory
      BY DEF Directory
    <2> QED BY <2>1, <2>2, NextKeyFacts
  <1> QED BY <1>1, <1>2, <1>3, <1>4, BeforeKept DEF NoKey

\* Every request is well formed.
LEMMA AskFacts ==
    ASSUME NEW kind \in JobKind, NEW key \in 0..Top
    PROVE  /\ Ask(kind, key) \in Job
           /\ Ask(kind, key).kind = kind /\ Ask(kind, key).key = key
           /\ Ask(kind, key).epoch = 0 /\ Ask(kind, key).at = 0
  <1>1. 0 \in 0..MaxEpoch /\ 0 \in 0..MaxEvents
    BY SyncAssumption DEF SyncAssumption
  <1> QED BY <1>1 DEF Ask, Job

\* The request under way keeps its type.
LEMMA TypeJob ==
    ASSUME TypeOK, Next
    PROVE  job' \in Job
  <1>1. 0 \in 0..Top /\ Top \in 0..Top /\ job \in Job /\ before \in 0..Top
    BY SyncAssumption DEF SyncAssumption, TypeOK
  <1>2. \A kind \in JobKind, key \in 0..Top : Ask(kind, key) \in Job
    BY AskFacts
  <1>3. ASSUME job' \in {Idle, Ask("status", NoKey), Ask("send", NoKey)}
        PROVE  job' \in Job
    BY <1>1, <1>2, <1>3 DEF Idle, JobKind, NoKey
  <1>4. CASE AskIdentities \/ AskSync \/ CompleteSync
    BY <1>1, <1>2, <1>4
       DEF AskIdentities, AskSync, CompleteSync, JobKind, NoKey
  <1>5. CASE CompleteStatus
    BY <1>1, <1>2, <1>5 DEF CompleteStatus, Idle, JobKind, NoKey
  <1>6. CASE CompleteChats
    <2>1. Answered("chats") /\ Chats \in SUBSET Directory
      BY <1>6 DEF CompleteChats, Directory
    <2>2. NextKey(Chats) \in 0..Top
      BY <2>1, NextKeyFacts
    <2> QED BY <1>1, <1>2, <1>6, <2>2 DEF CompleteChats, Idle, JobKind, NoKey
  <1>7. CASE Serve
    <2>1. job' = [kind |-> job.kind, key |-> job.key,
                  epoch |-> epoch, at |-> Len(Log)]
      BY <1>7 DEF Serve
    <2>2. epoch \in 0..MaxEpoch /\ Len(Log) \in 0..MaxEvents
      BY LogFacts
    <2> QED BY <1>1, <2>1, <2>2 DEF Job
  <1> QED BY <1>1, <1>3, <1>4, <1>5, <1>6, <1>7, JobKept

\* The event stream keeps its type.
LEMMA TypeStream ==
    ASSUME TypeOK, Next
    PROVE  stream' \in Stream
  <1>1. /\ stream \in Stream /\ MaxEvents \in Nat
        /\ 0 \in 0..MaxEpoch /\ 0 \in 0..MaxEvents
        /\ cEpoch \in 0..MaxEpoch /\ cursor \in 0..MaxEvents
    BY SyncAssumption DEF SyncAssumption, TypeOK
  <1>2. /\ stream.epoch \in 0..MaxEpoch /\ stream.sent \in 0..MaxEvents
        /\ stream.wire \in Seq(1..MaxEvents)
    BY <1>1 DEF Stream
  <1>3. <<>> \in Seq(1..MaxEvents)
    OBVIOUS
  <1>4. \A s \in StreamState, e \in 0..MaxEpoch, n \in 0..MaxEvents,
           w \in Seq(1..MaxEvents) :
           [state |-> s, epoch |-> e, sent |-> n, wire |-> w] \in Stream
    BY DEF Stream
  <1>5. NoStream \in Stream
    BY <1>1, <1>3, <1>4 DEF NoStream, StreamState
  <1>6. CASE OpenStream
    <2>1. \E s \in {"open", "refused"} : stream' = [stream EXCEPT !.state = s]
      BY <1>6 DEF OpenStream
    <2> QED BY <1>1, <2>1 DEF Stream, StreamState
  <1>7. CASE PollEvents
    <2>1. CASE CheckCursor(stream.epoch, stream.sent)
      <3>1. PICK k \in Nat \ {0} :
               /\ stream.sent + k <= Len(Log)
               /\ stream' = [state |-> "open", epoch |-> stream.epoch,
                             sent |-> stream.sent + k,
                             wire |-> stream.wire
                                      \o [i \in 1..k |-> stream.sent + i]]
        BY <1>7, <2>1, PollFacts
      <3> DEFINE rows == [i \in 1..k |-> stream.sent + i]
      <3>2. Len(Log) \in 0..MaxEvents
        BY LogFacts
      <3>3. /\ stream.sent + k \in 0..MaxEvents
            /\ \A i \in 1..k : stream.sent + i \in 1..MaxEvents
        <4>1. stream.sent \in Nat /\ Len(Log) \in Nat /\ Len(Log) <= MaxEvents
          BY <1>1, <1>2, <3>2
        <4>2. stream.sent + k <= MaxEvents
          BY <1>1, <3>1, <4>1
        <4>3. stream.sent + k \in 0..MaxEvents
          BY <1>1, <4>1, <4>2
        <4>4. ASSUME NEW i \in 1..k
              PROVE  stream.sent + i \in 1..MaxEvents
          BY <1>1, <4>1, <4>2
        <4> QED BY <4>3, <4>4
      <3>4. rows \in Seq(1..MaxEvents)
        BY <3>3
      <3> HIDE DEF rows
      <3>5. stream.wire \o rows \in Seq(1..MaxEvents)
        BY <1>2, <3>4
      <3>6. stream' = [state |-> "open", epoch |-> stream.epoch,
                       sent |-> stream.sent + k, wire |-> stream.wire \o rows]
        BY <3>1 DEF rows
      <3> QED BY <1>2, <1>4, <3>3, <3>5, <3>6 DEF StreamState
    <2>2. CASE ~CheckCursor(stream.epoch, stream.sent)
      <3>1. stream' = [stream EXCEPT !.state = "closed"]
        BY <1>7, <2>2 DEF PollEvents
      <3> QED BY <1>1, <3>1 DEF Stream, StreamState
    <2> QED BY <2>1, <2>2
  <1>8. Attached(cEpoch, cursor) \in Stream
    BY <1>1, <1>3, <1>4 DEF Attached, StreamState
  <1>9. CASE CompleteStatus
    BY <1>5, <1>8, <1>9 DEF CompleteStatus
  <1>10. CASE CompleteIdentities
    BY <1>1, <1>8, <1>10 DEF CompleteIdentities
  <1>11. ASSUME NEW n \in 1..MaxEvents, Deliver(n)
         PROVE  stream' \in Stream
    <2>1. /\ stream' = [stream EXCEPT !.wire = SubSeq(stream.wire, n + 1, Len(stream.wire))]
          /\ n <= Len(stream.wire)
      BY <1>11 DEF Deliver
    <2>2. SubSeq(stream.wire, n + 1, Len(stream.wire)) \in Seq(1..MaxEvents)
      <3>1. Len(stream.wire) \in Nat /\ n + 1 \in Nat /\ n + 1 >= 1
        BY <1>1, <1>2
      <3>2. ASSUME NEW i \in (n + 1)..Len(stream.wire)
            PROVE  stream.wire[i] \in 1..MaxEvents
        <4>1. i \in 1..Len(stream.wire)
          BY <3>1
        <4> QED BY <1>2, <4>1, ElementOfSeq
      <3> QED BY <3>1, <3>2, SubSeqProperties
    <2> QED BY <1>1, <2>1, <2>2 DEF Stream
  <1> QED BY <1>1, <1>5, <1>6, <1>7, <1>9, <1>10, <1>11, StreamKept

\* The state is well formed at first ...
LEMMA TypeInit == Init => TypeOK
  <1> SUFFICES ASSUME Init
               PROVE  TypeOK
    OBVIOUS
  <1>1. /\ 1 \in Epochs /\ 0 \in 0..MaxEvents /\ 0 \in 0..MaxEpoch /\ 0 \in 0..Top
        /\ 0 \in 0..MaxFaults /\ 0 <= MaxEvents
    BY SyncAssumption DEF SyncAssumption, Epochs
  <1>2. /\ epoch \in Epochs /\ pruned \in 0..MaxEvents /\ cEpoch \in 0..MaxEpoch
        /\ cursor \in 0..MaxEvents /\ booted \in BOOLEAN /\ unread \in Nat
        /\ before \in 0..Top /\ base \in 0..MaxEvents /\ faults \in 0..MaxFaults
        /\ {online, needSync, blocked, viewed} \subseteq BOOLEAN
    BY <1>1 DEF Init, NoKey
  <1>3. /\ logs \in [Epochs -> Seq([id: Records, live: BOOLEAN])]
        /\ \A e \in Epochs : Len(logs[e]) <= MaxEvents
    <2>1. <<>> \in Seq([id: Records, live: BOOLEAN]) /\ Len(<<>>) = 0
      OBVIOUS
    <2>2. logs = [e \in Epochs |-> <<>>]
      BY DEF Init
    <2> QED BY <1>1, <2>1, <2>2
  <1>4. cache \in [Epochs -> [Directory -> 0..MaxEvents]]
    BY <1>1 DEF Init
  <1>5. /\ seen \in [Epochs -> SUBSET Messages]
        /\ notified \in [Epochs -> [Messages -> Nat]]
    BY DEF Init
  <1>6. job \in Job
    BY <1>1, AskFacts DEF Init, Idle, NoKey, JobKind
  <1>7. stream \in Stream
    <2>1. <<>> \in Seq(1..MaxEvents)
      OBVIOUS
    <2> QED BY <1>1, <2>1 DEF Init, NoStream, Stream, StreamState
  <1> QED BY <1>2, <1>3, <1>4, <1>5, <1>6, <1>7 DEF TypeOK

\* ... and stays so.
LEMMA TypeStep == TypeOK /\ [Next]_vars => TypeOK'
  <1>1. CASE TypeOK /\ Next
    <2>1. {online', needSync', blocked', viewed'} \subseteq BOOLEAN
      BY <1>1, TypeFlags
    <2>2. booted' \in BOOLEAN
      BY <1>1, TypeFlags
    <2> QED BY <1>1, <2>1, <2>2, TypeRelay, TypePosition, TypeCounters, CacheStep,
               TypeSeen, TypeBefore, TypeJob, TypeStream DEF TypeOK
  <1>2. CASE TypeOK /\ UNCHANGED vars
    BY <1>2 DEF TypeOK, vars, relayVars, storeVars, workerVars
  <1> QED BY <1>1, <1>2
-----------------------------------------------------------------------------
(* The inductive invariant of positions, phases and the stream.             *)

\* The client's epoch and position are ones the relay has been at, and so are
\* those of an answer on its way, which is never of an earlier epoch.
EpochOrder ==
    /\ cEpoch <= epoch
    /\ job.epoch # 0 =>
         /\ cEpoch <= job.epoch
         /\ job.epoch <= epoch
         /\ job.at <= Len(logs[job.epoch])
    /\ cEpoch = 0 => cursor = 0
    /\ cEpoch # 0 => cursor <= Len(logs[cEpoch])
    /\ base <= cursor

\* Of the stream and the three steps of a bootstrap at most one is under way.
Phases ==
    /\ job.kind \in {"sync", "chats"} => ~Active
    /\ booted \/ before # NoKey \/ job.kind = "chats" => cEpoch # 0
    /\ before # NoKey \/ job.kind = "chats" => ~booted
    /\ job.kind = "identities" => before # NoKey /\ job.key = before
    /\ job.kind = "chats" => before = NoKey

\* The stream is of the client's epoch and carries exactly the events that
\* follow the cursor.
Following ==
    Active =>
        /\ booted
        /\ stream.epoch = cEpoch
        /\ stream.sent = cursor + Len(stream.wire)
        /\ stream.sent <= Len(logs[cEpoch])
        /\ \A i \in 1..Len(stream.wire) : stream.wire[i] = cursor + i

SyncInv == TypeOK /\ EpochOrder /\ Phases /\ Following

\* Steps that neither answer the job of a bootstrap nor ask for one.
LEMMA QuietStep ==
    ASSUME Next, ~CompleteSync, ~CompleteChats, ~CompleteIdentities,
           ~CompleteStatus, ~AskSync, ~AskIdentities, ~Serve
    PROVE  /\ UNCHANGED <<cEpoch, base, booted>>
           /\ \/ UNCHANGED before
              \/ before' = NoKey /\ job' = Idle
           /\ job' \in {job, Idle, Ask("status", NoKey), Ask("send", NoKey)}
           /\ stream' = stream \/ stream' = NoStream \/ Active
  <1>1. UNCHANGED <<cEpoch, base>>
    BY PositionKept DEF Deliver
  <1>2. UNCHANGED booted
    BY BootedKept
  <1>3. \/ UNCHANGED before
        \/ before' = NoKey /\ job' = Idle
    BY BeforeKept
  <1>4. job' \in {job, Idle, Ask("status", NoKey), Ask("send", NoKey)}
    BY JobKept
  <1>5. stream' = stream \/ stream' = NoStream \/ Active
    BY StreamKept DEF OpenStream, PollEvents, Deliver, Active
  <1> QED BY <1>1, <1>2, <1>3, <1>4, <1>5

\* The requests that a worker asks have no answer yet.
LEMMA Asked ==
    /\ Idle.kind = "idle" /\ Idle.epoch = 0
    /\ \A kind, key : /\ Ask(kind, key).kind = kind
                      /\ Ask(kind, key).key = key
                      /\ Ask(kind, key).epoch = 0
  BY DEF Idle, Ask

\* An answer leaves the job slot empty or holding a question.
LEMMA JobAnswered ==
    ASSUME Next
    PROVE  job' = job \/ job'.epoch = 0 \/ Serve
  <1>1. ASSUME job' \in {Idle, Ask("status", NoKey), Ask("send", NoKey)}
        PROVE  job'.epoch = 0
    BY <1>1, Asked
  <1>2. CASE AskIdentities \/ AskSync \/ CompleteStatus \/ CompleteSync \/ CompleteChats
    BY <1>2, Asked DEF AskIdentities, AskSync, CompleteStatus, CompleteSync,
                       CompleteChats
  <1> QED BY <1>1, <1>2, JobKept

\* Positions stay within the logs, in the order of the epochs.
LEMMA EpochOrderStep ==
    ASSUME SyncInv, Next
    PROVE  EpochOrder'
  <1>1. TypeOK /\ EpochOrder /\ Phases /\ Following
    BY DEF SyncInv
  <1>2. /\ epoch \in Nat /\ cEpoch \in Nat /\ cursor \in Nat /\ base \in Nat
        /\ job.epoch \in Nat /\ job.at \in Nat
        /\ cEpoch # 0 => cEpoch \in Epochs
        /\ job.epoch # 0 => job.epoch \in Epochs
        /\ epoch \in Epochs
    BY <1>1, SyncAssumption DEF SyncAssumption, TypeOK, Job, Epochs
  <1>3. /\ epoch <= epoch' /\ epoch' \in Nat
        /\ \A e \in Epochs : /\ Len(logs[e]) \in Nat /\ Len(logs'[e]) \in Nat
                             /\ Len(logs[e]) <= Len(logs'[e])
    <2>1. epoch' \in Epochs
      BY <1>1, TypeRelay
    <2> QED BY <1>1, <2>1, LogsGrow DEF Epochs
  <1>4. CASE CompleteSync
    <2>1. /\ cEpoch' = job.epoch /\ cursor' = job.at /\ base' = job.at
          /\ UNCHANGED <<epoch, logs>> /\ job'.epoch = 0 /\ job.epoch # 0
      BY <1>4, Asked DEF CompleteSync, BeginSync, Answered, relayVars
    <2> QED BY <1>1, <1>2, <2>1 DEF EpochOrder
  <1>5. ASSUME NEW n \in 1..MaxEvents, Deliver(n)
        PROVE  EpochOrder'
    <2>1. UNCHANGED <<epoch, logs, cEpoch, base, job>> /\ Active
          /\ n <= Len(stream.wire)
      BY <1>5 DEF Deliver, relayVars, Active
    <2>2. /\ stream.wire \in Seq(1..MaxEvents) /\ Len(stream.wire) \in Nat
          /\ MaxEvents \in Nat
      BY <1>1, SyncAssumption DEF SyncAssumption, TypeOK, Stream
    <2>3. /\ cEpoch # 0 /\ cursor + Len(stream.wire) <= Len(logs[cEpoch])
          /\ \A i \in 1..Len(stream.wire) : stream.wire[i] = cursor + i
      BY <1>1, <2>1 DEF Following, Phases
    <2>4. cursor <= cursor' /\ cursor' \in {cursor} \cup Frames(n) /\ cursor' \in Nat
      BY <1>1, <1>5, DeliverCursor
    <2>5. \A f \in Frames(n) : f <= cursor + Len(stream.wire)
      <3> SUFFICES ASSUME NEW i \in 1..n
                   PROVE  stream.wire[i] <= cursor + Len(stream.wire)
        BY DEF Frames
      <3>1. i \in 1..Len(stream.wire) /\ i \in Nat /\ i <= Len(stream.wire)
        BY <2>1, <2>2
      <3> QED BY <1>2, <2>2, <2>3, <3>1
    <2>6. cursor' <= Len(logs[cEpoch])
      <3>1. Len(logs[cEpoch]) \in Nat
        BY <1>2, <1>3, <2>3
      <3>2. cursor' <= cursor + Len(stream.wire)
        BY <1>2, <2>2, <2>4, <2>5
      <3> QED BY <1>2, <2>2, <2>3, <2>4, <3>1, <3>2
    <2> QED BY <1>1, <1>2, <2>1, <2>3, <2>4, <2>6 DEF EpochOrder
  <1>6. CASE UNCHANGED <<cEpoch, cursor, base>>
    <2>1. /\ cEpoch' <= epoch' /\ base' <= cursor'
          /\ cEpoch' = 0 => cursor' = 0
      BY <1>1, <1>2, <1>3, <1>6 DEF EpochOrder
    <2>2. cEpoch' # 0 => cursor' <= Len(logs'[cEpoch'])
      BY <1>1, <1>2, <1>3, <1>6 DEF EpochOrder
    <2>3. CASE job' = job
      <3>1. job.epoch # 0 => /\ cEpoch <= job.epoch /\ job.epoch <= epoch'
                             /\ job.at <= Len(logs'[job.epoch])
        BY <1>1, <1>2, <1>3 DEF EpochOrder
      <3> QED BY <1>6, <2>1, <2>2, <2>3, <3>1 DEF EpochOrder
    <2>4. CASE job'.epoch = 0
      BY <2>1, <2>2, <2>4 DEF EpochOrder
    <2>5. CASE Serve
      <3>1. /\ job'.epoch = epoch /\ job'.at = Len(logs[epoch])
            /\ UNCHANGED <<epoch, logs>>
        BY <2>5 DEF Serve, relayVars, Log
      <3>2. Len(logs[epoch]) \in Nat
        BY <1>2, <1>3
      <3>3. /\ cEpoch' <= job'.epoch /\ job'.epoch <= epoch'
            /\ job'.at <= Len(logs'[job'.epoch])
        BY <1>1, <1>2, <1>6, <3>1, <3>2 DEF EpochOrder
      <3> QED BY <2>1, <2>2, <3>3 DEF EpochOrder
    <2> QED BY <2>3, <2>4, <2>5, JobAnswered
  <1> QED BY <1>4, <1>5, <1>6, PositionKept

\* The phases of a bootstrap follow one another.
LEMMA PhasesStep ==
    ASSUME SyncInv, Next
    PROVE  Phases'
  <1>1. TypeOK /\ EpochOrder /\ Phases /\ Following
    BY DEF SyncInv
  <1>2. Active' <=> stream'.state # "none"
    BY DEF Active
  <1>3. NoStream.state = "none"
    BY DEF NoStream
  <1>4. CASE CompleteSync
    <2>1. /\ job.kind = "sync" /\ job.epoch # 0
          /\ cEpoch' = job.epoch /\ booted' = FALSE /\ before' = NoKey
          /\ job' = Ask("chats", Top) /\ UNCHANGED stream
      BY <1>4 DEF CompleteSync, BeginSync, Answered
    <2>2. job'.kind = "chats" /\ ~Active'
      BY <1>1, <1>2, <2>1, Asked DEF Phases, Active
    <2> QED BY <2>1, <2>2 DEF Phases
  <1>5. CASE CompleteChats
    <2>1. /\ job.kind = "chats" /\ UNCHANGED <<cEpoch, booted, stream>>
          /\ \/ job'.kind = "chats" /\ UNCHANGED before
             \/ job'.kind = "idle" /\ before' = Top
      BY <1>5, Asked DEF CompleteChats, Answered
    <2>2. cEpoch # 0 /\ ~booted /\ before = NoKey /\ ~Active'
      BY <1>1, <1>2, <2>1 DEF Phases, Active
    <2> QED BY <2>1, <2>2 DEF Phases
  <1>6. CASE CompleteIdentities
    <2>1. /\ job.kind = "identities" /\ UNCHANGED cEpoch /\ job'.kind = "idle"
          /\ \/ before' = NoKey
             \/ UNCHANGED booted
      BY <1>6, Asked DEF CompleteIdentities, Answered
    <2>2. cEpoch # 0 /\ ~booted
      BY <1>1, <2>1 DEF Phases
    <2> QED BY <2>1, <2>2 DEF Phases
  <1>7. CASE CompleteStatus
    <2>1. /\ UNCHANGED <<cEpoch, booted, before>>
          /\ \/ job'.kind = "sync" /\ stream' = NoStream
             \/ job'.kind = "idle"
      BY <1>7, Asked DEF CompleteStatus, storeVars
    <2>2. job'.kind = "sync" => ~Active'
      BY <1>2, <1>3, <2>1
    <2> QED BY <1>1, <2>1, <2>2 DEF Phases
  <1>8. CASE AskSync
    <2>1. /\ UNCHANGED <<cEpoch, booted, before, stream>> /\ ~Active
          /\ job'.kind = "sync"
      BY <1>8, Asked DEF AskSync, storeVars
    <2> QED BY <1>1, <2>1 DEF Phases, Active
  <1>9. CASE AskIdentities
    <2>1. /\ UNCHANGED <<cEpoch, booted, before>> /\ before # NoKey
          /\ job'.kind = "identities" /\ job'.key = before
      BY <1>9, Asked DEF AskIdentities, WantsIdentities, storeVars
    <2> QED BY <1>1, <2>1 DEF Phases
  <1>10. CASE Serve
    <2>1. /\ UNCHANGED <<cEpoch, booted, before, stream>>
          /\ job'.kind = job.kind /\ job'.key = job.key
      BY <1>10 DEF Serve, storeVars
    <2> QED BY <1>1, <2>1 DEF Phases, Active
  <1>11. CASE /\ ~CompleteSync /\ ~CompleteChats /\ ~CompleteIdentities
              /\ ~CompleteStatus /\ ~AskSync /\ ~AskIdentities /\ ~Serve
    <2>1. /\ UNCHANGED <<cEpoch, base, booted>>
          /\ \/ UNCHANGED before
             \/ before' = NoKey /\ job' = Idle
          /\ job' \in {job, Idle, Ask("status", NoKey), Ask("send", NoKey)}
          /\ stream' = stream \/ stream' = NoStream \/ Active
      BY <1>11, QuietStep
    <2>2. job' = job \/ job'.kind \in {"idle", "status", "send"}
      BY <2>1, Asked
    <2>3. CASE job'.kind \in {"idle", "status", "send"}
      BY <1>1, <2>1, <2>3 DEF Phases
    <2>4. CASE job' = job /\ job'.kind \notin {"idle", "status", "send"}
      <3>1. UNCHANGED before
        BY <2>1, <2>4, Asked
      <3>2. job.kind \in {"sync", "chats"} => ~Active'
        BY <1>1, <1>2, <1>3, <2>1 DEF Phases, Active
      <3> QED BY <1>1, <2>1, <2>4, <3>1, <3>2 DEF Phases
    <2> QED BY <2>2, <2>3, <2>4
  <1> QED BY <1>4, <1>5, <1>6, <1>7, <1>8, <1>9, <1>10, <1>11

\* An attached stream is the one that runs or starts at the cursor.
LEMMA AttachedFollows ==
    ASSUME TypeOK, EpochOrder, Following, cEpoch # 0, Next,
           stream' = Attached(cEpoch, cursor), booted',
           UNCHANGED <<cEpoch, cursor, logs>>
    PROVE  Following'
  <1>1. CASE Active
    <2>1. stream' = stream
      BY <1>1 DEF Attached
    <2> QED BY <1>1, <2>1 DEF Following, Active
  <1>2. CASE ~Active
    <2>1. /\ stream'.epoch = cEpoch /\ stream'.sent = cursor
          /\ stream'.wire = <<>>
      BY <1>2 DEF Attached
    <2>2. cursor \in Nat /\ cursor <= Len(logs[cEpoch])
      BY SyncAssumption DEF SyncAssumption, EpochOrder, TypeOK
    <2>3. Len(stream'.wire) = 0 /\ cursor + 0 = cursor
      BY <2>1, <2>2
    <2>4. \A i \in 1..Len(stream'.wire) : stream'.wire[i] = cursor + i
      BY <2>3
    <2> QED BY <2>1, <2>2, <2>3, <2>4 DEF Following
  <1> QED BY <1>1, <1>2

\* A delivery takes the events that follow the cursor, one by one.
LEMMA DeliverMoves ==
    ASSUME TypeOK, Following, NEW n \in 1..MaxEvents, Deliver(n)
    PROVE  /\ cursor' = cursor + n
           /\ \A i \in 1..n : cursor + i \in Frames(n)
  <1>1. Active /\ n <= Len(stream.wire)
    BY DEF Deliver, Active
  <1>2. /\ cursor \in Nat /\ n \in Nat /\ n >= 1
        /\ stream.wire \in Seq(1..MaxEvents) /\ Len(stream.wire) \in Nat
    BY SyncAssumption DEF SyncAssumption, TypeOK, Stream
  <1>3. \A i \in 1..Len(stream.wire) : stream.wire[i] = cursor + i
    BY <1>1 DEF Following
  <1>4. \A i \in 1..n : stream.wire[i] = cursor + i
    BY <1>1, <1>2, <1>3
  <1>5. cursor' \in {cursor} \cup Frames(n) /\ \A f \in Frames(n) : f <= cursor'
    BY DeliverCursor
  <1>6. \A i \in 1..n : cursor + i \in Frames(n)
    BY <1>4 DEF Frames
  <1>7. cursor + n \in Frames(n)
    BY <1>2, <1>6
  <1>8. \A f \in Frames(n) : f \in Nat /\ f <= cursor + n
    BY <1>2, <1>4 DEF Frames
  <1>9. cursor' \in Nat /\ cursor' <= cursor + n /\ cursor + n <= cursor'
    BY <1>2, <1>5, <1>7, <1>8
  <1> QED BY <1>2, <1>6, <1>9

\* The stream keeps carrying what follows the cursor.
LEMMA FollowingStep ==
    ASSUME SyncInv, Next
    PROVE  Following'
  <1>1. TypeOK /\ EpochOrder /\ Phases /\ Following
    BY DEF SyncInv
  <1>2. /\ epoch \in Nat /\ cEpoch \in Nat /\ cursor \in Nat
        /\ cEpoch # 0 => cEpoch \in Epochs
        /\ stream.wire \in Seq(1..MaxEvents) /\ Len(stream.wire) \in Nat
        /\ stream.sent \in Nat
    BY <1>1, SyncAssumption DEF SyncAssumption, TypeOK, Stream, Epochs
  <1>3. Active => cEpoch # 0
    BY <1>1 DEF Following, Phases
  <1>4. \A e \in Epochs : /\ Len(logs[e]) \in Nat /\ Len(logs'[e]) \in Nat
                          /\ Len(logs[e]) <= Len(logs'[e])
    BY <1>1, LogsGrow
  <1>5. CASE CompleteSync
    <2>1. ~Active /\ UNCHANGED stream
      BY <1>1, <1>5 DEF CompleteSync, Answered, Phases
    <2> QED BY <2>1 DEF Following, Active
  <1>6. CASE CompleteIdentities
    <2>1. UNCHANGED <<cEpoch, cursor, logs>>
      BY <1>6 DEF CompleteIdentities, relayVars
    <2>2. CASE NextKey(Identities) = NoKey
      <3>1. booted' /\ stream' = Attached(cEpoch, cursor)
        BY <1>6, <2>2 DEF CompleteIdentities
      <3>2. cEpoch # 0
        BY <1>1, <1>6 DEF CompleteIdentities, Answered, Phases
      <3> QED BY <1>1, <2>1, <3>1, <3>2, AttachedFollows
    <2>3. CASE NextKey(Identities) # NoKey
      <3>1. UNCHANGED <<booted, stream>>
        BY <1>6, <2>3 DEF CompleteIdentities
      <3> QED BY <1>1, <2>1, <3>1 DEF Following, Active
    <2> QED BY <2>2, <2>3
  <1>7. CASE CompleteStatus
    <2>1. UNCHANGED <<cEpoch, cursor, logs, booted>>
      BY <1>7 DEF CompleteStatus, storeVars, relayVars
    <2>2. CASE stream' = NoStream
      BY <2>2 DEF Following, Active, NoStream
    <2>3. CASE stream' # NoStream
      <3>1. booted /\ stream' = Attached(cEpoch, cursor)
        BY <1>7, <2>3 DEF CompleteStatus
      <3>2. cEpoch # 0
        BY <1>1, <3>1 DEF Phases
      <3> QED BY <1>1, <2>1, <3>1, <3>2, AttachedFollows
    <2> QED BY <2>2, <2>3
  <1>8. CASE OpenStream
    <2>1. /\ UNCHANGED <<cEpoch, cursor, logs, booted>> /\ Active
          /\ \E s \in {"open", "refused"} : stream' = [stream EXCEPT !.state = s]
      BY <1>8 DEF OpenStream, storeVars, relayVars, Active
    <2>2. /\ stream'.epoch = stream.epoch /\ stream'.sent = stream.sent
          /\ stream'.wire = stream.wire
      BY <1>1, <2>1 DEF TypeOK, Stream
    <2> QED BY <1>1, <2>1, <2>2 DEF Following
  <1>9. CASE PollEvents
    <2>1. UNCHANGED <<cEpoch, cursor, logs, booted>> /\ Active
      BY <1>9 DEF PollEvents, storeVars, relayVars, Active
    <2>2. /\ booted /\ stream.epoch = cEpoch
          /\ stream.sent = cursor + Len(stream.wire)
          /\ stream.sent <= Len(logs[cEpoch])
          /\ \A i \in 1..Len(stream.wire) : stream.wire[i] = cursor + i
      BY <1>1, <2>1 DEF Following
    <2>3. CASE CheckCursor(stream.epoch, stream.sent)
      <3>1. stream.epoch = epoch
        BY <1>1, <1>9, <2>3, PollFacts
      <3>2. PICK k \in Nat \ {0} :
               /\ stream.sent + k <= Len(Log)
               /\ stream' = [state |-> "open", epoch |-> stream.epoch,
                             sent |-> stream.sent + k,
                             wire |-> stream.wire
                                      \o [i \in 1..k |-> stream.sent + i]]
        BY <1>1, <1>9, <2>3, PollFacts
      <3> DEFINE rows == [i \in 1..k |-> stream.sent + i]
      <3>3. rows \in Seq(Nat) /\ Len(rows) = k
            /\ \A i \in 1..k : rows[i] = stream.sent + i
        BY <1>2
      <3>4. /\ stream'.epoch = cEpoch /\ stream'.sent = stream.sent + k
            /\ stream'.wire = stream.wire \o rows
        BY <2>2, <3>2
      <3> HIDE DEF rows
      <3>5. stream.wire \in Seq(Nat)
        <4>1. 1..MaxEvents \subseteq Nat
          BY SyncAssumption DEF SyncAssumption
        <4> QED BY <1>2, <4>1, SeqMonotonic
      <3>6. /\ Len(stream'.wire) = Len(stream.wire) + Len(rows)
            /\ \A i \in 1..Len(stream.wire) + Len(rows) :
                  stream'.wire[i] = IF i <= Len(stream.wire) THEN stream.wire[i]
                                    ELSE rows[i - Len(stream.wire)]
        <4>1. /\ Len(stream.wire \o rows) = Len(stream.wire) + Len(rows)
              /\ \A i \in 1..Len(stream.wire) + Len(rows) :
                    (stream.wire \o rows)[i] =
                       IF i <= Len(stream.wire) THEN stream.wire[i]
                       ELSE rows[i - Len(stream.wire)]
          BY <3>3, <3>5, ConcatProperties
        <4> QED BY <3>4, <4>1
      <3>7. ASSUME NEW i \in 1..Len(stream'.wire)
            PROVE  stream'.wire[i] = cursor + i
        <4>1. CASE i <= Len(stream.wire)
          BY <1>2, <2>2, <3>3, <3>6, <4>1
        <4>2. CASE ~(i <= Len(stream.wire))
          <5>1. i - Len(stream.wire) \in 1..k /\ i \in Nat
            BY <1>2, <3>3, <3>6, <4>2
          <5>2. stream'.wire[i] = rows[i - Len(stream.wire)]
            BY <3>6, <4>2
          <5>3. stream'.wire[i] = stream.sent + (i - Len(stream.wire))
            BY <3>3, <5>1, <5>2
          <5>4. stream.sent + (i - Len(stream.wire)) = cursor + i
            <6> DEFINE l == Len(stream.wire)
                       sent == stream.sent
            <6>1. sent = cursor + l /\ i \in Nat /\ cursor \in Nat /\ l \in Nat
              BY <1>2, <2>2, <5>1
            <6>2. sent + (i - l) = cursor + i
              <7> HIDE DEF l, sent
              <7> QED BY <6>1
            <6> QED BY <6>2
          <5> QED BY <5>3, <5>4
        <4> QED BY <4>1, <4>2
      <3>8. stream'.sent = cursor + Len(stream'.wire)
        <4>1. Len(stream'.wire) = Len(stream.wire) + k
          BY <3>3, <3>6
        <4> QED BY <1>2, <2>2, <3>4, <4>1
      <3>9. stream'.sent <= Len(logs'[cEpoch'])
        BY <2>1, <2>2, <3>1, <3>2, <3>4 DEF Log
      <3> QED BY <2>1, <2>2, <3>4, <3>7, <3>8, <3>9 DEF Following
    <2>4. CASE ~CheckCursor(stream.epoch, stream.sent)
      <3>1. stream' = [stream EXCEPT !.state = "closed"]
        BY <1>9, <2>4 DEF PollEvents
      <3>2. /\ stream'.epoch = stream.epoch /\ stream'.sent = stream.sent
            /\ stream'.wire = stream.wire
        BY <1>1, <3>1 DEF TypeOK, Stream
      <3> QED BY <2>1, <2>2, <3>2 DEF Following
    <2> QED BY <2>3, <2>4
  <1>10. ASSUME NEW n \in 1..MaxEvents, Deliver(n)
         PROVE  Following'
    <2>1. /\ UNCHANGED <<cEpoch, logs, booted>> /\ Active
          /\ n <= Len(stream.wire) /\ n \in Nat /\ n >= 1
          /\ stream' = [stream EXCEPT !.wire = SubSeq(stream.wire, n + 1, Len(stream.wire))]
      <3>1. MaxEvents \in Nat
        BY SyncAssumption DEF SyncAssumption
      <3> QED BY <1>10, <3>1 DEF Deliver, relayVars, Active
    <2>2. /\ booted /\ stream.epoch = cEpoch
          /\ stream.sent = cursor + Len(stream.wire)
          /\ stream.sent <= Len(logs[cEpoch])
          /\ \A i \in 1..Len(stream.wire) : stream.wire[i] = cursor + i
      BY <1>1, <2>1 DEF Following
    <2> DEFINE rest == SubSeq(stream.wire, n + 1, Len(stream.wire))
    <2>3. /\ stream'.epoch = stream.epoch /\ stream'.sent = stream.sent
          /\ stream'.wire = rest
      BY <1>1, <2>1 DEF TypeOK, Stream
    <2>4. /\ Len(rest) = Len(stream.wire) - n
          /\ \A i \in 1..Len(rest) : rest[i] = stream.wire[n + i]
      <3>1. n + 1 \in Int /\ Len(stream.wire) \in Int
        BY <1>2, <2>1
      <3>2. \A i \in (n + 1)..Len(stream.wire) : stream.wire[i] \in Nat
        <4> SUFFICES ASSUME NEW i \in (n + 1)..Len(stream.wire)
                     PROVE  stream.wire[i] \in Nat
          OBVIOUS
        <4>1. i \in 1..Len(stream.wire) /\ i \in Nat
          BY <1>2, <2>1
        <4> QED BY <1>2, <2>2, <4>1
      <3>3. /\ Len(rest) = IF n + 1 <= Len(stream.wire)
                           THEN Len(stream.wire) - (n + 1) + 1 ELSE 0
            /\ \A i \in 1..(Len(stream.wire) - (n + 1) + 1) :
                  rest[i] = stream.wire[(n + 1) + i - 1]
        BY <3>1, <3>2, SubSeqProperties
      <3> HIDE DEF rest
      <3>4. Len(rest) = Len(stream.wire) - n
        BY <1>2, <2>1, <3>3
      <3>5. ASSUME NEW i \in 1..Len(rest)
            PROVE  rest[i] = stream.wire[n + i]
        <4>1. i \in 1..(Len(stream.wire) - (n + 1) + 1) /\ (n + 1) + i - 1 = n + i
          BY <1>2, <2>1, <3>4
        <4> QED BY <3>3, <4>1
      <3> QED BY <3>4, <3>5
    <2>5. cursor' = cursor + n
      BY <1>1, <1>10, DeliverMoves
    <2> HIDE DEF rest
    <2>6. ASSUME NEW i \in 1..Len(rest)
          PROVE  rest[i] = cursor' + i
      <3>1. n + i \in 1..Len(stream.wire)
        BY <1>2, <2>1, <2>4
      <3>2. rest[i] = cursor + (n + i)
        BY <2>2, <2>4, <3>1
      <3> QED BY <1>2, <2>1, <2>5, <3>2
    <2>7. stream'.sent = cursor' + Len(rest)
      BY <1>2, <2>1, <2>2, <2>3, <2>4, <2>5
    <2> QED BY <2>1, <2>2, <2>3, <2>6, <2>7 DEF Following
  <1>11. CASE stream' = NoStream
    BY <1>11 DEF Following, Active, NoStream
  <1>12. CASE /\ stream' = stream /\ ~CompleteSync /\ ~CompleteIdentities
              /\ ~\E n \in 1..MaxEvents : Deliver(n)
    <2>1. UNCHANGED <<cEpoch, cursor, booted>>
      BY <1>12, PositionKept, BootedKept
    <2>2. Active => stream.sent <= Len(logs'[cEpoch])
      BY <1>1, <1>2, <1>3, <1>4 DEF Following
    <2> QED BY <1>1, <1>12, <2>1, <2>2 DEF Following, Active
  <1> QED BY <1>5, <1>6, <1>7, <1>8, <1>9, <1>10, <1>11, <1>12, StreamKept

\* The invariant holds in every reachable state.
THEOREM SyncInvariance == Spec => []SyncInv
  <1>1. Init => SyncInv
    <2>1. Init => EpochOrder /\ Phases /\ Following
      BY DEF Init, EpochOrder, Phases, Following, Active, NoStream, Idle, Ask, NoKey
    <2> QED BY <2>1, TypeInit DEF SyncInv
  <1>2. SyncInv /\ [Next]_vars => SyncInv'
    <2>1. CASE SyncInv /\ Next
      BY <2>1, TypeStep, EpochOrderStep, PhasesStep, FollowingStep DEF SyncInv
    <2>2. CASE SyncInv /\ UNCHANGED vars
      <3>1. TypeOK'
        BY <2>2, TypeStep DEF SyncInv
      <3>2. EpochOrder' /\ Phases' /\ Following'
        BY <2>2 DEF SyncInv, EpochOrder, Phases, Following, Active, vars, relayVars,
                    storeVars, workerVars
      <3> QED BY <3>1, <3>2 DEF SyncInv
    <2> QED BY <2>1, <2>2
  <1> QED BY <1>1, <1>2, PTL DEF Spec
-----------------------------------------------------------------------------
(* Nothing of another epoch.                                                *)

\* Only the client's epoch and that of an answered page are written.
LEMMA ElsewhereKept ==
    ASSUME SyncInv, Next, NEW x \in Epochs
    PROVE  \/ cache'[x] = cache[x]
           \/ CompleteSync
           \/ x = cEpoch
           \/ x = job.epoch
  <1>1. TypeOK
    BY DEF SyncInv
  <1>2. ASSUME NEW kind \in {"chats", "identities"}, Answered(kind),
               NEW ids \in SUBSET Directory, cache' = Paged(ids), x # job.epoch
        PROVE  cache'[x] = cache[x]
    <2>1. job.epoch \in Epochs /\ job.at \in 0..MaxEvents
      BY <1>1, <1>2, AnsweredFacts
    <2>2. Answer(ids) \in SUBSET Directory
      BY <1>1, <1>2, NextKeyFacts
    <2>3. cache' = WithPage(Answer(ids), job.epoch, job.at)
      BY <1>2 DEF Paged
    <2>4. \A y \in Epochs \ {job.epoch} :
             WithPage(Answer(ids), job.epoch, job.at)[y] = cache[y]
      <3> DEFINE page == Answer(ids)
                 e == job.epoch
                 at == job.at
      <3> HIDE DEF page, e, at
      <3>1. page \in SUBSET Directory /\ e \in Epochs /\ at \in 0..MaxEvents
        BY <2>1, <2>2 DEF page, e, at
      <3>2. \A y \in Epochs \ {e} : WithPage(page, e, at)[y] = cache[y]
        BY <1>1, <3>1, WithPageFacts
      <3> QED BY <3>2 DEF page, e, at
    <2> QED BY <1>2, <2>3, <2>4
  <1>3. Chats \in SUBSET Directory /\ Identities \in SUBSET Directory
    BY DEF Directory
  <1>4. CASE CompleteChats
    BY <1>2, <1>3, <1>4 DEF CompleteChats
  <1>5. CASE CompleteIdentities
    BY <1>2, <1>3, <1>5 DEF CompleteIdentities
  <1>6. CASE Crash
    <2>1. \/ UNCHANGED cache
          \/ Answered("chats") /\ cache' = Paged(Chats)
          \/ Answered("identities") /\ cache' = Paged(Identities)
      BY <1>6 DEF Crash
    <2> QED BY <1>2, <1>3, <2>1
  <1>7. ASSUME NEW n \in 1..MaxEvents, Deliver(n)
        PROVE  cache'[x] = cache[x] \/ x = cEpoch
    BY <1>1, <1>7, DeliverCache
  <1> QED BY <1>4, <1>5, <1>6, <1>7, CacheKept

\* What was seen elsewhere stays.
LEMMA SeenElsewhere ==
    ASSUME TypeOK, Next, NEW x \in Epochs
    PROVE  seen'[x] = seen[x] \/ CompleteSync \/ x = cEpoch
  <1>1. ASSUME NEW n \in 1..MaxEvents, Deliver(n)
        PROVE  seen'[x] = seen[x] \/ x = cEpoch
    <2>1. PICK new \in SUBSET Messages : seen' = [seen EXCEPT ![cEpoch] = @ \cup new]
      BY <1>1, DeliverSeen
    <2> QED BY <2>1 DEF TypeOK
  <1> QED BY <1>1, SeenKept

\* A step that does not start a bootstrap leaves the client in its epoch.
LEMMA EpochKept ==
    ASSUME SyncInv, Next, ~CompleteSync
    PROVE  /\ cEpoch' = cEpoch /\ base' = base
           /\ cEpoch' = epoch' => /\ cEpoch = epoch
                                  /\ job.epoch # 0 => job.epoch = cEpoch
  <1>1. cEpoch' = cEpoch /\ base' = base
    BY PositionKept DEF Deliver
  <1>2. /\ cEpoch \in Nat /\ epoch \in Nat /\ epoch' \in Nat /\ job.epoch \in Nat
        /\ cEpoch <= epoch /\ epoch <= epoch'
        /\ job.epoch # 0 => cEpoch <= job.epoch /\ job.epoch <= epoch
    <2>1. TypeOK /\ EpochOrder
      BY DEF SyncInv
    <2>2. epoch' \in Epochs
      BY <2>1, TypeRelay
    <2>3. cEpoch \in Nat /\ epoch \in Nat /\ epoch' \in Nat /\ job.epoch \in Nat
      BY <2>1, <2>2, SyncAssumption DEF SyncAssumption, TypeOK, Job, Epochs
    <2>4. epoch <= epoch'
      BY <2>1, LogsGrow
    <2> QED BY <2>1, <2>3, <2>4 DEF EpochOrder
  <1> QED BY <1>1, <1>2

\* A client of the relay's epoch caches nothing of another one: pages carry no
\* epoch, but while the relay's epoch is the client's, an answer on its way was
\* given in it.  (Store.beginSync)
THEOREM OwnEpoch == Spec => []EpochIsolation
  <1>1. Init => EpochIsolation
    BY DEF Init, EpochIsolation
  <1>2. SyncInv /\ EpochIsolation /\ [Next]_vars => EpochIsolation'
    <2> SUFFICES ASSUME SyncInv, EpochIsolation, [Next]_vars, cEpoch' = epoch',
                        NEW e \in Epochs \ {cEpoch'}
                 PROVE  (\A d \in Directory : cache'[e][d] = 0) /\ seen'[e] = {}
      BY DEF EpochIsolation
    <2>1. CASE Next /\ CompleteSync
      <3>1. cEpoch' = job.epoch /\ UNCHANGED epoch
        BY <2>1 DEF CompleteSync, BeginSync, relayVars
      <3>2. CASE job.epoch = cEpoch
        <4>1. UNCHANGED <<cache, seen>>
          BY <2>1, <3>2 DEF CompleteSync, BeginSync
        <4> QED BY <3>1, <3>2, <4>1 DEF EpochIsolation
      <3>3. CASE job.epoch # cEpoch
        <4>1. /\ cache' = [x \in Epochs |-> [d \in Directory |-> 0]]
              /\ seen' = [x \in Epochs |-> {}]
          BY <2>1, <3>3 DEF CompleteSync, BeginSync
        <4> QED BY <4>1
      <3> QED BY <3>2, <3>3
    <2>2. CASE Next /\ ~CompleteSync
      <3>1. /\ cEpoch' = cEpoch /\ cEpoch = epoch
            /\ job.epoch # 0 => job.epoch = cEpoch
        BY <2>2, EpochKept
      <3>2. e # cEpoch /\ e # job.epoch /\ e \in Epochs
        BY <3>1 DEF Epochs
      <3>3. cache'[e] = cache[e]
        BY <2>2, <3>2, ElsewhereKept
      <3>4. seen'[e] = seen[e]
        BY <2>2, <3>2, SeenElsewhere DEF SyncInv
      <3> QED BY <3>1, <3>2, <3>3, <3>4 DEF EpochIsolation
    <2>3. CASE UNCHANGED vars
      BY <2>3 DEF EpochIsolation, vars, relayVars, storeVars
    <2> QED BY <2>1, <2>2, <2>3
  <1> QED BY <1>1, <1>2, SyncInvariance, PTL DEF Spec
-----------------------------------------------------------------------------
(* One notification for a message.                                          *)

\* A message was notified at most once, only in epochs the client has reached,
\* and in the present one only if it is remembered as seen; no more are
\* counted unread than were seen.
Noticed ==
    /\ \A e \in Epochs, m \in Messages :
          /\ notified[e][m] <= 1
          /\ e > cEpoch => notified[e][m] = 0
    /\ cEpoch # 0 =>
          /\ \A m \in Messages : notified[cEpoch][m] > 0 => m \in seen[cEpoch]
          /\ unread <= Cardinality(seen[cEpoch])

\* What is remembered as seen is finite.
LEMMA SeenFinite ==
    ASSUME TypeOK, NEW e \in Epochs
    PROVE  IsFiniteSet(seen[e]) /\ Cardinality(seen[e]) \in Nat
  <1>1. seen[e] \in SUBSET Messages /\ IsFiniteSet(Messages)
    BY SyncAssumption DEF SyncAssumption, TypeOK
  <1>2. IsFiniteSet(seen[e])
    BY <1>1, FS_Subset
  <1> QED BY <1>2, FS_CardinalityType

\* A delivery notifies what is new to the client only.
LEMMA NoticedDeliver ==
    ASSUME SyncInv, Noticed, NEW n \in 1..MaxEvents, Deliver(n)
    PROVE  Noticed'
  <1>1. TypeOK /\ EpochOrder /\ Phases /\ Following
    BY DEF SyncInv
  <1>2. /\ UNCHANGED cEpoch /\ cEpoch # 0 /\ cEpoch \in Epochs
    <2>1. Active /\ UNCHANGED cEpoch
      BY DEF Deliver, Active
    <2>2. cEpoch # 0 /\ cEpoch \in 0..MaxEpoch
      BY <1>1, <2>1 DEF Following, Phases, TypeOK
    <2> QED BY <2>1, <2>2, SyncAssumption DEF SyncAssumption, Epochs
  <1>3. PICK new, alerts \in SUBSET Messages :
           /\ alerts \subseteq new
           /\ alerts \cap seen[cEpoch] = {}
           /\ seen' = [seen EXCEPT ![cEpoch] = @ \cup new]
           /\ unread' = unread + Cardinality(alerts)
           /\ Cardinality(alerts) \in Nat
           /\ notified' = [notified EXCEPT ![cEpoch] = [m \in Messages |->
                 IF m \in alerts THEN @[m] + 1 ELSE @[m]]]
    BY <1>1, DeliverSeen
  <1> DEFINE row == [m \in Messages |->
                IF m \in alerts THEN notified[cEpoch][m] + 1 ELSE notified[cEpoch][m]]
  <1>4. /\ notified \in [Epochs -> [Messages -> Nat]]
        /\ seen \in [Epochs -> SUBSET Messages] /\ unread \in Nat
    BY <1>1 DEF TypeOK
  <1>5. /\ notified'[cEpoch] = row
        /\ \A e \in Epochs : e # cEpoch => notified'[e] = notified[e]
        /\ seen'[cEpoch] = seen[cEpoch] \cup new
    BY <1>2, <1>3, <1>4
  <1>6. ASSUME NEW m \in Messages
        PROVE  row[m] <= 1 /\ (row[m] > 0 => m \in seen[cEpoch] \cup new)
    <2>1. /\ notified[cEpoch][m] \in Nat /\ notified[cEpoch][m] <= 1
          /\ notified[cEpoch][m] > 0 => m \in seen[cEpoch]
      BY <1>2, <1>4 DEF Noticed
    <2>2. CASE m \in alerts
      <3>1. notified[cEpoch][m] = 0 /\ row[m] = notified[cEpoch][m] + 1
        BY <1>3, <2>1, <2>2
      <3> QED BY <1>3, <2>2, <3>1
    <2>3. CASE m \notin alerts
      BY <2>1, <2>3
    <2> QED BY <2>2, <2>3
  <1> HIDE DEF row
  <1>7. ASSUME NEW e \in Epochs, NEW m \in Messages
        PROVE  /\ notified'[e][m] <= 1
               /\ e > cEpoch' => notified'[e][m] = 0
    <2>1. CASE e = cEpoch
      BY <1>2, <1>5, <1>6, <2>1 DEF Epochs
    <2>2. CASE e # cEpoch
      BY <1>2, <1>5, <2>2 DEF Noticed
    <2> QED BY <2>1, <2>2
  <1>8. unread' <= Cardinality(seen'[cEpoch])
    <2>1. unread <= Cardinality(seen[cEpoch])
      BY <1>2 DEF Noticed
    <2>2. IsFiniteSet(seen[cEpoch]) /\ Cardinality(seen[cEpoch]) \in Nat
      BY <1>1, <1>2, SeenFinite
    <2>3. IsFiniteSet(Messages)
      BY SyncAssumption DEF SyncAssumption
    <2>4. IsFiniteSet(alerts) /\ IsFiniteSet(new)
      BY <2>3, FS_Subset
    <2>5. /\ Cardinality(seen[cEpoch] \cup alerts) =
               Cardinality(seen[cEpoch]) + Cardinality(alerts)
                  - Cardinality(seen[cEpoch] \cap alerts)
          /\ IsFiniteSet(seen[cEpoch] \cup new)
      BY <2>2, <2>4, FS_Union
    <2>6. Cardinality(seen[cEpoch] \cap alerts) = 0
      <3>1. seen[cEpoch] \cap alerts = {}
        BY <1>3
      <3> QED BY <3>1, FS_EmptySet
    <2>7. seen[cEpoch] \cup alerts \in SUBSET (seen[cEpoch] \cup new)
      BY <1>3
    <2>8. /\ Cardinality(seen[cEpoch] \cup alerts) <= Cardinality(seen[cEpoch] \cup new)
          /\ Cardinality(seen[cEpoch] \cup new) \in Nat
      <3>1. Cardinality(seen[cEpoch] \cup new) \in Nat
        BY <2>5, FS_CardinalityType
      <3>2. Cardinality(seen[cEpoch] \cup alerts) <= Cardinality(seen[cEpoch] \cup new)
        BY <2>5, <2>7, FS_Subset
      <3> QED BY <3>1, <3>2
    <2> DEFINE was == Cardinality(seen[cEpoch])
               more == Cardinality(alerts)
               both == Cardinality(seen[cEpoch] \cup alerts)
               now == Cardinality(seen[cEpoch] \cup new)
    <2>9. /\ was \in Nat /\ more \in Nat /\ now \in Nat /\ unread <= was
          /\ both = was + more - 0 /\ both <= now
      BY <1>3, <2>1, <2>2, <2>5, <2>6, <2>8
    <2>10. unread' = unread + more /\ now = Cardinality(seen'[cEpoch])
      BY <1>3, <1>5
    <2> HIDE DEF was, more, both, now
    <2>11. unread' <= now
      BY <1>4, <2>9, <2>10
    <2> QED BY <2>10, <2>11
  <1> QED BY <1>2, <1>5, <1>6, <1>7, <1>8 DEF Noticed

\* A message raises at most one notification and counts once as unread: the
\* record of what was seen outlives every replay, and a new epoch starts
\* without any.  (Store.eventNotification, Worker.receiveBatch)
THEOREM OneNotification == Spec => []NotifiedOnce
  <1>1. Init => Noticed
    BY DEF Init, Noticed
  <1>2. SyncInv /\ Noticed /\ [Next]_vars => Noticed'
    <2> SUFFICES ASSUME SyncInv, Noticed, [Next]_vars
                 PROVE  Noticed'
      OBVIOUS
    <2>1. /\ TypeOK /\ EpochOrder /\ cEpoch \in Nat /\ unread \in Nat
          /\ cEpoch # 0 => cEpoch \in Epochs
      <3>1. TypeOK /\ EpochOrder
        BY DEF SyncInv
      <3>2. cEpoch \in 0..MaxEpoch /\ unread \in Nat
        BY <3>1 DEF TypeOK
      <3> QED BY <3>1, <3>2, SyncAssumption DEF SyncAssumption, Epochs
    <2>2. CASE Next /\ CompleteSync
      <3>1. /\ cEpoch' = job.epoch /\ job.epoch \in Epochs /\ job.epoch \in Nat
            /\ cEpoch <= job.epoch /\ UNCHANGED notified
        <4>1. Answered("sync")
          BY <2>2 DEF CompleteSync
        <4>2. job.epoch \in Epochs /\ job.epoch # 0
          BY <2>1, <4>1, AnsweredFacts
        <4> QED BY <2>1, <2>2, <4>2 DEF CompleteSync, BeginSync, EpochOrder, Epochs
      <3>2. CASE job.epoch = cEpoch
        <4>1. UNCHANGED <<seen, unread>>
          BY <2>2, <3>2 DEF CompleteSync, BeginSync
        <4> QED BY <3>1, <3>2, <4>1 DEF Noticed
      <3>3. CASE job.epoch # cEpoch
        <4>1. seen'[job.epoch] = {} /\ unread' = 0
          BY <2>2, <3>1, <3>3 DEF CompleteSync, BeginSync
        <4>2. job.epoch > cEpoch /\ \A e \in Epochs : e > job.epoch => e > cEpoch
          BY <2>1, <3>1, <3>3 DEF Epochs
        <4>3. Cardinality({}) = 0
          BY FS_EmptySet
        <4> QED BY <3>1, <4>1, <4>2, <4>3 DEF Noticed
      <3> QED BY <3>2, <3>3
    <2>3. ASSUME NEW n \in 1..MaxEvents, Deliver(n)
          PROVE  Noticed'
      BY <2>3, NoticedDeliver
    <2>4. CASE UNCHANGED <<seen, notified, cEpoch>> /\ unread' \in {unread, 0}
      <3>1. cEpoch # 0 => Cardinality(seen[cEpoch]) \in Nat
        BY <2>1, SeenFinite
      <3>2. cEpoch # 0 => unread' <= Cardinality(seen[cEpoch])
        BY <2>1, <2>4, <3>1 DEF Noticed
      <3> QED BY <2>4, <3>2 DEF Noticed
    <2>5. CASE UNCHANGED vars
      BY <2>5 DEF Noticed, vars, storeVars
    <2>6. CASE Next /\ ~CompleteSync /\ ~\E n \in 1..MaxEvents : Deliver(n)
      <3>1. UNCHANGED cEpoch
        BY <2>6, PositionKept
      <3>2. UNCHANGED <<seen, notified>> /\ unread' \in {unread, 0}
        BY <2>6, SeenKept
      <3> QED BY <2>4, <3>1, <3>2
    <2> QED BY <2>2, <2>3, <2>5, <2>6
  <1>3. Noticed => NotifiedOnce
    BY DEF Noticed, NotifiedOnce
  <1> QED BY <1>1, <1>2, <1>3, SyncInvariance, PTL DEF Spec
-----------------------------------------------------------------------------
(* Nothing goes back.                                                       *)

\* An answer of the client's epoch is at least as new as the position it will
\* be applied to.
AnswerFresh ==
    job.epoch # 0 /\ job.epoch = cEpoch =>
        /\ job.kind = "sync" => cursor <= job.at
        /\ job.kind \in {"chats", "identities"} => base <= job.at

\* Answers are given at the relay's present position, after the client's.
LEMMA AnswerFreshStep ==
    ASSUME SyncInv, AnswerFresh, Next
    PROVE  AnswerFresh'
  <1>1. TypeOK /\ EpochOrder /\ Phases /\ Following
    BY DEF SyncInv
  <1>2. CASE Serve
    <2>1. /\ job'.epoch = epoch /\ job'.at = Len(logs[epoch])
          /\ UNCHANGED <<cEpoch, cursor, base>>
      BY <1>2 DEF Serve, storeVars, Log
    <2>2. /\ epoch \in Nat /\ epoch # 0 /\ Len(logs[epoch]) \in Nat
          /\ cursor \in Nat /\ base \in Nat
      <3>1. epoch \in Nat /\ epoch # 0 /\ Len(logs[epoch]) \in Nat
        BY <1>1, LogFacts DEF Log
      <3>2. cursor \in 0..MaxEvents /\ base \in 0..MaxEvents /\ MaxEvents \in Nat
        BY <1>1, SyncAssumption DEF SyncAssumption, TypeOK
      <3> QED BY <3>1, <3>2
    <2>3. /\ base <= cursor
          /\ epoch = cEpoch => cursor <= Len(logs[epoch])
      BY <1>1, <2>2 DEF EpochOrder
    <2> QED BY <2>1, <2>2, <2>3 DEF AnswerFresh
  <1>3. CASE job'.epoch = 0
    BY <1>3 DEF AnswerFresh
  <1>4. CASE job' = job /\ job'.epoch # 0
    <2>1. ~CompleteSync
      BY <1>4, Asked DEF CompleteSync
    <2>2. CASE UNCHANGED <<cEpoch, cursor, base>>
      BY <1>4, <2>2 DEF AnswerFresh
    <2>3. ASSUME NEW n \in 1..MaxEvents, Deliver(n)
          PROVE  AnswerFresh'
      <3>1. UNCHANGED <<cEpoch, base>> /\ Active
        BY <2>3 DEF Deliver, Active
      <3>2. job.kind # "sync"
        BY <1>1, <3>1 DEF Phases
      <3> QED BY <1>4, <3>1, <3>2 DEF AnswerFresh
    <2> QED BY <2>1, <2>2, <2>3, PositionKept
  <1> QED BY <1>2, <1>3, <1>4, JobAnswered

\* So it is in every reachable state.
LEMMA AnswerFreshInvariance == Spec => [](SyncInv /\ AnswerFresh)
  <1>1. Init => AnswerFresh
    BY DEF Init, AnswerFresh, Idle, Ask
  <1>2. SyncInv /\ AnswerFresh /\ [Next]_vars => AnswerFresh'
    <2>1. CASE UNCHANGED vars
      BY <2>1 DEF AnswerFresh, vars, storeVars, workerVars
    <2> QED BY <2>1, AnswerFreshStep
  <1> QED BY <1>1, <1>2, SyncInvariance, PTL DEF Spec

\* As long as the epoch stays, the cursor does not move back, no cached record
\* is replaced by an older one and no message is forgotten.
\* (Store.writeRecord, beginSync)
THEOREM NothingGoesBack == Spec => NoRegress
  <1> DEFINE Forward == cEpoch' = cEpoch /\ cEpoch # 0 =>
                /\ cursor' >= cursor
                /\ seen[cEpoch] \subseteq seen'[cEpoch]
                /\ \A d \in Directory : cache'[cEpoch][d] >= cache[cEpoch][d]
  <1>1. SyncInv /\ AnswerFresh /\ [Next]_vars => [Forward]_vars
    <2> SUFFICES ASSUME SyncInv, AnswerFresh, Next, cEpoch' = cEpoch, cEpoch # 0
                 PROVE  /\ cursor' >= cursor
                        /\ seen[cEpoch] \subseteq seen'[cEpoch]
                        /\ \A d \in Directory : cache'[cEpoch][d] >= cache[cEpoch][d]
      OBVIOUS
    <2>1. TypeOK /\ TypeOK'
      BY TypeStep DEF SyncInv
    <2>2. /\ cEpoch \in Epochs /\ cursor \in Nat /\ cursor' \in Nat
          /\ MaxEvents \in Nat
      BY <2>1, SyncAssumption DEF SyncAssumption, TypeOK, Epochs
    <2>3. CompleteSync => /\ job.epoch = cEpoch /\ job.epoch # 0
                          /\ job.kind = "sync" /\ cursor' = job.at
                          /\ UNCHANGED seen
      BY DEF CompleteSync, BeginSync, Answered
    <2>4. cursor' >= cursor
      <3>1. CASE CompleteSync
        <4>1. cursor <= job.at
          BY <2>3, <3>1 DEF AnswerFresh
        <4> QED BY <2>2, <2>3, <3>1, <4>1
      <3>2. ASSUME NEW n \in 1..MaxEvents, Deliver(n)
            PROVE  cursor' >= cursor
        BY <2>1, <2>2, <3>2, DeliverCursor
      <3> QED BY <2>2, <3>1, <3>2, PositionKept
    <2>5. seen[cEpoch] \subseteq seen'[cEpoch]
      <3>1. ASSUME NEW n \in 1..MaxEvents, Deliver(n)
            PROVE  seen[cEpoch] \subseteq seen'[cEpoch]
        <4>1. PICK new \in SUBSET Messages :
                 seen' = [seen EXCEPT ![cEpoch] = @ \cup new]
          BY <2>1, <3>1, DeliverSeen
        <4> QED BY <2>1, <2>2, <4>1 DEF TypeOK
      <3> QED BY <2>3, <3>1, SeenKept
    <2>6. \A d \in Directory : cache'[cEpoch][d] >= cache[cEpoch][d]
      <3>1. \A x \in Epochs, d \in Directory : cache[x][d] <= cache'[x][d]
        BY <2>1, <2>3, CacheStep
      <3>2. \A d \in Directory : cache[cEpoch][d] \in Nat /\ cache'[cEpoch][d] \in Nat
        <4>1. /\ cache \in [Epochs -> [Directory -> 0..MaxEvents]]
              /\ cache' \in [Epochs -> [Directory -> 0..MaxEvents]]
          BY <2>1 DEF TypeOK
        <4>2. \A d \in Directory : /\ cache[cEpoch][d] \in 0..MaxEvents
                                    /\ cache'[cEpoch][d] \in 0..MaxEvents
          BY <2>2, <4>1
        <4> QED BY <2>2, <4>2
      <3> QED BY <2>2, <3>1, <3>2
    <2> QED BY <2>4, <2>5, <2>6
  <1>2. Spec => [](SyncInv /\ AnswerFresh)
    BY AnswerFreshInvariance
  <1>3. NoRegress <=> [][Forward]_vars
    BY DEF NoRegress
  <1> HIDE DEF Forward
  <1> QED BY <1>1, <1>2, <1>3, PTL DEF Spec
-----------------------------------------------------------------------------
(* Nothing is missed.                                                       *)

\* Every event replayed since the bootstrap began is in the cache.
Replayed ==
    cEpoch # 0 =>
        \A i \in (base + 1)..cursor :
            LET d == logs[cEpoch][i].id
            IN  /\ d \in Directory => cache[cEpoch][d] >= i
                /\ d \in Messages => d \in seen[cEpoch]

\* Every event before the bootstrap, of a record whose key is not below key, is
\* in the cache.
CoveredFrom(ids, key) ==
    \A i \in 1..base :
        LET d == logs[cEpoch][i].id
        IN  d \in ids /\ d >= key => cache[cEpoch][d] >= i

\* The pages taken so far cover the directory from their last key on.
PagedFrom ==
    cEpoch = epoch =>
        /\ job.kind = "chats" => CoveredFrom(Chats, job.key)
        /\ before # NoKey => /\ CoveredFrom(Chats, NoKey)
                             /\ CoveredFrom(Identities, before)
        /\ booted => CoveredFrom(Directory, NoKey)

CoverInv == AnswerFresh /\ Replayed /\ PagedFrom

\* What the log of the client's epoch says up to the cursor stays.
LEMMA LogKept ==
    ASSUME SyncInv, Next, cEpoch # 0
    PROVE  /\ cEpoch \in Epochs /\ cursor \in Nat /\ base \in Nat /\ base <= cursor
           /\ \A i \in 1..cursor : logs'[cEpoch][i] = logs[cEpoch][i]
  <1>1. TypeOK /\ EpochOrder
    BY DEF SyncInv
  <1>2. /\ cEpoch \in Epochs /\ cursor \in Nat /\ base \in Nat
    <2>1. /\ cEpoch \in 0..MaxEpoch /\ cursor \in 0..MaxEvents /\ base \in 0..MaxEvents
          /\ MaxEvents \in Nat /\ MaxEpoch \in Nat
      BY <1>1, SyncAssumption DEF SyncAssumption, TypeOK
    <2> QED BY <2>1 DEF Epochs
  <1>3. base <= cursor /\ cursor <= Len(logs[cEpoch])
    BY <1>1 DEF EpochOrder
  <1>4. /\ Len(logs[cEpoch]) \in Nat
        /\ \A i \in 1..Len(logs[cEpoch]) : logs'[cEpoch][i] = logs[cEpoch][i]
    BY <1>1, <1>2, LogsGrow
  <1> QED BY <1>2, <1>3, <1>4

\* Cached records of the client's epoch are numbers that only grow.
LEMMA CacheGrows ==
    ASSUME SyncInv, Next, cEpoch # 0, ~CompleteSync
    PROVE  \A d \in Directory : /\ cache[cEpoch][d] \in Nat
                                /\ cache'[cEpoch][d] \in Nat
                                /\ cache[cEpoch][d] <= cache'[cEpoch][d]
  <1>1. TypeOK /\ cEpoch \in Epochs /\ MaxEvents \in Nat
    BY LogKept, SyncAssumption DEF SyncAssumption, SyncInv
  <1>2. /\ cache \in [Epochs -> [Directory -> 0..MaxEvents]]
        /\ cache' \in [Epochs -> [Directory -> 0..MaxEvents]]
        /\ \A x \in Epochs, d \in Directory : cache[x][d] <= cache'[x][d]
    BY <1>1, CacheStep DEF TypeOK
  <1>3. \A d \in Directory : /\ cache[cEpoch][d] \in 0..MaxEvents
                             /\ cache'[cEpoch][d] \in 0..MaxEvents
    BY <1>1, <1>2
  <1> QED BY <1>1, <1>2, <1>3

\* What is covered stays covered until another bootstrap begins.
LEMMA CoveredStays ==
    ASSUME SyncInv, Next, cEpoch # 0, ~CompleteSync,
           NEW ids \in SUBSET Directory, NEW key, CoveredFrom(ids, key)
    PROVE  CoveredFrom(ids, key)'
  <1>1. cEpoch' = cEpoch /\ base' = base
    BY EpochKept
  <1>2. /\ base \in Nat /\ cursor \in Nat /\ base <= cursor
        /\ \A i \in 1..cursor : logs'[cEpoch][i] = logs[cEpoch][i]
    BY LogKept
  <1> SUFFICES ASSUME NEW i \in 1..base,
                      logs'[cEpoch][i].id \in ids, logs'[cEpoch][i].id >= key
               PROVE  cache'[cEpoch][logs'[cEpoch][i].id] >= i
    BY <1>1 DEF CoveredFrom
  <1> DEFINE d == logs[cEpoch][i].id
  <1>3. i \in 1..cursor /\ i \in Nat
    BY <1>2
  <1>4. logs'[cEpoch][i].id = d
    BY <1>2, <1>3
  <1>5. cache[cEpoch][d] >= i
    BY <1>4 DEF CoveredFrom
  <1>6. /\ cache[cEpoch][d] \in Nat /\ cache'[cEpoch][d] \in Nat
        /\ cache[cEpoch][d] <= cache'[cEpoch][d]
    BY <1>4, CacheGrows
  <1> HIDE DEF d
  <1> QED BY <1>3, <1>4, <1>5, <1>6

\* A page of the client's epoch covers the directory down to the next key.
LEMMA PageCovers ==
    ASSUME SyncInv, AnswerFresh, Next, ~CompleteSync, cEpoch # 0,
           NEW kind \in {"chats", "identities"}, Answered(kind), job.epoch = cEpoch,
           NEW ids \in SUBSET Directory, UNCHANGED logs, cache' = Paged(ids),
           NEW key, key = job.key, CoveredFrom(ids, key),
           NEW next, next = NextKey(ids)
    PROVE  CoveredFrom(ids, next)'
  <1>1. cEpoch' = cEpoch /\ base' = base
    BY EpochKept
  <1>2. TypeOK
    BY DEF SyncInv
  <1>3. /\ job.epoch \in Epochs /\ job.at \in 0..MaxEvents /\ job.at \in Nat
        /\ job.key \in Nat /\ job.kind = kind /\ job.epoch # 0
    BY <1>2, AnsweredFacts
  <1>4. base \in Nat /\ base <= job.at
    BY <1>3, LogKept DEF AnswerFresh
  <1>5. NextKey(ids) \in Nat /\ Answer(ids) \in SUBSET Directory
        /\ \A d \in Below(ids, job.epoch, job.at, job.key) :
              d >= NextKey(ids) => d \in Answer(ids)
    BY <1>2, NextKeyFacts
  <1>6. CoveredFrom(ids, key)'
    BY CoveredStays
  <1> DEFINE page == Answer(ids)
             at == job.at
  <1>7. \A d \in page : RevisionAt(cEpoch, at, d) <= cache'[cEpoch][d]
    <2>1. page \in SUBSET Directory /\ cEpoch \in Epochs /\ at \in 0..MaxEvents
      BY <1>3, <1>5
    <2>2. cache' = WithPage(page, cEpoch, at)
      BY DEF Paged
    <2> HIDE DEF page, at
    <2>3. \A d \in page : RevisionAt(cEpoch, at, d) <= WithPage(page, cEpoch, at)[cEpoch][d]
      BY <1>2, <2>1, WithPageFacts
    <2> QED BY <2>2, <2>3
  <1>8. ASSUME NEW i \in 1..base, NEW d \in ids, logs[cEpoch][i].id = d, d >= next
        PROVE  cache'[cEpoch][d] >= i
    <2>1. d \in Nat /\ d \in Directory /\ next \in Nat
      BY <1>5, SyncAssumption DEF SyncAssumption, Records, Directory
    <2>2. i \in 1..at /\ i \in Nat /\ i >= 1
      BY <1>3, <1>4
    <2>3. RevisionAt(cEpoch, at, d) \in Nat /\ i <= RevisionAt(cEpoch, at, d)
      <3>1. at \in Nat
        BY <1>3
      <3> HIDE DEF at
      <3>2. /\ RevisionAt(cEpoch, at, d) \in 0..at
            /\ \A j \in 1..at : logs[cEpoch][j].id = d => j <= RevisionAt(cEpoch, at, d)
        BY <3>1, RevisionFacts
      <3> QED BY <1>8, <2>2, <3>1, <3>2
    <2>4. cache'[cEpoch][d] \in Nat
      BY <2>1, CacheGrows
    <2>5. CASE d < job.key
      <3>1. d \in Below(ids, job.epoch, job.at, job.key)
        BY <2>2, <2>3, <2>5 DEF Below
      <3>2. d \in page
        BY <1>5, <1>8, <3>1
      <3>3. RevisionAt(cEpoch, at, d) <= cache'[cEpoch][d]
        BY <1>7, <3>2
      <3> HIDE DEF at
      <3> QED BY <2>2, <2>3, <2>4, <3>3
    <2>6. CASE ~(d < job.key)
      <3>1. d >= job.key
        BY <1>3, <2>1, <2>6
      <3>2. \A j \in 1..base : /\ logs[cEpoch][j].id \in ids
                               /\ logs[cEpoch][j].id >= key
                               => cache'[cEpoch][logs[cEpoch][j].id] >= j
        BY <1>1, <1>6 DEF CoveredFrom
      <3> QED BY <1>8, <3>1, <3>2
    <2> QED BY <2>5, <2>6
  <1> QED BY <1>1, <1>8 DEF CoveredFrom

\* A delivery brings the cache up to its last event.
LEMMA ReplayedStep ==
    ASSUME SyncInv, Replayed, Next
    PROVE  Replayed'
  <1>1. TypeOK /\ EpochOrder /\ Phases /\ Following
    BY DEF SyncInv
  <1>2. CASE CompleteSync
    <2>1. cursor' = job.at /\ base' = job.at /\ job.at \in Nat
      BY <1>1, <1>2, AnsweredFacts DEF CompleteSync, BeginSync
    <2>2. (base' + 1)..cursor' = {}
      BY <2>1
    <2> QED BY <2>2 DEF Replayed
  <1>3. CASE ~CompleteSync
    <2>1. cEpoch' = cEpoch /\ base' = base
      BY <1>3, EpochKept
    <2> SUFFICES ASSUME cEpoch # 0, NEW i \in (base + 1)..cursor', NEW d,
                        logs'[cEpoch][i].id = d
                 PROVE  /\ d \in Directory => cache'[cEpoch][d] >= i
                        /\ d \in Messages => d \in seen'[cEpoch]
      BY <2>1 DEF Replayed
    <2>2. /\ cEpoch \in Epochs /\ cursor \in Nat /\ base \in Nat /\ base <= cursor
          /\ \A j \in 1..cursor : logs'[cEpoch][j] = logs[cEpoch][j]
      BY LogKept
    <2>3. d \in Directory => /\ cache[cEpoch][d] \in Nat /\ cache'[cEpoch][d] \in Nat
                             /\ cache[cEpoch][d] <= cache'[cEpoch][d]
      BY <1>3, CacheGrows
    <2>4. cursor' \in Nat
      <3>1. cursor' \in 0..MaxEvents /\ MaxEvents \in Nat
        BY <1>1, TypePosition, SyncAssumption DEF SyncAssumption
      <3> QED BY <3>1
    <2>5. i \in Nat /\ i >= base + 1 /\ i <= cursor'
      BY <2>2, <2>4
    <2>6. CASE i <= cursor
      <3>1. i \in (base + 1)..cursor /\ i \in 1..cursor
        BY <2>2, <2>5, <2>6
      <3>2. logs[cEpoch][i].id = d
        BY <2>2, <3>1
      <3>3. /\ d \in Directory => cache[cEpoch][d] >= i
            /\ d \in Messages => d \in seen[cEpoch]
        BY <3>1, <3>2 DEF Replayed
      <3>4. seen[cEpoch] \subseteq seen'[cEpoch]
        <4>1. ASSUME NEW n \in 1..MaxEvents, Deliver(n)
              PROVE  seen[cEpoch] \subseteq seen'[cEpoch]
          <5>1. PICK new \in SUBSET Messages :
                   seen' = [seen EXCEPT ![cEpoch] = @ \cup new]
            BY <1>1, <4>1, DeliverSeen
          <5> QED BY <1>1, <2>2, <5>1 DEF TypeOK
        <4> QED BY <1>3, <4>1, SeenKept
      <3> QED BY <2>3, <2>5, <3>3, <3>4
    <2>7. CASE ~(i <= cursor)
      <3>1. PICK n \in 1..MaxEvents : Deliver(n)
        <4>1. cursor' # cursor
          BY <2>2, <2>5, <2>7
        <4> QED BY <1>3, <4>1, PositionKept
      <3>2. /\ cursor' = cursor + n
            /\ \A j \in 1..n : cursor + j \in Frames(n)
        BY <1>1, <3>1, DeliverMoves
      <3>3. i \in Frames(n) /\ i > cursor
        <4>1. n \in Nat
          BY SyncAssumption DEF SyncAssumption
        <4>2. i - cursor \in 1..n /\ cursor + (i - cursor) = i /\ i > cursor
          BY <2>2, <2>5, <2>7, <3>2, <4>1
        <4> QED BY <3>2, <4>2
      <3>4. logs[cEpoch][i].id = d
        BY <3>1 DEF Deliver, relayVars
      <3>5. i \in EventsOf(d, Frames(n))
        BY <1>1, <3>1, <3>3, <3>4, FramesFacts DEF Deliver
      <3>6. d \in Directory => i <= cache'[cEpoch][d]
        BY <1>1, <2>2, <3>1, <3>5, DeliverCache
      <3>7. d \in Messages => d \in seen'[cEpoch]
        <4>1. PICK new \in SUBSET Messages :
                 /\ \A m \in Messages : EventsOf(m, Frames(n)) # {} => m \in new
                 /\ seen' = [seen EXCEPT ![cEpoch] = @ \cup new]
          BY <1>1, <3>1, DeliverSeen
        <4>2. seen'[cEpoch] = seen[cEpoch] \cup new
          BY <1>1, <2>2, <4>1 DEF TypeOK
        <4> QED BY <3>5, <4>1, <4>2
      <3> QED BY <2>3, <2>5, <3>6, <3>7
    <2> QED BY <2>6, <2>7
  <1> QED BY <1>2, <1>3

\* No record has the key of the top or one below the first.
LEMMA KeyBounds ==
    ASSUME NEW d \in Directory
    PROVE  d \in Nat /\ d >= NoKey /\ ~(d >= Top)
  <1>1. d \in Nat /\ Top \in Nat /\ d < Top
    BY SyncAssumption DEF SyncAssumption, Records, Directory
  <1> QED BY <1>1 DEF NoKey

\* Above the top everything is covered.
LEMMA CoveredTop ==
    ASSUME NEW ids \in SUBSET Directory
    PROVE  CoveredFrom(ids, Top)'
  BY KeyBounds DEF CoveredFrom

\* The pages go down through the conversations, then through the contacts.
LEMMA PagedFromStep ==
    ASSUME SyncInv, AnswerFresh, PagedFrom, Next
    PROVE  PagedFrom'
  <1>1. TypeOK /\ EpochOrder /\ Phases /\ Following
    BY DEF SyncInv
  <1>2. /\ Chats \in SUBSET Directory /\ Identities \in SUBSET Directory
        /\ Directory \in SUBSET Directory
    BY DEF Directory
  <1>3. CASE CompleteSync
    <2>1. booted' = FALSE /\ before' = NoKey /\ job'.key = Top
      BY <1>3, Asked DEF CompleteSync, BeginSync
    <2>2. \A key : key = Top => CoveredFrom(Chats, key)'
      BY <1>2, CoveredTop
    <2> QED BY <2>1, <2>2 DEF PagedFrom, CoveredFrom
  <1>4. CASE ~CompleteSync
    <2> SUFFICES ASSUME cEpoch' = epoch'
                 PROVE  /\ job'.kind = "chats" =>
                             \A key : key = job'.key => CoveredFrom(Chats, key)'
                        /\ before' # NoKey =>
                             /\ CoveredFrom(Chats, NoKey)'
                             /\ \A key : key = before' => CoveredFrom(Identities, key)'
                        /\ booted' => CoveredFrom(Directory, NoKey)'
      BY DEF PagedFrom, CoveredFrom
    <2>1. /\ cEpoch = epoch /\ cEpoch # 0
          /\ job.epoch # 0 => job.epoch = cEpoch
      BY <1>1, <1>4, EpochKept, LogFacts
    <2>2. /\ job.kind = "chats" => CoveredFrom(Chats, job.key)
          /\ before # NoKey => /\ CoveredFrom(Chats, NoKey)
                               /\ CoveredFrom(Identities, before)
          /\ booted => CoveredFrom(Directory, NoKey)
      BY <2>1 DEF PagedFrom
    <2>3. \A ids \in SUBSET Directory : \A key :
             CoveredFrom(ids, key) => CoveredFrom(ids, key)'
      BY <1>4, <2>1, CoveredStays
    <2>4. CASE CompleteChats
      <3>1. /\ Answered("chats") /\ job.kind = "chats" /\ job.epoch = cEpoch
            /\ cache' = Paged(Chats) /\ UNCHANGED <<logs, booted>>
        BY <2>1, <2>4 DEF CompleteChats, Answered, relayVars
      <3>2. ~booted'
        BY <1>1, <3>1 DEF Phases
      <3>3. \A key : key = NextKey(Chats) => CoveredFrom(Chats, key)'
        BY <1>2, <1>4, <2>1, <2>2, <3>1, PageCovers
      <3>4. CASE NextKey(Chats) # NoKey
        <4>1. job'.key = NextKey(Chats) /\ UNCHANGED before
          BY <2>4, <3>4, Asked DEF CompleteChats
        <4>2. before = NoKey
          BY <1>1, <3>1 DEF Phases
        <4> QED BY <3>2, <3>3, <4>1, <4>2
      <3>5. CASE NextKey(Chats) = NoKey
        <4>1. job'.kind = "idle" /\ before' = Top
          BY <2>4, <3>5, Asked DEF CompleteChats
        <4>2. \A key : key = Top => CoveredFrom(Identities, key)'
          BY <1>2, CoveredTop
        <4>3. CoveredFrom(Chats, NoKey)'
          BY <3>3, <3>5 DEF NoKey
        <4> QED BY <3>2, <4>1, <4>2, <4>3
      <3> QED BY <3>4, <3>5
    <2>5. CASE CompleteIdentities
      <3>1. /\ Answered("identities") /\ job.kind = "identities"
            /\ job.epoch = cEpoch /\ UNCHANGED logs
            /\ cache' = Paged(Identities) /\ before' = NextKey(Identities)
            /\ job'.kind = "idle"
        BY <2>1, <2>5, Asked DEF CompleteIdentities, Answered, relayVars
      <3>2. before # NoKey /\ job.key = before /\ ~booted
        BY <1>1, <3>1 DEF Phases
      <3>3. CoveredFrom(Chats, NoKey)' /\ CoveredFrom(Identities, job.key)
        BY <1>2, <2>2, <2>3, <3>2
      <3>4. \A key : key = NextKey(Identities) => CoveredFrom(Identities, key)'
        BY <1>2, <1>4, <2>1, <3>1, <3>3, PageCovers
      <3>5. booted' => NextKey(Identities) = NoKey
        BY <2>5, <3>2 DEF CompleteIdentities
      <3>6. ASSUME NextKey(Identities) = NoKey
            PROVE  CoveredFrom(Directory, NoKey)'
        <4>1. CoveredFrom(Identities, NoKey)'
          BY <3>4, <3>6 DEF NoKey
        <4> QED BY <3>3, <4>1 DEF CoveredFrom, Directory
      <3> QED BY <3>1, <3>3, <3>4, <3>5, <3>6
    <2>6. CASE ~CompleteChats /\ ~CompleteIdentities
      <3>1. UNCHANGED booted
        BY <1>4, <2>6, BootedKept
      <3>2. UNCHANGED before \/ before' = NoKey
        BY <1>4, <2>6, BeforeKept
      <3>3. job'.kind = "chats" => job.kind = "chats" /\ job'.key = job.key
        <4>1. CASE job' \in {Idle, Ask("status", NoKey), Ask("send", NoKey)}
          BY <4>1, Asked
        <4>2. CASE AskIdentities \/ AskSync \/ CompleteStatus
          BY <4>2, Asked DEF AskIdentities, AskSync, CompleteStatus
        <4>3. CASE Serve
          BY <4>3 DEF Serve
        <4> QED BY <1>4, <2>6, <4>1, <4>2, <4>3, JobKept
      <3> QED BY <1>2, <2>2, <2>3, <3>1, <3>2, <3>3
    <2> QED BY <2>4, <2>5, <2>6
  <1> QED BY <1>3, <1>4

\* A bootstrapped cache of the relay's epoch misses nothing up to its cursor:
\* the pages, each read later than the cursor was taken, cover what came
\* before, and the stream brought the rest one by one.
\* (Worker.handleResponse, Store.beginSync, eventNotification)
THEOREM NothingMissed == Spec => []Coverage
  <1>1. Init => CoverInv
    BY DEF Init, CoverInv, AnswerFresh, Replayed, PagedFrom, Idle, Ask, NoKey
  <1>2. SyncInv /\ CoverInv /\ [Next]_vars => CoverInv'
    <2>1. CASE UNCHANGED vars
      BY <2>1 DEF CoverInv, AnswerFresh, Replayed, PagedFrom, CoveredFrom, vars,
                  relayVars, storeVars, workerVars
    <2>2. ASSUME SyncInv, CoverInv, Next
          PROVE  CoverInv'
      BY <2>2, AnswerFreshStep, ReplayedStep, PagedFromStep DEF CoverInv
    <2> QED BY <2>1, <2>2
  <1>3. SyncInv /\ CoverInv => Coverage
    <2> SUFFICES ASSUME SyncInv, CoverInv, booted, cEpoch = epoch,
                        NEW i \in 1..cursor, NEW d, d = logs[cEpoch][i].id
                 PROVE  /\ d \in Directory => cache[cEpoch][d] >= i
                        /\ d \in Messages /\ i > base => d \in seen[cEpoch]
      BY DEF Coverage, Log
    <2>1. /\ cEpoch # 0 /\ cursor \in Nat /\ base \in Nat /\ i \in Nat /\ i >= 1
      <3>1. TypeOK
        BY DEF SyncInv
      <3>2. cursor \in 0..MaxEvents /\ base \in 0..MaxEvents /\ MaxEvents \in Nat
        BY <3>1, SyncAssumption DEF SyncAssumption, TypeOK
      <3> QED BY <3>1, <3>2, LogFacts
    <2>2. CASE i <= base
      <3>1. i \in 1..base /\ ~(i > base)
        BY <2>1, <2>2
      <3>2. d \in Directory => d >= NoKey
        BY KeyBounds
      <3> QED BY <3>1, <3>2 DEF CoverInv, PagedFrom, CoveredFrom
    <2>3. CASE ~(i <= base)
      <3>1. i \in (base + 1)..cursor
        BY <2>1, <2>3
      <3> QED BY <2>1, <3>1 DEF CoverInv, Replayed
    <2> QED BY <2>2, <2>3
  <1> QED BY <1>1, <1>2, <1>3, SyncInvariance, PTL DEF Spec
=============================================================================
