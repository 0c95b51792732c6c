---------------------------- MODULE MediaProofs ----------------------------
(***************************************************************************)
(* Proofs about Media for every set of pictures, every queue and cache        *)
(* limit and any number of requests, contexts, starts and faults: a transfer  *)
(* writes into the file of its own lane, a cached file is a whole picture,    *)
(* the cache keeps its budget, private pictures do not outlive their          *)
(* permission, and the worker implements the image service of Pictures.       *)
(***************************************************************************)
EXTENDS Media, FiniteSetTheorems, WellFoundedInduction, NaturalsInduction, TLAPS
-----------------------------------------------------------------------------
(* Sequences of files.                                                      *)

\* A non-empty set of numbers has a least one.
LEMMA LeastNat ==
    ASSUME NEW T \in SUBSET Nat, T # {}
    PROVE  \E n \in T : \A m \in T : n <= m
  <1>1. IsWellFoundedOn(OpToRel(<, Nat), Nat)
    BY NatLessThanWellFounded
  <1>2. PICK n \in T : \A m \in T : ~(<<m, n>> \in OpToRel(<, Nat))
    BY <1>1, WFMin
  <1>3. \A m \in T : ~(m < n)
    BY <1>2 DEF OpToRel
  <1> QED BY <1>3

\* Min of a non-empty set of numbers.
LEMMA MinFacts ==
    ASSUME NEW T \in SUBSET Nat, T # {}
    PROVE  Min(T) \in T /\ \A m \in T : Min(T) <= m
  <1>1. \E n \in T : \A m \in T : n <= m
    BY LeastNat
  <1>2. Min(T) = CHOOSE n \in T : \A m \in T : n <= m
    BY DEF Min
  <1> QED BY <1>1, <1>2

\* A set of numbers between 1 and n has at most n elements.
LEMMA UpToN ==
    ASSUME NEW n \in Nat, NEW K \in SUBSET (1..n)
    PROVE  /\ IsFiniteSet(K) /\ Cardinality(K) \in Nat /\ Cardinality(K) <= n
           /\ Cardinality(K) = n => K = 1..n
  <1>1. IsFiniteSet(1..n) /\ Cardinality(1..n) = n
    <2>1. n \in Int /\ 1 \in Int
      OBVIOUS
    <2>2. /\ IsFiniteSet(1..n)
          /\ Cardinality(1..n) = IF 1 > n THEN 0 ELSE n - 1 + 1
      BY <2>1, FS_Interval
    <2> QED BY <2>2
  <1>2. /\ IsFiniteSet(K) /\ Cardinality(K) <= n
        /\ n = Cardinality(K) => 1..n = K
    BY <1>1, FS_Subset
  <1>3. Cardinality(K) \in Nat
    BY <1>2, FS_CardinalityType
  <1> QED BY <1>2, <1>3

\* A set of numbers up to n can be counted upwards.
Counted(K) == \E f \in [1..Cardinality(K) -> K] : Increasing(f)

LEMMA CountUp ==
    ASSUME NEW n \in Nat, NEW K \in SUBSET (1..n)
    PROVE  Counted(K)
  <1> DEFINE Bad == {m \in Nat : \E J \in SUBSET (1..m) : ~Counted(J)}
  <1>1. SUFFICES ASSUME Bad # {}
                 PROVE  FALSE
    OBVIOUS
  <1>2. PICK m \in Bad : \A k \in Bad : m <= k
    <2>1. Bad \in SUBSET Nat
      OBVIOUS
    <2> QED BY <1>1, <2>1, LeastNat
  <1>3. PICK J \in SUBSET (1..m) : ~Counted(J)
    BY <1>2
  <1>4. m \in Nat /\ IsFiniteSet(J)
    <2>1. m \in Nat
      BY <1>2
    <2> QED BY <1>3, <2>1, UpToN
  <1>5. m # 0
    <2>1. SUFFICES ASSUME m = 0
                   PROVE  Counted(J)
      BY <1>3
    <2>2. J = {} /\ Cardinality(J) = 0
      <3>1. 1..0 = {}
        OBVIOUS
      <3>2. J = {}
        BY <1>3, <2>1, <3>1
      <3> QED BY <3>2, FS_EmptySet
    <2> DEFINE f == [i \in 1..0 |-> i]
    <2>3. f \in [1..Cardinality(J) -> J] /\ Increasing(f)
      BY <2>2 DEF Increasing
    <2> QED BY <2>3 DEF Counted
  <1>6. \A k \in SUBSET (1..(m - 1)) : Counted(k)
    <2>1. m - 1 \in Nat /\ ~(m <= m - 1)
      BY <1>4, <1>5
    <2> HIDE DEF Bad
    <2>2. m - 1 \notin Bad
      BY <1>2, <2>1
    <2> USE DEF Bad
    <2> QED BY <2>1, <2>2
  <1> HIDE DEF Bad
  <1>7. m \in J
    <2>1. SUFFICES ASSUME m \notin J
                   PROVE  FALSE
      OBVIOUS
    <2>2. J \in SUBSET (1..(m - 1))
      BY <1>3, <1>4, <2>1
    <2> QED BY <1>3, <1>6, <2>2
  <1> DEFINE I == J \ {m}
             c == Cardinality(I)
  <1>8. /\ Cardinality(J) = c + 1 /\ c \in Nat
        /\ \A k \in I : k \in Nat /\ k < m
        /\ I \in SUBSET (1..(m - 1))
    <2>1. IsFiniteSet(I) /\ Cardinality(I) = Cardinality(J) - 1
      BY <1>4, <1>7, FS_RemoveElement
    <2>2. Cardinality(I) \in Nat /\ Cardinality(J) \in Nat
      BY <1>4, <2>1, FS_CardinalityType
    <2> QED BY <1>3, <1>4, <2>1, <2>2
  <1> HIDE DEF c
  <1>9. PICK f \in [1..c -> I] : Increasing(f)
    BY <1>6, <1>8 DEF Counted, c
  <1> DEFINE g == [i \in 1..(c + 1) |-> IF i = c + 1 THEN m ELSE f[i]]
  <1>10. g \in [1..(c + 1) -> J]
    BY <1>7, <1>8, <1>9
  <1>11. Increasing(g)
    <2> SUFFICES ASSUME NEW i \in 1..(c + 1), NEW j \in 1..(c + 1), i < j
                 PROVE  g[i] < g[j]
      BY DEF Increasing
    <2>1. i \in 1..c /\ f[i] \in I /\ g[i] = f[i]
      BY <1>8, <1>9
    <2>2. CASE j = c + 1
      BY <1>8, <2>1, <2>2
    <2>3. CASE j # c + 1
      <3>1. j \in 1..c /\ g[j] = f[j]
        BY <1>8, <2>3
      <3> QED BY <1>9, <2>1, <3>1 DEF Increasing
    <2> QED BY <2>2, <2>3
  <1> QED BY <1>3, <1>8, <1>10, <1>11 DEF Counted

\* Removing keys leaves other files only, fewer if one of them was there.
LEMMA WithoutFacts ==
    ASSUME NEW S, NEW fs \in Seq(S), NEW keys
    PROVE  /\ Without(fs, keys) \in Seq(S)
           /\ Len(Without(fs, keys)) <= Len(fs)
           /\ \A j \in 1..Len(Without(fs, keys)) :
                 \E i \in 1..Len(fs) : /\ Without(fs, keys)[j] = fs[i]
                                       /\ fs[i].key \notin keys
           /\ \A i \in 1..Len(fs) :
                 fs[i].key \in keys => Len(Without(fs, keys)) < Len(fs)
  <1> DEFINE n == Len(fs)
             kept == {i \in DOMAIN fs : fs[i].key \notin keys}
             c == Cardinality(kept)
             order == CHOOSE f \in [1..c -> kept] : Increasing(f)
  <1>1. n \in Nat /\ DOMAIN fs = 1..n /\ kept \in SUBSET (1..n)
    OBVIOUS
  <1>3. /\ IsFiniteSet(kept) /\ c \in Nat /\ c <= n
        /\ c = n => kept = 1..n
    BY <1>1, UpToN
  <1>4. order \in [1..c -> kept]
    <2>1. \E f \in [1..c -> kept] : Increasing(f)
      BY <1>1, CountUp DEF Counted
    <2> QED BY <2>1
  <1>5. Without(fs, keys) = [i \in 1..c |-> fs[order[i]]]
    BY DEF Without
  <1> HIDE DEF order, c
  <1>6. ASSUME NEW i \in 1..c
        PROVE  order[i] \in 1..n /\ fs[order[i]].key \notin keys /\ fs[order[i]] \in S
    BY <1>1, <1>4
  <1>7. [i \in 1..c |-> fs[order[i]]] \in [1..c -> S]
    BY <1>6
  <1>8. Without(fs, keys) \in Seq(S) /\ Len(Without(fs, keys)) = c
    BY <1>3, <1>5, <1>7
  <1>9. ASSUME NEW i \in 1..n, fs[i].key \in keys
        PROVE  c < n
    <2>1. i \notin kept
      BY <1>9
    <2>2. c # n
      BY <1>3, <1>9, <2>1
    <2>3. c \in Nat /\ n \in Nat /\ c <= n
      <3> HIDE DEF kept
      <3> QED BY <1>1, <1>3
    <2> HIDE DEF n
    <2> QED BY <2>2, <2>3
  <1> QED BY <1>3, <1>5, <1>6, <1>8, <1>9
-----------------------------------------------------------------------------
(* The inductive invariant.                                                 *)

\* A request that no lane has taken has no file yet.
Queued == [key: Keys, generation: Nat, fd: {0}, temp: {0}]

Codes == {"ok", "verification", "issuer", "certificate", "bundle", "connect",
          "aborted", "timeout", "partial"}
Kinds == {"none", "config", "trust", "credentials", "rejected", "tls",
          "network", "http"}

Slot == [easy: BOOLEAN, done: BOOLEAN, fd: {0} \cup Fds, code: Codes,
         kind: Kinds, status: Nat]

\* Only installed files are under a key, and they were synced before.
File == [key: Keys, whole: {TRUE}, synced: {TRUE}]

Temp == [name: Nat \ {0}, content: {"none", "broken", "whole"}]

Usage == [known: BOOLEAN, bytes: Nat, entries: Nat]

Local == [pc: {"start", "turn", "poll", "lane", "open", "deliver", "exit"},
          net_generation: Nat, online: BOOLEAN, evict: BOOLEAN,
          busy: BOOLEAN, lane: Lanes, state: States]

TypeInv ==
    /\ generation \in Nat /\ online \in BOOLEAN /\ avatars \in BOOLEAN
    /\ evict \in BOOLEAN /\ delivering \in BOOLEAN
    /\ queue \in Seq(Queued)
    /\ active \in [Lanes -> Request \cup {NoRequest}]
    /\ result \in Answers \cup {NoResult} /\ hand \in Answers \cup {NoResult}
    /\ w \in Local
    /\ net = NoNet \/ net \in [Lanes -> Slot]
    /\ files \in Seq(File)
    /\ temps \in SUBSET Temp /\ IsFiniteSet(temps)
    /\ usage \in Usage

\* The request the worker is busy with is the lane's, and its transfer does not
\* run; before it is opened it has no file.
Serving ==
    /\ w.pc \in {"open", "deliver"} =>
          /\ active[w.lane] # NoRequest
          /\ net # NoNet => ~net[w.lane].easy
    /\ w.pc = "open" => active[w.lane].fd = 0 /\ active[w.lane].temp = 0

WorkInv == TypeInv /\ SlotOwnsFile /\ Serving

BudgetInv == WorkInv /\ WithinBudget

\* An eviction that is due was asked for by a context the worker has not seen, so
\* its next turn cancels every download before it evicts.
EvictionDue ==
    /\ w.net_generation <= generation
    /\ evict => w.net_generation # generation
    /\ w.evict => w.pc = "poll"
    /\ avatars \/ evict \/ \A l \in Lanes :
          active[l] # NoRequest => active[l].key \notin Avatars
    /\ avatars \/ \A i \in 1..Len(queue) : queue[i].key \notin Avatars

AvatarInv == WorkInv /\ AvatarsEvicted /\ EvictionDue

\* A lane's request was made in the context the interface has now.
Current(l) == active[l] # NoRequest /\ active[l].generation = generation

\* A picture is asked for at most once in a context, with the permission.
AskedOnce ==
    /\ \A i \in 1..Len(queue) :
          /\ queue[i].generation = generation
          /\ queue[i].key \in Avatars => avatars
          /\ \A j \in 1..Len(queue) : queue[i].key = queue[j].key => i = j
          /\ \A l \in Lanes : Current(l) => queue[i].key # active[l].key
    /\ \A l \in Lanes :
          /\ active[l] # NoRequest => active[l].generation <= generation
          /\ Current(l) /\ active[l].key \in Avatars => avatars
          /\ \A m \in Lanes :
                Current(l) /\ Current(m) /\ active[l].key = active[m].key
                => l = m

\* The worker goes to its lanes only when no answer is on offer or in use.
OneAnswer ==
    /\ w.pc \in {"lane", "open", "deliver"} \/ (w.pc = "poll" /\ ~w.busy)
          => result = NoResult /\ ~delivering
    /\ hand # NoResult => delivering

AskedInv == WorkInv /\ AskedOnce /\ OneAnswer
-----------------------------------------------------------------------------
(* Which steps touch which variable.                                        *)

\* What the interface set changes with a context or a restart only.
LEMMA GuiKept ==
    ASSUME Next
    PROVE  \/ UNCHANGED gui
           \/ \E line, permission \in BOOLEAN : Context(line, permission)
           \/ Leave \/ Crash
  <1> QED
    BY DEF Next, Worker, Ask, Take, Release, Shutdown, Start, Turn, Poll, Pass,
           Overtaken, Save, Refuse, Dequeue, OpenLocal, OpenCached,
           OpenOffline, OpenDenied, OpenTransfer, Deliver, Delivered, Abandon

\* A due eviction is noted by a context and taken over by a turn.
LEMMA EvictKept ==
    ASSUME Next
    PROVE  \/ UNCHANGED evict
           \/ \E line, permission \in BOOLEAN : Context(line, permission)
           \/ \E gone \in SUBSET Lanes : Turn(gone)
           \/ Leave \/ Crash
  <1> QED
    BY DEF Next, Worker, Ask, Take, Release, Shutdown, Start, Poll,
           Pass, Overtaken, Save, Refuse, Dequeue, OpenLocal, OpenCached,
           OpenOffline, OpenDenied, OpenTransfer, Deliver, Delivered,
           Abandon, gui, bounds

\* The queue grows by a question and shrinks at its head.
LEMMA QueueKept ==
    ASSUME Next
    PROVE  \/ UNCHANGED queue
           \/ \E line, permission \in BOOLEAN : Context(line, permission)
           \/ \E k \in Keys : Ask(k)
           \/ Dequeue \/ Leave \/ Crash
  <1> QED
    BY DEF Next, Worker, Take, Release, Shutdown, Start, Turn, Poll,
           Pass, Overtaken, Save, Refuse, OpenLocal, OpenCached, OpenOffline,
           OpenDenied, OpenTransfer, Deliver, Delivered, Abandon, gui, bounds

\* Requests enter and leave the lanes in the worker's hands only.
LEMMA LanesKept ==
    ASSUME Next
    PROVE  \/ UNCHANGED active
           \/ \E gone \in SUBSET Lanes : Turn(gone)
           \/ Dequeue \/ OpenTransfer \/ Deliver \/ Abandon \/ Leave \/ Crash
  <1> QED
    BY DEF Next, Worker, Context, Ask, Take, Release, Shutdown, Start,
           Poll, Pass, Overtaken, Save, Refuse, OpenLocal, OpenCached,
           OpenOffline, OpenDenied, gui, bounds

\* An answer is offered by the worker and withdrawn by a context or taken.
LEMMA AnswerKept ==
    ASSUME Next
    PROVE  \/ UNCHANGED <<result, delivering, hand>>
           \/ \E line, permission \in BOOLEAN : Context(line, permission)
           \/ Take \/ Release \/ Deliver \/ Leave \/ Crash
  <1> QED
    BY DEF Next, Worker, Ask, Shutdown, Start, Turn, Poll, Pass,
           Overtaken, Save, Refuse, Dequeue, OpenLocal, OpenCached,
           OpenOffline, OpenDenied, OpenTransfer, Abandon, gui, bounds

\* The interface leaves the worker's locals alone.
LEMMA WorkerKept ==
    ASSUME Next
    PROVE  \/ UNCHANGED w
           \/ \E gone \in SUBSET Lanes : Turn(gone)
           \/ Start \/ Poll \/ Pass \/ Overtaken \/ Save \/ Refuse \/ Dequeue
           \/ OpenLocal \/ OpenCached \/ OpenOffline \/ OpenDenied
           \/ OpenTransfer \/ Deliver \/ Abandon \/ Leave \/ Crash
  <1> QED
    BY DEF Next, Worker, Context, Ask, Take, Release, Shutdown, gui,
           bounds

\* The transport is polled, acknowledged, started and freed.
LEMMA NetKept ==
    ASSUME Next
    PROVE  \/ UNCHANGED net
           \/ \E gone \in SUBSET Lanes : Turn(gone)
           \/ Poll \/ Save \/ Refuse \/ OpenTransfer \/ Leave \/ Crash
  <1> QED
    BY DEF Next, Worker, Context, Ask, Take, Release, Shutdown, Start,
           Pass, Overtaken, Dequeue, OpenLocal, OpenCached, OpenOffline,
           OpenDenied, Deliver, Delivered, Abandon, gui, bounds

\* Files under a key come and go with these steps.
LEMMA FilesKept ==
    ASSUME Next
    PROVE  \/ UNCHANGED files
           \/ Start \/ Poll \/ Save \/ OpenCached \/ OpenOffline \/ OpenDenied
           \/ OpenTransfer \/ Crash
  <1> QED
    BY DEF Next, Worker, Context, Ask, Take, Release, Shutdown, Turn,
           Pass, Overtaken, Refuse, Dequeue, OpenLocal, Deliver, Leave,
           Delivered, Abandon, Restarted, gui, bounds

\* Temporary files come and go with these steps.
LEMMA TempsKept ==
    ASSUME Next
    PROVE  \/ UNCHANGED temps
           \/ \E gone \in SUBSET Lanes : Turn(gone)
           \/ Start \/ Poll \/ Save \/ OpenTransfer \/ Deliver \/ Abandon
  <1> QED
    BY DEF Next, Worker, Context, Ask, Take, Release, Shutdown, Pass,
           Overtaken, Refuse, Dequeue, OpenLocal, OpenCached, OpenOffline,
           OpenDenied, Leave, Crash, Restarted, gui, bounds

\* The accounting changes with a scan, an install or a restart.
LEMMA UsageKept ==
    ASSUME Next
    PROVE  \/ UNCHANGED usage
           \/ Start \/ Save \/ Leave \/ Crash
  <1> QED
    BY DEF Next, Worker, Context, Ask, Take, Release, Shutdown, Turn,
           Poll, Pass, Overtaken, Refuse, Dequeue, OpenLocal, OpenCached,
           OpenOffline, OpenDenied, OpenTransfer, Deliver, Delivered,
           Abandon, gui, bounds
-----------------------------------------------------------------------------
(* The helpers of the steps.                                                *)

\* Every transfer starts with a descriptor that no lane uses.
LEMMA NewFdFacts ==
    ASSUME TypeInv, active[w.lane] # NoRequest, active[w.lane].fd = 0
    PROVE  /\ NewFd \in Fds
           /\ \A l \in Lanes : active[l] = NoRequest \/ active[l].fd # NewFd
  <1> DEFINE Free(fd) == \A l \in Lanes : active[l] = NoRequest
                                          \/ active[l].fd # fd
             Good(fd) == Free(fd) /\ \A other \in Fds : Free(other) => fd <= other
  <1>1. Lanes = {0, 1} /\ Fds = {1, 2} /\ w.lane \in Lanes
    BY DEF TypeInv, Local, Lanes, Fds
  <1>2. Free(1) \/ Free(2)
    BY <1>1
  <1>3. \E fd \in Fds : Good(fd)
    <2>1. CASE Free(1)
      <3>1. Good(1)
        BY <1>1, <2>1
      <3> QED BY <1>1, <3>1
    <2>2. CASE ~Free(1)
      <3>1. Good(2)
        BY <1>1, <1>2, <2>2
      <3> QED BY <1>1, <3>1
    <2> QED BY <2>1, <2>2
  <1>4. NewFd = CHOOSE fd \in Fds : Good(fd)
    BY DEF NewFd
  <1> HIDE DEF Good
  <1>5. NewFd \in Fds /\ Good(NewFd)
    BY <1>3, <1>4
  <1> QED BY <1>5 DEF Good

\* A temporary gets a name no other has.
LEMMA NewNameFacts ==
    ASSUME TypeInv
    PROVE  NewName \in Nat \ {0} /\ \A t \in temps : t.name # NewName
  <1> DEFINE n == Cardinality(temps)
             Names == {t.name : t \in temps}
  <1>1. n \in Nat
    BY FS_CardinalityType DEF TypeInv
  <1>2. \E k \in 1..(n + 1) : k \notin Names
    <2>1. SUFFICES ASSUME 1..(n + 1) \subseteq Names
                   PROVE  FALSE
      OBVIOUS
    <2>2. IsFiniteSet(1..(n + 1)) /\ Cardinality(1..(n + 1)) = n + 1
      <3>1. 1 \in Int /\ n + 1 \in Int /\ ~(1 > n + 1) /\ n + 1 - 1 + 1 = n + 1
        BY <1>1
      <3> HIDE DEF n
      <3> QED BY <3>1, FS_Interval
    <2>3. IsFiniteSet(Names) /\ Cardinality(Names) <= n
      <3> DEFINE f == [t \in temps |-> t.name]
      <3>1. f \in Surjection(temps, Names)
        BY DEF Surjection
      <3> HIDE DEF f, Names
      <3>2. IsFiniteSet(temps)
        BY DEF TypeInv
      <3> QED BY <3>1, <3>2, FS_Surjection
    <2>4. Cardinality(1..(n + 1)) <= Cardinality(Names)
      BY <2>1, <2>3, FS_Subset
    <2>5. Cardinality(Names) \in Nat
      BY <2>3, FS_CardinalityType
    <2> HIDE DEF n, Names
    <2> QED BY <1>1, <2>2, <2>3, <2>4, <2>5
  <1>3. \E k \in 1..(n + 1) : \A t \in temps : t.name # k
    BY <1>2
  <1>4. NewName = CHOOSE k \in 1..(n + 1) : \A t \in temps : t.name # k
    BY DEF NewName
  <1>5. NewName \in 1..(n + 1) /\ \A t \in temps : t.name # NewName
    BY <1>3, <1>4
  <1>6. \A k \in 1..(n + 1) : k \in Nat \ {0}
    BY <1>1
  <1> QED BY <1>5, <1>6

\* The bytes of temporaries: no fewer in a larger set.
LEMMA TempBytesFacts ==
    ASSUME NEW ts, IsFiniteSet(ts), NEW us \in SUBSET ts
    PROVE  /\ TempBytes(ts) \in Nat /\ TempBytes(us) \in Nat
           /\ TempBytes(us) <= TempBytes(ts)
  <1> DEFINE T == {t \in ts : t.content # "none"}
             U == {t \in us : t.content # "none"}
  <1>1. T \in SUBSET ts /\ U \in SUBSET T
    OBVIOUS
  <1>2. IsFiniteSet(T)
    BY <1>1, FS_Subset
  <1>3. IsFiniteSet(U) /\ Cardinality(U) <= Cardinality(T)
    BY <1>1, <1>2, FS_Subset
  <1>4. Cardinality(T) \in Nat /\ Cardinality(U) \in Nat
    BY <1>2, <1>3, FS_CardinalityType
  <1> QED BY <1>3, <1>4 DEF TempBytes

\* A prune keeps files only, and no more entries than its target.
LEMMA PrunedFacts ==
    ASSUME NEW S, NEW fs \in Seq(S), NEW ts, IsFiniteSet(ts)
    PROVE  /\ Pruned(fs, ts) \in Seq(S)
           /\ Len(Pruned(fs, ts)) <= Len(fs)
           /\ Len(Pruned(fs, ts)) <= TrimEntries
           /\ \A j \in 1..Len(Pruned(fs, ts)) :
                 \E i \in 1..Len(fs) : Pruned(fs, ts)[j] = fs[i]
  <1> DEFINE Fits(n) == /\ Len(fs) - n + TempBytes(ts) <= Trim
                        /\ Len(fs) - n <= TrimEntries
             T == {m \in 0..Len(fs) : Fits(m)} \cup {Len(fs)}
             n == Min(T)
             p == SubSeq(fs, n + 1, Len(fs))
  <1>1. Len(fs) \in Nat /\ TrimEntries \in Nat
    BY MediaAssumption
  <1>2. T \in SUBSET Nat /\ T # {}
    BY <1>1
  <1>3. n \in T
    BY <1>2, MinFacts
  <1>4. n \in 0..Len(fs) /\ Len(fs) - n <= TrimEntries
    BY <1>1, <1>3
  <1>5. Pruned(fs, ts) = p
    BY DEF Pruned
  <1> HIDE DEF n, T, Fits
  <1>6. p \in Seq(S) /\ Len(p) = Len(fs) - n
    BY <1>1, <1>4
  <1>7. \A j \in 1..Len(p) : p[j] = fs[n + j] /\ n + j \in 1..Len(fs)
    BY <1>1, <1>4, <1>6
  <1> HIDE DEF p
  <1>8. Len(p) <= Len(fs) /\ Len(p) <= TrimEntries
    BY <1>1, <1>4, <1>6
  <1> QED BY <1>5, <1>6, <1>7, <1>8

\* The new accounting covers what is left and keeps the limits.
LEMMA TrimDiskFacts ==
    ASSUME NEW S, NEW fs \in Seq(S), NEW ts, IsFiniteSet(ts),
           NEW failed \in BOOLEAN, TrimDisk(fs, ts, failed)
    PROVE  /\ files' \in Seq(S) /\ usage' \in Usage
           /\ \A j \in 1..Len(files') :
                 \E i \in 1..Len(fs) : files'[j] = fs[i]
           /\ usage'.known =>
                 /\ Len(files') + TempBytes(ts) <= usage'.bytes
                 /\ usage'.bytes <= Bytes
                 /\ Len(files') <= usage'.entries
                 /\ usage'.entries <= Entries
  <1> DEFINE p == Pruned(fs, ts)
             b == TempBytes(ts)
  <1>1. /\ p \in Seq(S) /\ Len(p) <= TrimEntries
        /\ \A j \in 1..Len(p) : \E i \in 1..Len(fs) : p[j] = fs[i]
    <2>1. /\ p \in Seq(S)
          /\ Len(p) <= Len(fs)
          /\ Len(p) <= TrimEntries
          /\ \A j \in 1..Len(p) : \E i \in 1..Len(fs) : p[j] = fs[i]
      BY PrunedFacts
    <2> QED BY <2>1
  <1>2. b \in Nat
    BY TempBytesFacts
  <1>3. CASE failed
    <2>1. usage' = Unknown /\ \E gone : files' = Without(fs, gone)
      BY <1>3 DEF TrimDisk
    <2>2. Unknown \in Usage /\ ~Unknown.known
      BY DEF Unknown, Usage
    <2>3. /\ files' \in Seq(S)
          /\ \A j \in 1..Len(files') : \E i \in 1..Len(fs) : files'[j] = fs[i]
      BY <2>1, WithoutFacts
    <2> QED BY <2>1, <2>2, <2>3
  <1>4. CASE ~failed
    <2>1. files' = p /\ usage' = Scanned(p, ts)
      BY <1>4 DEF TrimDisk
    <2>2. Len(p) \in Nat
      BY <1>1
    <2> HIDE DEF p
    <2>3. CASE Len(p) + b <= Trim
      <3>1. usage' = [known |-> TRUE, bytes |-> Len(p) + b,
                      entries |-> Len(p)]
        BY <2>1, <2>3 DEF Scanned
      <3>2. Len(p) + b <= Bytes /\ Len(p) <= Entries
        BY <1>1, <1>2, <2>2, <2>3, MediaAssumption
      <3> HIDE DEF b
      <3> QED BY <1>1, <1>2, <2>1, <2>2, <3>1, <3>2 DEF Usage, b
    <2>4. CASE ~(Len(p) + b <= Trim)
      BY <1>1, <2>1, <2>4 DEF Scanned, Unknown, Usage
    <2> QED BY <2>3, <2>4
  <1> QED BY <1>3, <1>4

\* An install replaces the file under the key, or adds one.
LEMMA InstalledFacts ==
    ASSUME files \in Seq(File), NEW k \in Keys
    PROVE  /\ Installed(k) \in Seq(File) /\ Len(Installed(k)) <= Len(files) + 1
           /\ \A j \in 1..Len(Installed(k)) :
                 \/ Installed(k)[j].key = k
                 \/ \E i \in 1..Len(files) : Installed(k)[j] = files[i]
  <1> DEFINE o == Without(files, {k})
             f == [key |-> k, whole |-> TRUE, synced |-> TRUE]
  <1>1. /\ o \in Seq(File) /\ Len(o) <= Len(files)
        /\ \A j \in 1..Len(o) : \E i \in 1..Len(files) : o[j] = files[i]
    <2>1. /\ o \in Seq(File)
          /\ Len(o) <= Len(files)
          /\ \A j \in 1..Len(o) : \E i \in 1..Len(files) :
                o[j] = files[i] /\ files[i].key \notin {k}
          /\ \A i \in 1..Len(files) :
                files[i].key \in {k} => Len(o) < Len(files)
      BY WithoutFacts
    <2> HIDE DEF o
    <2> QED BY <2>1
  <1>2. f \in File
    BY DEF File
  <1>3. Installed(k) = Append(o, f)
    BY DEF Installed
  <1> HIDE DEF o
  <1>4. Append(o, f) \in Seq(File) /\ Len(Append(o, f)) = Len(o) + 1
    BY <1>1, <1>2
  <1>5. \A j \in 1..(Len(o) + 1) :
           Append(o, f)[j] = IF j = Len(o) + 1 THEN f ELSE o[j]
    BY <1>1, <1>2
  <1>6. Len(o) \in Nat /\ Len(files) \in Nat
    BY <1>1
  <1> QED BY <1>1, <1>3, <1>4, <1>5, <1>6

\* A slot that is polled keeps its file; its outcome is one of three.
LEMMA OutcomeFacts ==
    ASSUME NEW slot \in Slot, NEW o \in Outcomes(slot)
    PROVE  /\ o.slot \in Slot
           /\ o.slot.easy = slot.easy /\ o.slot.fd = slot.fd
           /\ o.content \in {"same", "broken", "whole"}
           /\ ~slot.easy => o.content = "same"
  <1>1. CASE ~slot.easy \/ slot.done
    BY <1>1 DEF Outcomes
  <1>2. CASE ~(~slot.easy \/ slot.done)
    <2>1. CASE o = [slot |-> slot, content |-> "broken"]
      BY <1>2, <2>1
    <2>2. CASE o # [slot |-> slot, content |-> "broken"]
      <3>1. PICK r \in Responses : \E c \in Bodies(r) :
                    o = [slot |-> FinishMedia(slot, r), content |-> c]
        BY <1>2, <2>2 DEF Outcomes
      <3>2. PICK c \in Bodies(r) :
                    o = [slot |-> FinishMedia(slot, r), content |-> c]
        BY <3>1
      <3>3. c \in {"same", "broken", "whole"}
        BY DEF Bodies
      <3>4. r \in Response
        BY MediaAssumption
      <3>5. r.status \in Nat /\ r.code \in Codes
        BY <3>4 DEF Response, Codes
      <3>6. ErrorKind(r, FALSE) \in Kinds
        BY <3>4 DEF ErrorKind, Kinds, Response
      <3>7. /\ FinishMedia(slot, r) \in Slot
            /\ FinishMedia(slot, r).easy = slot.easy
            /\ FinishMedia(slot, r).fd = slot.fd
        BY <3>5, <3>6 DEF FinishMedia, Slot, Codes, Kinds
      <3> QED BY <1>2, <3>2, <3>3, <3>7
    <2> QED BY <2>1, <2>2
  <1> QED BY <1>1, <1>2

\* The greatest of some lanes is one of them.
LEMMA MaxLane ==
    ASSUME NEW T \in SUBSET Lanes, T # {}
    PROVE  Max(T) \in T
  <1>1. Lanes = {0, 1}
    BY DEF Lanes
  <1>2. \E x \in T : \A y \in T : x >= y
    <2>1. CASE 1 \in T
      BY <1>1, <2>1
    <2>2. CASE 1 \notin T
      <3>1. 0 \in T /\ \A y \in T : y = 0
        BY <1>1, <2>2
      <3> QED BY <3>1
    <2> QED BY <2>1, <2>2
  <1>3. Max(T) = CHOOSE x \in T : \A y \in T : x >= y
    BY DEF Max
  <1> QED BY <1>2, <1>3

\* The temporaries that no request owns.
Orphans(ts, lanes) == {t \in ts : \A l \in Lanes :
                          lanes[l] # NoRequest => lanes[l].temp # t.name}

\* The accounting counts what the directory holds but the lanes do not own.
LEMMA OrphansFacts ==
    ASSUME NEW ts, NEW lanes
    PROVE  Unlinked(ts, {lanes[l] : l \in Lanes}) = Orphans(ts, lanes)
  <1> QED BY DEF Unlinked, TempsOf, Orphans

\* Bytes arrive in files that a lane owns: the others do not change.
LEMMA WrittenFacts ==
    ASSUME TypeInv, NEW o,
           \A l \in Lanes : o[l].content \in {"same", "broken", "whole"}
    PROVE  /\ Written(o) \in SUBSET Temp /\ IsFiniteSet(Written(o))
           /\ Orphans(Written(o), active) = Orphans(temps, active)
  <1> DEFINE Writers(t) == {l \in Lanes :
                /\ o[l].content # "same"
                /\ \E m \in Lanes : /\ active[m] # NoRequest
                                    /\ active[m].temp = t.name
                                    /\ active[m].fd = o[l].slot.fd}
             new(t) == IF Writers(t) = {} THEN t
                       ELSE [t EXCEPT !.content = o[Max(Writers(t))].content]
  <1>1. Written(o) = {new(t) : t \in temps}
    BY DEF Written
  <1>2. ASSUME NEW t \in temps
        PROVE  /\ new(t) \in Temp /\ new(t).name = t.name
               /\ \/ new(t) = t
                  \/ \E m \in Lanes : /\ active[m] # NoRequest
                                      /\ active[m].temp = t.name
    <2>1. t \in Temp
      BY DEF TypeInv
    <2>2. CASE Writers(t) = {}
      BY <2>1, <2>2
    <2>3. CASE Writers(t) # {}
      <3> DEFINE x == Max(Writers(t))
      <3>1. x \in Writers(t)
        BY <2>3, MaxLane
      <3> HIDE DEF x
      <3>2. x \in Lanes /\ o[x].content \in {"broken", "whole"}
        BY <3>1
      <3>3. new(t) = [t EXCEPT !.content = o[x].content]
        BY <2>3 DEF x
      <3>4. new(t) \in Temp /\ new(t).name = t.name
        <4> HIDE DEF new
        <4> QED BY <2>1, <3>2, <3>3 DEF Temp
      <3>5. \E m \in Lanes : active[m] # NoRequest /\ active[m].temp = t.name
        BY <3>1
      <3> QED BY <3>4, <3>5
    <2> QED BY <2>2, <2>3
  <1> HIDE DEF new
  <1>3. IsFiniteSet(Written(o))
    <2> DEFINE f == [t \in temps |-> new(t)]
    <2>1. f \in Surjection(temps, Written(o))
      BY <1>1 DEF Surjection
    <2> HIDE DEF f
    <2> QED BY <2>1, FS_Surjection DEF TypeInv
  <1>4. Written(o) \in SUBSET Temp
    BY <1>1, <1>2
  <1>5. Orphans(Written(o), active) \subseteq Orphans(temps, active)
    BY <1>1, <1>2 DEF Orphans
  <1>6. Orphans(temps, active) \subseteq Orphans(Written(o), active)
    BY <1>1, <1>2 DEF Orphans
  <1> QED BY <1>3, <1>4, <1>5, <1>6
-----------------------------------------------------------------------------
(* Every step keeps the types.                                              *)

\* After the end of the program only the directory is left.
LEMMA RestartFacts ==
    ASSUME Leave \/ Crash
    PROVE  /\ generation' = 0 /\ online' = FALSE /\ avatars' = TRUE
           /\ evict' = FALSE /\ delivering' = FALSE
           /\ queue' = <<>>
           /\ active' = [l \in Lanes |-> NoRequest]
           /\ result' = NoResult /\ hand' = NoResult
           /\ w' = Fresh("start", 0)
           /\ net' = NoNet
           /\ usage' = Unknown
  <1>1. Restarted
    BY DEF Leave, Crash
  <1> QED BY <1>1 DEF Restarted

\* The context, and what the two threads tell each other about it.
LEMMA GuiType ==
    ASSUME WorkInv, Next
    PROVE  /\ generation' \in Nat /\ online' \in BOOLEAN
           /\ avatars' \in BOOLEAN /\ evict' \in BOOLEAN
           /\ delivering' \in BOOLEAN
  <1> USE DEF WorkInv, TypeInv
  <1>1. ASSUME NEW line \in BOOLEAN, NEW permission \in BOOLEAN,
               Context(line, permission)
        PROVE  /\ generation' \in Nat /\ online' \in BOOLEAN
               /\ avatars' \in BOOLEAN /\ evict' \in BOOLEAN
               /\ delivering' \in BOOLEAN
    BY <1>1 DEF Context
  <1>2. CASE Leave \/ Crash
    <2>1. /\ generation' = 0 /\ online' = FALSE /\ avatars' = TRUE
          /\ evict' = FALSE /\ delivering' = FALSE
      BY <1>2, RestartFacts
    <2>2. 0 \in Nat /\ TRUE \in BOOLEAN /\ FALSE \in BOOLEAN
      OBVIOUS
    <2> QED BY <2>1, <2>2, Zenon
  <1>3. /\ generation' \in Nat /\ online' \in BOOLEAN /\ avatars' \in BOOLEAN
    BY <1>1, <1>2, GuiKept DEF gui
  <1>4. evict' \in BOOLEAN
    <2>1. ASSUME NEW gone \in SUBSET Lanes, Turn(gone)
          PROVE  evict' \in BOOLEAN
      BY <2>1 DEF Turn
    <2> QED BY <1>1, <1>2, <2>1, EvictKept
  <1>5. delivering' \in BOOLEAN
    <2>1. CASE Take \/ Release \/ Deliver
      BY <2>1 DEF Take, Release, Deliver, Delivered
    <2> QED BY <1>1, <1>2, <2>1, AnswerKept
  <1> QED BY <1>3, <1>4, <1>5

\* The requests that wait.
LEMMA QueueType ==
    ASSUME WorkInv, Next
    PROVE  queue' \in Seq(Queued)
  <1> USE DEF WorkInv, TypeInv
  <1>1. ASSUME NEW line \in BOOLEAN, NEW permission \in BOOLEAN,
               Context(line, permission)
        PROVE  queue' \in Seq(Queued)
    BY <1>1 DEF Context
  <1>2. CASE Leave \/ Crash
    <2>1. queue' = <<>>
      BY <1>2, RestartFacts
    <2> QED BY <2>1
  <1>3. ASSUME NEW k \in Keys, Ask(k)
        PROVE  queue' \in Seq(Queued)
    <2> DEFINE r == [key |-> k, generation |-> generation, fd |-> 0,
                     temp |-> 0]
    <2>1. r \in Queued
      BY DEF Queued
    <2>2. queue' = Append(queue, r)
      BY <1>3 DEF Ask
    <2> HIDE DEF r
    <2> QED BY <2>1, <2>2
  <1>4. CASE Dequeue
    BY <1>4 DEF Dequeue
  <1> QED BY <1>1, <1>2, <1>3, <1>4, QueueKept

\* The requests in the lanes.
LEMMA LanesType ==
    ASSUME WorkInv, Next
    PROVE  active' \in [Lanes -> Request \cup {NoRequest}]
  <1> USE DEF WorkInv, TypeInv
  <1>1. ASSUME NEW gone \in SUBSET Lanes, Turn(gone)
        PROVE  active' \in [Lanes -> Request \cup {NoRequest}]
    BY <1>1 DEF Turn
  <1>2. CASE Dequeue
    <2>1. Head(queue) \in Queued
      BY <1>2 DEF Dequeue
    <2>2. Head(queue) \in Request
      BY <2>1 DEF Queued, Request
    <2> QED BY <1>2, <2>2 DEF Dequeue
  <1>3. CASE OpenTransfer
    <2> DEFINE opened == [active[w.lane] EXCEPT !.fd = NewFd, !.temp = NewName]
    <2>1. \/ active' = active
          \/ /\ active' = [active EXCEPT ![w.lane] = opened]
             /\ Opening
      BY <1>3 DEF OpenTransfer, Missed
    <2>2. CASE Opening
      <3>1. /\ w.lane \in Lanes /\ active[w.lane] # NoRequest
            /\ active[w.lane].fd = 0
        BY <2>2 DEF Opening, Serving, Local
      <3>2. NewFd \in Fds /\ NewName \in Nat
        BY <3>1, NewFdFacts, NewNameFacts
      <3>3. active[w.lane] \in Request
        BY <3>1
      <3>4. opened \in Request
        BY <3>2, <3>3 DEF Request
      <3> HIDE DEF opened
      <3> QED BY <2>1, <3>1, <3>4
    <2> QED BY <2>1, <2>2
  <1>4. CASE Deliver
    BY <1>4 DEF Deliver, Delivered
  <1>5. CASE Abandon
    BY <1>5 DEF Abandon
  <1>6. CASE Leave \/ Crash
    BY <1>6, RestartFacts
  <1> QED BY <1>1, <1>2, <1>3, <1>4, <1>5, <1>6, LanesKept

\* The answers.
LEMMA AnswersType ==
    ASSUME WorkInv, Next
    PROVE  /\ result' \in Answers \cup {NoResult}
           /\ hand' \in Answers \cup {NoResult}
  <1> USE DEF WorkInv, TypeInv
  <1>1. ASSUME NEW line \in BOOLEAN, NEW permission \in BOOLEAN,
               Context(line, permission)
        PROVE  /\ result' \in Answers \cup {NoResult}
               /\ hand' \in Answers \cup {NoResult}
    BY <1>1 DEF Context
  <1>2. CASE Take \/ Release
    BY <1>2 DEF Take, Release
  <1>3. CASE Deliver
    <2>1. active[w.lane] \in Request /\ w.state \in States
      BY <1>3 DEF Deliver, Delivered, Serving, Local
    <2>2. [key |-> active[w.lane].key, state |-> w.state] \in Answers
      BY <2>1 DEF Answers, Request
    <2> QED BY <1>3, <2>2 DEF Deliver, Delivered
  <1>4. CASE Leave \/ Crash
    BY <1>4, RestartFacts
  <1> QED BY <1>1, <1>2, <1>3, <1>4, AnswerKept

\* The worker's locals.
LEMMA WorkerType ==
    ASSUME WorkInv, Next
    PROVE  w' \in Local
  <1> DEFINE Pcs == {"start", "turn", "poll", "lane", "open", "deliver", "exit"}
  <1>1. w \in Local /\ generation \in Nat /\ online \in BOOLEAN
        /\ evict \in BOOLEAN /\ delivering \in BOOLEAN
    BY DEF WorkInv, TypeInv
  <1>2. ASSUME NEW pc \in Pcs, NEW state \in States
        PROVE  [w EXCEPT !.pc = pc, !.state = state] \in Local
    BY <1>1 DEF Local
  <1>3. ASSUME NEW pc \in Pcs
        PROVE  [w EXCEPT !.pc = pc] \in Local
    BY <1>1 DEF Local
  <1>4. ASSUME NEW pc \in Pcs, NEW n \in Nat
        PROVE  Fresh(pc, n) \in Local
    BY DEF Fresh, Local, Lanes, States
  <1>5. Rested \in Local
    <2>1. w.net_generation \in Nat
      BY <1>1 DEF Local
    <2> QED BY <1>4, <2>1 DEF Rested
  <1>6. NextLane => w' \in Local
    <2>1. 1 \in Lanes
      BY DEF Lanes
    <2>2. [w EXCEPT !.pc = "lane", !.lane = 1] \in Local
      BY <1>1, <2>1 DEF Local
    <2> QED BY <1>5, <2>2 DEF NextLane
  <1>7. ASSUME NEW state \in States, AnswerWith(state)
        PROVE  w' \in Local
    BY <1>2, <1>7 DEF AnswerWith
  <1>8. {"ready", "offline", "pending", "failed", "retired", "denied"} = States
    BY DEF States
  <1>9. ASSUME NEW gone \in SUBSET Lanes, Turn(gone)
        PROVE  w' \in Local
    <2>1. w' = [w EXCEPT !.pc = "poll", !.net_generation = generation,
                         !.online = online, !.evict = evict,
                         !.busy = result # NoResult \/ delivering, !.lane = 0]
      BY <1>9 DEF Turn
    <2>2. (result # NoResult \/ delivering) \in BOOLEAN /\ 0 \in Lanes
      BY DEF Lanes
    <2> QED BY <1>1, <2>1, <2>2 DEF Local
  <1>10. CASE Start \/ Dequeue \/ Abandon
    BY <1>3, <1>10 DEF Start, Dequeue, Abandon
  <1>11. CASE Poll
    <2>1. w' = IF w.busy THEN Rested ELSE [w EXCEPT !.pc = "lane", !.evict = FALSE]
      BY <1>11 DEF Poll
    <2>2. [w EXCEPT !.pc = "lane", !.evict = FALSE] \in Local
      BY <1>1 DEF Local
    <2> QED BY <1>5, <2>1, <2>2
  <1>12. CASE Pass \/ Overtaken \/ Deliver
    BY <1>5, <1>6, <1>12 DEF Pass, Overtaken, Deliver, Delivered
  <1>13. CASE Save
    <2>1. \E state \in {"failed", "ready"} :
             w' = [w EXCEPT !.pc = "deliver", !.state = state]
      BY <1>13 DEF Save
    <2> QED BY <1>2, <1>8, <2>1
  <1>14. CASE Refuse
    <2>1. \E retryable \in BOOLEAN :
             w' = [w EXCEPT !.pc = "deliver",
                            !.state = Refused(net[w.lane], retryable)]
      BY <1>14 DEF Refuse
    <2>2. \A slot, retryable : Refused(slot, retryable) \in States
      BY <1>8 DEF Refused
    <2> QED BY <1>2, <2>1, <2>2
  <1>15. CASE OpenLocal \/ OpenCached \/ OpenOffline \/ OpenDenied
    BY <1>7, <1>8, <1>15 DEF OpenLocal, OpenCached, OpenOffline, OpenDenied
  <1>16. CASE OpenTransfer
    <2>1. NextLane \/ AnswerWith("failed")
      BY <1>16 DEF OpenTransfer
    <2> QED BY <1>6, <1>7, <1>8, <2>1
  <1>17. CASE Leave \/ Crash
    BY <1>4, <1>17, RestartFacts
  <1> QED BY <1>1, <1>9, <1>10, <1>11, <1>12, <1>13, <1>14, <1>15, <1>16, <1>17,
             WorkerKept

\* The transport's slots.
LEMMA NetType ==
    ASSUME WorkInv, Next
    PROVE  net' = NoNet \/ net' \in [Lanes -> Slot]
  <1>1. /\ net = NoNet \/ net \in [Lanes -> Slot]
        /\ w.lane \in Lanes
        /\ IdleSlot \in Slot
    BY DEF WorkInv, TypeInv, Local, IdleSlot, Slot, Codes, Kinds
  <1>2. ASSUME NEW gone \in SUBSET Lanes, Turn(gone)
        PROVE  net' = NoNet \/ net' \in [Lanes -> Slot]
    BY <1>1, <1>2 DEF Turn
  <1>3. CASE Poll
    <2>1. SUFFICES ASSUME net # NoNet
                   PROVE  net' \in [Lanes -> Slot]
      BY <1>1, <1>3 DEF Poll
    <2>2. 0 \in Lanes /\ 1 \in Lanes /\ net[0] \in Slot /\ net[1] \in Slot
      BY <1>1, <2>1 DEF Lanes
    <2>3. PICK first \in Outcomes(net[0]), second \in Outcomes(net[1]) :
             net' = [l \in Lanes |-> (IF l = 0 THEN first ELSE second).slot]
      BY <1>3, <2>1 DEF Poll
    <2>4. first.slot \in Slot /\ second.slot \in Slot
      BY <2>2, OutcomeFacts
    <2> QED BY <2>3, <2>4
  <1>4. CASE Save \/ Refuse
    <2>1. net # NoNet /\ net' = [net EXCEPT ![w.lane] = IdleSlot]
      BY <1>4 DEF Save, Refuse, Decoded, Done
    <2> QED BY <1>1, <2>1
  <1>5. CASE OpenTransfer
    <2> DEFINE slots == IF net = NoNet THEN [l \in Lanes |-> IdleSlot] ELSE net
    <2>1. slots \in [Lanes -> Slot]
      BY <1>1
    <2>2. /\ Opening
          /\ \/ net' = slots
             \/ net' = [slots EXCEPT ![w.lane] = SetupError(NewFd)]
             \/ net' = [slots EXCEPT ![w.lane] = StartSlot(NewFd)]
      BY <1>5 DEF OpenTransfer, Missed
    <2>3. NewFd \in Fds
      BY <2>2, NewFdFacts DEF WorkInv, Serving, Opening
    <2>4. SetupError(NewFd) \in Slot /\ StartSlot(NewFd) \in Slot
      BY <2>3 DEF SetupError, StartSlot, IdleSlot, Slot, Codes, Kinds
    <2> HIDE DEF slots
    <2> QED BY <1>1, <2>1, <2>2, <2>4
  <1>6. CASE Leave \/ Crash
    BY <1>6, RestartFacts
  <1> QED BY <1>1, <1>2, <1>3, <1>4, <1>5, <1>6, NetKept

\* The temporary files.
LEMMA TempsType ==
    ASSUME WorkInv, Next
    PROVE  temps' \in SUBSET Temp /\ IsFiniteSet(temps')
  <1>1. temps \in SUBSET Temp /\ IsFiniteSet(temps)
    BY DEF WorkInv, TypeInv
  <1>2. ASSUME NEW ts \in SUBSET temps
        PROVE  ts \in SUBSET Temp /\ IsFiniteSet(ts)
    BY <1>1, FS_Subset
  <1>3. CASE \/ \E gone \in SUBSET Lanes : Turn(gone)
             \/ Deliver \/ Abandon
    <2>1. \E rs : temps' = Unlinked(temps, rs)
      BY <1>3 DEF Turn, Deliver, Delivered, Abandon
    <2>2. temps' \in SUBSET temps
      BY <2>1 DEF Unlinked
    <2> QED BY <1>2, <2>2
  <1>4. CASE Start \/ Save
    <2>1. temps' \in SUBSET temps
      BY <1>4 DEF Start, Save
    <2> QED BY <1>2, <2>1
  <1>5. CASE Poll
    <2>1. CASE net = NoNet
      BY <1>1, <1>5, <2>1 DEF Poll
    <2>2. CASE net # NoNet
      <3>1. PICK first \in Outcomes(net[0]), second \in Outcomes(net[1]) :
               temps' = Written([l \in Lanes |-> IF l = 0 THEN first ELSE second])
        BY <1>5, <2>2 DEF Poll
      <3>2. net[0] \in Slot /\ net[1] \in Slot
        BY <2>2 DEF WorkInv, TypeInv, Lanes
      <3> DEFINE o == [l \in Lanes |-> IF l = 0 THEN first ELSE second]
      <3>3. \A l \in Lanes : o[l].content \in {"same", "broken", "whole"}
        BY <3>2, OutcomeFacts
      <3> HIDE DEF o
      <3>4. Written(o) \in SUBSET Temp /\ IsFiniteSet(Written(o))
        BY <3>3, WrittenFacts DEF WorkInv
      <3> QED BY <3>1, <3>4 DEF o
    <2> QED BY <2>1, <2>2
  <1>6. CASE OpenTransfer
    <2>1. \/ temps' = temps
          \/ temps' = temps \cup {[name |-> NewName, content |-> "none"]}
      BY <1>6 DEF OpenTransfer
    <2>2. [name |-> NewName, content |-> "none"] \in Temp
      BY NewNameFacts DEF WorkInv, Temp
    <2> DEFINE x == [name |-> NewName, content |-> "none"]
    <2> HIDE DEF x
    <2>3. IsFiniteSet(temps \cup {x})
      BY <1>1, FS_AddElement
    <2> QED BY <1>1, <2>1, <2>2, <2>3 DEF x
  <1> QED BY <1>1, <1>3, <1>4, <1>5, <1>6, TempsKept

\* The steps that open a request without a file in the cache remove what is
\* under its key.
LEMMA MissedFiles ==
    ASSUME Next, OpenOffline \/ OpenDenied \/ OpenTransfer
    PROVE  Opening /\ files' = Without(files, {Asked})
  <1>1. \E unread \in BOOLEAN : Missed(unread)
    BY DEF OpenOffline, OpenDenied, OpenTransfer, MayFail
  <1> QED BY <1>1 DEF Missed

\* What an install and its accounting leave on disk.
LEMMA SaveFacts ==
    ASSUME WorkInv, Save, temps' \in SUBSET temps
    PROVE  \E placed \in Seq(File), bytes \in Nat, failed \in BOOLEAN :
              /\ bytes >= 1
              /\ Len(placed) <= Len(files) + 1
              /\ \A j \in 1..Len(placed) :
                    \/ placed[j].key = active[w.lane].key
                    \/ \E i \in 1..Len(files) : placed[j] = files[i]
              /\ Downloaded(placed, temps', bytes, failed)
  <1> DEFINE k == active[w.lane].key
             bytes == IF k \in Sized THEN 1 ELSE Cap
  <1>1. k \in Keys /\ files \in Seq(File)
    BY DEF WorkInv, TypeInv, Save, Decoded, Done, Request, Local
  <1>2. PICK placed : /\ placed = files \/ placed = Installed(k)
                      /\ \E failed \in BOOLEAN :
                            Downloaded(placed, temps', bytes, failed)
    <2>1. PICK fault : Downloaded(IF fault = "stuck" THEN files
                                  ELSE Installed(k),
                                  temps', bytes, fault = "scan")
      BY DEF Save
    <2> DEFINE placed == IF fault = "stuck" THEN files ELSE Installed(k)
               failed == fault = "scan"
    <2>2. /\ failed \in BOOLEAN
          /\ placed = files \/ placed = Installed(k)
          /\ Downloaded(placed, temps', bytes, failed)
      BY <2>1
    <2> HIDE DEF placed, failed
    <2> QED BY <2>2
  <1>3. bytes \in Nat /\ bytes >= 1
    BY MediaAssumption
  <1>4. /\ Installed(k) \in Seq(File) /\ Len(Installed(k)) <= Len(files) + 1
        /\ \A j \in 1..Len(Installed(k)) :
              \/ Installed(k)[j].key = k
              \/ \E i \in 1..Len(files) : Installed(k)[j] = files[i]
    BY <1>1, InstalledFacts
  <1>5. /\ placed \in Seq(File) /\ Len(placed) <= Len(files) + 1
        /\ \A j \in 1..Len(placed) :
              \/ placed[j].key = k
              \/ \E i \in 1..Len(files) : placed[j] = files[i]
    <2>1. CASE placed = files
      BY <1>1, <2>1
    <2>2. CASE placed = Installed(k)
      BY <1>4, <2>2
    <2> QED BY <1>2, <2>1, <2>2
  <1> HIDE DEF bytes, k
  <1>6. \E b \in Nat, x \in BOOLEAN : /\ b >= 1 /\ Downloaded(placed, temps', b, x)
    BY <1>2, <1>3
  <1> QED BY <1>5, <1>6 DEF k

\* downloaded counts the new file or scans the directory.
LEMMA DownloadedFacts ==
    ASSUME usage \in Usage, NEW fs \in Seq(File), NEW ts, IsFiniteSet(ts),
           NEW bytes \in Nat, NEW failed \in BOOLEAN,
           Downloaded(fs, ts, bytes, failed)
    PROVE  /\ files' \in Seq(File) /\ usage' \in Usage
           /\ \A j \in 1..Len(files') :
                 \E i \in 1..Len(fs) : files'[j] = fs[i]
           /\ \/ /\ usage.known /\ files' = fs
                 /\ usage'.bytes = usage.bytes + bytes
                 /\ usage'.entries = usage.entries + 1
                 /\ usage'.bytes <= Bytes /\ usage'.entries <= Entries
              \/ usage'.known => /\ Len(files') + TempBytes(ts) <= usage'.bytes
                                 /\ usage'.bytes <= Bytes
                                 /\ Len(files') <= usage'.entries
                                 /\ usage'.entries <= Entries
  <1> DEFINE counted == [usage EXCEPT !.bytes = @ + bytes, !.entries = @ + 1]
  <1>1. /\ counted \in Usage
        /\ counted.bytes = usage.bytes + bytes
        /\ counted.entries = usage.entries + 1
    <2>1. /\ usage \in [known: BOOLEAN, bytes: Nat, entries: Nat]
          /\ usage.bytes + bytes \in Nat /\ usage.entries + 1 \in Nat
      BY DEF Usage
    <2> QED BY <2>1 DEF Usage
  <1>2. \/ /\ usage.known /\ counted.bytes <= Bytes /\ counted.entries <= Entries
           /\ files' = fs /\ usage' = counted
        \/ TrimDisk(fs, ts, failed)
    BY DEF Downloaded
  <1> HIDE DEF counted
  <1>3. CASE TrimDisk(fs, ts, failed)
    <2>1. /\ files' \in Seq(File) /\ usage' \in Usage
          /\ \A j \in 1..Len(files') :
                \E i \in 1..Len(fs) : files'[j] = fs[i]
          /\ usage'.known =>
                /\ Len(files') + TempBytes(ts) <= usage'.bytes
                /\ usage'.bytes <= Bytes
                /\ Len(files') <= usage'.entries
                /\ usage'.entries <= Entries
      BY <1>3, TrimDiskFacts
    <2> QED BY <2>1
  <1> QED BY <1>1, <1>2, <1>3

\* A power cut takes nothing from a file that was synced.
LEMMA SyncedFile ==
    ASSUME NEW f \in File
    PROVE  [f EXCEPT !.whole = @ /\ f.synced] = f
  <1>1. f.whole = TRUE /\ f.synced = TRUE
    BY DEF File
  <1>2. (f.whole /\ f.synced) = f.whole
    BY <1>1
  <1>3. [f EXCEPT !.whole = f.whole] = f
    BY DEF File
  <1> QED BY <1>2, <1>3, Zenon

\* The accounting after a restart is typed.
LEMMA UnknownUsage == Unknown \in Usage
  <1> QED BY DEF Unknown, Usage

\* Where the keys on disk come from, and which steps may add one.
LEMMA DiskFacts ==
    ASSUME WorkInv, Next
    PROVE  /\ files' \in Seq(File) /\ usage' \in Usage
           /\ \A j \in 1..Len(files') :
                 \/ \E i \in 1..Len(files) : files'[j].key = files[i].key
                 \/ Save /\ files'[j].key = active[w.lane].key
           /\ Len(files') <= Len(files) \/ Start \/ Save
  <1> DEFINE Kept == \A j \in 1..Len(files') :
                        \E i \in 1..Len(files) : files'[j] = files[i]
  <1>1. /\ files \in Seq(File) /\ usage \in Usage
        /\ temps' \in SUBSET Temp /\ IsFiniteSet(temps')
    BY TempsType DEF WorkInv, TypeInv
  <1>2. ASSUME files' = files
        PROVE  files' \in Seq(File) /\ Kept /\ Len(files') <= Len(files)
    BY <1>1, <1>2
  <1>3. ASSUME NEW keys, files' = Without(files, keys)
        PROVE  files' \in Seq(File) /\ Kept /\ Len(files') <= Len(files)
    <2> DEFINE o == Without(files, keys)
    <2>1. /\ o \in Seq(File)
          /\ Len(o) <= Len(files)
          /\ \A j \in 1..Len(o) : \E i \in 1..Len(files) :
                o[j] = files[i] /\ files[i].key \notin keys
          /\ \A i \in 1..Len(files) :
                files[i].key \in keys => Len(o) < Len(files)
      BY <1>1, WithoutFacts
    <2> HIDE DEF o
    <2>2. files' = o
      BY <1>3 DEF o
    <2> QED BY <2>1, <2>2
  <1>4. CASE Start
    <2>1. PICK failed \in BOOLEAN : TrimDisk(files, temps', failed)
      BY <1>4 DEF Start, MayFail
    <2>2. files' \in Seq(File) /\ usage' \in Usage /\ Kept
      BY <1>1, <2>1, TrimDiskFacts
    <2> QED BY <1>4, <2>2
  <1>5. CASE Poll
    <2>1. files' = files \/ files' = Without(files, Avatars)
      BY <1>5 DEF Poll, ClearAvatars
    <2>2. usage' = usage
      BY <1>5 DEF Poll
    <2> QED BY <1>1, <1>2, <1>3, <2>1, <2>2
  <1>6. CASE Save
    <2>1. temps' \in SUBSET temps
      BY <1>6 DEF Save
    <2>2. PICK placed \in Seq(File), bytes \in Nat, failed \in BOOLEAN :
             /\ \A j \in 1..Len(placed) :
                   \/ placed[j].key = active[w.lane].key
                   \/ \E i \in 1..Len(files) : placed[j] = files[i]
             /\ Downloaded(placed, temps', bytes, failed)
      BY <1>6, <2>1, SaveFacts
    <2>3. /\ files' \in Seq(File) /\ usage' \in Usage
          /\ \A j \in 1..Len(files') :
                \E i \in 1..Len(placed) : files'[j] = placed[i]
      BY <1>1, <2>2, DownloadedFacts
    <2> QED BY <1>6, <2>2, <2>3
  <1>7. CASE OpenCached
    <2>1. PICK i \in 1..Len(files) :
             /\ files[i].key = Asked
             /\ files' = Append(Without(files, {Asked}), files[i])
      BY <1>1, <1>7 DEF OpenCached
    <2> DEFINE o == Without(files, {Asked})
    <2>2. /\ o \in Seq(File)
          /\ Len(o) <= Len(files)
          /\ \A j \in 1..Len(o) : \E k \in 1..Len(files) :
                o[j] = files[k] /\ files[k].key \notin {Asked}
          /\ \A k \in 1..Len(files) :
                files[k].key \in {Asked} => Len(o) < Len(files)
      BY <1>1, WithoutFacts
    <2>3. files' = Append(o, files[i])
      BY <2>1
    <2> HIDE DEF o
    <2>4. files[i] \in File
      BY <1>1
    <2>5. files' \in Seq(File) /\ Len(files') = Len(o) + 1
      BY <2>2, <2>3, <2>4
    <2>6. Len(o) < Len(files)
      BY <2>1, <2>2
    <2>7. \A j \in 1..(Len(o) + 1) :
             files'[j] = IF j = Len(o) + 1 THEN files[i] ELSE o[j]
      BY <2>2, <2>3, <2>4
    <2>8. Len(o) \in Nat /\ Len(files) \in Nat
      BY <1>1, <2>2
    <2>9. ASSUME NEW j \in 1..Len(files')
          PROVE  \E k \in 1..Len(files) : files'[j] = files[k]
      <3>1. CASE j = Len(o) + 1
        BY <2>5, <2>7, <2>8, <3>1
      <3>2. CASE j # Len(o) + 1
        <4>1. j \in 1..Len(o) /\ files'[j] = o[j]
          BY <2>5, <2>7, <2>8, <3>2
        <4> QED BY <2>2, <4>1
      <3> QED BY <3>1, <3>2
    <2>10. Len(files') <= Len(files)
      BY <2>5, <2>6, <2>8
    <2>11. usage' = usage
      BY <1>7 DEF OpenCached
    <2> QED BY <1>1, <2>5, <2>9, <2>10, <2>11
  <1>8. CASE OpenOffline \/ OpenDenied \/ OpenTransfer
    <2>1. files' = Without(files, {Asked})
      BY <1>8, MissedFiles
    <2>2. usage' = usage
      BY <1>8 DEF OpenOffline, OpenDenied, OpenTransfer
    <2> QED BY <1>1, <1>3, <2>1, <2>2
  <1>9. CASE Crash
    <2>1. files' = [i \in 1..Len(files) |->
                       [files[i] EXCEPT !.whole = @ /\ files[i].synced]]
      BY <1>1, <1>9 DEF Crash
    <2>2. \A i \in 1..Len(files) :
             [files[i] EXCEPT !.whole = @ /\ files[i].synced] = files[i]
      BY <1>1, SyncedFile
    <2>3. files' = files
      BY <1>1, <2>1, <2>2
    <2>4. usage' \in Usage
      BY <1>9, RestartFacts, UnknownUsage
    <2> QED BY <1>2, <2>3, <2>4
  <1>10. CASE UNCHANGED files /\ ~Start /\ ~Save /\ ~Crash
    <2>1. UNCHANGED usage \/ Leave
      BY <1>10, UsageKept
    <2>2. usage' \in Usage
      BY <1>1, <2>1, RestartFacts, UnknownUsage
    <2> QED BY <1>2, <1>10, <2>2
  <1> QED BY <1>4, <1>5, <1>6, <1>7, <1>8, <1>9, <1>10, FilesKept

\* All types together.
LEMMA TypeStep ==
    ASSUME WorkInv, Next
    PROVE  TypeInv'
  <1> QED BY GuiType, QueueType, LanesType, AnswersType, WorkerType, NetType,
             TempsType, DiskFacts DEF TypeInv
-----------------------------------------------------------------------------
(* A transfer writes into the file of its own lane.                         *)

\* The interface touches neither lanes, transport, worker nor directory.
LEMMA InterfaceKept ==
    ASSUME \/ \E line, permission \in BOOLEAN : Context(line, permission)
           \/ \E k \in Keys : Ask(k)
           \/ Take \/ Release \/ Shutdown
    PROVE  UNCHANGED <<active, w, net, files, temps, usage>>
  <1> QED BY DEF Context, Ask, Take, Release, Shutdown

\* Where the worker stands after a step of its own, and who destroys what.
LEMMA PcFacts ==
    ASSUME WorkInv
    PROVE  /\ Start => w'.pc = "turn"
           /\ \A gone : Turn(gone) => w'.pc = "poll" /\ w'.lane = 0
           /\ Poll => w'.pc \in {"turn", "lane"}
           /\ NextLane => w'.pc \in {"turn", "lane"}
           /\ Overtaken \/ Deliver => w'.pc = "turn"
           /\ Abandon => w'.pc = "exit"
           /\ Leave \/ Crash => w'.pc = "start"
           /\ Dequeue => w'.pc = "open" /\ w'.lane = w.lane
           /\ Save \/ Refuse => w'.pc = "deliver" /\ w'.lane = w.lane
           /\ \A state : AnswerWith(state) =>
                 w'.pc = "deliver" /\ w'.lane = w.lane
  <1>1. w \in Local
    BY DEF WorkInv, TypeInv
  <1> USE <1>1 DEF Local
  <1>2. Start => w'.pc = "turn"
    BY DEF Start
  <1>3. ASSUME NEW gone, Turn(gone)
        PROVE  w'.pc = "poll" /\ w'.lane = 0
    BY <1>3 DEF Turn
  <1>4. /\ Poll => w'.pc \in {"turn", "lane"}
        /\ NextLane => w'.pc \in {"turn", "lane"}
    <2>1. Rested.pc = "turn"
      BY DEF Rested, Fresh
    <2>2. /\ [w EXCEPT !.pc = "lane", !.evict = FALSE].pc = "lane"
          /\ [w EXCEPT !.pc = "lane", !.lane = 1].pc = "lane"
      OBVIOUS
    <2>3. Poll => \/ w' = Rested
                  \/ w' = [w EXCEPT !.pc = "lane", !.evict = FALSE]
      BY DEF Poll
    <2>4. NextLane => \/ w' = Rested
                      \/ w' = [w EXCEPT !.pc = "lane", !.lane = 1]
      BY DEF NextLane
    <2> QED BY <2>1, <2>2, <2>3, <2>4
  <1>5. Overtaken \/ Deliver => w'.pc = "turn"
    BY DEF Overtaken, Deliver, Delivered, Rested, Fresh
  <1>6. Leave \/ Crash => w'.pc = "start"
    <2>1. Leave \/ Crash => w' = Fresh("start", 0)
      BY RestartFacts
    <2> QED BY <2>1 DEF Fresh
  <1>7. Dequeue => w'.pc = "open" /\ w'.lane = w.lane
    BY DEF Dequeue
  <1>8. Save \/ Refuse => w'.pc = "deliver" /\ w'.lane = w.lane
    <2>1. \A s : /\ [w EXCEPT !.pc = "deliver", !.state = s].pc = "deliver"
                 /\ [w EXCEPT !.pc = "deliver", !.state = s].lane = w.lane
      OBVIOUS
    <2>2. Save => \E s : w' = [w EXCEPT !.pc = "deliver", !.state = s]
      BY DEF Save
    <2>3. Refuse => \E s : w' = [w EXCEPT !.pc = "deliver", !.state = s]
      BY DEF Refuse
    <2> QED BY <2>1, <2>2, <2>3
  <1>9. \A state : AnswerWith(state) => w'.pc = "deliver" /\ w'.lane = w.lane
    BY DEF AnswerWith
  <1>10. Abandon => w'.pc = "exit"
    BY DEF Abandon
  <1> QED BY <1>2, <1>3, <1>4, <1>5, <1>6, <1>7, <1>8, <1>9, <1>10

\* What a started transfer does to the lanes and the transport.
LEMMA TransferFacts ==
    ASSUME WorkInv, Next, OpenTransfer
    PROVE  /\ Opening /\ w.lane \in Lanes /\ active[w.lane] # NoRequest
           /\ \/ active' = active
              \/ active' = [active EXCEPT ![w.lane] =
                    [active[w.lane] EXCEPT !.fd = NewFd, !.temp = NewName]]
           /\ net' # NoNet => \A l \in Lanes :
                 \/ l = w.lane /\ active' # active /\ net'[l].fd = NewFd
                 \/ net # NoNet /\ net'[l] = net[l]
                 \/ ~net'[l].easy
           /\ w'.pc \in {"turn", "lane"} \/ ~(net'[w.lane].easy)
           /\ NextLane \/ AnswerWith("failed")
  <1> DEFINE slots == IF net = NoNet THEN [l \in Lanes |-> IdleSlot] ELSE net
             opened == [active[w.lane] EXCEPT !.fd = NewFd, !.temp = NewName]
  <1>1. /\ Opening /\ w.lane \in Lanes /\ active[w.lane] # NoRequest
        /\ active[w.lane].fd = 0
        /\ net # NoNet => ~net[w.lane].easy
    BY MissedFiles DEF WorkInv, TypeInv, Local, Serving, Opening
  <1>2. active[w.lane] \in Request /\ NewFd \in Fds
    BY <1>1, NewFdFacts DEF WorkInv, TypeInv
  <1>3. opened.fd = NewFd /\ opened # active[w.lane]
    <2>1. NewFd # 0 /\ opened.fd = NewFd
      BY <1>2 DEF Fds, Request
    <2> QED BY <1>1, <2>1
  <1>4. /\ ~slots[w.lane].easy
        /\ \A l \in Lanes : (net # NoNet /\ slots[l] = net[l]) \/ ~slots[l].easy
        /\ slots \in [Lanes -> Slot]
    BY <1>1 DEF IdleSlot, Slot, WorkInv, TypeInv, Codes, Kinds
  <1>5. SetupError(NewFd).fd = NewFd /\ StartSlot(NewFd).fd = NewFd
    BY DEF SetupError, StartSlot, IdleSlot
  <1>6. \/ /\ active' = active \/ active' = [active EXCEPT ![w.lane] = opened]
           /\ net' = slots
           /\ AnswerWith("failed")
        \/ /\ active' = [active EXCEPT ![w.lane] = opened]
           /\ \/ net' = [slots EXCEPT ![w.lane] = SetupError(NewFd)]
              \/ net' = [slots EXCEPT ![w.lane] = StartSlot(NewFd)]
           /\ NextLane
    <2> HIDE DEF opened, slots
    <2> QED BY <1>4 DEF OpenTransfer, opened, slots
  <1>7. active' = [active EXCEPT ![w.lane] = opened] => active' # active
    <2>1. active \in [Lanes -> Request \cup {NoRequest}]
      BY DEF WorkInv, TypeInv
    <2> HIDE DEF opened
    <2> QED BY <1>1, <1>3, <2>1
  <1> HIDE DEF slots, opened
  <1>8. NextLane => w'.pc \in {"turn", "lane"}
    BY PcFacts
  <1>9. CASE /\ active' = active \/ active' = [active EXCEPT ![w.lane] = opened]
             /\ net' = slots
             /\ AnswerWith("failed")
    BY <1>1, <1>4, <1>9 DEF opened
  <1>10. CASE /\ active' = [active EXCEPT ![w.lane] = opened]
              /\ \/ net' = [slots EXCEPT ![w.lane] = SetupError(NewFd)]
                 \/ net' = [slots EXCEPT ![w.lane] = StartSlot(NewFd)]
              /\ NextLane
    <2>1. \A l \in Lanes : \/ l = w.lane /\ net'[l].fd = NewFd
                           \/ net'[l] = slots[l]
      BY <1>1, <1>4, <1>5, <1>10
    <2> QED BY <1>1, <1>4, <1>7, <1>8, <1>10, <2>1 DEF opened
  <1> QED BY <1>6, <1>9, <1>10

\* Between two tests of the mutex the worker keeps the lane it works on free of
\* a running transfer.
LEMMA ServingStep ==
    ASSUME WorkInv, Next
    PROVE  Serving'
  <1>1. CASE \/ \E line, permission \in BOOLEAN : Context(line, permission)
             \/ \E k \in Keys : Ask(k)
             \/ Take \/ Release \/ Shutdown
    <2>1. UNCHANGED <<active, w, net>>
      BY <1>1, InterfaceKept
    <2> QED BY <2>1 DEF WorkInv, Serving
  <1>2. ASSUME w'.pc \notin {"open", "deliver"}
        PROVE  Serving'
    BY <1>2 DEF Serving
  <1>3. CASE \/ Start \/ \E gone \in SUBSET Lanes : Turn(gone)
             \/ Poll \/ Overtaken \/ Deliver \/ Abandon \/ Leave \/ Crash
    BY <1>2, <1>3, PcFacts
  <1>4. CASE Pass
    <2>1. NextLane
      BY <1>4 DEF Pass
    <2> QED BY <1>2, <2>1, PcFacts
  <1>5. CASE Dequeue
    <2>1. /\ w.pc = "lane" /\ w'.pc = "open" /\ w'.lane = w.lane
          /\ active[w.lane] = NoRequest /\ net' = net
          /\ active' = [active EXCEPT ![w.lane] = Head(queue)]
          /\ w.lane \in Lanes
          /\ Head(queue) \in Queued
      BY <1>5, PcFacts DEF Dequeue, WorkInv, TypeInv, Local
    <2>2. /\ Head(queue) \in Request /\ Head(queue) # NoRequest
          /\ Head(queue).fd = 0 /\ Head(queue).temp = 0
      BY <2>1, MediaAssumption DEF Queued, Request
    <2>3. active'[w.lane] = Head(queue)
      BY <2>1 DEF WorkInv, TypeInv
    <2>4. net # NoNet => ~net[w.lane].easy
      BY <2>1 DEF WorkInv, SlotOwnsFile
    <2> QED BY <2>1, <2>2, <2>3, <2>4 DEF Serving
  <1>6. CASE Save \/ Refuse
    <2>1. /\ w'.pc = "deliver" /\ w'.lane = w.lane
          /\ active' = active /\ active[w.lane] # NoRequest
          /\ net # NoNet /\ net' = [net EXCEPT ![w.lane] = IdleSlot]
          /\ w.lane \in Lanes
      BY <1>6, PcFacts DEF Save, Refuse, Decoded, Done, WorkInv, TypeInv, Local
    <2>2. ~net'[w.lane].easy
      BY <2>1 DEF IdleSlot, WorkInv, TypeInv
    <2> QED BY <2>1, <2>2 DEF Serving
  <1>7. CASE OpenLocal \/ OpenCached \/ OpenOffline \/ OpenDenied
    <2>1. /\ UNCHANGED <<active, net>> /\ Opening
          /\ \E state : AnswerWith(state)
      BY <1>7, MissedFiles
         DEF OpenLocal, OpenCached, OpenOffline, OpenDenied
    <2>2. w'.pc = "deliver" /\ w'.lane = w.lane
      BY <2>1, PcFacts
    <2> QED BY <2>1, <2>2 DEF WorkInv, Serving, Opening
  <1>8. CASE OpenTransfer
    <2>1. /\ w.lane \in Lanes /\ active[w.lane] # NoRequest
          /\ \/ active' = active
             \/ active' = [active EXCEPT ![w.lane] =
                   [active[w.lane] EXCEPT !.fd = NewFd, !.temp = NewName]]
          /\ w'.pc \in {"turn", "lane"} \/ ~(net'[w.lane].easy)
          /\ NextLane \/ AnswerWith("failed")
      BY <1>8, TransferFacts
    <2>2. CASE NextLane
      BY <1>2, <2>2, PcFacts
    <2>3. CASE AnswerWith("failed")
      <3>1. w'.pc = "deliver" /\ w'.lane = w.lane
        BY <2>3, PcFacts
      <3>2. active'[w.lane] \in Request
        <4> DEFINE opened == [active[w.lane] EXCEPT !.fd = NewFd,
                                                    !.temp = NewName]
        <4>1. active[w.lane] \in Request /\ active \in [Lanes -> Request \cup {NoRequest}]
          BY <2>1 DEF WorkInv, TypeInv
        <4>2. NewFd \in Fds /\ NewName \in Nat
          BY <1>8, MissedFiles, NewFdFacts, NewNameFacts
             DEF WorkInv, Serving, Opening
        <4>3. opened \in Request
          BY <4>1, <4>2 DEF Request
        <4> HIDE DEF opened
        <4> QED BY <2>1, <4>1, <4>3 DEF opened
      <3>3. active'[w.lane] # NoRequest
        BY <3>2, MediaAssumption
      <3> QED BY <2>1, <3>1, <3>3 DEF Serving
    <2> QED BY <2>1, <2>2, <2>3
  <1> QED BY <1>1, <1>3, <1>4, <1>5, <1>6, <1>7, <1>8 DEF Next, Worker

\* The worker is past its loop only between Abandon and the restart.
LEMMA ExitFacts ==
    ASSUME WorkInv, Next
    PROVE  \/ UNCHANGED <<active, w, net>>
           \/ Abandon \/ Leave \/ Crash
           \/ w.pc # "exit" /\ w'.pc # "exit"
  <1>1. CASE \/ \E line, permission \in BOOLEAN : Context(line, permission)
             \/ \E k \in Keys : Ask(k)
             \/ Take \/ Release \/ Shutdown
    BY <1>1, InterfaceKept
  <1>2. CASE \/ Start \/ \E gone \in SUBSET Lanes : Turn(gone)
             \/ Poll \/ Overtaken \/ Deliver \/ Dequeue \/ Save \/ Refuse
    <2>1. w'.pc # "exit"
      BY <1>2, PcFacts
    <2>2. w.pc # "exit"
      BY <1>2 DEF Start, Turn, Poll, Overtaken, Deliver, Delivered, Dequeue,
                  Save, Refuse, Decoded, Done
    <2> QED BY <2>1, <2>2
  <1>3. CASE Pass
    <2>1. NextLane /\ w.pc # "exit"
      BY <1>3 DEF Pass
    <2> QED BY <2>1, PcFacts
  <1>4. CASE OpenLocal \/ OpenCached \/ OpenOffline \/ OpenDenied
             \/ OpenTransfer
    <2>1. NextLane \/ \E state : AnswerWith(state)
      BY <1>4 DEF OpenLocal, OpenCached, OpenOffline, OpenDenied, OpenTransfer
    <2>2. Opening
      BY <1>4, MissedFiles DEF OpenLocal, OpenCached
    <2> QED BY <2>1, <2>2, PcFacts DEF Opening
  <1> QED BY <1>1, <1>2, <1>3, <1>4 DEF Next, Worker

\* No step of a running worker lets a transfer outlive the request whose file it
\* writes.
LEMMA SlotKept ==
    ASSUME WorkInv, Next, ~Abandon, w.pc # "exit", NEW l \in Lanes,
           net' # NoNet, net'[l].easy
    PROVE  active'[l] # NoRequest /\ net'[l].fd = active'[l].fd
  <1>1. /\ active \in [Lanes -> Request \cup {NoRequest}]
        /\ net = NoNet \/ net \in [Lanes -> Slot]
        /\ w.lane \in Lanes
    BY DEF WorkInv, TypeInv, Local
  <1>2. net' # NoNet /\ net'[l].easy
    OBVIOUS
  <1>3. ASSUME net # NoNet, net[l].easy
        PROVE  active[l] # NoRequest /\ net[l].fd = active[l].fd
    BY <1>3 DEF WorkInv, SlotOwnsFile
  <1>4. CASE UNCHANGED <<active, net>>
    BY <1>2, <1>3, <1>4
  <1>5. ASSUME NEW gone \in SUBSET Lanes, Turn(gone)
        PROVE  active'[l] # NoRequest /\ net'[l].fd = active'[l].fd
    <2>1. /\ net # NoNet /\ w.net_generation = generation
          /\ net' = [m \in Lanes |-> IF m \in gone THEN IdleSlot ELSE net[m]]
      BY <1>2, <1>5 DEF Turn
    <2>2. l \notin gone /\ net'[l] = net[l]
      BY <1>2, <2>1 DEF IdleSlot
    <2>3. active'[l] = active[l]
      BY <1>5, <2>1, <2>2 DEF Turn
    <2> QED BY <1>2, <1>3, <2>1, <2>2, <2>3
  <1>6. CASE Poll
    <2>1. CASE net = NoNet
      BY <1>2, <1>6, <2>1 DEF Poll
    <2>2. CASE net # NoNet
      <3>1. PICK first \in Outcomes(net[0]), second \in Outcomes(net[1]) :
               net' = [m \in Lanes |-> (IF m = 0 THEN first ELSE second).slot]
        BY <1>6, <2>2 DEF Poll
      <3>2. net[0] \in Slot /\ net[1] \in Slot /\ l \in {0, 1}
        BY <1>1, <2>2 DEF Lanes
      <3>3. /\ first.slot.easy = net[0].easy /\ first.slot.fd = net[0].fd
            /\ second.slot.easy = net[1].easy /\ second.slot.fd = net[1].fd
        BY <3>2, OutcomeFacts
      <3>4. net'[l].easy = net[l].easy /\ net'[l].fd = net[l].fd
        BY <3>1, <3>2, <3>3
      <3>5. active' = active
        BY <1>6 DEF Poll
      <3> QED BY <1>2, <1>3, <2>2, <3>4, <3>5
    <2> QED BY <2>1, <2>2
  <1>7. CASE Save \/ Refuse
    <2>1. /\ active' = active /\ net # NoNet
          /\ net' = [net EXCEPT ![w.lane] = IdleSlot]
      BY <1>7 DEF Save, Refuse, Decoded, Done
    <2>2. l # w.lane
      BY <1>1, <1>2, <2>1 DEF IdleSlot
    <2>3. net'[l] = net[l]
      BY <1>1, <2>1, <2>2
    <2> QED BY <1>2, <1>3, <2>1, <2>3
  <1>8. CASE Dequeue
    <2>1. /\ net' = net /\ active[w.lane] = NoRequest
          /\ active' = [active EXCEPT ![w.lane] = Head(queue)]
      BY <1>8 DEF Dequeue
    <2>2. l # w.lane
      BY <1>2, <1>3, <2>1
    <2> QED BY <1>1, <1>2, <1>3, <2>1, <2>2
  <1>9. CASE OpenTransfer
    <2> DEFINE opened == [active[w.lane] EXCEPT !.fd = NewFd, !.temp = NewName]
    <2>1. /\ active' = active \/ active' = [active EXCEPT ![w.lane] = opened]
          /\ \/ l = w.lane /\ active' # active /\ net'[l].fd = NewFd
             \/ net # NoNet /\ net'[l] = net[l]
          /\ Opening /\ active[w.lane] # NoRequest
      BY <1>2, <1>9, TransferFacts
    <2>2. /\ active[w.lane] \in Request
          /\ NewFd \in Fds /\ NewName \in Nat
      BY <1>1, <2>1, NewFdFacts, NewNameFacts DEF WorkInv, Serving, Opening
    <2>3. opened \in Request /\ opened.fd = NewFd
      BY <2>2 DEF Request
    <2>4. opened # NoRequest
      BY <2>3, MediaAssumption
    <2> HIDE DEF opened
    <2>5. CASE l = w.lane /\ active' # active /\ net'[l].fd = NewFd
      BY <1>1, <2>1, <2>3, <2>4, <2>5
    <2>6. CASE net # NoNet /\ net'[l] = net[l]
      <3>1. active[l] # NoRequest /\ net[l].fd = active[l].fd
        BY <1>2, <1>3, <2>6
      <3>2. l # w.lane
        <4>1. ~net[w.lane].easy
          BY <2>1, <2>6 DEF WorkInv, Serving, Opening
        <4> QED BY <1>2, <2>6, <4>1
      <3> QED BY <1>1, <2>1, <2>6, <3>1, <3>2
    <2> QED BY <2>1, <2>5, <2>6
  <1>10. CASE Deliver
    <2>1. /\ net' = net /\ w.pc = "deliver"
          /\ active' = [active EXCEPT ![w.lane] = NoRequest]
      BY <1>10 DEF Deliver, Delivered
    <2>2. l # w.lane
      BY <1>2, <2>1 DEF WorkInv, Serving
    <2> QED BY <1>1, <1>2, <1>3, <2>1, <2>2
  <1>11. ~(Leave \/ Crash)
    BY <1>2, RestartFacts
  <1> QED BY <1>4, <1>5, <1>6, <1>7, <1>8, <1>9, <1>10, <1>11, LanesKept,
             NetKept

\* When the worker leaves its loop no request is left in a lane, whatever the
\* transport still holds.
LEMMA SlotStep ==
    ASSUME WorkInv, Next
    PROVE  SlotOwnsFile'
  <1>1. CASE UNCHANGED <<active, w, net>>
    BY <1>1 DEF WorkInv, SlotOwnsFile
  <1>2. CASE Abandon
    <2>1. \A l \in Lanes : active'[l] = NoRequest
      BY <1>2 DEF Abandon
    <2>2. w'.pc = "exit"
      BY <1>2, PcFacts
    <2> QED BY <2>1, <2>2 DEF SlotOwnsFile
  <1>3. CASE Leave \/ Crash
    BY <1>3, RestartFacts DEF SlotOwnsFile
  <1>4. CASE ~Abandon /\ w.pc # "exit" /\ w'.pc # "exit"
    BY <1>4, SlotKept DEF SlotOwnsFile
  <1> QED BY <1>1, <1>2, <1>3, <1>4, ExitFacts

\* It holds in the initial state.
LEMMA WorkInit == Init => WorkInv
  <1>1. SUFFICES ASSUME Init
                 PROVE  WorkInv
    OBVIOUS
  <1>2. active \in [Lanes -> Request \cup {NoRequest}]
    BY <1>1 DEF Init
  <1>3. w \in Local /\ w.pc = "start"
    BY <1>1 DEF Init, Fresh, Local, Lanes, States
  <1>4. usage \in Usage
    BY <1>1, UnknownUsage DEF Init
  <1>5. IsFiniteSet(temps) /\ temps \in SUBSET Temp
    BY <1>1, FS_EmptySet DEF Init
  <1>6. /\ generation \in Nat /\ online \in BOOLEAN /\ avatars \in BOOLEAN
        /\ evict \in BOOLEAN /\ delivering \in BOOLEAN
    BY <1>1 DEF Init
  <1>7. /\ result \in Answers \cup {NoResult} /\ hand \in Answers \cup {NoResult}
        /\ net = NoNet
    BY <1>1 DEF Init
  <1>8. queue \in Seq(Queued) /\ files \in Seq(File)
    <2>1. queue = <<>> /\ files = <<>>
      BY <1>1 DEF Init
    <2> QED BY <2>1
  <1>9. TypeInv
    BY <1>2, <1>3, <1>4, <1>5, <1>6, <1>7, <1>8 DEF TypeInv
  <1> QED BY <1>3, <1>7, <1>9 DEF WorkInv, SlotOwnsFile, Serving

\* The invariant is inductive.
LEMMA WorkStep ==
    ASSUME WorkInv, [Next]_vars
    PROVE  WorkInv'
  <1>1. CASE Next
    BY <1>1, TypeStep, ServingStep, SlotStep DEF WorkInv
  <1>2. CASE UNCHANGED vars
    BY <1>2 DEF vars, WorkInv, TypeInv, SlotOwnsFile, Serving
  <1> QED BY <1>1, <1>2

\* The invariant holds in every state.
THEOREM MediaInvariance == Spec => []WorkInv
  <1>1. WorkInv /\ [Next]_vars => WorkInv'
    BY WorkStep
  <1> QED BY WorkInit, <1>1, PTL DEF Spec

\* Media.zig and bridge.c: as long as the worker polls, a request is not
\* destroyed, and its descriptor not closed, while the transport still writes
\* through it; when it stops the requests go first, and nothing is opened after
\* them.
THEOREM OwnFile == Spec => []SlotOwnsFile
  <1>1. WorkInv => SlotOwnsFile
    BY DEF WorkInv
  <1> QED BY MediaInvariance, <1>1, PTL

\* media.c: a file is complete and synced before it gets its key, so that a
\* crash or a power cut leaves no damaged picture in the cache.
THEOREM WholeFiles == Spec => []CachedIsWhole
  <1>1. WorkInv => CachedIsWhole
    <2>1. SUFFICES ASSUME files \in Seq(File), NEW i \in DOMAIN files
                   PROVE  files[i].whole
      BY DEF WorkInv, TypeInv, CachedIsWhole
    <2>2. files[i] \in File
      BY <2>1
    <2>3. files[i].whole = TRUE
      BY <2>2 DEF File
    <2> QED BY <2>3
  <1> QED BY MediaInvariance, <1>1, PTL
-----------------------------------------------------------------------------
(* The cache keeps its budget.                                              *)

\* A file stops being an orphan, but none becomes one while the program runs.
LEMMA OrphansStep ==
    ASSUME WorkInv, Next, ~(Leave \/ Crash)
    PROVE  Orphans(temps', active') \in SUBSET Orphans(temps, active)
  <1>1. /\ active \in [Lanes -> Request \cup {NoRequest}]
        /\ w.lane \in Lanes /\ temps \in SUBSET Temp
    BY DEF WorkInv, TypeInv, Local
  <1>2. CASE UNCHANGED active /\ (Start \/ Save)
    <2>1. temps' \in SUBSET temps
      BY <1>2 DEF Start, Save
    <2> QED BY <1>2, <2>1 DEF Orphans
  <1>3. CASE UNCHANGED <<active, temps>>
    BY <1>3
  <1>4. ASSUME NEW gone \in SUBSET Lanes, Turn(gone)
        PROVE  Orphans(temps', active') \in SUBSET Orphans(temps, active)
    <2>1. PICK cancelled \in SUBSET Lanes :
             /\ active' = [l \in Lanes |-> IF l \in cancelled THEN NoRequest
                                           ELSE active[l]]
             /\ temps' = Unlinked(temps, {active[l] : l \in cancelled})
      BY <1>4 DEF Turn
    <2>2. SUFFICES ASSUME NEW t \in temps', NEW l \in Lanes,
                          active[l] # NoRequest, active[l].temp = t.name,
                          \A m \in Lanes : active'[m] # NoRequest
                                           => active'[m].temp # t.name
                   PROVE  FALSE
      BY <2>1 DEF Orphans, Unlinked
    <2>3. t.name \notin TempsOf({active[m] : m \in cancelled})
      BY <2>1, <2>2 DEF Unlinked
    <2>4. CASE l \in cancelled
      BY <2>2, <2>3, <2>4 DEF TempsOf
    <2>5. CASE l \notin cancelled
      BY <2>1, <2>2, <2>5
    <2> QED BY <2>4, <2>5
  <1>5. CASE Poll
    <2>1. CASE net = NoNet
      BY <1>5, <2>1 DEF Poll
    <2>2. CASE net # NoNet
      <3>1. PICK first \in Outcomes(net[0]), second \in Outcomes(net[1]) :
               temps' = Written([l \in Lanes |-> IF l = 0 THEN first ELSE second])
        BY <1>5, <2>2 DEF Poll
      <3>2. net[0] \in Slot /\ net[1] \in Slot
        BY <2>2 DEF WorkInv, TypeInv, Lanes
      <3> DEFINE o == [l \in Lanes |-> IF l = 0 THEN first ELSE second]
      <3>3. \A l \in Lanes : o[l].content \in {"same", "broken", "whole"}
        BY <3>2, OutcomeFacts
      <3> HIDE DEF o
      <3>4. Orphans(Written(o), active) = Orphans(temps, active)
        BY <3>3, WrittenFacts DEF WorkInv
      <3>5. active' = active /\ temps' = Written(o)
        BY <1>5, <3>1 DEF Poll, o
      <3> QED BY <3>4, <3>5
    <2> QED BY <2>1, <2>2
  <1>6. CASE Dequeue
    <2>1. /\ temps' = temps /\ active[w.lane] = NoRequest
          /\ active' = [active EXCEPT ![w.lane] = Head(queue)]
      BY <1>6 DEF Dequeue
    <2> QED BY <1>1, <2>1 DEF Orphans
  <1>7. CASE OpenTransfer
    <2> DEFINE opened == [active[w.lane] EXCEPT !.fd = NewFd, !.temp = NewName]
    <2>1. /\ Opening /\ active[w.lane] # NoRequest
          /\ active[w.lane].temp = 0
      BY <1>7, MissedFiles DEF WorkInv, Serving, Opening
    <2>2. \/ active' = active /\ temps' = temps
          \/ /\ active' = [active EXCEPT ![w.lane] = opened]
             /\ temps' = temps \cup {[name |-> NewName, content |-> "none"]}
      BY <1>7 DEF OpenTransfer
    <2>3. /\ active[w.lane] \in Request
          /\ NewName \in Nat /\ NewFd \in Fds
      BY <1>1, <2>1, NewNameFacts, NewFdFacts DEF WorkInv, Serving, Opening
    <2>4. opened \in Request /\ opened.temp = NewName
      BY <2>3 DEF Request
    <2>5. opened # NoRequest
      BY <2>4, MediaAssumption
    <2> HIDE DEF opened
    <2>6. CASE /\ active' = [active EXCEPT ![w.lane] = opened]
               /\ temps' = temps \cup {[name |-> NewName, content |-> "none"]}
      <3>1. SUFFICES ASSUME NEW t \in Orphans(temps', active')
                     PROVE  t \in Orphans(temps, active)
        OBVIOUS
      <3>2. \A l \in Lanes : active'[l] = IF l = w.lane THEN opened ELSE active[l]
        BY <1>1, <2>6
      <3>3. t.name # NewName
        BY <1>1, <2>4, <2>5, <3>1, <3>2 DEF Orphans
      <3>4. t \in temps
        BY <2>6, <3>1, <3>3 DEF Orphans
      <3>5. t.name # 0
        BY <1>1, <3>4 DEF Temp
      <3> QED BY <2>1, <3>1, <3>2, <3>4, <3>5 DEF Orphans
    <2> QED BY <2>2, <2>6
  <1>8. CASE Deliver
    <2>1. /\ temps' = Unlinked(temps, {active[w.lane]})
          /\ active' = [active EXCEPT ![w.lane] = NoRequest]
      BY <1>8 DEF Deliver, Delivered
    <2>2. SUFFICES ASSUME NEW t \in Orphans(temps', active')
                   PROVE  t \in Orphans(temps, active)
      OBVIOUS
    <2>3. t \in temps /\ t.name \notin TempsOf({active[w.lane]})
      BY <2>1, <2>2 DEF Orphans, Unlinked
    <2>4. active[w.lane] # NoRequest => active[w.lane].temp # t.name
      BY <2>3 DEF TempsOf
    <2>5. \A l \in Lanes : l # w.lane => active'[l] = active[l]
      BY <1>1, <2>1
    <2> QED BY <2>2, <2>3, <2>4, <2>5 DEF Orphans
  <1>9. Start \/ Save => UNCHANGED active
    BY DEF Start, Save
  <1>10. CASE Abandon
    <2>1. temps' = Unlinked(temps, {active[l] : l \in Lanes})
      BY <1>10 DEF Abandon
    <2>2. SUFFICES ASSUME NEW t \in Orphans(temps', active')
                   PROVE  t \in Orphans(temps, active)
      OBVIOUS
    <2>3. t \in temps /\ t.name \notin TempsOf({active[l] : l \in Lanes})
      BY <2>1, <2>2 DEF Orphans, Unlinked
    <2> QED BY <2>3 DEF Orphans, TempsOf
  <1> QED BY <1>2, <1>3, <1>4, <1>5, <1>6, <1>7, <1>8, <1>9, <1>10, LanesKept,
             TempsKept

\* The two kinds of bytes the accounting covers.
LEMMA OnDiskFacts ==
    ASSUME WorkInv
    PROVE  /\ IsFiniteSet(Orphans(temps, active))
           /\ OnDisk = Len(files) + TempBytes(Orphans(temps, active))
           /\ TempBytes(Orphans(temps, active)) \in Nat /\ Len(files) \in Nat
  <1>1. Orphans(temps, active) \in SUBSET temps
    BY DEF Orphans
  <1>2. IsFiniteSet(temps) /\ files \in Seq(File)
    BY DEF WorkInv, TypeInv
  <1>3. IsFiniteSet(Orphans(temps, active))
    BY <1>1, <1>2, FS_Subset
  <1>4. OnDisk = Len(files) + TempBytes(Orphans(temps, active))
    BY OrphansFacts DEF OnDisk
  <1>5. TempBytes(Orphans(temps, active)) \in Nat
    BY <1>3, TempBytesFacts
  <1> QED BY <1>2, <1>3, <1>4, <1>5

\* Every step keeps the count at or above what is on disk, and below the limit.
LEMMA BudgetStep ==
    ASSUME BudgetInv, Next
    PROVE  WithinBudget'
  <1> DEFINE old == TempBytes(Orphans(temps, active))
             new == TempBytes(Orphans(temps', active'))
             all == TempBytes(temps')
  <1>1. /\ WorkInv
        /\ usage.known => /\ Len(files) + old <= usage.bytes
                          /\ usage.bytes <= Bytes
                          /\ Len(files) <= usage.entries
                          /\ usage.entries <= Entries
        /\ old \in Nat /\ Len(files) \in Nat
    BY OnDiskFacts DEF BudgetInv, WithinBudget
  <1>2. /\ OnDisk' = Len(files') + new
        /\ WorkInv' /\ Len(files') \in Nat /\ usage' \in Usage /\ usage \in Usage
        /\ IsFiniteSet(temps')
    <2>1. WorkInv'
      BY <1>1, WorkStep
    <2>2. OnDisk' = Len(files') + new
      BY OrphansFacts DEF OnDisk
    <2>3. files' \in Seq(File)
      BY <2>1 DEF WorkInv, TypeInv
    <2> QED BY <1>1, <2>1, <2>2, <2>3 DEF WorkInv, TypeInv
  <1>3. all \in Nat /\ new \in Nat /\ new <= all
    <2>1. Orphans(temps', active') \in SUBSET temps'
      BY DEF Orphans
    <2> QED BY <1>2, <2>1, TempBytesFacts
  <1>4. SUFFICES ASSUME usage'.known, ~(Leave \/ Crash)
                 PROVE  /\ Len(files') + new <= usage'.bytes
                        /\ usage'.bytes <= Bytes
                        /\ Len(files') <= usage'.entries
                        /\ usage'.entries <= Entries
    <2>1. Leave \/ Crash => ~usage'.known
      <3>1. Leave \/ Crash => usage' = Unknown
        BY RestartFacts
      <3> QED BY <3>1 DEF Unknown
    <2> QED BY <1>2, <2>1 DEF WithinBudget
  <1>5. new <= old
    <2>1. Orphans(temps', active') \in SUBSET Orphans(temps, active)
      BY <1>1, <1>4, OrphansStep
    <2>2. IsFiniteSet(Orphans(temps, active))
      BY <1>1, OnDiskFacts
    <2> QED BY <2>1, <2>2, TempBytesFacts
  <1> HIDE DEF new, old, all
  <1>6. CASE Start
    <2>1. PICK failed \in BOOLEAN : TrimDisk(files, temps', failed)
      BY <1>6 DEF Start, MayFail
    <2>2. /\ Len(files') + TempBytes(temps') <= usage'.bytes
          /\ usage'.bytes <= Bytes
          /\ Len(files') <= usage'.entries
          /\ usage'.entries <= Entries
      <3>1. files \in Seq(File)
        BY <1>1 DEF WorkInv, TypeInv
      <3> QED BY <1>2, <1>4, <2>1, <3>1, TrimDiskFacts
    <2> QED BY <1>2, <1>3, <2>2 DEF all, Usage
  <1>7. CASE Save
    <2>1. temps' \in SUBSET temps
      BY <1>7 DEF Save
    <2>2. PICK placed \in Seq(File), bytes \in Nat, failed \in BOOLEAN :
             /\ bytes >= 1
             /\ Len(placed) <= Len(files) + 1
             /\ Downloaded(placed, temps', bytes, failed)
      BY <1>1, <1>7, <2>1, SaveFacts
    <2>3. \/ /\ usage.known /\ files' = placed
             /\ usage'.bytes = usage.bytes + bytes
             /\ usage'.entries = usage.entries + 1
             /\ usage'.bytes <= Bytes /\ usage'.entries <= Entries
          \/ /\ Len(files') + TempBytes(temps') <= usage'.bytes
             /\ usage'.bytes <= Bytes
             /\ Len(files') <= usage'.entries
             /\ usage'.entries <= Entries
      BY <1>2, <1>4, <2>2, DownloadedFacts
    <2>4. CASE /\ usage.known /\ files' = placed
               /\ usage'.bytes = usage.bytes + bytes
               /\ usage'.entries = usage.entries + 1
               /\ usage'.bytes <= Bytes /\ usage'.entries <= Entries
      BY <1>1, <1>2, <1>3, <1>5, <2>2, <2>4 DEF Usage
    <2> QED BY <1>2, <1>3, <2>3, <2>4 DEF all, Usage
  <1>8. CASE ~Start /\ ~Save
    <2>1. usage' = usage
      BY <1>4, <1>8, UsageKept
    <2>2. Len(files') <= Len(files)
      BY <1>1, <1>8, DiskFacts
    <2> QED BY <1>1, <1>2, <1>3, <1>4, <1>5, <2>1, <2>2 DEF Usage
  <1> QED BY <1>6, <1>7, <1>8

\* DiskCache.zig: the cache keeps its budget although it lists the directory
\* only when its count reaches the limit.
THEOREM BudgetKept == Spec => []WithinBudget
  <1>1. Init => WithinBudget
    BY DEF Init, WithinBudget, Unknown
  <1>2. WorkInv /\ WithinBudget /\ [Next]_vars => WithinBudget'
    <2>1. SUFFICES ASSUME WorkInv, WithinBudget, [Next]_vars
                   PROVE  WithinBudget'
      OBVIOUS
    <2>2. CASE UNCHANGED vars
      BY <2>1, <2>2 DEF vars, WithinBudget, OnDisk
    <2> QED BY <2>1, <2>2, BudgetStep DEF BudgetInv
  <1> QED BY MediaInvariance, <1>1, <1>2, PTL DEF Spec
-----------------------------------------------------------------------------
(* Private pictures do not outlive the permission.                          *)

\* No private picture is on disk.
Clean == \A i \in 1..Len(files) : files[i].key \notin Avatars

\* Said of keys and of places.
LEMMA CleanFacts ==
    ASSUME WorkInv
    PROVE  Clean <=> \A k \in Avatars : ~HasFile(k)
  <1>1. DOMAIN files = 1..Len(files)
    BY DEF WorkInv, TypeInv
  <1> QED BY <1>1 DEF Clean, HasFile

\* What the steps of the worker do to its view of the context.
LEMMA ViewFacts ==
    ASSUME WorkInv, Next
    PROVE  \/ UNCHANGED w
           \/ \E gone \in SUBSET Lanes : Turn(gone)
           \/ Leave \/ Crash
           \/ /\ w'.net_generation = w.net_generation
              /\ ~w.evict => ~w'.evict
              /\ Poll => ~w'.evict
  <1>1. w \in Local
    BY DEF WorkInv, TypeInv
  <1>2. Rested.net_generation = w.net_generation /\ ~Rested.evict
    BY DEF Rested, Fresh
  <1>3. ASSUME NEW pc
        PROVE  /\ [w EXCEPT !.pc = pc].net_generation = w.net_generation
               /\ [w EXCEPT !.pc = pc].evict = w.evict
    BY <1>1 DEF Local
  <1>4. ASSUME NEW pc, NEW state
        PROVE  /\ [w EXCEPT !.pc = pc, !.state = state].net_generation
                     = w.net_generation
               /\ [w EXCEPT !.pc = pc, !.state = state].evict = w.evict
    BY <1>1 DEF Local
  <1>5. NextLane => /\ w'.net_generation = w.net_generation
                    /\ ~w.evict => ~w'.evict
    <2>1. /\ [w EXCEPT !.pc = "lane", !.lane = 1].net_generation
                = w.net_generation
          /\ [w EXCEPT !.pc = "lane", !.lane = 1].evict = w.evict
      BY <1>1 DEF Local
    <2> QED BY <1>2, <2>1 DEF NextLane
  <1>6. \A state : AnswerWith(state) =>
                     /\ w'.net_generation = w.net_generation
                     /\ w'.evict = w.evict
    BY <1>4 DEF AnswerWith
  <1>7. CASE Poll
    <2>1. w' = Rested \/ w' = [w EXCEPT !.pc = "lane", !.evict = FALSE]
      BY <1>7 DEF Poll
    <2>2. /\ [w EXCEPT !.pc = "lane", !.evict = FALSE].net_generation
                = w.net_generation
          /\ ~[w EXCEPT !.pc = "lane", !.evict = FALSE].evict
      BY <1>1 DEF Local
    <2> QED BY <1>2, <2>1, <2>2
  <1>8. CASE Start \/ Dequeue \/ Abandon
    <2>1. ~Poll
      BY <1>8 DEF Start, Dequeue, Abandon, Poll
    <2> QED BY <1>3, <1>8, <2>1 DEF Start, Dequeue, Abandon
  <1>9. CASE Overtaken \/ Deliver
    <2>1. ~Poll /\ w' = Rested
      BY <1>9 DEF Overtaken, Deliver, Delivered, Poll
    <2> QED BY <1>2, <2>1
  <1>10. CASE Pass
    <2>1. ~Poll /\ NextLane
      BY <1>10 DEF Pass, Poll
    <2> QED BY <1>5, <2>1
  <1>11. CASE Save \/ Refuse
    <2>1. ~Poll
      BY <1>11 DEF Save, Refuse, Decoded, Done, Poll
    <2>2. \E state : w' = [w EXCEPT !.pc = "deliver", !.state = state]
      <3>1. Save => \E s : w' = [w EXCEPT !.pc = "deliver", !.state = s]
        BY DEF Save
      <3>2. Refuse => \E s : w' = [w EXCEPT !.pc = "deliver", !.state = s]
        BY DEF Refuse
      <3> QED BY <1>11, <3>1, <3>2
    <2> QED BY <1>4, <2>1, <2>2
  <1>12. CASE OpenLocal \/ OpenCached \/ OpenOffline \/ OpenDenied
    <2>1. ~Poll /\ \E state : AnswerWith(state)
      BY <1>12, MissedFiles DEF OpenLocal, OpenCached, OpenOffline,
         OpenDenied, Poll, Opening
    <2> QED BY <1>6, <2>1
  <1>13. CASE OpenTransfer
    <2>1. ~Poll /\ (NextLane \/ AnswerWith("failed"))
      BY <1>13, TransferFacts DEF Poll, Opening
    <2> QED BY <1>5, <1>6, <2>1
  <1> QED BY <1>7, <1>8, <1>9, <1>10, <1>11, <1>12, <1>13, WorkerKept

\* A private picture gets on disk only while it is allowed or an eviction is due.
LEMMA CleanStep ==
    ASSUME WorkInv, Next, Clean
    PROVE  Clean' \/ (Save /\ active[w.lane].key \in Avatars)
  <1>1. /\ files' \in Seq(File)
        /\ \A j \in 1..Len(files') :
              \/ \E i \in 1..Len(files) : files'[j].key = files[i].key
              \/ Save /\ files'[j].key = active[w.lane].key
    BY DiskFacts
  <1> QED BY <1>1 DEF Clean

\* The eviction removes every private picture.
LEMMA EvictionCleans ==
    ASSUME WorkInv, Poll, w.evict
    PROVE  Clean'
  <1> DEFINE o == Without(files, Avatars)
  <1>1. files \in Seq(File)
    BY DEF WorkInv, TypeInv
  <1>2. /\ o \in Seq(File)
        /\ Len(o) <= Len(files)
        /\ \A j \in 1..Len(o) : \E i \in 1..Len(files) :
              o[j] = files[i] /\ files[i].key \notin Avatars
        /\ \A i \in 1..Len(files) :
              files[i].key \in Avatars => Len(o) < Len(files)
    BY <1>1, WithoutFacts
  <1>3. files' = o
    BY DEF Poll, ClearAvatars
  <1> HIDE DEF o
  <1> QED BY <1>2, <1>3 DEF Clean

\* The worker changes no context, and takes requests from the queue only.
LEMMA WorkerContext ==
    ASSUME Worker, ~(Leave \/ Crash)
    PROVE  /\ UNCHANGED <<generation, avatars>>
           /\ UNCHANGED evict \/ \E gone \in SUBSET Lanes : Turn(gone)
           /\ UNCHANGED queue \/ Dequeue
  <1> QED
    BY DEF Worker, Start, Turn, Poll, Pass, Overtaken, Save, Refuse, Dequeue,
           OpenLocal, OpenCached, OpenOffline, OpenDenied, OpenTransfer,
           Deliver, Delivered, Abandon, gui, bounds

\* Where the worker polls it does nothing else.
LEMMA PollOnly ==
    ASSUME Worker, w.pc = "poll"
    PROVE  Poll
  <1> QED
    BY DEF Worker, Start, Turn, Poll, Pass, Overtaken, Save, Refuse, Dequeue,
           OpenLocal, OpenCached, OpenOffline, OpenDenied, OpenTransfer,
           Deliver, Delivered, Abandon, Leave, Opening, Missed, Done, Decoded

\* The permission and what is known of it: a step of the worker's own.
LEMMA AvatarWork ==
    ASSUME AvatarInv, Next,
           UNCHANGED <<generation, avatars, evict>>,
           w' = w \/ /\ w'.net_generation = w.net_generation
                     /\ ~w.evict => ~w'.evict
                     /\ Poll => ~w'.evict,
           ~w.evict \/ Poll \/ UNCHANGED <<w, files>>,
           avatars \/ \A i \in 1..Len(queue') : queue'[i].key \notin Avatars,
           avatars \/ evict \/ \A l \in Lanes :
              active'[l] # NoRequest => active'[l].key \notin Avatars,
           Save => active[w.lane] # NoRequest /\ w.lane \in Lanes
    PROVE  AvatarsEvicted' /\ EvictionDue'
  <1>1. WorkInv /\ WorkInv'
    BY WorkStep DEF AvatarInv
  <1>2. EvictionDue'
    BY DEF AvatarInv, EvictionDue
  <1>3. SUFFICES ASSUME ~avatars, ~evict
                 PROVE  w'.evict \/ Clean'
    <2>1. Clean' => \A k \in Avatars : ~HasFile(k)'
      BY <1>1 DEF WorkInv, TypeInv, Clean, HasFile
    <2> QED BY <1>2, <2>1 DEF AvatarsEvicted
  <1>4. w.evict \/ Clean
    BY <1>1, <1>3, CleanFacts DEF AvatarInv, AvatarsEvicted
  <1>5. Clean => Clean'
    <2>1. Save => active[w.lane].key \notin Avatars
      BY <1>3 DEF AvatarInv, EvictionDue
    <2> QED BY <1>1, <2>1, CleanStep
  <1>6. CASE w.evict /\ Poll
    BY <1>1, <1>6, EvictionCleans
  <1>7. CASE w.evict /\ UNCHANGED <<w, files>>
    BY <1>7
  <1> QED BY <1>4, <1>5, <1>6, <1>7

\* Every step keeps the promise about private pictures.
LEMMA AvatarStep ==
    ASSUME AvatarInv, Next
    PROVE  AvatarsEvicted' /\ EvictionDue'
  <1>1. /\ WorkInv /\ WorkInv' /\ EvictionDue
        /\ active \in [Lanes -> Request \cup {NoRequest}]
        /\ generation \in Nat /\ w.net_generation \in Nat /\ w.lane \in Lanes
        /\ queue \in Seq(Queued)
    BY WorkStep DEF AvatarInv, WorkInv, TypeInv, Local
  <1>2. CASE Leave \/ Crash
    <2>1. /\ generation' = 0 /\ avatars' = TRUE /\ evict' = FALSE
          /\ w' = Fresh("start", 0)
      BY <1>2, RestartFacts
    <2> QED BY <2>1 DEF AvatarsEvicted, EvictionDue, Fresh
  <1>3. ASSUME NEW line \in BOOLEAN, NEW permission \in BOOLEAN,
               Context(line, permission)
        PROVE  AvatarsEvicted' /\ EvictionDue'
    <2>1. /\ UNCHANGED <<active, w, files>>
          /\ generation' = generation + 1 /\ avatars' = permission
          /\ evict' = (evict \/ (avatars /\ ~permission))
          /\ queue' = <<>>
      BY <1>3 DEF Context
    <2>2. w.net_generation < generation'
      BY <1>1, <2>1 DEF EvictionDue
    <2>3. avatars' \/ evict' \/ (~avatars /\ ~evict)
      BY <2>1
    <2>4. AvatarsEvicted'
      BY <2>1, <2>3 DEF AvatarInv, AvatarsEvicted, HasFile
    <2>5. EvictionDue'
      BY <1>1, <2>1, <2>2, <2>3 DEF EvictionDue
    <2> QED BY <2>4, <2>5
  <1>4. ASSUME NEW k \in Keys, Ask(k)
        PROVE  AvatarsEvicted' /\ EvictionDue'
    <2> DEFINE r == [key |-> k, generation |-> generation, fd |-> 0,
                     temp |-> 0]
    <2>1. /\ UNCHANGED <<generation, avatars, evict, active, w, files>>
          /\ queue' = Append(queue, r)
          /\ k \in Avatars => avatars
      BY <1>4 DEF Ask, gui
    <2>2. \A i \in 1..Len(queue') :
             queue'[i].key = k \/ (i \in 1..Len(queue) /\ queue'[i] = queue[i])
      <3>1. r.key = k /\ r \in Queued
        BY <1>1 DEF Queued
      <3> HIDE DEF r
      <3>2. Len(queue) \in Nat /\ Len(queue') = Len(queue) + 1
        BY <1>1, <2>1, <3>1
      <3>3. \A i \in 1..(Len(queue) + 1) :
               queue'[i] = IF i = Len(queue) + 1 THEN r ELSE queue[i]
        BY <1>1, <2>1, <3>1
      <3>4. ASSUME NEW i \in 1..Len(queue')
            PROVE  queue'[i].key = k
                   \/ (i \in 1..Len(queue) /\ queue'[i] = queue[i])
        <4>1. CASE i = Len(queue) + 1
          <5>1. i \in 1..(Len(queue) + 1)
            BY <3>2
          <5>2. queue'[i] = r
            BY <3>3, <4>1, <5>1
          <5> QED BY <3>1, <5>2
        <4>2. CASE i # Len(queue) + 1
          <5>1. i \in 1..Len(queue) /\ i \in 1..(Len(queue) + 1)
            BY <3>2, <4>2
          <5> QED BY <3>3, <4>2, <5>1
        <4> QED BY <4>1, <4>2
      <3> QED BY <3>4
    <2> QED BY <1>1, <2>1, <2>2 DEF AvatarInv, AvatarsEvicted, EvictionDue,
               HasFile
  <1>5. CASE Take \/ Release \/ Shutdown
    <2>1. UNCHANGED <<generation, avatars, evict, active, w, files, queue>>
      BY <1>5 DEF Take, Release, Shutdown, gui
    <2> QED BY <2>1 DEF AvatarInv, AvatarsEvicted, EvictionDue, HasFile
  <1>6. ASSUME NEW gone \in SUBSET Lanes, Turn(gone)
        PROVE  AvatarsEvicted' /\ EvictionDue'
    <2>1. /\ UNCHANGED <<generation, avatars, queue, files>>
          /\ w.pc = "turn" /\ evict' = FALSE
          /\ w'.net_generation = generation /\ w'.evict = evict
          /\ w'.pc = "poll"
      BY <1>6 DEF Turn, gui, WorkInv, TypeInv, AvatarInv, Local
    <2>2. PICK cancelled \in SUBSET Lanes :
             /\ w.net_generation # generation => cancelled = Lanes
             /\ active' = [l \in Lanes |-> IF l \in cancelled THEN NoRequest
                                           ELSE active[l]]
      BY <1>6 DEF Turn
    <2>3. avatars \/ \A l \in Lanes :
             active'[l] # NoRequest => active'[l].key \notin Avatars
      BY <1>1, <2>2 DEF EvictionDue
    <2>4. EvictionDue'
      BY <1>1, <2>1, <2>3 DEF EvictionDue
    <2>5. AvatarsEvicted'
      BY <1>1, <2>1 DEF AvatarInv, AvatarsEvicted, EvictionDue, HasFile
    <2> QED BY <2>4, <2>5
  <1>7. CASE /\ Worker /\ ~(Leave \/ Crash)
             /\ ~\E gone \in SUBSET Lanes : Turn(gone)
    <2>1. UNCHANGED <<generation, avatars, evict>>
      BY <1>7, WorkerContext
    <2>2. \/ w' = w
          \/ /\ w'.net_generation = w.net_generation
             /\ ~w.evict => ~w'.evict
             /\ Poll => ~w'.evict
      BY <1>1, <1>7, ViewFacts
    <2>3. ~w.evict \/ Poll
      <3>1. w.evict => w.pc = "poll"
        BY <1>1 DEF EvictionDue
      <3> QED BY <1>7, <3>1, PollOnly
    <2>4. avatars \/ \A i \in 1..Len(queue') : queue'[i].key \notin Avatars
      <3>1. CASE UNCHANGED queue
        BY <1>1, <3>1 DEF EvictionDue
      <3>2. CASE Dequeue
        <4>1. queue # <<>> /\ queue' = Tail(queue)
          BY <3>2 DEF Dequeue
        <4>2. \A i \in 1..Len(queue') :
                 i + 1 \in 1..Len(queue) /\ queue'[i] = queue[i + 1]
          BY <1>1, <4>1
        <4> QED BY <1>1, <4>2 DEF EvictionDue
      <3> QED BY <1>7, <3>1, <3>2, WorkerContext
    <2>5. avatars \/ evict \/ \A l \in Lanes :
             active'[l] # NoRequest => active'[l].key \notin Avatars
      <3>1. CASE UNCHANGED active
        BY <1>1, <3>1 DEF EvictionDue
      <3>2. CASE Dequeue
        <4>1. /\ queue # <<>>
              /\ active' = [active EXCEPT ![w.lane] = Head(queue)]
          BY <3>2 DEF Dequeue
        <4>2. 1 \in 1..Len(queue) /\ Head(queue) = queue[1]
          BY <1>1, <4>1
        <4> QED BY <1>1, <4>1, <4>2 DEF EvictionDue
      <3>3. CASE OpenTransfer
        <4>1. active[w.lane] # NoRequest
          BY <1>1, <3>3, TransferFacts
        <4> DEFINE opened == [active[w.lane] EXCEPT !.fd = NewFd,
                                                    !.temp = NewName]
        <4>2. active' = active \/ active' = [active EXCEPT ![w.lane] = opened]
          BY <1>1, <3>3, TransferFacts
        <4>3. opened.key = active[w.lane].key
          BY <1>1, <4>1 DEF Request
        <4> HIDE DEF opened
        <4> QED BY <1>1, <4>1, <4>2, <4>3 DEF EvictionDue
      <3>4. CASE Deliver
        <4>1. active' = [active EXCEPT ![w.lane] = NoRequest]
          BY <3>4 DEF Deliver, Delivered
        <4> QED BY <1>1, <4>1 DEF EvictionDue
      <3>5. CASE Abandon
        BY <3>5 DEF Abandon
      <3> QED BY <1>7, <3>1, <3>2, <3>3, <3>4, <3>5, LanesKept
    <2>6. Save => active[w.lane] # NoRequest
      BY DEF Save, Decoded, Done
    <2> QED BY <1>1, <2>1, <2>2, <2>3, <2>4, <2>5, <2>6, AvatarWork
  <1> QED BY <1>2, <1>3, <1>4, <1>5, <1>6, <1>7 DEF Next

\* ImageCache.zig and Media.zig: after the permission for private pictures went,
\* an eviction is due as long as one is on disk.
THEOREM AvatarsGone == Spec => []AvatarsEvicted
  <1>1. Init => AvatarsEvicted /\ EvictionDue
    BY DEF Init, AvatarsEvicted, EvictionDue, Fresh
  <1>2. WorkInv /\ AvatarsEvicted /\ EvictionDue /\ [Next]_vars
        => AvatarsEvicted' /\ EvictionDue'
    <2>1. CASE UNCHANGED vars
      BY <2>1 DEF vars, AvatarsEvicted, EvictionDue, HasFile
    <2> QED BY <2>1, AvatarStep DEF AvatarInv
  <1> QED BY MediaInvariance, <1>1, <1>2, PTL DEF Spec
-----------------------------------------------------------------------------
(* The worker implements the image service.                                 *)

\* What the lanes hold after a step, in terms of what they held before.
LanesKeep ==
    \A l \in Lanes : active'[l] # NoRequest =>
        /\ active[l] # NoRequest
        /\ active'[l].key = active[l].key
        /\ active'[l].generation = active[l].generation

\* A request in a lane does not change its picture or its context.
LEMMA LanesKeepFacts ==
    ASSUME WorkInv, Next, ~Dequeue
    PROVE  /\ LanesKeep
           /\ OpenTransfer => \A l \in Lanes :
                 active[l] # NoRequest => active'[l] # NoRequest
           /\ Deliver => \A l \in Lanes :
                 /\ l # w.lane => active'[l] = active[l]
                 /\ l = w.lane => active'[l] = NoRequest
  <1>1. active \in [Lanes -> Request \cup {NoRequest}] /\ w.lane \in Lanes
    BY DEF WorkInv, TypeInv, Local
  <1>2. ASSUME NEW gone \in SUBSET Lanes, Turn(gone)
        PROVE  LanesKeep /\ ~OpenTransfer /\ ~Deliver
    <2>1. \A l \in Lanes : active'[l] = NoRequest \/ active'[l] = active[l]
      BY <1>2 DEF Turn
    <2> QED BY <1>2, <2>1 DEF LanesKeep, Turn, OpenTransfer, Missed, Opening,
               Deliver, Delivered
  <1>3. CASE OpenTransfer
    <2> DEFINE opened == [active[w.lane] EXCEPT !.fd = NewFd, !.temp = NewName]
    <2>1. /\ active[w.lane] # NoRequest /\ Opening
          /\ active' = active \/ active' = [active EXCEPT ![w.lane] = opened]
      BY <1>3, TransferFacts
    <2>2. active[w.lane] \in Request /\ NewFd \in Fds /\ NewName \in Nat
      BY <1>1, <2>1, NewNameFacts, NewFdFacts DEF WorkInv, Serving, Opening
    <2>3. /\ opened \in Request
          /\ opened.key = active[w.lane].key
          /\ opened.generation = active[w.lane].generation
      BY <2>2 DEF Request
    <2>4. opened # NoRequest
      BY <2>3, MediaAssumption
    <2>5. ~Deliver
      BY <2>1 DEF Deliver, Delivered, Opening
    <2> HIDE DEF opened
    <2>6. \A l \in Lanes : active'[l] = active[l]
                           \/ (l = w.lane /\ active'[l] = opened)
      BY <1>1, <2>1
    <2> QED BY <2>1, <2>3, <2>4, <2>5, <2>6 DEF LanesKeep
  <1>4. CASE Deliver
    <2>1. ~OpenTransfer /\ active' = [active EXCEPT ![w.lane] = NoRequest]
      BY <1>4 DEF Deliver, Delivered, OpenTransfer, Missed, Opening
    <2> QED BY <1>1, <2>1 DEF LanesKeep
  <1>5. CASE Leave \/ Crash
    <2>1. active' = [l \in Lanes |-> NoRequest]
      BY <1>5, RestartFacts
    <2>2. w'.pc = "start"
      BY <1>5, PcFacts
    <2>3. Deliver => w'.pc = "turn"
      BY PcFacts
    <2>4. OpenTransfer => w'.pc # "start"
      BY PcFacts, TransferFacts
    <2> QED BY <2>1, <2>2, <2>3, <2>4 DEF LanesKeep
  <1>6. CASE UNCHANGED active /\ ~OpenTransfer /\ ~Deliver
    BY <1>6 DEF LanesKeep
  <1>7. CASE Abandon
    BY <1>7 DEF Abandon, LanesKeep, OpenTransfer, Missed, Opening, Deliver,
                Delivered
  <1> QED BY <1>2, <1>3, <1>4, <1>5, <1>6, <1>7, LanesKept

\* No step of the worker's makes an answer appear while it works on its lanes,
\* and none of the interface's does.
LEMMA OneAnswerStep ==
    ASSUME AskedInv, Next
    PROVE  OneAnswer'
  <1> DEFINE Working == w.pc \in {"lane", "open", "deliver"}
                        \/ (w.pc = "poll" /\ ~w.busy)
             Free == result = NoResult /\ ~delivering
  <1>1. WorkInv /\ (Working => Free) /\ (hand # NoResult => delivering)
    BY DEF AskedInv, OneAnswer
  <1>2. hand' # NoResult => delivering'
    <2>1. ASSUME NEW line \in BOOLEAN, NEW permission \in BOOLEAN,
                 Context(line, permission)
          PROVE  hand' # NoResult => delivering'
      BY <1>1, <2>1 DEF Context
    <2>2. CASE Take \/ Release \/ Deliver
      BY <1>1, <2>2 DEF Take, Release, Deliver, Delivered
    <2>3. CASE Leave \/ Crash
      BY <2>3, RestartFacts
    <2> QED BY <1>1, <2>1, <2>2, <2>3, AnswerKept
  <1>3. CASE Deliver \/ Leave \/ Crash
    <2>1. w'.pc \in {"turn", "start"}
      BY <1>1, <1>3, PcFacts
    <2> QED BY <1>2, <2>1 DEF OneAnswer
  <1>4. Free => Free' \/ Deliver \/ Leave \/ Crash
    <2>1. ASSUME NEW line \in BOOLEAN, NEW permission \in BOOLEAN,
                 Context(line, permission)
          PROVE  Free => Free'
      BY <2>1 DEF Context
    <2>2. CASE Take \/ Release
      BY <2>2 DEF Take, Release
    <2> QED BY <2>1, <2>2, AnswerKept
  <1>5. ASSUME Working'
        PROVE  Free' \/ Deliver \/ Leave \/ Crash
    <2>1. CASE UNCHANGED w
      BY <1>1, <1>4, <1>5, <2>1
    <2>2. ASSUME NEW gone \in SUBSET Lanes, Turn(gone)
          PROVE  Free'
      <3>1. /\ w'.pc = "poll" /\ w'.busy = (result # NoResult \/ delivering)
            /\ UNCHANGED <<result, delivering>>
        BY <1>1, <2>2 DEF Turn, WorkInv, TypeInv, Local
      <3> QED BY <1>5, <3>1
    <2>3. CASE Poll
      <3>1. w.busy => w'.pc = "turn"
        BY <2>3 DEF Poll, Rested, Fresh
      <3>2. w.pc = "poll" /\ ~w.busy
        BY <1>5, <2>3, <3>1 DEF Poll
      <3> QED BY <1>1, <1>4, <3>2
    <2>4. CASE Start \/ Overtaken \/ Abandon
      <3>1. w'.pc \in {"turn", "exit"}
        BY <1>1, <2>4, PcFacts
      <3> QED BY <1>5, <3>1
    <2>5. CASE \/ Pass \/ Save \/ Refuse \/ Dequeue \/ OpenLocal \/ OpenCached
               \/ OpenOffline \/ OpenDenied \/ OpenTransfer
      <3>1. w.pc \in {"lane", "open"}
        BY <2>5, MissedFiles DEF Pass, Save, Refuse, Decoded, Done, Dequeue,
           OpenLocal, OpenCached, Opening
      <3> QED BY <1>1, <1>4, <3>1
    <2> QED BY <2>1, <2>2, <2>3, <2>4, <2>5, WorkerKept
  <1> QED BY <1>2, <1>3, <1>5 DEF OneAnswer

\* Nothing is asked for twice when the queue stays and the lanes take nothing.
LEMMA AskedKept ==
    ASSUME AskedInv, LanesKeep, UNCHANGED <<queue, generation, avatars>>
    PROVE  AskedOnce'
  <1>1. \A l \in Lanes : Current(l)' =>
           Current(l) /\ active'[l].key = active[l].key
    BY DEF Current, LanesKeep
  <1>2. \A l \in Lanes : active'[l] # NoRequest =>
           /\ active[l] # NoRequest
           /\ active'[l].generation = active[l].generation
    BY DEF LanesKeep
  <1>3. AskedOnce
    BY DEF AskedInv
  <1> HIDE DEF Current
  <1> QED BY <1>1, <1>2, <1>3 DEF AskedOnce

\* A picture is asked for at most once in a context.
LEMMA AskedOnceStep ==
    ASSUME AskedInv, Next
    PROVE  AskedOnce'
  <1>1. /\ WorkInv /\ AskedOnce
        /\ active \in [Lanes -> Request \cup {NoRequest}]
        /\ generation \in Nat /\ w.lane \in Lanes
        /\ queue \in Seq(Queued) /\ Len(queue) \in Nat
    BY DEF AskedInv, WorkInv, TypeInv, Local
  <1>2. CASE Leave \/ Crash
    <2>1. queue' = <<>> /\ active' = [l \in Lanes |-> NoRequest]
      BY <1>2, RestartFacts
    <2>2. \A l \in Lanes : active'[l] = NoRequest
      BY <2>1
    <2>3. Len(queue') = 0
      BY <2>1
    <2> QED BY <2>2, <2>3 DEF AskedOnce, Current
  <1>3. ASSUME NEW line \in BOOLEAN, NEW permission \in BOOLEAN,
               Context(line, permission)
        PROVE  AskedOnce'
    <2>1. queue' = <<>> /\ active' = active /\ generation' = generation + 1
      BY <1>3 DEF Context
    <2>2. \A l \in Lanes : active'[l] # NoRequest =>
             /\ active'[l].generation <= generation
             /\ active'[l].generation \in Nat
      BY <1>1, <2>1 DEF AskedOnce, Request
    <2>3. \A l \in Lanes : ~Current(l)'
      BY <1>1, <2>1, <2>2 DEF Current
    <2>4. Len(queue') = 0
      BY <2>1
    <2>5. \A l \in Lanes : active'[l] # NoRequest =>
             active'[l].generation <= generation'
      BY <1>1, <2>1, <2>2
    <2> HIDE DEF Current
    <2> QED BY <2>3, <2>4, <2>5 DEF AskedOnce
  <1>4. ASSUME NEW k \in Keys, Ask(k)
        PROVE  AskedOnce'
    <2> DEFINE r == [key |-> k, generation |-> generation, fd |-> 0,
                     temp |-> 0]
    <2>1. /\ UNCHANGED <<generation, avatars, active>>
          /\ queue' = Append(queue, r)
          /\ k \in Avatars => avatars
          /\ ~Known(k)
      BY <1>4 DEF Ask, gui
    <2>2. r.key = k /\ r.generation = generation /\ r \in Queued
      BY <1>1 DEF Queued
    <2> HIDE DEF r
    <2>3. /\ Len(queue') = Len(queue) + 1
          /\ \A i \in 1..(Len(queue) + 1) :
                queue'[i] = IF i = Len(queue) + 1 THEN r ELSE queue[i]
      BY <1>1, <2>1, <2>2
    <2>4. /\ \A i \in 1..Len(queue) : queue[i].key # k
          /\ \A l \in Lanes : Current(l) => active[l].key # k
      BY <1>1, <2>1 DEF Known, Current
    <2>5. \A i \in 1..Len(queue') : \/ i \in 1..Len(queue) /\ queue'[i] = queue[i]
                                    \/ i = Len(queue) + 1 /\ queue'[i] = r
      BY <1>1, <2>3
    <2>6. \A l \in Lanes : Current(l)' = Current(l)
      BY <2>1 DEF Current
    <2> HIDE DEF Current
    <2> QED BY <1>1, <2>1, <2>2, <2>4, <2>5, <2>6 DEF AskedOnce
  <1>5. CASE Dequeue
    <2>1. /\ queue # <<>> /\ queue' = Tail(queue)
          /\ active[w.lane] = NoRequest
          /\ active' = [active EXCEPT ![w.lane] = Head(queue)]
          /\ UNCHANGED <<generation, avatars>>
      BY <1>5 DEF Dequeue, gui
    <2>2. /\ 1 \in 1..Len(queue) /\ Head(queue) = queue[1]
          /\ \A i \in 1..Len(queue') :
                i + 1 \in 1..Len(queue) /\ queue'[i] = queue[i + 1]
          /\ \A i \in 1..Len(queue') : i \in Nat /\ i >= 1
      BY <1>1, <2>1
    <2>3. queue[1] \in Request /\ queue[1] # NoRequest
      <3>1. queue[1] \in Queued
        BY <1>1, <2>2
      <3>2. queue[1] \in Request
        BY <3>1 DEF Queued, Request
      <3> QED BY <3>2, MediaAssumption
    <2>4. /\ active'[w.lane] = queue[1]
          /\ \A l \in Lanes : l # w.lane => active'[l] = active[l]
      BY <1>1, <2>1, <2>2
    <2>5. \A l \in Lanes : Current(l)' => l = w.lane \/ Current(l)
      BY <2>1, <2>4 DEF Current
    <2>6. queue[1].generation = generation
      BY <1>1, <2>2 DEF AskedOnce
    <2>7. \A i \in 1..Len(queue') :
             /\ queue'[i].generation = generation
             /\ queue'[i].key \in Avatars => avatars
             /\ queue'[i].key # queue[1].key
             /\ \A j \in 1..Len(queue') : queue'[i].key = queue'[j].key => i = j
             /\ \A l \in Lanes : Current(l) => queue'[i].key # active[l].key
      <3>1. SUFFICES ASSUME NEW i \in 1..Len(queue')
                     PROVE  /\ queue'[i].generation = generation
                            /\ queue'[i].key \in Avatars => avatars
                            /\ queue'[i].key # queue[1].key
                            /\ \A j \in 1..Len(queue') :
                                  queue'[i].key = queue'[j].key => i = j
                            /\ \A l \in Lanes :
                                  Current(l) => queue'[i].key # active[l].key
        OBVIOUS
      <3>2. i + 1 \in 1..Len(queue) /\ queue'[i] = queue[i + 1] /\ i + 1 # 1
        BY <2>2
      <3>3. /\ queue'[i].generation = generation
            /\ queue'[i].key \in Avatars => avatars
            /\ queue'[i].key # queue[1].key
            /\ \A l \in Lanes : Current(l) => queue'[i].key # active[l].key
        BY <1>1, <2>2, <3>2 DEF AskedOnce
      <3>4. ASSUME NEW j \in 1..Len(queue'), queue'[i].key = queue'[j].key
            PROVE  i = j
        <4>1. j + 1 \in 1..Len(queue) /\ queue'[j] = queue[j + 1]
          BY <2>2
        <4>2. i + 1 = j + 1
          BY <1>1, <3>2, <3>4, <4>1 DEF AskedOnce
        <4> QED BY <2>2, <4>2
      <3> QED BY <3>3, <3>4
    <2>8. /\ queue[1].key \in Avatars => avatars
          /\ \A l \in Lanes : Current(l) => queue[1].key # active[l].key
      BY <1>1, <2>2 DEF AskedOnce
    <2> DEFINE first == queue[1]
    <2>9. \A l \in Lanes :
             Current(l)' => \/ l = w.lane /\ active'[l] = first
                            \/ Current(l) /\ active'[l] = active[l] /\ l # w.lane
      <3>1. ~Current(w.lane)
        BY <2>1 DEF Current
      <3> HIDE DEF Current
      <3> QED BY <2>4, <2>5, <3>1
    <2>10. \A l \in Lanes : active'[l] # NoRequest =>
              active'[l].generation <= generation
      BY <1>1, <2>4, <2>6 DEF AskedOnce
    <2> HIDE DEF first, Current
    <2>11. \A l \in Lanes :
              /\ Current(l)' /\ active'[l].key \in Avatars => avatars
              /\ \A i \in 1..Len(queue') :
                    Current(l)' => queue'[i].key # active'[l].key
              /\ \A m \in Lanes :
                    Current(l)' /\ Current(m)' /\ active'[l].key = active'[m].key
                    => l = m
      BY <1>1, <2>7, <2>8, <2>9 DEF AskedOnce, first
    <2> QED BY <2>1, <2>7, <2>10, <2>11 DEF AskedOnce
  <1>6. CASE UNCHANGED <<queue, generation, avatars>> /\ ~Dequeue
    BY <1>1, <1>6, AskedKept, LanesKeepFacts
  <1>7. UNCHANGED <<generation, avatars>>
        \/ (\E line, permission \in BOOLEAN : Context(line, permission))
        \/ Leave \/ Crash
    BY GuiKept DEF gui
  <1> QED BY <1>2, <1>3, <1>4, <1>5, <1>6, <1>7, QueueKept

\* A picture is outstanding as long as a request for it is queued, or in a lane
\* and of the current context.
LEMMA OutstandingFacts ==
    ASSUME TypeInv, TypeInv', NEW k
    PROVE  /\ k \in Outstanding <=>
                 \/ \E i \in 1..Len(queue) : queue[i].key = k
                 \/ \E l \in Lanes : Current(l) /\ active[l].key = k
           /\ k \in Outstanding' <=>
                 \/ \E i \in 1..Len(queue') : queue'[i].key = k
                 \/ \E l \in Lanes : Current(l)' /\ active'[l].key = k
  <1>1. DOMAIN queue = 1..Len(queue) /\ DOMAIN queue' = 1..Len(queue')
    BY DEF TypeInv
  <1> QED BY <1>1 DEF Outstanding, Current

\* Outstanding pictures have keys.
LEMMA OutstandingType ==
    ASSUME TypeInv
    PROVE  Outstanding \in SUBSET Keys
  <1>1. \A i \in DOMAIN queue : queue[i].key \in Keys
    <2>1. SUFFICES ASSUME NEW i \in DOMAIN queue
                   PROVE  queue[i].key \in Keys
      OBVIOUS
    <2>2. queue[i] \in Queued
      BY DEF TypeInv
    <2> QED BY <2>2 DEF Queued
  <1>2. \A l \in Lanes : active[l] # NoRequest => active[l].key \in Keys
    BY DEF TypeInv, Request
  <1> QED BY <1>1, <1>2 DEF Outstanding

\* A step between requests and lanes that the interface cannot see, or one that
\* gives up pictures.
LEMMA ForgetStep ==
    ASSUME AskedInv, AskedInv', LanesKeep,
           UNCHANGED <<queue, generation, result, hand, avatars>>
    PROVE  [Service!Next]_(Service!vars)
  <1>1. TypeInv /\ TypeInv'
    BY DEF AskedInv, WorkInv
  <1>2. Outstanding' \subseteq Outstanding
    <2>1. ASSUME NEW k \in Outstanding'
          PROVE  k \in Outstanding
      BY <1>1, <2>1, OutstandingFacts DEF LanesKeep, Current
    <2> QED BY <2>1
  <1> DEFINE gone == Outstanding \ Outstanding'
  <1>3. CASE gone = {}
    <2>1. Outstanding' = Outstanding
      BY <1>2, <1>3
    <2> QED BY <2>1 DEF Service!vars
  <1>4. CASE gone # {}
    <2>1. gone \subseteq Outstanding /\ Outstanding' = Outstanding \ gone
      BY <1>2
    <2>2. gone \in SUBSET Keys
      BY <1>1, OutstandingType
    <2> HIDE DEF gone
    <2>3. Service!Forget(gone)
      BY <1>4, <2>1 DEF Service!Forget
    <2> QED BY <2>2, <2>3 DEF Service!Next
  <1> QED BY <1>3, <1>4

\* Every step is a step of the service or invisible to the interface.
LEMMA ServiceStep ==
    ASSUME AskedInv, AskedInv', Next
    PROVE  [Service!Next]_(Service!vars)
  <1>1. /\ TypeInv /\ TypeInv' /\ WorkInv /\ AskedOnce /\ OneAnswer
        /\ active \in [Lanes -> Request \cup {NoRequest}]
        /\ generation \in Nat /\ w.lane \in Lanes
        /\ queue \in Seq(Queued) /\ Len(queue) \in Nat
    BY DEF AskedInv, WorkInv, TypeInv, Local
  <1>2. CASE Leave \/ Crash
    <2>1. /\ queue' = <<>> /\ active' = [l \in Lanes |-> NoRequest]
          /\ result' = NoResult /\ hand' = NoResult /\ avatars' = TRUE
      BY <1>2, RestartFacts
    <2>2. Len(queue') = 0 /\ \A l \in Lanes : ~Current(l)'
      BY <2>1 DEF Current
    <2>3. Outstanding' = {}
      BY <1>1, <2>2, OutstandingFacts
    <2> QED BY <2>1, <2>3 DEF Service!Restart, Service!Next
  <1>3. ASSUME NEW line \in BOOLEAN, NEW permission \in BOOLEAN,
               Context(line, permission)
        PROVE  [Service!Next]_(Service!vars)
    <2>1. /\ queue' = <<>> /\ active' = active /\ generation' = generation + 1
          /\ result' = NoResult /\ hand' = hand /\ avatars' = permission
      BY <1>3 DEF Context
    <2>2. \A l \in Lanes : active'[l] # NoRequest =>
             active'[l].generation <= generation /\ active'[l].generation \in Nat
      BY <1>1, <2>1 DEF AskedOnce, Request
    <2>3. Len(queue') = 0 /\ \A l \in Lanes : ~Current(l)'
      BY <1>1, <2>1, <2>2 DEF Current
    <2>4. Outstanding' = {}
      BY <1>1, <2>3, OutstandingFacts
    <2>5. Service!Change(permission)
      BY <2>1, <2>4 DEF Service!Change
    <2> QED BY <2>5 DEF Service!Next
  <1>4. ASSUME NEW k \in Keys, Ask(k)
        PROVE  [Service!Next]_(Service!vars)
    <2> DEFINE r == [key |-> k, generation |-> generation, fd |-> 0,
                     temp |-> 0]
    <2>1. /\ UNCHANGED <<generation, avatars, active, result, hand>>
          /\ queue' = Append(queue, r)
          /\ k \in Avatars => avatars
          /\ result = NoResult \/ result.key # k
      BY <1>4 DEF Ask, gui, Known
    <2>2. r.key = k /\ r \in Queued
      BY <1>1 DEF Queued
    <2> HIDE DEF r
    <2>3. /\ Len(queue') = Len(queue) + 1
          /\ \A i \in 1..(Len(queue) + 1) :
                queue'[i] = IF i = Len(queue) + 1 THEN r ELSE queue[i]
      BY <1>1, <2>1, <2>2
    <2>4. \A key : (\E i \in 1..Len(queue') : queue'[i].key = key)
                   <=> (\E i \in 1..Len(queue) : queue[i].key = key) \/ key = k
      <3>1. \A i \in 1..Len(queue) : i \in 1..Len(queue') /\ queue'[i] = queue[i]
        BY <1>1, <2>3
      <3>2. Len(queue) + 1 \in 1..Len(queue') /\ queue'[Len(queue) + 1] = r
        BY <1>1, <2>3
      <3>3. \A i \in 1..Len(queue') :
               (i \in 1..Len(queue) /\ queue'[i] = queue[i]) \/ queue'[i] = r
        BY <1>1, <2>3
      <3> QED BY <2>2, <3>1, <3>2, <3>3
    <2>5. \A l \in Lanes : Current(l)' = Current(l)
      BY <2>1 DEF Current
    <2>6. Outstanding' = Outstanding \cup {k}
      <3>1. \A key : key \in Outstanding' <=> key \in Outstanding \/ key = k
        BY <1>1, <2>1, <2>4, <2>5, OutstandingFacts
      <3> QED BY <3>1
    <2>7. Service!Ask(k)
      BY <2>1, <2>6 DEF Service!Ask
    <2> QED BY <2>7 DEF Service!Next
  <1>5. CASE Take
    <2>1. /\ UNCHANGED <<queue, active, generation, avatars>>
          /\ result # NoResult /\ hand' = result /\ result' = NoResult
      BY <1>5 DEF Take, gui
    <2>2. Outstanding' = Outstanding
      BY <2>1 DEF Outstanding
    <2> QED BY <2>1, <2>2 DEF Service!Take, Service!Next
  <1>6. CASE Release
    <2>1. /\ UNCHANGED <<queue, active, generation, avatars, result>>
          /\ hand # NoResult /\ hand' = NoResult
      BY <1>6 DEF Release, gui
    <2>2. Outstanding' = Outstanding
      BY <2>1 DEF Outstanding
    <2> QED BY <2>1, <2>2 DEF Service!Release, Service!Next
  <1>7. CASE Dequeue
    <2>1. /\ queue # <<>> /\ queue' = Tail(queue)
          /\ active[w.lane] = NoRequest
          /\ active' = [active EXCEPT ![w.lane] = Head(queue)]
          /\ UNCHANGED <<generation, avatars, result, hand>>
      BY <1>7 DEF Dequeue, gui
    <2>2. /\ 1 \in 1..Len(queue) /\ Head(queue) = queue[1]
          /\ \A i \in 1..Len(queue') :
                i + 1 \in 1..Len(queue) /\ queue'[i] = queue[i + 1]
          /\ \A i \in 1..Len(queue) : i = 1 \/ i - 1 \in 1..Len(queue')
          /\ \A i \in 1..Len(queue) : i # 1 => queue'[i - 1] = queue[i]
      <3>1. Len(queue') = Len(queue) - 1 /\ Len(queue) >= 1
        BY <1>1, <2>1
      <3>2. \A i \in 1..(Len(queue) - 1) : queue'[i] = queue[i + 1]
        BY <1>1, <2>1
      <3>3. \A i \in 1..Len(queue) :
               i # 1 => i - 1 \in 1..(Len(queue) - 1) /\ (i - 1) + 1 = i
        BY <1>1
      <3> QED BY <1>1, <3>1, <3>2, <3>3
    <2>3. /\ queue[1] # NoRequest /\ queue[1].generation = generation
      <3>1. queue[1] \in Queued
        BY <1>1, <2>2
      <3>2. queue[1] \in Request
        BY <3>1 DEF Queued, Request
      <3> QED BY <1>1, <2>2, <3>2, MediaAssumption DEF AskedOnce
    <2>4. /\ active'[w.lane] = queue[1]
          /\ \A l \in Lanes : l # w.lane => active'[l] = active[l]
      BY <1>1, <2>1, <2>2
    <2>5. \A l \in Lanes : /\ l = w.lane => ~Current(l) /\ Current(l)'
                           /\ l # w.lane => Current(l)' = Current(l)
      BY <2>1, <2>3, <2>4 DEF Current
    <2>6. \A k : (\E l \in Lanes : Current(l)' /\ active'[l].key = k)
                 <=> \/ queue[1].key = k
                     \/ \E l \in Lanes : Current(l) /\ active[l].key = k
      <3> HIDE DEF Current
      <3> QED BY <1>1, <2>4, <2>5
    <2>7. \A k : (\E i \in 1..Len(queue) : queue[i].key = k)
                 <=> \/ queue[1].key = k
                     \/ \E i \in 1..Len(queue') : queue'[i].key = k
      BY <2>2
    <2>8. Outstanding' = Outstanding
      <3>1. \A k : k \in Outstanding' <=> k \in Outstanding
        BY <1>1, <2>6, <2>7, OutstandingFacts
      <3> QED BY <3>1
    <2> QED BY <2>1, <2>8 DEF Service!vars
  <1>8. CASE Deliver
    <2> DEFINE k == active[w.lane].key
    <2>1. /\ w.pc = "deliver" /\ active[w.lane] # NoRequest
          /\ UNCHANGED <<generation, avatars, hand, queue>>
          /\ w.state \in States /\ k \in Keys
      BY <1>1, <1>8 DEF Deliver, Delivered, gui, WorkInv, Serving, TypeInv,
                        Local, Request
    <2>2. result = NoResult /\ hand = NoResult
      BY <1>1, <2>1 DEF OneAnswer
    <2>3. /\ ~Dequeue
          /\ \A l \in Lanes : /\ l # w.lane => active'[l] = active[l]
                              /\ l = w.lane => active'[l] = NoRequest
          /\ LanesKeep
      <3>1. ~Dequeue
        BY <2>1 DEF Dequeue
      <3> QED BY <1>1, <1>8, <3>1, LanesKeepFacts
    <2>4. CASE ~Current(w.lane)
      <3>1. result' = result
        BY <1>8, <2>1, <2>4 DEF Deliver, Delivered, Current
      <3> QED BY <2>1, <2>3, <3>1, ForgetStep
    <2>5. CASE Current(w.lane)
      <3>1. result' = [key |-> k, state |-> w.state]
        BY <1>8, <2>1, <2>2, <2>5 DEF Deliver, Delivered, Current
      <3>2. \A l \in Lanes : /\ l # w.lane => Current(l)' = Current(l)
                             /\ l = w.lane => ~Current(l)'
        BY <1>1, <2>1, <2>3 DEF Current
      <3>3. \A i \in 1..Len(queue) : queue[i].key # k
        BY <1>1, <2>5 DEF AskedOnce
      <3>4. \A l \in Lanes : l # w.lane /\ Current(l) => active[l].key # k
        BY <1>1, <2>5 DEF AskedOnce
      <3>5. k \in Outstanding /\ (k \in Avatars => avatars)
        BY <1>1, <2>5, OutstandingFacts DEF AskedOnce
      <3>6. Outstanding' = Outstanding \ {k}
        <4> HIDE DEF Current, k
        <4>1. \A key : (\E l \in Lanes : Current(l)' /\ active'[l].key = key)
                       <=> \E l \in Lanes : /\ l # w.lane /\ Current(l)
                                            /\ active[l].key = key
          BY <1>1, <2>3, <3>2
        <4>2. \A key : (\E l \in Lanes : Current(l) /\ active[l].key = key)
                       <=> \/ key = k
                           \/ \E l \in Lanes : /\ l # w.lane /\ Current(l)
                                               /\ active[l].key = key
          BY <1>1, <2>5 DEF k
        <4>3. \A key : key \in Outstanding' <=> key \in Outstanding /\ key # k
          BY <1>1, <2>1, <3>3, <3>4, <4>1, <4>2, OutstandingFacts
        <4> QED BY <4>3
      <3>7. Service!Reply(k, w.state)
        BY <2>1, <2>2, <3>1, <3>5, <3>6 DEF Service!Reply
      <3> QED BY <2>1, <3>7 DEF Service!Next
    <2> QED BY <2>4, <2>5
  <1>9. CASE /\ UNCHANGED <<queue, generation, result, hand, avatars>>
             /\ ~Dequeue
    BY <1>1, <1>9, ForgetStep, LanesKeepFacts
  <1>10. UNCHANGED <<generation, avatars>>
         \/ (\E line, permission \in BOOLEAN : Context(line, permission))
         \/ Leave \/ Crash
    BY GuiKept DEF gui
  <1> QED BY <1>2, <1>3, <1>4, <1>5, <1>6, <1>7, <1>8, <1>9, <1>10, QueueKept,
             AnswerKept

\* Media.zig: the worker with its lanes, its transport and its cache is the
\* image service of Pictures: one answer at a time, only to what was asked in
\* this context, each once, and no private picture without the permission.
THEOREM ServiceImplemented == Spec => Implements
  <1>1. Init => Service!Init
    <2>1. SUFFICES ASSUME Init
                   PROVE  Service!Init
      OBVIOUS
    <2>2. queue = <<>> /\ active = [l \in Lanes |-> NoRequest]
      BY <2>1 DEF Init
    <2>3. Outstanding = {}
      BY <2>2 DEF Outstanding
    <2> QED BY <2>1, <2>3 DEF Init, Service!Init
  <1>2. Init => AskedOnce /\ OneAnswer
    <2>1. SUFFICES ASSUME Init
                   PROVE  AskedOnce /\ OneAnswer
      OBVIOUS
    <2>2. Len(queue) = 0 /\ \A l \in Lanes : active[l] = NoRequest
      BY <2>1 DEF Init
    <2> QED BY <2>1, <2>2 DEF Init, AskedOnce, OneAnswer, Current, Fresh
  <1>3. WorkInv /\ WorkInv' /\ AskedOnce /\ OneAnswer /\ [Next]_vars
        => /\ AskedOnce' /\ OneAnswer'
           /\ [Service!Next]_(Service!vars)
    <2>1. SUFFICES ASSUME WorkInv, WorkInv', AskedOnce, OneAnswer, [Next]_vars
                   PROVE  /\ AskedOnce' /\ OneAnswer'
                          /\ [Service!Next]_(Service!vars)
      OBVIOUS
    <2>2. CASE Next
      <3>1. AskedOnce' /\ OneAnswer'
        BY <2>1, <2>2, AskedOnceStep, OneAnswerStep DEF AskedInv
      <3> QED BY <2>1, <2>2, <3>1, ServiceStep DEF AskedInv
    <2>3. CASE UNCHANGED vars
      BY <2>1, <2>3 DEF vars, AskedOnce, OneAnswer, Current, Service!vars,
                        Outstanding
    <2> QED BY <2>1, <2>2, <2>3
  <1> QED BY MediaInvariance, <1>1, <1>2, <1>3, PTL
          DEF Spec, Implements, Service!Spec
=============================================================================
