---------------------------- MODULE NoticesProofs ----------------------------
(***************************************************************************)
(* Proofs about Notices for any conversations, limits, abilities and faults:  *)
(* the worker's queue keeps the newest notices, a click opens the conversation *)
(* of its alert, and no alert of a daemon is left without somebody to take it  *)
(* down, however late, lost or failed the calls are.                          *)
(***************************************************************************)
EXTENDS Notices, FiniteSetTheorems, SequenceTheorems, WellFoundedInduction,
        NaturalsInduction, TLAPS
-----------------------------------------------------------------------------
(* The inductive invariant: of the backend s, the daemon d, the bus messages e *)
(* and the serials ab of the Notify calls given up.                           *)

Incoming == [chat: Chats, number: 0..MaxMessages]

Notice == [chat: Chats \cup {NoChat}, number: 0..MaxMessages, id: Nat, serial: Nat,
           pending: BOOLEAN]

Call == [kind: {"notify", "capabilities"}, generation: Nat, slot: Slots, serial: Nat,
         to: Nat]

Asking == [kind: {"notify", "capabilities"}, to: Nat, call: Call, message: Message,
           actions: BOOLEAN]
Closing == [kind: {"close"}, to: Nat, id: Nat]

Backend == [refs: Int, serial: Nat, generation: Nat, stopped: BOOLEAN, ready: BOOLEAN,
            abilities: SUBSET {"actions", "images"}, owner: Nat,
            notices: [Slots -> Notice], calls: SUBSET Call,
            out: Seq(Asking \cup Closing)]

Alert == [id: Nat, chat: Chats, number: 0..MaxMessages, serial: Nat, actions: BOOLEAN]

Daemon == [alive: Nat, started: Nat, ids: Nat, shown: SUBSET Alert]

Event == [kind: {"appeared", "vanished"}, from: Nat]
         \cup [kind: {"notify"}, from: Nat, call: Call, id: Nat]
         \cup [kind: {"capabilities"}, from: Nat, call: Call,
               abilities: SUBSET {"actions", "images"}]
         \cup [kind: {"closed"}, from: Nat, id: Nat]
         \cup [kind: {"action"}, from: Nat, id: Nat, chat: Chats]

TypeInv(s, d, e, ab) ==
    /\ s \in Backend /\ d \in Daemon /\ e \in Seq(Event) /\ ab \in SUBSET Nat

\* The requests and the bus messages of a kind, and the notices there are.
Requests(s, kind) == {r \in ToSet(s.out) : r.kind = kind}
Messages(e, kind) == {x \in ToSet(e) : x.kind = kind}
Kept(s) == {i \in Slots : s.notices[i].chat # NoChat}

\* A notice has a serial of its own, and a number only from a daemon that is there.
NoticeInv(s) ==
    /\ \A i \in Slots \ Kept(s) : s.notices[i] = NoNotice
    /\ \A i \in Kept(s) : s.notices[i].serial \in 1..s.serial
    /\ \A i, j \in Kept(s) : s.notices[i].serial = s.notices[j].serial => i = j
    /\ \A i \in Slots : s.notices[i].pending \/ s.owner = 0 => s.notices[i].id = 0
    /\ s.ready => s.owner # 0

\* A call is to the daemon of its generation; what it is for awaits its number.
CallInv(s) ==
    /\ \A c \in s.calls :
         /\ c.to # 0 /\ c.generation = 2 * c.to - 1 /\ c.generation <= s.generation
         /\ c.generation = s.generation => c.to = s.owner
         /\ c.kind = "notify" => c.serial \in 1..s.serial
    /\ \A b, c \in s.calls :
         b.kind = "notify" /\ c.kind = "notify" /\ b.serial = c.serial => b = c
    /\ \A c \in s.calls : c.kind = "notify" =>
         \A i \in Kept(s) : s.notices[i].serial = c.serial =>
            s.notices[i].id = 0 /\ ~s.notices[i].pending

\* A Notify request says what its notice says, and is the only one for it.
AskInv(s) ==
    /\ \A r \in ToSet(s.out) :
         /\ r.to # 0
         /\ r.kind # "close" => r.call.kind = r.kind /\ r.call.to = r.to
    /\ \A r \in Requests(s, "notify") :
         /\ r.call.serial \in 1..s.serial /\ r.message.chat # NoChat
         /\ \A i \in Kept(s) : s.notices[i].serial = r.call.serial =>
               /\ s.notices[i].chat = r.message.chat
               /\ s.notices[i].number = r.message.number
               /\ ~s.notices[i].pending
    /\ \A j, k \in DOMAIN s.out :
         s.out[j].kind = "notify" /\ s.out[k].kind = "notify"
            /\ s.out[j].call.serial = s.out[k].call.serial => j = k

\* A Notify call is answered once, and not while its request is under way.
AnswerInv(s, e) ==
    /\ \A x \in ToSet(e) : x.kind \in {"notify", "capabilities"} =>
         x.call.kind = x.kind /\ x.call.to = x.from
    /\ \A x \in Messages(e, "notify") :
         /\ x.call.serial \in 1..s.serial
         /\ \A i \in Kept(s) :
              s.notices[i].serial = x.call.serial => ~s.notices[i].pending
         /\ \A r \in Requests(s, "notify") : r.call.serial # x.call.serial
    /\ \A j, k \in DOMAIN e :
         e[j].kind = "notify" /\ e[k].kind = "notify"
            /\ e[j].call.serial = e[k].call.serial => j = k

\* Daemons and their alerts are numbered upwards; a closed alert is gone.
DaemonInv(s, d, e) ==
    /\ d.alive \in {0, d.started} /\ d.started <= MaxStarts
    /\ s.owner <= d.started
    /\ \A c \in s.calls : c.to <= d.started
    /\ \A r \in ToSet(s.out) : r.to <= d.started
    /\ \A x \in ToSet(e) : x.from \in 1..d.started
    /\ \A x \in ToSet(e) : x.kind \in {"notify", "closed", "action"} =>
         x.id # 0 /\ (x.from = d.alive => x.id <= d.ids)
    /\ d.alive = 0 => d.shown = {}
    /\ \A a \in d.shown : a.id \in 1..d.ids /\ a.serial <= s.serial
    /\ \A a, b \in d.shown : a.id = b.id => a = b
    /\ s.owner = d.alive => \A i \in Slots : s.notices[i].id <= d.ids
    /\ \A x \in Messages(e, "closed"), a \in d.shown :
         x.from = d.alive => x.id # a.id

\* Whatever speaks of an alert means the same message.
NameInv(s, d, e) ==
    /\ \A a \in d.shown, i \in Kept(s) :
         \/ s.notices[i].serial = a.serial
         \/ s.owner = d.alive /\ s.notices[i].id = a.id
         => s.notices[i].chat = a.chat /\ s.notices[i].number = a.number
    /\ \A a \in d.shown, x \in Messages(e, "notify") :
         x.from = d.alive /\ x.id = a.id => x.call.serial = a.serial
    /\ \A k \in Messages(e, "action"), i \in Kept(s) :
         k.from = s.owner /\ k.id = s.notices[i].id => s.notices[i].chat = k.chat
    /\ \A k \in Messages(e, "action"), x \in Messages(e, "notify"), i \in Kept(s) :
         k.from = x.from /\ k.id = x.id /\ s.notices[i].serial = x.call.serial
            => s.notices[i].chat = k.chat

\* The client follows the daemons one by one: a change of owner has a number, the
\* generation it leads to, and none is missing.
IsChange(x) == x.kind \in {"appeared", "vanished"}
Number(x) == IF x.kind = "appeared" THEN 2 * x.from - 1 ELSE 2 * x.from
Final(d) == IF d.alive = 0 THEN 2 * d.started ELSE 2 * d.started - 1

WatchInv(s, d, e) ==
    /\ s.generation <= Final(d)
    /\ s.owner # 0 => s.generation = 2 * s.owner - 1
    /\ ~s.stopped =>
         /\ \A k \in DOMAIN e : IsChange(e[k]) =>
              Number(e[k]) > s.generation /\ Number(e[k]) <= Final(d)
         /\ \A j, k \in DOMAIN e : IsChange(e[j]) /\ IsChange(e[k]) /\ j < k
              => Number(e[j]) < Number(e[k])
         /\ \A m \in (s.generation + 1)..Final(d) :
              \E k \in DOMAIN e : IsChange(e[k]) /\ Number(e[k]) = m

\* A Notify request to the living daemon is for a call under way, unless it was given
\* up; all are when the client has ended.
GivenUp(s, d, ab) ==
    /\ \A r \in Requests(s, "notify") : r.to = d.alive =>
         r.call.serial \in ab \/ (~s.stopped /\ r.call \in s.calls)
    /\ s.stopped => \A c \in s.calls :
         c.kind = "notify" /\ c.to = d.alive => c.serial \in ab

\* Who can take an alert down: one of these besides the answers under way.
Held(s, d, ab, a) ==
    \/ a.serial \in ab
    \/ \E r \in Requests(s, "close") : r.to = d.alive /\ r.id = a.id
    \/ ~s.stopped /\ s.owner = d.alive /\ \E i \in Slots : s.notices[i].id = a.id

Answered(s, d, e, a) ==
    \E x \in Messages(e, "notify") :
        x.from = d.alive /\ x.id = a.id /\ x.call \in s.calls

AlertInv(s, d, e, ab) ==
    \A a \in d.shown : Held(s, d, ab, a) \/ Answered(s, d, e, a)

\* The struct lives as long as its owner or a call needs it.
RefsInv(s) ==
    /\ IsFiniteSet(s.calls)
    /\ s.refs = Cardinality(s.calls) + (IF s.stopped THEN 0 ELSE 1)

Sound(s, d, e, ab) ==
    /\ TypeInv(s, d, e, ab)
    /\ NoticeInv(s) /\ CallInv(s) /\ AskInv(s) /\ AnswerInv(s, e)
    /\ DaemonInv(s, d, e) /\ NameInv(s, d, e) /\ WatchInv(s, d, e)
    /\ GivenUp(s, d, ab) /\ AlertInv(s, d, e, ab) /\ RefsInv(s)

\* The queues in front of the backend.
QueueInv ==
    /\ arrived \in 0..MaxMessages /\ timeouts \in 0..MaxTimeouts
    /\ queue \in Seq(Incoming) /\ Len(queue) <= QueueLimit
    /\ waiting \in [Slots -> Incoming \cup {NoMessage}]
    /\ reading \in Chats \cup {NoChat}
    /\ NewestKept

Invariant == QueueInv /\ Sound(n, daemon, events, abandoned)
-----------------------------------------------------------------------------
(* Sequences, and slots in their order.                                     *)

\* A non-empty set of numbers has a least one.
LEMMA LeastNat ==
    ASSUME NEW T \in SUBSET Nat, T # {}
    PROVE  \E u \in T : \A m \in T : u <= m
  <1>1. IsWellFoundedOn(OpToRel(<, Nat), Nat)
    BY NatLessThanWellFounded
  <1>2. PICK u \in T : \A m \in T : ~(<<m, u>> \in OpToRel(<, Nat))
    BY <1>1, WFMin
  <1>3. \A m \in T : ~(m < u)
    BY <1>2 DEF OpToRel
  <1>4. \A m \in T : u <= m
    <2>1. u \in Nat /\ \A m \in T : m \in Nat
      OBVIOUS
    <2> QED BY <1>3, <2>1
  <1> QED BY <1>4

\* Min of a non-empty set of numbers.
LEMMA MinFacts ==
    ASSUME NEW T \in SUBSET Nat, T # {}
    PROVE  Min(T) \in T /\ \A m \in T : Min(T) <= m
  <1>1. \E u \in T : \A m \in T : u <= m
    BY LeastNat
  <1>2. Min(T) = CHOOSE u \in T : \A m \in T : u <= m
    BY DEF Min
  <1> QED BY <1>1, <1>2

\* A set of numbers between 1 and u has at most u elements.
LEMMA UpToN ==
    ASSUME NEW u \in Nat, NEW K \in SUBSET (1..u)
    PROVE  /\ IsFiniteSet(K) /\ Cardinality(K) \in Nat /\ Cardinality(K) <= u
           /\ Cardinality(K) = u => K = 1..u
  <1>1. IsFiniteSet(1..u) /\ Cardinality(1..u) = u
    <2>1. u \in Int /\ 1 \in Int
      OBVIOUS
    <2>2. /\ IsFiniteSet(1..u)
          /\ Cardinality(1..u) = IF 1 > u THEN 0 ELSE u - 1 + 1
      BY <2>1, FS_Interval
    <2> QED BY <2>2
  <1>2. /\ IsFiniteSet(K) /\ Cardinality(K) <= u
        /\ u = Cardinality(K) => 1..u = K
    BY <1>1, FS_Subset
  <1>3. Cardinality(K) \in Nat
    BY <1>2, FS_CardinalityType
  <1> QED BY <1>2, <1>3

\* A set of numbers up to u can be counted upwards.
Counted(K) == \E f \in [1..Cardinality(K) -> K] : Increasing(f)

LEMMA CountUp ==
    ASSUME NEW u \in Nat, NEW K \in SUBSET (1..u)
    PROVE  Counted(K)
  <1> DEFINE Bad == {m \in Nat : \E J \in SUBSET (1..m) : ~Counted(J)}
  <1>1. SUFFICES ASSUME Bad # {}
                 PROVE  FALSE
    OBVIOUS
  <1>2. PICK m \in Bad : \A k \in Bad : m <= k
    <2>1. Bad \in SUBSET Nat
      OBVIOUS
    <2> QED BY <1>1, <2>1, LeastNat
  <1>3. PICK J \in SUBSET (1..m) : ~Counted(J)
    BY <1>2
  <1>4. m \in Nat /\ IsFiniteSet(J)
    <2>1. m \in Nat
      BY <1>2
    <2> QED BY <1>3, <2>1, UpToN
  <1>5. m # 0
    <2>1. SUFFICES ASSUME m = 0
                   PROVE  Counted(J)
      BY <1>3
    <2>2. J = {} /\ Cardinality(J) = 0
      <3>1. 1..0 = {}
        OBVIOUS
      <3>2. J = {}
        BY <1>3, <2>1, <3>1
      <3> QED BY <3>2, FS_EmptySet
    <2> DEFINE f == [i \in 1..0 |-> i]
    <2>3. f \in [1..Cardinality(J) -> J] /\ Increasing(f)
      BY <2>2 DEF Increasing
    <2> QED BY <2>3 DEF Counted
  <1>6. \A k \in SUBSET (1..(m - 1)) : Counted(k)
    <2>1. m - 1 \in Nat /\ ~(m <= m - 1)
      BY <1>4, <1>5
    <2> HIDE DEF Bad
    <2>2. m - 1 \notin Bad
      BY <1>2, <2>1
    <2> USE DEF Bad
    <2> QED BY <2>1, <2>2
  <1> HIDE DEF Bad
  <1>7. m \in J
    <2>1. SUFFICES ASSUME m \notin J
                   PROVE  FALSE
      OBVIOUS
    <2>2. J \in SUBSET (1..(m - 1))
      BY <1>3, <1>4, <2>1
    <2> QED BY <1>3, <1>6, <2>2
  <1> DEFINE I == J \ {m}
             c == Cardinality(I)
  <1>8. /\ Cardinality(J) = c + 1 /\ c \in Nat
        /\ \A k \in I : k \in Nat /\ k < m
        /\ I \in SUBSET (1..(m - 1))
    <2>1. IsFiniteSet(I) /\ Cardinality(I) = Cardinality(J) - 1
      BY <1>4, <1>7, FS_RemoveElement
    <2>2. Cardinality(I) \in Nat /\ Cardinality(J) \in Nat
      BY <1>4, <2>1, FS_CardinalityType
    <2> QED BY <1>3, <1>4, <2>1, <2>2
  <1> HIDE DEF c
  <1>9. PICK f \in [1..c -> I] : Increasing(f)
    BY <1>6, <1>8 DEF Counted, c
  <1> DEFINE g == [i \in 1..(c + 1) |-> IF i = c + 1 THEN m ELSE f[i]]
  <1>10. g \in [1..(c + 1) -> J]
    BY <1>7, <1>8, <1>9
  <1>11. Increasing(g)
    <2> SUFFICES ASSUME NEW i \in 1..(c + 1), NEW j \in 1..(c + 1), i < j
                 PROVE  g[i] < g[j]
      BY DEF Increasing
    <2>1. i \in 1..c /\ f[i] \in I /\ g[i] = f[i]
      BY <1>8, <1>9
    <2>2. CASE j = c + 1
      BY <1>8, <2>1, <2>2
    <2>3. CASE j # c + 1
      <3>1. j \in 1..c /\ g[j] = f[j]
        BY <1>8, <2>3
      <3> QED BY <1>9, <2>1, <3>1 DEF Increasing
    <2> QED BY <2>2, <2>3
  <1> QED BY <1>3, <1>8, <1>10, <1>11 DEF Counted

\* The slots in their order are all of them, each once.
LEMMA InOrderFacts ==
    ASSUME NEW K \in SUBSET Slots
    PROVE  /\ IsFiniteSet(K) /\ Cardinality(K) \in Nat
           /\ InOrder(K) \in [1..Cardinality(K) -> K]
           /\ \A j, k \in 1..Cardinality(K) : InOrder(K)[j] = InOrder(K)[k] => j = k
           /\ \A i \in K : \E k \in 1..Cardinality(K) : InOrder(K)[k] = i
  <1> DEFINE c == Cardinality(K)
             f == InOrder(K)
  <1>1. Limit \in Nat /\ K \in SUBSET (1..Limit)
    BY NoticesAssumption DEF Slots
  <1>2. IsFiniteSet(K) /\ c \in Nat
    BY <1>1, UpToN
  <1>3. f \in [1..c -> K] /\ Increasing(f)
    <2>1. \E g \in [1..Cardinality(K) -> K] : Increasing(g)
      BY <1>1, CountUp DEF Counted
    <2> QED BY <2>1 DEF InOrder
  <1> HIDE DEF f, c
  <1>4. ASSUME NEW j \in 1..c, NEW k \in 1..c, f[j] = f[k]
        PROVE  j = k
    <2>1. f[j] \in 1..Limit /\ f[k] \in 1..Limit
      BY <1>1, <1>3
    <2>2. ~(j < k) /\ ~(k < j)
      BY <1>3, <1>4, <2>1 DEF Increasing
    <2> QED BY <1>2, <2>2
  <1>5. f \in Surjection(1..c, K)
    <2>1. f \in Injection(1..c, K)
      BY <1>3, <1>4 DEF Injection, IsInjective
    <2>2. IsFiniteSet(1..c) /\ Cardinality(1..c) = c
      <3>1. c \in Int /\ 1 \in Int
        BY <1>2
      <3>2. /\ IsFiniteSet(1..c)
            /\ Cardinality(1..c) = IF 1 > c THEN 0 ELSE c - 1 + 1
        BY <3>1, FS_Interval
      <3> QED BY <1>2, <3>2
    <2> QED BY <1>2, <2>1, <2>2, FS_Injection DEF c
  <1>6. \A i \in K : \E k \in 1..c : f[k] = i
    BY <1>5 DEF Surjection
  <1> QED BY <1>2, <1>3, <1>4, <1>6 DEF f, c

\* What appending, joining and taking the first do to the elements.
LEMMA ToSetFacts ==
    ASSUME NEW S, NEW q \in Seq(S)
    PROVE  /\ \A x \in S : ToSet(Append(q, x)) = ToSet(q) \cup {x}
           /\ q # <<>> => /\ Head(q) \in S /\ Tail(q) \in Seq(S)
                          /\ ToSet(q) = ToSet(Tail(q)) \cup {Head(q)}
           /\ \A r \in Seq(S) : ToSet(q \o r) = ToSet(q) \cup ToSet(r)
           /\ \A x \in ToSet(q) : x \in S
  <1>1. ASSUME NEW x \in S
        PROVE  ToSet(Append(q, x)) = ToSet(q) \cup {x}
    <2>1. /\ Len(q) \in Nat /\ DOMAIN q = 1..Len(q)
          /\ DOMAIN Append(q, x) = 1..(Len(q) + 1)
          /\ \A i \in 1..Len(q) : Append(q, x)[i] = q[i]
          /\ Append(q, x)[Len(q) + 1] = x
      BY AppendProperties, LenProperties
    <2>2. ToSet(Append(q, x)) = {Append(q, x)[i] : i \in 1..(Len(q) + 1)}
      BY <2>1 DEF ToSet
    <2>3. 1..(Len(q) + 1) = (1..Len(q)) \cup {Len(q) + 1}
      BY <2>1
    <2>4. ToSet(q) = {q[i] : i \in 1..Len(q)}
      BY <2>1 DEF ToSet
    <2> QED BY <2>1, <2>2, <2>3, <2>4
  <1>2. ASSUME q # <<>>
        PROVE  /\ Head(q) \in S /\ Tail(q) \in Seq(S)
               /\ ToSet(q) = ToSet(Tail(q)) \cup {Head(q)}
    <2>1. /\ Head(q) \in S /\ Tail(q) \in Seq(S)
          /\ Head(q) = q[1] /\ Len(q) \in Nat \ {0} /\ Len(Tail(q)) = Len(q) - 1
          /\ \A i \in 1..Len(Tail(q)) : Tail(q)[i] = q[i + 1]
      BY <1>2, EmptySeq, HeadTailProperties
    <2>2. DOMAIN q = 1..Len(q) /\ DOMAIN Tail(q) = 1..Len(Tail(q))
      BY <2>1
    <2>3. ASSUME NEW x \in ToSet(q)
          PROVE  x = Head(q) \/ x \in ToSet(Tail(q))
      <3>1. PICK i \in 1..Len(q) : x = q[i]
        BY <2>2 DEF ToSet
      <3>2. CASE i # 1
        <4>1. i - 1 \in 1..Len(Tail(q)) /\ Tail(q)[i - 1] = x
          BY <2>1, <3>1, <3>2
        <4> QED BY <2>2, <4>1 DEF ToSet
      <3> QED BY <2>1, <3>1, <3>2
    <2>4. ASSUME NEW x \in ToSet(Tail(q))
          PROVE  x \in ToSet(q)
      <3>1. PICK i \in 1..Len(Tail(q)) : x = Tail(q)[i]
        BY <2>2 DEF ToSet
      <3>2. i + 1 \in 1..Len(q) /\ x = q[i + 1]
        BY <2>1, <3>1
      <3> QED BY <2>2, <3>2 DEF ToSet
    <2>5. Head(q) \in ToSet(q)
      BY <2>1, <2>2 DEF ToSet
    <2> QED BY <2>1, <2>3, <2>4, <2>5
  <1>3. ASSUME NEW r \in Seq(S)
        PROVE  ToSet(q \o r) = ToSet(q) \cup ToSet(r)
    <2>1. /\ Len(q) \in Nat /\ Len(r) \in Nat /\ Len(q \o r) = Len(q) + Len(r)
          /\ DOMAIN q = 1..Len(q) /\ DOMAIN r = 1..Len(r)
          /\ DOMAIN (q \o r) = 1..(Len(q) + Len(r))
          /\ \A i \in 1..(Len(q) + Len(r)) :
               (q \o r)[i] = IF i <= Len(q) THEN q[i] ELSE r[i - Len(q)]
      BY ConcatProperties, LenProperties
    <2>2. ASSUME NEW x \in ToSet(q \o r)
          PROVE  x \in ToSet(q) \/ x \in ToSet(r)
      <3>1. PICK i \in 1..(Len(q) + Len(r)) : x = (q \o r)[i]
        BY <2>1 DEF ToSet
      <3>2. CASE i <= Len(q)
        <4>1. i \in DOMAIN q /\ x = q[i]
          BY <2>1, <3>1, <3>2
        <4> QED BY <4>1 DEF ToSet
      <3>3. CASE ~(i <= Len(q))
        <4>1. i - Len(q) \in DOMAIN r /\ x = r[i - Len(q)]
          BY <2>1, <3>1, <3>3
        <4> QED BY <4>1 DEF ToSet
      <3> QED BY <3>2, <3>3
    <2>3. ASSUME NEW x \in ToSet(q)
          PROVE  x \in ToSet(q \o r)
      <3>1. PICK i \in 1..Len(q) : x = q[i]
        BY <2>1 DEF ToSet
      <3>2. i \in DOMAIN (q \o r) /\ (q \o r)[i] = x
        BY <2>1, <3>1
      <3> QED BY <3>2 DEF ToSet
    <2>4. ASSUME NEW x \in ToSet(r)
          PROVE  x \in ToSet(q \o r)
      <3>1. PICK i \in 1..Len(r) : x = r[i]
        BY <2>1 DEF ToSet
      <3>2. i + Len(q) \in DOMAIN (q \o r) /\ (q \o r)[i + Len(q)] = x
        BY <2>1, <3>1
      <3> QED BY <3>2 DEF ToSet
    <2> QED BY <2>2, <2>3, <2>4
  <1>4. \A x \in ToSet(q) : x \in S
    BY DEF ToSet
  <1> QED BY <1>1, <1>2, <1>3, <1>4

-----------------------------------------------------------------------------
(* Closing and clearing.                                                    *)

\* Requests to close alerts of the owner may be sent at any time.
SendCloses(s, q) == [s EXCEPT !.out = @ \o q]

LEMMA ClosesSent ==
    ASSUME NEW s, NEW d, NEW e, NEW ab, Sound(s, d, e, ab),
           NEW q \in Seq(Closing),
           \A r \in ToSet(q) : r.to = s.owner /\ s.owner # 0
    PROVE  /\ Sound(SendCloses(s, q), d, e, ab)
           /\ Requests(SendCloses(s, q), "close") = Requests(s, "close") \cup ToSet(q)
  <1> DEFINE t == SendCloses(s, q)
  <1>1. /\ s \in Backend /\ s.out \in Seq(Asking \cup Closing)
        /\ q \in Seq(Asking \cup Closing)
    <2>1. s \in Backend
      BY DEF Sound, TypeInv
    <2>2. q \in Seq(Asking \cup Closing)
      BY SeqMonotonic
    <2> QED BY <2>1, <2>2 DEF Backend
  <1>2. /\ t.refs = s.refs /\ t.serial = s.serial /\ t.generation = s.generation
        /\ t.stopped = s.stopped /\ t.ready = s.ready /\ t.abilities = s.abilities
        /\ t.owner = s.owner /\ t.notices = s.notices /\ t.calls = s.calls
        /\ t.out = s.out \o q /\ t \in Backend
    <2>1. s.out \o q \in Seq(Asking \cup Closing)
      BY <1>1, ConcatProperties
    <2> DEFINE o == s.out \o q
    <2>2. t = [s EXCEPT !.out = o]
      BY DEF SendCloses
    <2> HIDE DEF o, t
    <2>3. /\ t.refs = s.refs /\ t.serial = s.serial /\ t.generation = s.generation
          /\ t.stopped = s.stopped /\ t.ready = s.ready /\ t.abilities = s.abilities
          /\ t.owner = s.owner /\ t.notices = s.notices /\ t.calls = s.calls
          /\ t.out = o
      BY <1>1, <2>2 DEF Backend
    <2>4. t \in Backend
      BY <1>1, <2>1, <2>2 DEF Backend, o
    <2> QED BY <2>3, <2>4 DEF o
  <1> HIDE DEF t
  <1>3. ToSet(t.out) = ToSet(s.out) \cup ToSet(q) /\ \A r \in ToSet(q) : r.kind = "close"
    <2>1. \A r \in ToSet(q) : r \in Closing
      BY ToSetFacts
    <2>2. ToSet(s.out \o q) = ToSet(s.out) \cup ToSet(q)
      BY <1>1, ToSetFacts
    <2> QED BY <1>2, <2>1, <2>2 DEF Closing
  <1>4. /\ Requests(t, "notify") = Requests(s, "notify")
        /\ Requests(t, "close") = Requests(s, "close") \cup ToSet(q)
    BY <1>3 DEF Requests
  <1>5. TypeInv(t, d, e, ab)
    BY <1>2 DEF Sound, TypeInv
  <1>6. NoticeInv(t) /\ CallInv(t)
    BY <1>2 DEF Sound, NoticeInv, CallInv, Kept
  <1>7. AskInv(t)
    <2>1. \A j, k \in DOMAIN t.out :
            t.out[j].kind = "notify" /\ t.out[k].kind = "notify"
               /\ t.out[j].call.serial = t.out[k].call.serial => j = k
      <3> SUFFICES ASSUME NEW j \in DOMAIN t.out, NEW k \in DOMAIN t.out,
                          t.out[j].kind = "notify", t.out[k].kind = "notify",
                          t.out[j].call.serial = t.out[k].call.serial
                   PROVE  j = k
        OBVIOUS
      <3>1. /\ Len(s.out) \in Nat /\ Len(q) \in Nat
            /\ DOMAIN s.out = 1..Len(s.out) /\ DOMAIN q = 1..Len(q)
            /\ DOMAIN t.out = 1..(Len(s.out) + Len(q))
            /\ \A i \in 1..(Len(s.out) + Len(q)) :
                 t.out[i] = IF i <= Len(s.out) THEN s.out[i] ELSE q[i - Len(s.out)]
        BY <1>1, <1>2, ConcatProperties, LenProperties
      <3>2. ASSUME NEW i \in DOMAIN t.out, t.out[i].kind = "notify"
            PROVE  i \in DOMAIN s.out /\ t.out[i] = s.out[i]
        <4>1. CASE i <= Len(s.out)
          BY <3>1, <4>1
        <4>2. CASE ~(i <= Len(s.out))
          <5>1. i - Len(s.out) \in DOMAIN q /\ t.out[i] = q[i - Len(s.out)]
            BY <3>1, <4>2
          <5>2. t.out[i] \in ToSet(q)
            BY <5>1 DEF ToSet
          <5> QED BY <1>3, <3>2, <5>2
        <4> QED BY <4>1, <4>2
      <3>3. /\ j \in DOMAIN s.out /\ t.out[j] = s.out[j]
            /\ k \in DOMAIN s.out /\ t.out[k] = s.out[k]
        BY <3>2
      <3> QED BY <3>3 DEF Sound, AskInv
    <2>2. \A r \in ToSet(t.out) :
            /\ r.to # 0
            /\ r.kind # "close" => r.call.kind = r.kind /\ r.call.to = r.to
      BY <1>3 DEF Sound, AskInv
    <2> QED BY <1>2, <1>4, <2>1, <2>2 DEF Sound, AskInv, Kept
  <1>8. AnswerInv(t, e)
    BY <1>2, <1>4 DEF Sound, AnswerInv, Kept
  <1>9. DaemonInv(t, d, e)
    <2>1. \A r \in ToSet(t.out) : r.to <= d.started
      BY <1>3 DEF Sound, DaemonInv
    <2> QED BY <1>2, <2>1 DEF Sound, DaemonInv
  <1>10. NameInv(t, d, e)
    BY <1>2 DEF Sound, NameInv, Kept
  <1>11. WatchInv(t, d, e)
    BY <1>2 DEF Sound, WatchInv
  <1>12. GivenUp(t, d, ab)
    BY <1>2, <1>4 DEF Sound, GivenUp
  <1>13. AlertInv(t, d, e, ab)
    BY <1>2, <1>4 DEF Sound, AlertInv, Held, Answered
  <1>14. RefsInv(t)
    BY <1>2 DEF Sound, RefsInv
  <1> QED BY <1>4, <1>5, <1>6, <1>7, <1>8, <1>9, <1>10, <1>11, <1>12, <1>13, <1>14
          DEF Sound, t

\* Notices may be forgotten once somebody else takes their alerts down.
Cleared(s, K) ==
    [s EXCEPT !.notices = [i \in Slots |-> IF i \in K THEN NoNotice ELSE @[i]]]

LEMMA NoticesCleared ==
    ASSUME NEW s, NEW d, NEW e, NEW ab, Sound(s, d, e, ab), NEW K \in SUBSET Slots,
           \A i \in K, a \in d.shown :
              ~s.stopped /\ s.owner = d.alive /\ s.notices[i].id = a.id =>
                 \E r \in Requests(s, "close") : r.to = d.alive /\ r.id = a.id
    PROVE  Sound(Cleared(s, K), d, e, ab)
  <1> DEFINE t == Cleared(s, K)
  <1>1. s \in Backend /\ NoNotice \in Notice
    <2>1. 0 \in 0..MaxMessages
      BY NoticesAssumption
    <2> QED BY <2>1 DEF Sound, TypeInv, Notice, NoNotice
  <1>2. /\ t.refs = s.refs /\ t.serial = s.serial /\ t.generation = s.generation
        /\ t.stopped = s.stopped /\ t.ready = s.ready /\ t.abilities = s.abilities
        /\ t.owner = s.owner /\ t.calls = s.calls /\ t.out = s.out
        /\ t.notices = [i \in Slots |-> IF i \in K THEN NoNotice ELSE s.notices[i]]
        /\ t \in Backend
    BY <1>1 DEF Cleared, Backend
  <1> HIDE DEF t
  <1>3. /\ \A i \in Slots : t.notices[i] = IF i \in K THEN NoNotice ELSE s.notices[i]
        /\ Kept(t) = Kept(s) \ K
        /\ \A i \in Kept(t) : i \in Kept(s) /\ t.notices[i] = s.notices[i]
        /\ \A i \in Slots : t.notices[i].id = s.notices[i].id \/ t.notices[i].id = 0
    BY <1>2 DEF Kept, NoNotice
  <1>4. \A kind : Requests(t, kind) = Requests(s, kind)
    BY <1>2 DEF Requests
  <1>5. TypeInv(t, d, e, ab)
    BY <1>2 DEF Sound, TypeInv
  <1>6. NoticeInv(t)
    <2>1. \A i \in Slots \ Kept(t) : t.notices[i] = NoNotice
      BY <1>3 DEF Sound, NoticeInv
    <2>2. \A i \in Slots : t.notices[i].pending \/ t.owner = 0 => t.notices[i].id = 0
      BY <1>2, <1>3 DEF Sound, NoticeInv, NoNotice
    <2> QED BY <1>2, <1>3, <2>1, <2>2 DEF Sound, NoticeInv
  <1>7. CallInv(t)
    BY <1>2, <1>3 DEF Sound, CallInv
  <1>8. AskInv(t)
    BY <1>2, <1>3, <1>4 DEF Sound, AskInv
  <1>9. AnswerInv(t, e)
    BY <1>2, <1>3, <1>4 DEF Sound, AnswerInv
  <1>10. DaemonInv(t, d, e)
    <2>1. d.ids \in Nat
      BY DEF Sound, TypeInv, Daemon
    <2>2. t.owner = d.alive => \A i \in Slots : t.notices[i].id <= d.ids
      BY <1>2, <1>3, <2>1 DEF Sound, DaemonInv
    <2> QED BY <1>2, <2>2 DEF Sound, DaemonInv
  <1>11. NameInv(t, d, e)
    BY <1>2, <1>3 DEF Sound, NameInv
  <1>12. WatchInv(t, d, e)
    BY <1>2 DEF Sound, WatchInv
  <1>13. GivenUp(t, d, ab)
    BY <1>2, <1>4 DEF Sound, GivenUp
  <1>14. AlertInv(t, d, e, ab)
    <2> SUFFICES ASSUME NEW a \in d.shown
                 PROVE  Held(t, d, ab, a) \/ Answered(t, d, e, a)
      BY DEF AlertInv
    <2>1. Held(s, d, ab, a) \/ Answered(s, d, e, a)
      BY DEF Sound, AlertInv
    <2>2. CASE Answered(s, d, e, a)
      BY <1>2, <2>2 DEF Answered
    <2>3. CASE a.serial \in ab
      BY <2>3 DEF Held
    <2>4. CASE \E r \in Requests(s, "close") : r.to = d.alive /\ r.id = a.id
      BY <1>4, <2>4 DEF Held
    <2>5. CASE ~s.stopped /\ s.owner = d.alive /\ \E i \in Slots : s.notices[i].id = a.id
      <3>1. PICK i \in Slots : s.notices[i].id = a.id
        BY <2>5
      <3>2. CASE i \in K
        BY <2>4, <2>5, <3>1, <3>2
      <3>3. CASE i \notin K
        <4>1. t.notices[i].id = a.id
          BY <1>3, <3>1, <3>3
        <4> QED BY <1>2, <2>5, <4>1 DEF Held
      <3> QED BY <3>2, <3>3
    <2> QED BY <2>1, <2>2, <2>3, <2>4, <2>5 DEF Held
  <1>15. RefsInv(t)
    BY <1>2 DEF Sound, RefsInv
  <1> QED BY <1>5, <1>6, <1>7, <1>8, <1>9, <1>10, <1>11, <1>12, <1>13, <1>14, <1>15
          DEF Sound, t

\* close_id and clear_notice of any slots.
LEMMA SlotsDropped ==
    ASSUME NEW s, NEW d, NEW e, NEW ab, Sound(s, d, e, ab), NEW K \in SUBSET Slots
    PROVE  /\ Sound(DropSlots(s, K), d, e, ab)
           /\ DropSlots(s, K) = Cleared(CloseSlots(s, K), K)
           /\ Sound(CloseSlots(s, K), d, e, ab)
           /\ CloseSlots(s, K).stopped = s.stopped
           /\ CloseSlots(s, K).notices = s.notices
           /\ CloseSlots(s, K).owner = s.owner
           /\ CloseSlots(s, K).calls = s.calls
           /\ CloseSlots(s, K).refs = s.refs
           /\ s.owner # 0 =>
                \A i \in K : s.notices[i].id # 0 =>
                   \E r \in Requests(CloseSlots(s, K), "close") :
                      r.to = s.owner /\ r.id = s.notices[i].id
  <1> DEFINE J == {i \in K : s.notices[i].id # 0}
             c == Cardinality(J)
             order == InOrder(J)
             q == [k \in 1..c |-> [kind |-> "close", to |-> s.owner,
                                   id |-> s.notices[order[k]].id]]
             t == CloseSlots(s, K)
  <1>1. s \in Backend
    BY DEF Sound, TypeInv
  <1>2. /\ c \in Nat /\ order \in [1..c -> J]
        /\ \A i \in J : \E k \in 1..c : order[k] = i
    BY InOrderFacts
  <1>3. t = IF s.owner = 0 THEN s ELSE SendCloses(s, q)
    <2>1. DOMAIN order = 1..c
      BY <1>2
    <2> QED BY <2>1 DEF CloseSlots, SendCloses
  <1>4. q \in Seq(Closing) /\ DOMAIN q = 1..c
        /\ \A r \in ToSet(q) : r.to = s.owner
    <2>1. \A k \in 1..c : q[k] \in Closing /\ q[k].to = s.owner
      <3> SUFFICES ASSUME NEW k \in 1..c
                   PROVE  q[k] \in Closing /\ q[k].to = s.owner
        OBVIOUS
      <3>1. order[k] \in Slots
        BY <1>2
      <3>2. s.notices[order[k]].id \in Nat /\ s.owner \in Nat
        BY <1>1, <3>1 DEF Backend, Notice
      <3> QED BY <3>2 DEF Closing
    <2>2. q \in [1..c -> Closing]
      BY <2>1
    <2> HIDE DEF q, c
    <2>3. q \in Seq(Closing) /\ DOMAIN q = 1..c
      BY <1>2, <2>2, SeqDef
    <2> QED BY <2>1, <2>3 DEF ToSet
  <1>5. ASSUME NEW i \in J
        PROVE  \E r \in ToSet(q) : r.to = s.owner /\ r.id = s.notices[i].id
    <2>1. PICK k \in 1..c : order[k] = i
      BY <1>2
    <2>2. q[k].to = s.owner /\ q[k].id = s.notices[i].id
      BY <2>1
    <2>3. q[k] \in ToSet(q)
      BY <1>4 DEF ToSet
    <2> QED BY <2>2, <2>3
  <1> HIDE DEF q, t, order, c
  <1>6. /\ Sound(t, d, e, ab)
        /\ s.owner # 0 => \A i \in J : \E r \in Requests(t, "close") :
                             r.to = s.owner /\ r.id = s.notices[i].id
    <2>1. CASE s.owner = 0
      BY <1>3, <2>1
    <2>2. CASE s.owner # 0
      <3>1. /\ Sound(SendCloses(s, q), d, e, ab)
            /\ Requests(SendCloses(s, q), "close") = Requests(s, "close") \cup ToSet(q)
        BY <1>4, <2>2, ClosesSent
      <3> QED BY <1>3, <1>5, <2>2, <3>1
    <2> QED BY <2>1, <2>2
  <1>7. /\ t.stopped = s.stopped /\ t.notices = s.notices /\ t.owner = s.owner
        /\ t.calls = s.calls /\ t.refs = s.refs
    BY <1>1, <1>3 DEF SendCloses, Backend
  <1>8. DropSlots(s, K) = Cleared(t, K)
    BY DEF DropSlots, Cleared, t
  <1>9. ASSUME NEW i \in K, NEW a \in d.shown,
               t.owner = d.alive, t.notices[i].id = a.id
        PROVE  \E r \in Requests(t, "close") : r.to = d.alive /\ r.id = a.id
    <2>1. a.id # 0 /\ d.alive # 0
      BY DEF Sound, DaemonInv
    <2> QED BY <1>6, <1>7, <1>9, <2>1
  <1>10. Sound(Cleared(t, K), d, e, ab)
    BY <1>6, <1>9, NoticesCleared
  <1> QED BY <1>6, <1>7, <1>8, <1>10 DEF t

-----------------------------------------------------------------------------
(* A new notice.                                                            *)

Stored(s, slot, m) ==
    [s EXCEPT !.serial = @ + 1,
              !.notices[slot] = [chat |-> m.chat, number |-> m.number, id |-> 0,
                                 serial |-> s.serial + 1, pending |-> TRUE]]

LEMMA NoticeStored ==
    ASSUME NEW s, NEW d, NEW e, NEW ab, Sound(s, d, e, ab), NEW slot \in Slots,
           s.notices[slot] = NoNotice, NEW m \in Incoming
    PROVE  Sound(Stored(s, slot, m), d, e, ab)
  <1> DEFINE t == Stored(s, slot, m)
             v == [chat |-> m.chat, number |-> m.number, id |-> 0,
                   serial |-> s.serial + 1, pending |-> TRUE]
  <1>1. s \in Backend /\ v \in Notice /\ v.chat # NoChat
    <2>1. s \in Backend /\ s.serial \in Nat
      BY DEF Sound, TypeInv, Backend
    <2> QED BY <2>1, NoticesAssumption DEF Notice, Incoming
  <1>2. /\ t.refs = s.refs /\ t.serial = s.serial + 1 /\ t.generation = s.generation
        /\ t.stopped = s.stopped /\ t.ready = s.ready /\ t.abilities = s.abilities
        /\ t.owner = s.owner /\ t.calls = s.calls /\ t.out = s.out
        /\ t.notices = [s.notices EXCEPT ![slot] = v]
        /\ t \in Backend
    <2>1. t = [s EXCEPT !.serial = @ + 1, !.notices[slot] = v]
      BY DEF Stored
    <2> HIDE DEF v, t
    <2>2. /\ t.refs = s.refs /\ t.serial = s.serial + 1
          /\ t.generation = s.generation
          /\ t.stopped = s.stopped /\ t.ready = s.ready /\ t.abilities = s.abilities
          /\ t.owner = s.owner /\ t.calls = s.calls /\ t.out = s.out
          /\ t.notices = [s.notices EXCEPT ![slot] = v]
      BY <1>1, <2>1 DEF Backend
    <2>3. s.serial + 1 \in Nat /\ [s.notices EXCEPT ![slot] = v] \in [Slots -> Notice]
      BY <1>1 DEF Backend
    <2> QED BY <1>1, <2>1, <2>2, <2>3 DEF Backend
  <1> HIDE DEF t
  <1>3. /\ \A i \in Slots : t.notices[i] = IF i = slot THEN v ELSE s.notices[i]
        /\ Kept(t) = Kept(s) \cup {slot} /\ slot \notin Kept(s)
        /\ \A i \in Kept(s) : t.notices[i] = s.notices[i]
        /\ t.notices[slot] = v
    <2>1. \A i \in Slots : t.notices[i] = IF i = slot THEN v ELSE s.notices[i]
      BY <1>1, <1>2 DEF Backend
    <2>2. slot \notin Kept(s)
      BY DEF Kept, NoNotice
    <2> QED BY <1>1, <2>1, <2>2 DEF Kept
  <1>4. \A kind : Requests(t, kind) = Requests(s, kind)
    BY <1>2 DEF Requests
  <1>5. /\ s.serial \in Nat /\ t.serial = s.serial + 1
        /\ \A i \in Kept(s) : s.notices[i].serial \in 1..s.serial
        /\ v.serial = s.serial + 1 /\ v.id = 0 /\ v.pending
    BY <1>1, <1>2 DEF Sound, NoticeInv, Backend
  <1> HIDE DEF v
  <1>6. TypeInv(t, d, e, ab)
    BY <1>2 DEF Sound, TypeInv
  <1>7. NoticeInv(t)
    <2>1. \A i \in Slots \ Kept(t) : t.notices[i] = NoNotice
      BY <1>3 DEF Sound, NoticeInv
    <2>2. \A i \in Kept(t) : t.notices[i].serial \in 1..t.serial
      BY <1>3, <1>5
    <2>3. \A i, j \in Kept(t) : t.notices[i].serial = t.notices[j].serial => i = j
      BY <1>3, <1>5 DEF Sound, NoticeInv
    <2>4. \A i \in Slots : t.notices[i].pending \/ t.owner = 0 => t.notices[i].id = 0
      BY <1>2, <1>3, <1>5 DEF Sound, NoticeInv
    <2> QED BY <1>2, <2>1, <2>2, <2>3, <2>4 DEF Sound, NoticeInv
  <1>8. CallInv(t)
    BY <1>2, <1>3, <1>5 DEF Sound, CallInv
  <1>9. AskInv(t)
    BY <1>2, <1>3, <1>4, <1>5 DEF Sound, AskInv
  <1>10. AnswerInv(t, e)
    BY <1>2, <1>3, <1>4, <1>5 DEF Sound, AnswerInv
  <1>11. DaemonInv(t, d, e)
    <2>1. d.ids \in Nat /\ \A a \in d.shown : a.serial \in Nat
      BY DEF Sound, TypeInv, Daemon, Alert
    <2>2. t.owner = d.alive => \A i \in Slots : t.notices[i].id <= d.ids
      BY <1>2, <1>3, <1>5, <2>1 DEF Sound, DaemonInv
    <2>3. \A a \in d.shown : a.id \in 1..d.ids /\ a.serial <= t.serial
      BY <1>5, <2>1 DEF Sound, DaemonInv
    <2> QED BY <1>2, <2>2, <2>3 DEF Sound, DaemonInv
  <1>12. NameInv(t, d, e)
    <2>1. /\ \A a \in d.shown : a.serial \in Nat /\ a.serial <= s.serial /\ a.id # 0
          /\ \A x \in Messages(e, "notify") : x.call.serial \in 1..s.serial
          /\ \A x \in Messages(e, "action") : x.id # 0
      BY DEF Sound, TypeInv, Daemon, Alert, DaemonInv, AnswerInv, Messages
    <2>2. \A a \in d.shown, i \in Kept(t) :
             \/ t.notices[i].serial = a.serial
             \/ t.owner = d.alive /\ t.notices[i].id = a.id
             => t.notices[i].chat = a.chat /\ t.notices[i].number = a.number
      BY <1>2, <1>3, <1>5, <2>1 DEF Sound, NameInv
    <2>3. \A k \in Messages(e, "action"), i \in Kept(t) :
             k.from = t.owner /\ k.id = t.notices[i].id => t.notices[i].chat = k.chat
      BY <1>2, <1>3, <1>5, <2>1 DEF Sound, NameInv
    <2>4. \A k \in Messages(e, "action"), x \in Messages(e, "notify"), i \in Kept(t) :
             k.from = x.from /\ k.id = x.id /\ t.notices[i].serial = x.call.serial
                => t.notices[i].chat = k.chat
      BY <1>3, <1>5, <2>1 DEF Sound, NameInv
    <2> QED BY <2>2, <2>3, <2>4 DEF Sound, NameInv
  <1>13. WatchInv(t, d, e)
    BY <1>2 DEF Sound, WatchInv
  <1>14. GivenUp(t, d, ab)
    BY <1>2, <1>4 DEF Sound, GivenUp
  <1>15. AlertInv(t, d, e, ab)
    <2> SUFFICES ASSUME NEW a \in d.shown
                 PROVE  Held(t, d, ab, a) \/ Answered(t, d, e, a)
      BY DEF AlertInv
    <2>1. Held(s, d, ab, a) \/ Answered(s, d, e, a)
      BY DEF Sound, AlertInv
    <2>2. CASE Answered(s, d, e, a)
      BY <1>2, <2>2 DEF Answered
    <2>3. CASE \E i \in Slots : s.notices[i].id = a.id
      <3>1. PICK i \in Slots : s.notices[i].id = a.id
        BY <2>3
      <3>2. a.id # 0
        BY DEF Sound, DaemonInv
      <3>3. i # slot
        BY <3>1, <3>2 DEF NoNotice
      <3>4. t.notices[i].id = a.id
        BY <1>3, <3>1, <3>3
      <3> QED BY <1>2, <1>4, <2>1, <2>2, <3>4 DEF Held
    <2> QED BY <1>2, <1>4, <2>1, <2>2, <2>3 DEF Held
  <1>16. RefsInv(t)
    BY <1>2 DEF Sound, RefsInv
  <1> QED BY <1>6, <1>7, <1>8, <1>9, <1>10, <1>11, <1>12, <1>13, <1>14, <1>15, <1>16
          DEF Sound, t

\* Sending the notices that wait for it.
LEMMA NoticesSent ==
    ASSUME NEW s, NEW d, NEW e, NEW ab, Sound(s, d, e, ab), ~s.stopped,
           NEW K \in SUBSET Slots
    PROVE  Sound(SendNotices(s, K), d, e, ab)
  <1> DEFINE due == {i \in K : s.notices[i].chat # NoChat /\ s.notices[i].pending}
             c == Cardinality(due)
             order == InOrder(due)
             call(i) == NewCall(s, "notify", i)
             new == {call(i) : i \in due}
             request(i) == Request(s, call(i), [chat |-> s.notices[i].chat,
                                               number |-> s.notices[i].number])
             q == [k \in 1..c |-> request(order[k])]
             t == SendNotices(s, K)
  <1>1. SUFFICES ASSUME s.ready
                 PROVE  Sound(t, d, e, ab)
    BY DEF SendNotices
  <1>2. /\ s \in Backend /\ s.owner # 0 /\ s.generation = 2 * s.owner - 1
        /\ s.owner <= d.started /\ s.generation <= Final(d)
        /\ s.owner \in Nat /\ s.generation \in Nat /\ s.serial \in Nat
        /\ s.out \in Seq(Asking \cup Closing) /\ s.calls \in SUBSET Call
    BY <1>1 DEF Sound, TypeInv, NoticeInv, DaemonInv, WatchInv, Backend
  <1>3. /\ c \in Nat /\ order \in [1..c -> due] /\ IsFiniteSet(due)
        /\ \A j, k \in 1..c : order[j] = order[k] => j = k
    BY InOrderFacts
  <1>4. ASSUME NEW i \in due
        PROVE  /\ i \in Kept(s) /\ i \in Slots /\ s.notices[i].pending
               /\ s.notices[i].id = 0
               /\ s.notices[i].serial \in 1..s.serial
               /\ call(i) \in Call /\ call(i).kind = "notify" /\ call(i).to = s.owner
               /\ call(i).generation = s.generation
               /\ call(i).serial = s.notices[i].serial
    <2>1. i \in Kept(s) /\ s.notices[i] \in Notice
      BY <1>2 DEF Kept, Backend
    <2>2. s.notices[i].id = 0 /\ s.notices[i].serial \in 1..s.serial
      BY <2>1 DEF Sound, NoticeInv
    <2>3. call(i) \in Call
      BY <1>2, <2>1 DEF NewCall, Call, Notice
    <2> QED BY <2>1, <2>2, <2>3 DEF NewCall
  <1>5. ASSUME NEW i \in due
        PROVE  /\ request(i) \in Asking /\ request(i).kind = "notify"
               /\ request(i).to = s.owner /\ request(i).call = call(i)
               /\ request(i).message.chat = s.notices[i].chat
               /\ request(i).message.number = s.notices[i].number
    <2>1. [chat |-> s.notices[i].chat, number |-> s.notices[i].number] \in Message
      <3>1. s.notices[i] \in Notice
        BY <1>2, <1>4 DEF Backend
      <3> QED BY <3>1 DEF Notice, Message
    <2>2. call(i) \in Call /\ call(i).kind = "notify"
      BY <1>4
    <2> HIDE DEF call
    <2> QED BY <1>2, <2>1, <2>2 DEF Request, Asking
  <1>6. /\ q \in Seq(Asking \cup Closing) /\ DOMAIN q = 1..c /\ Len(q) = c
        /\ \A k \in 1..c : q[k] = request(order[k])
    <2>1. \A k \in 1..c : request(order[k]) \in Asking \cup Closing
      BY <1>3, <1>5
    <2>2. q \in [1..c -> Asking \cup Closing]
      BY <2>1
    <2>3. \A k \in 1..c : q[k] = request(order[k])
      OBVIOUS
    <2> DEFINE A == Asking \cup Closing
    <2> HIDE DEF q, c, A
    <2>4. q \in [1..c -> A]
      BY <2>2 DEF A
    <2>5. q \in Seq(A) /\ DOMAIN q = 1..c /\ Len(q) = c
      BY <1>3, <2>4, SeqDef
    <2> QED BY <2>3, <2>5 DEF A
  <1>7. /\ t.serial = s.serial /\ t.generation = s.generation
        /\ t.stopped = s.stopped /\ t.ready = s.ready /\ t.abilities = s.abilities
        /\ t.owner = s.owner /\ t.calls = s.calls \cup new /\ t.out = s.out \o q
        /\ t.notices = [i \in Slots |-> IF i \in due
                           THEN [s.notices[i] EXCEPT !.pending = FALSE]
                           ELSE s.notices[i]]
        /\ t.refs = s.refs + c
        /\ t \in Backend
    <2> DEFINE notices == [i \in Slots |-> IF i \in due
                             THEN [s.notices[i] EXCEPT !.pending = FALSE]
                             ELSE s.notices[i]]
               calls == s.calls \cup new
               out == s.out \o q
               refs == s.refs + c
    <2>1. t = [s EXCEPT !.refs = refs, !.notices = notices, !.calls = calls,
                        !.out = out]
      <3>1. DOMAIN order = 1..c
        BY <1>3
      <3> QED BY <1>1, <3>1 DEF SendNotices
    <2>2. notices \in [Slots -> Notice]
      <3>1. \A i \in Slots : s.notices[i] \in Notice
        BY <1>2 DEF Backend
      <3>2. \A i \in Slots : [s.notices[i] EXCEPT !.pending = FALSE] \in Notice
        BY <3>1 DEF Notice
      <3> HIDE DEF due
      <3> QED BY <3>1, <3>2
    <2>3. calls \in SUBSET Call
      BY <1>2, <1>4
    <2>4. out \in Seq(Asking \cup Closing)
      BY <1>2, <1>6, ConcatProperties
    <2>5. refs \in Int
      BY <1>2, <1>3 DEF Backend
    <2> HIDE DEF t, notices, calls, out, refs
    <2>6. /\ t.serial = s.serial /\ t.generation = s.generation
          /\ t.stopped = s.stopped /\ t.ready = s.ready /\ t.abilities = s.abilities
          /\ t.owner = s.owner /\ t.calls = calls /\ t.out = out
          /\ t.notices = notices /\ t.refs = refs
      BY <1>2, <2>1 DEF Backend
    <2>7. t \in Backend
      BY <1>2, <2>1, <2>2, <2>3, <2>4, <2>5 DEF Backend
    <2> QED BY <2>6, <2>7 DEF notices, calls, out, refs
  <1> HIDE DEF t
  <1>8. /\ \A i \in Slots : /\ t.notices[i].chat = s.notices[i].chat
                            /\ t.notices[i].number = s.notices[i].number
                            /\ t.notices[i].id = s.notices[i].id
                            /\ t.notices[i].serial = s.notices[i].serial
                            /\ t.notices[i].pending => s.notices[i].pending
                            /\ i \in due => ~t.notices[i].pending
                            /\ i \notin due => t.notices[i] = s.notices[i]
        /\ Kept(t) = Kept(s)
    <2>1. ASSUME NEW i \in Slots
          PROVE  /\ t.notices[i].chat = s.notices[i].chat
                 /\ t.notices[i].number = s.notices[i].number
                 /\ t.notices[i].id = s.notices[i].id
                 /\ t.notices[i].serial = s.notices[i].serial
                 /\ t.notices[i].pending => s.notices[i].pending
                 /\ i \in due => ~t.notices[i].pending
                 /\ i \notin due => t.notices[i] = s.notices[i]
      <3>1. s.notices[i] \in Notice
        BY <1>2 DEF Backend
      <3>2. t.notices[i] = IF i \in due THEN [s.notices[i] EXCEPT !.pending = FALSE]
                           ELSE s.notices[i]
        BY <1>7
      <3>3. CASE i \in due
        BY <3>1, <3>2, <3>3 DEF Notice
      <3>4. CASE i \notin due
        BY <3>2, <3>4
      <3> QED BY <3>3, <3>4
    <2> QED BY <2>1 DEF Kept
  <1> HIDE DEF due, q, call, request
  <1>9. /\ ToSet(t.out) = ToSet(s.out) \cup ToSet(q)
        /\ \A r \in ToSet(q) : \E i \in due : r = request(i)
        /\ \A x \in new : \E i \in due : x = call(i)
    <2>1. ToSet(s.out \o q) = ToSet(s.out) \cup ToSet(q)
      BY <1>2, <1>6, ToSetFacts
    <2>2. \A r \in ToSet(q) : \E i \in due : r = request(i)
      BY <1>3, <1>6 DEF ToSet
    <2> QED BY <1>7, <2>1, <2>2
  <1> HIDE DEF new, c
  <1>10. /\ Requests(t, "notify") = Requests(s, "notify") \cup ToSet(q)
         /\ Requests(t, "close") = Requests(s, "close")
    <2>1. \A r \in ToSet(q) : r.kind = "notify"
      BY <1>5, <1>9
    <2> QED BY <1>9, <2>1 DEF Requests
  <1>11. TypeInv(t, d, e, ab)
    BY <1>7 DEF Sound, TypeInv
  <1>12. NoticeInv(t)
    <2>1. \A i \in Slots \ Kept(t) : t.notices[i] = NoNotice
      BY <1>4, <1>8 DEF Sound, NoticeInv
    <2>2. Kept(s) \subseteq Slots
      BY DEF Kept
    <2>3. \A i \in Kept(t) : t.notices[i].serial \in 1..t.serial
      BY <1>7, <1>8, <2>2 DEF Sound, NoticeInv
    <2>4. \A i, j \in Kept(t) : t.notices[i].serial = t.notices[j].serial => i = j
      BY <1>8, <2>2 DEF Sound, NoticeInv
    <2>5. \A i \in Slots : t.notices[i].pending \/ t.owner = 0 => t.notices[i].id = 0
      BY <1>7, <1>8 DEF Sound, NoticeInv
    <2> QED BY <1>7, <2>1, <2>3, <2>4, <2>5 DEF Sound, NoticeInv
  <1>13. \A x \in t.calls : x \in s.calls \/ \E i \in due : x = call(i)
    BY <1>7, <1>9
  \* A notice that is due has no call yet.
  <1>14. ASSUME NEW i \in due
         PROVE  /\ \A x \in s.calls : x.kind = "notify" => x.serial # s.notices[i].serial
                /\ \A r \in Requests(s, "notify") : r.call.serial # s.notices[i].serial
                /\ \A x \in Messages(e, "notify") :
                      x.call.serial # s.notices[i].serial
    BY <1>4 DEF Sound, CallInv, AskInv, AnswerInv
  <1>15. CallInv(t)
    <2>1. ASSUME NEW x \in t.calls
          PROVE  /\ x.to # 0 /\ x.generation = 2 * x.to - 1
                 /\ x.generation <= t.generation
                 /\ x.generation = t.generation => x.to = t.owner
                 /\ x.kind = "notify" => x.serial \in 1..t.serial
      <3>1. CASE x \in s.calls
        BY <1>7, <3>1 DEF Sound, CallInv
      <3>2. CASE \E i \in due : x = call(i)
        BY <1>2, <1>4, <1>7, <3>2
      <3> QED BY <1>13, <3>1, <3>2
    <2>2. ASSUME NEW x \in t.calls, NEW y \in t.calls,
                 x.kind = "notify", y.kind = "notify", x.serial = y.serial
          PROVE  x = y
      <3>1. CASE x \in s.calls /\ y \in s.calls
        BY <2>2, <3>1 DEF Sound, CallInv
      <3>2. CASE x \in s.calls /\ \E i \in due : y = call(i)
        BY <1>4, <1>14, <2>2, <3>2
      <3>3. CASE y \in s.calls /\ \E i \in due : x = call(i)
        BY <1>4, <1>14, <2>2, <3>3
      <3>4. CASE (\E i \in due : x = call(i)) /\ (\E i \in due : y = call(i))
        <4>1. PICK i \in due : x = call(i)
          BY <3>4
        <4>2. PICK j \in due : y = call(j)
          BY <3>4
        <4>3. i = j
          BY <1>4, <2>2, <4>1, <4>2 DEF Sound, NoticeInv
        <4> QED BY <4>1, <4>2, <4>3
      <3> QED BY <1>13, <3>1, <3>2, <3>3, <3>4
    <2>3. ASSUME NEW x \in t.calls, x.kind = "notify", NEW i \in Kept(t),
                 t.notices[i].serial = x.serial
          PROVE  t.notices[i].id = 0 /\ ~t.notices[i].pending
      <3>0. i \in Kept(s) /\ i \in Slots
        BY <1>8 DEF Kept
      <3>1. CASE x \in s.calls
        BY <1>8, <2>3, <3>0, <3>1 DEF Sound, CallInv
      <3>2. CASE \E j \in due : x = call(j)
        <4>1. PICK j \in due : x = call(j)
          BY <3>2
        <4>2. s.notices[i].serial = s.notices[j].serial
          BY <1>4, <1>8, <2>3, <3>0, <4>1
        <4>3. i = j
          BY <1>4, <3>0, <4>2 DEF Sound, NoticeInv
        <4> QED BY <1>4, <1>8, <3>0, <4>3
      <3> QED BY <1>13, <3>1, <3>2
    <2> QED BY <2>1, <2>2, <2>3 DEF CallInv
  <1>16. AskInv(t)
    <2>1. ASSUME NEW r \in ToSet(t.out)
          PROVE  /\ r.to # 0
                 /\ r.kind # "close" => r.call.kind = r.kind /\ r.call.to = r.to
      <3>1. CASE r \in ToSet(s.out)
        BY <3>1 DEF Sound, AskInv
      <3>2. CASE r \in ToSet(q)
        BY <1>2, <1>4, <1>5, <1>9, <3>2
      <3> QED BY <1>9, <3>1, <3>2
    <2>2. ASSUME NEW r \in Requests(t, "notify")
          PROVE  /\ r.call.serial \in 1..t.serial /\ r.message.chat # NoChat
                 /\ \A i \in Kept(t) : t.notices[i].serial = r.call.serial =>
                       /\ t.notices[i].chat = r.message.chat
                       /\ t.notices[i].number = r.message.number
                       /\ ~t.notices[i].pending
      <3>0. Kept(s) \subseteq Slots
        BY DEF Kept
      <3>1. CASE r \in Requests(s, "notify")
        BY <1>7, <1>8, <3>0, <3>1 DEF Sound, AskInv
      <3>2. CASE r \in ToSet(q)
        <4>1. PICK i \in due : r = request(i)
          BY <1>9, <3>2
        <4>2. /\ r.call.serial = s.notices[i].serial
              /\ r.message.chat = s.notices[i].chat
              /\ r.message.number = s.notices[i].number
              /\ i \in Kept(s)
          BY <1>4, <1>5, <4>1
        <4>3. \A j \in Kept(t) : t.notices[j].serial = r.call.serial => j = i
          BY <1>8, <3>0, <4>2 DEF Sound, NoticeInv
        <4>4. r.message.chat # NoChat
          BY <4>2 DEF Kept
        <4>5. /\ t.notices[i].chat = r.message.chat
              /\ t.notices[i].number = r.message.number
              /\ ~t.notices[i].pending
          BY <1>8, <3>0, <4>2
        <4>6. r.call.serial \in 1..t.serial
          BY <1>4, <1>7, <4>2
        <4> QED BY <4>3, <4>4, <4>5, <4>6
      <3> QED BY <1>10, <3>1, <3>2
    <2>3. ASSUME NEW j \in DOMAIN t.out, NEW k \in DOMAIN t.out,
                 t.out[j].kind = "notify", t.out[k].kind = "notify",
                 t.out[j].call.serial = t.out[k].call.serial
          PROVE  j = k
      <3>1. /\ Len(s.out) \in Nat /\ Len(q) \in Nat
            /\ DOMAIN s.out = 1..Len(s.out) /\ DOMAIN q = 1..Len(q)
            /\ DOMAIN t.out = 1..(Len(s.out) + Len(q))
            /\ \A i \in 1..(Len(s.out) + Len(q)) :
                 t.out[i] = IF i <= Len(s.out) THEN s.out[i] ELSE q[i - Len(s.out)]
        <4> DEFINE A == Asking \cup Closing
        <4>1. s.out \in Seq(A) /\ q \in Seq(A)
          BY <1>2, <1>6
        <4> HIDE DEF A
        <4>2. /\ s.out \o q \in Seq(A) /\ Len(s.out \o q) = Len(s.out) + Len(q)
              /\ \A i \in 1..(Len(s.out) + Len(q)) :
                   (s.out \o q)[i] = IF i <= Len(s.out) THEN s.out[i]
                                     ELSE q[i - Len(s.out)]
          BY <4>1, ConcatProperties
        <4>3. /\ Len(s.out) \in Nat /\ DOMAIN s.out = 1..Len(s.out)
              /\ Len(q) \in Nat /\ DOMAIN q = 1..Len(q)
              /\ DOMAIN (s.out \o q) = 1..Len(s.out \o q)
          BY <4>1, <4>2, LenProperties
        <4> QED BY <1>7, <4>2, <4>3
      <3>2. ASSUME NEW i \in DOMAIN t.out, t.out[i].kind = "notify"
            PROVE  \/ i <= Len(s.out) /\ i \in DOMAIN s.out /\ t.out[i] = s.out[i]
                      /\ s.out[i] \in Requests(s, "notify")
                   \/ /\ ~(i <= Len(s.out)) /\ i - Len(s.out) \in 1..c
                      /\ order[i - Len(s.out)] \in due
                      /\ t.out[i].call.serial
                           = s.notices[order[i - Len(s.out)]].serial
        <4>1. CASE i <= Len(s.out)
          <5>1. i \in DOMAIN s.out /\ t.out[i] = s.out[i]
            BY <3>1, <4>1
          <5> QED BY <3>2, <4>1, <5>1 DEF Requests, ToSet
        <4>2. CASE ~(i <= Len(s.out))
          <5> DEFINE m == i - Len(s.out)
          <5>0. i \in 1..(Len(s.out) + Len(q)) /\ Len(q) = c
            BY <1>6, <3>1
          <5>1. m \in 1..c /\ t.out[i] = q[m]
            <6>1. Len(s.out) \in Nat /\ Len(q) \in Nat
              BY <3>1
            <6>2. t.out[i] = IF i <= Len(s.out) THEN s.out[i] ELSE q[m]
              BY <3>1, <5>0
            <6>3. m \in 1..Len(q)
              BY <4>2, <5>0, <6>1
            <6> QED BY <4>2, <5>0, <6>2, <6>3
          <5> HIDE DEF m
          <5>2. order[m] \in due /\ q[m] = request(order[m])
            BY <1>3, <1>6, <5>1
          <5>3. t.out[i].call.serial = s.notices[order[m]].serial
            BY <1>4, <1>5, <5>1, <5>2
          <5> QED BY <4>2, <5>1, <5>2, <5>3 DEF m
        <4> QED BY <4>1, <4>2
      <3> DEFINE old(i) == i <= Len(s.out)
      <3>3. CASE old(j) /\ old(k)
        <4>1. /\ j \in DOMAIN s.out /\ t.out[j] = s.out[j]
              /\ k \in DOMAIN s.out /\ t.out[k] = s.out[k]
          BY <2>3, <3>2, <3>3
        <4> QED BY <2>3, <4>1 DEF Sound, AskInv
      <3>4. CASE ~old(j) /\ ~old(k)
        <4> DEFINE a == j - Len(s.out)
                   b == k - Len(s.out)
        <4>1. /\ a \in 1..c /\ order[a] \in due
              /\ t.out[j].call.serial = s.notices[order[a]].serial
          BY <2>3, <3>2, <3>4
        <4>2. /\ b \in 1..c /\ order[b] \in due
              /\ t.out[k].call.serial = s.notices[order[b]].serial
          BY <2>3, <3>2, <3>4
        <4> HIDE DEF a, b
        <4>3. order[a] = order[b]
          BY <1>4, <2>3, <4>1, <4>2 DEF Sound, NoticeInv
        <4>4. a = b
          BY <1>3, <4>1, <4>2, <4>3
        <4> QED BY <3>1, <4>4 DEF a, b
      <3>5. CASE old(j) /\ ~old(k)
        BY <1>14, <2>3, <3>2, <3>5
      <3>6. CASE ~old(j) /\ old(k)
        BY <1>14, <2>3, <3>2, <3>6
      <3> QED BY <3>3, <3>4, <3>5, <3>6
    <2> QED BY <2>1, <2>2, <2>3 DEF AskInv
  <1>17. AnswerInv(t, e)
    <2>1. ASSUME NEW x \in Messages(e, "notify")
          PROVE  /\ x.call.serial \in 1..t.serial
                 /\ \A i \in Kept(t) :
                      t.notices[i].serial = x.call.serial => ~t.notices[i].pending
                 /\ \A r \in Requests(t, "notify") : r.call.serial # x.call.serial
      <3>1. \A r \in ToSet(q) : r.call.serial # x.call.serial
        BY <1>4, <1>5, <1>9, <1>14
      <3>2. Kept(s) \subseteq Slots
        BY DEF Kept
      <3> QED BY <1>7, <1>8, <1>10, <3>1, <3>2 DEF Sound, AnswerInv
    <2> QED BY <2>1 DEF Sound, AnswerInv
  <1>18. DaemonInv(t, d, e)
    <2>1. \A x \in t.calls : x.to <= d.started
      BY <1>2, <1>4, <1>13 DEF Sound, DaemonInv
    <2>2. \A r \in ToSet(t.out) : r.to <= d.started
      BY <1>2, <1>5, <1>9 DEF Sound, DaemonInv
    <2>3. t.owner = d.alive => \A i \in Slots : t.notices[i].id <= d.ids
      BY <1>7, <1>8 DEF Sound, DaemonInv
    <2> QED BY <1>7, <2>1, <2>2, <2>3 DEF Sound, DaemonInv
  <1>19. NameInv(t, d, e)
    <2>1. Kept(s) \subseteq Slots
      BY DEF Kept
    <2> QED BY <1>7, <1>8, <2>1 DEF Sound, NameInv
  <1>20. WatchInv(t, d, e)
    BY <1>7 DEF Sound, WatchInv
  <1>21. GivenUp(t, d, ab)
    <2>1. \A r \in ToSet(q) : r.call \in t.calls
      BY <1>5, <1>7, <1>9 DEF new
    <2> QED BY <1>7, <1>10, <2>1 DEF Sound, GivenUp
  <1>22. AlertInv(t, d, e, ab)
    BY <1>7, <1>8, <1>10 DEF Sound, AlertInv, Held, Answered
  <1>23. RefsInv(t)
    <2> DEFINE f == [i \in due |-> call(i)]
    <2>1. f \in Bijection(due, new)
      <3>1. \A i, j \in due : call(i) = call(j) => i = j
        BY <1>4 DEF Sound, NoticeInv
      <3>2. f \in [due -> new]
        BY DEF new
      <3>3. f \in Injection(due, new)
        BY <3>1, <3>2 DEF Injection, IsInjective
      <3>4. f \in Surjection(due, new)
        BY <3>2 DEF Surjection, new
      <3> QED BY <3>3, <3>4 DEF Bijection
    <2>2. IsFiniteSet(new) /\ Cardinality(new) = c
      <3>1. ExistsBijection(due, new)
        BY <2>1 DEF ExistsBijection
      <3> QED BY <1>3, <3>1, FS_Bijection DEF c
    <2>3. s.calls \cap new = {}
      BY <1>4, <1>9, <1>14
    <2>4. IsFiniteSet(s.calls) /\ s.refs = Cardinality(s.calls) + 1
      BY DEF Sound, RefsInv
    <2>5. /\ IsFiniteSet(s.calls \cup new)
          /\ Cardinality(s.calls \cup new) = Cardinality(s.calls) + Cardinality(new)
      <3>1. /\ IsFiniteSet(s.calls \cup new)
            /\ Cardinality(s.calls \cup new)
                 = Cardinality(s.calls) + Cardinality(new)
                   - Cardinality(s.calls \cap new)
        BY <2>2, <2>4, FS_Union
      <3>2. Cardinality(s.calls \cap new) = 0
        BY <2>3, FS_EmptySet
      <3>3. Cardinality(s.calls) \in Nat /\ Cardinality(new) \in Nat
        BY <2>2, <2>4, FS_CardinalityType
      <3> QED BY <3>1, <3>2, <3>3
    <2>6. Cardinality(s.calls) \in Nat
      BY <2>4, FS_CardinalityType
    <2> QED BY <1>3, <1>7, <2>2, <2>4, <2>5, <2>6 DEF RefsInv
  <1> QED BY <1>11, <1>12, <1>15, <1>16, <1>17, <1>18, <1>19, <1>20, <1>21, <1>22,
             <1>23 DEF Sound, t

\* Showing a message.
LEMMA ShowSound ==
    ASSUME NEW s, NEW d, NEW e, NEW ab, Sound(s, d, e, ab), ~s.stopped,
           NEW m \in Incoming
    PROVE  Sound(Show(s, m), d, e, ab)
  <1> DEFINE slot == SlotFor(s, m.chat)
             gone == {slot} \cup {i \in Slots : s.notices[i].chat = m.chat}
             dropped == DropSlots(s, gone)
  <1>1. s \in Backend /\ 1 \in Slots
    BY NoticesAssumption DEF Sound, TypeInv, Slots
  <1>2. slot \in Slots
    <2> DEFINE free == {i \in Slots : s.notices[i].chat \in {m.chat, NoChat}}
    <2>1. CASE free # {}
      <3>1. free \in SUBSET Nat
        BY NoticesAssumption DEF Slots
      <3>2. Min(free) \in free
        BY <2>1, <3>1, MinFacts
      <3> QED BY <2>1, <3>2 DEF SlotFor
    <2>2. CASE free = {}
      <3> DEFINE T == {s.notices[i].serial : i \in Slots}
      <3>1. T \in SUBSET Nat /\ T # {}
        BY <1>1 DEF Backend, Notice
      <3>2. PICK u \in T : \A v \in T : u <= v
        BY <3>1, LeastNat
      <3>3. \E i \in Slots : \A j \in Slots : s.notices[i].serial <= s.notices[j].serial
        BY <3>2
      <3> QED BY <2>2, <3>3 DEF SlotFor
    <2> QED BY <2>1, <2>2
  <1> HIDE DEF slot
  <1>3. gone \in SUBSET Slots
    BY <1>2
  <1> HIDE DEF gone
  <1>4. /\ Sound(dropped, d, e, ab)
        /\ dropped = Cleared(CloseSlots(s, gone), gone)
        /\ Sound(CloseSlots(s, gone), d, e, ab)
        /\ CloseSlots(s, gone).stopped = s.stopped
        /\ CloseSlots(s, gone).notices = s.notices
    BY <1>3, SlotsDropped
  <1>5. ~dropped.stopped /\ dropped.notices[slot] = NoNotice
        /\ dropped.serial = s.serial
    <2>1. CloseSlots(s, gone) \in Backend
      BY <1>4 DEF Sound, TypeInv
    <2>2. /\ dropped.stopped = CloseSlots(s, gone).stopped
          /\ dropped.serial = CloseSlots(s, gone).serial
          /\ dropped.notices = [i \in Slots |-> IF i \in gone THEN NoNotice
                                                ELSE s.notices[i]]
      BY <1>4, <2>1 DEF Cleared, Backend
    <2>3. CloseSlots(s, gone).serial = s.serial
      BY <1>1 DEF CloseSlots, Backend
    <2>4. slot \in gone
      BY DEF gone
    <2> QED BY <1>2, <1>4, <2>2, <2>3, <2>4
  <1> DEFINE t == Stored(dropped, slot, m)
  <1>6. Show(s, m) = SendNotices(t, {slot})
    BY <1>5 DEF Show, Stored, slot, gone
  <1>7. Sound(t, d, e, ab)
    BY <1>2, <1>4, <1>5, NoticeStored
  <1>8. ~t.stopped
    <2>1. dropped \in Backend
      BY <1>4 DEF Sound, TypeInv
    <2> QED BY <1>5, <2>1 DEF Stored, Backend
  <1> HIDE DEF t
  <1>9. Sound(SendNotices(t, {slot}), d, e, ab)
    BY <1>2, <1>7, <1>8, NoticesSent
  <1> QED BY <1>6, <1>9

-----------------------------------------------------------------------------
(* Calls that end.                                                          *)

\* More calls may be given up.
LEMMA MoreGivenUp ==
    ASSUME NEW s, NEW d, NEW e, NEW ab, Sound(s, d, e, ab),
           NEW more \in SUBSET Nat, ab \subseteq more
    PROVE  Sound(s, d, e, more)
  <1>1. TypeInv(s, d, e, more)
    BY DEF Sound, TypeInv
  <1>2. GivenUp(s, d, more)
    BY DEF Sound, GivenUp
  <1>3. AlertInv(s, d, e, more)
    BY DEF Sound, AlertInv, Held
  <1> QED BY <1>1, <1>2, <1>3 DEF Sound

\* What release leaves alone.
LEMMA ReleaseFields ==
    ASSUME NEW s \in Backend, NEW c
    PROVE  LET t == Release(s, c)
           IN  /\ t.refs = s.refs - 1 /\ t.serial = s.serial
               /\ t.generation = s.generation
               /\ t.stopped = s.stopped /\ t.ready = s.ready
               /\ t.abilities = s.abilities
               /\ t.owner = s.owner /\ t.calls = s.calls \ {c} /\ t.out = s.out
               /\ t.notices = s.notices
               /\ t \in Backend
  <1> DEFINE t == Release(s, c)
             refs == s.refs - 1
             calls == s.calls \ {c}
  <1>1. refs \in Int /\ calls \in SUBSET Call
    BY DEF Backend
  <1>2. t = [s EXCEPT !.refs = refs, !.calls = calls]
    BY DEF Release
  <1> HIDE DEF t, refs, calls
  <1>3. /\ t.refs = refs /\ t.serial = s.serial /\ t.generation = s.generation
        /\ t.stopped = s.stopped /\ t.ready = s.ready /\ t.abilities = s.abilities
        /\ t.owner = s.owner /\ t.calls = calls /\ t.out = s.out
        /\ t.notices = s.notices
    BY <1>2 DEF Backend
  <1>4. t \in Backend
    BY <1>1, <1>2 DEF Backend
  <1> QED BY <1>3, <1>4 DEF t, refs, calls

\* A call may end when no request or alert needs it any more.
LEMMA CallReleased ==
    ASSUME NEW s, NEW d, NEW e, NEW ab, Sound(s, d, e, ab), NEW c \in s.calls,
           \A r \in Requests(s, "notify") :
              r.call = c /\ c.to = d.alive => c.serial \in ab,
           \A x \in Messages(e, "notify"), a \in d.shown :
              x.call = c /\ x.from = d.alive /\ x.id = a.id => Held(s, d, ab, a)
    PROVE  Sound(Release(s, c), d, e, ab)
  <1> DEFINE t == Release(s, c)
  <1>1. s \in Backend
    BY DEF Sound, TypeInv
  <1>2. /\ t.refs = s.refs - 1 /\ t.serial = s.serial /\ t.generation = s.generation
        /\ t.stopped = s.stopped /\ t.ready = s.ready /\ t.abilities = s.abilities
        /\ t.owner = s.owner /\ t.calls = s.calls \ {c} /\ t.out = s.out
        /\ t.notices = s.notices
        /\ t \in Backend
    BY <1>1, ReleaseFields
  <1> HIDE DEF t
  <1>3. Kept(t) = Kept(s) /\ \A kind : Requests(t, kind) = Requests(s, kind)
    BY <1>2 DEF Kept, Requests
  <1>4. TypeInv(t, d, e, ab)
    BY <1>2 DEF Sound, TypeInv
  <1>5. NoticeInv(t)
    BY <1>2, <1>3 DEF Sound, NoticeInv
  <1>6. CallInv(t)
    BY <1>2, <1>3 DEF Sound, CallInv
  <1>7. AskInv(t)
    BY <1>2, <1>3 DEF Sound, AskInv
  <1>8. AnswerInv(t, e)
    BY <1>2, <1>3 DEF Sound, AnswerInv
  <1>9. DaemonInv(t, d, e)
    BY <1>2 DEF Sound, DaemonInv
  <1>10. NameInv(t, d, e)
    BY <1>2, <1>3 DEF Sound, NameInv
  <1>11. WatchInv(t, d, e)
    BY <1>2 DEF Sound, WatchInv
  <1>12. GivenUp(t, d, ab)
    <2>1. \A r \in Requests(t, "notify") : r.to = d.alive =>
            r.call.serial \in ab \/ (~t.stopped /\ r.call \in t.calls)
      <3> SUFFICES ASSUME NEW r \in Requests(s, "notify"), r.to = d.alive
                   PROVE  r.call.serial \in ab \/ (~t.stopped /\ r.call \in t.calls)
        BY <1>3
      <3>1. r.call.to = d.alive
        BY DEF Sound, AskInv, Requests
      <3>2. CASE r.call = c
        BY <3>1, <3>2
      <3>3. CASE r.call # c
        BY <1>2, <3>3 DEF Sound, GivenUp
      <3> QED BY <3>2, <3>3
    <2> QED BY <1>2, <2>1 DEF Sound, GivenUp
  <1>13. AlertInv(t, d, e, ab)
    <2> SUFFICES ASSUME NEW a \in d.shown
                 PROVE  Held(t, d, ab, a) \/ Answered(t, d, e, a)
      BY DEF AlertInv
    <2>1. Held(s, d, ab, a) => Held(t, d, ab, a)
      BY <1>2, <1>3 DEF Held
    <2>2. Held(s, d, ab, a) \/ Answered(s, d, e, a)
      BY DEF Sound, AlertInv
    <2>3. CASE Answered(s, d, e, a)
      <3>1. PICK x \in Messages(e, "notify") :
                   x.from = d.alive /\ x.id = a.id /\ x.call \in s.calls
        BY <2>3 DEF Answered
      <3>2. CASE x.call # c
        BY <1>2, <3>1, <3>2 DEF Answered
      <3>3. CASE x.call = c
        BY <2>1, <3>1, <3>3
      <3> QED BY <3>2, <3>3
    <2> QED BY <2>1, <2>2, <2>3
  <1>14. RefsInv(t)
    <2>1. IsFiniteSet(s.calls) /\ s.refs = Cardinality(s.calls)
                                           + (IF s.stopped THEN 0 ELSE 1)
      BY DEF Sound, RefsInv
    <2>2. /\ IsFiniteSet(s.calls \ {c})
          /\ Cardinality(s.calls \ {c}) = Cardinality(s.calls) - 1
      BY <2>1, FS_RemoveElement
    <2>3. Cardinality(s.calls) \in Nat
      BY <2>1, FS_CardinalityType
    <2> QED BY <1>2, <2>1, <2>2, <2>3 DEF RefsInv
  <1> QED BY <1>4, <1>5, <1>6, <1>7, <1>8, <1>9, <1>10, <1>11, <1>12, <1>13, <1>14
          DEF Sound, t

\* A call to the living daemon is of this generation, and its daemon the owner.
LEMMA LiveCall ==
    ASSUME NEW s, NEW d, NEW e, NEW ab, Sound(s, d, e, ab), NEW c \in s.calls,
           c.to = d.alive
    PROVE  c.generation = s.generation /\ s.owner = d.alive
  <1>1. /\ c.to # 0 /\ c.generation = 2 * c.to - 1 /\ c.generation <= s.generation
        /\ c.generation = s.generation => c.to = s.owner
    BY DEF Sound, CallInv
  <1>2. /\ s.generation <= Final(d) /\ d.alive \in {0, d.started}
        /\ d.started \in Nat /\ s.generation \in Nat
    BY DEF Sound, WatchInv, DaemonInv, TypeInv, Daemon, Backend
  <1>3. Final(d) = 2 * c.to - 1
    BY <1>1, <1>2 DEF Final
  <1>4. c.generation = s.generation
    BY <1>1, <1>2, <1>3
  <1> QED BY <1>1, <1>4

\* The notice of a call learns its number.
Learned(s, x) == Release([s EXCEPT !.notices[x.call.slot].id = x.id], x.call)

LEMMA NumberLearned ==
    ASSUME NEW s, NEW d, NEW e, NEW ab, Sound(s, d, e, ab), ~s.stopped,
           NEW x \in Messages(e, "notify"), x.call \in s.calls,
           x.call.generation = s.generation,
           x.call.slot \in Kept(s), s.notices[x.call.slot].serial = x.call.serial
    PROVE  Sound(Learned(s, x), d, e, ab)
  <1> DEFINE t == Learned(s, x)
             c == x.call
             slot == c.slot
  <1>1. /\ s \in Backend /\ c \in Call /\ slot \in Slots /\ slot \in Kept(s)
        /\ x \in ToSet(e) /\ x \in Event /\ x.kind = "notify" /\ x.id \in Nat
    <2>1. x \in ToSet(e) /\ x.kind = "notify" /\ e \in Seq(Event) /\ s \in Backend
      BY DEF Messages, Sound, TypeInv
    <2>2. x \in Event
      BY <2>1, ToSetFacts
    <2> QED BY <2>1, <2>2 DEF Event, Call, Kept
  <1>2. /\ c.kind = "notify" /\ c.to = x.from /\ c.to = s.owner /\ s.owner # 0
        /\ s.notices[slot].id = 0 /\ ~s.notices[slot].pending
        /\ x.id # 0
        /\ \A r \in Requests(s, "notify") : r.call # c
    BY <1>1 DEF Sound, AnswerInv, CallInv, DaemonInv
  <1>3. /\ t.refs = s.refs - 1 /\ t.serial = s.serial /\ t.generation = s.generation
        /\ t.stopped = s.stopped /\ t.ready = s.ready /\ t.abilities = s.abilities
        /\ t.owner = s.owner /\ t.calls = s.calls \ {c} /\ t.out = s.out
        /\ t.notices = [s.notices EXCEPT ![slot].id = x.id]
        /\ t \in Backend
    <2> DEFINE notices == [s.notices EXCEPT ![slot].id = x.id]
               u == [s EXCEPT !.notices = notices]
    <2>1. notices \in [Slots -> Notice]
      <3> DEFINE v == [s.notices[slot] EXCEPT !.id = x.id]
      <3>1. s.notices[slot] \in Notice /\ s.notices \in [Slots -> Notice]
        BY <1>1 DEF Backend
      <3>2. v \in Notice
        BY <1>1, <3>1 DEF Notice
      <3>3. notices = [s.notices EXCEPT ![slot] = v]
        OBVIOUS
      <3> HIDE DEF v, notices
      <3> QED BY <1>1, <3>1, <3>2, <3>3
    <2>2. [s EXCEPT !.notices[slot].id = x.id] = u
      BY <1>1 DEF Backend
    <2> HIDE DEF notices
    <2>3. /\ u.refs = s.refs /\ u.serial = s.serial /\ u.generation = s.generation
          /\ u.stopped = s.stopped /\ u.ready = s.ready /\ u.abilities = s.abilities
          /\ u.owner = s.owner /\ u.calls = s.calls /\ u.out = s.out
          /\ u.notices = notices
          /\ u \in Backend
      BY <1>1, <2>1 DEF Backend
    <2>4. t = Release(u, c)
      BY <2>2 DEF Learned
    <2> HIDE DEF u, t
    <2>5. /\ t.refs = u.refs - 1 /\ t.serial = u.serial /\ t.generation = u.generation
          /\ t.stopped = u.stopped /\ t.ready = u.ready /\ t.abilities = u.abilities
          /\ t.owner = u.owner /\ t.calls = u.calls \ {c} /\ t.out = u.out
          /\ t.notices = u.notices /\ t \in Backend
      BY <2>3, <2>4, ReleaseFields
    <2> QED BY <2>3, <2>5 DEF notices
  <1> HIDE DEF t
  <1>4. /\ \A i \in Slots : /\ t.notices[i].chat = s.notices[i].chat
                            /\ t.notices[i].number = s.notices[i].number
                            /\ t.notices[i].serial = s.notices[i].serial
                            /\ t.notices[i].pending = s.notices[i].pending
                            /\ i # slot => t.notices[i] = s.notices[i]
        /\ t.notices[slot].id = x.id
        /\ Kept(t) = Kept(s) /\ Kept(s) \subseteq Slots
    <2>1. ASSUME NEW i \in Slots
          PROVE  /\ t.notices[i].chat = s.notices[i].chat
                 /\ t.notices[i].number = s.notices[i].number
                 /\ t.notices[i].serial = s.notices[i].serial
                 /\ t.notices[i].pending = s.notices[i].pending
                 /\ i # slot => t.notices[i] = s.notices[i]
                 /\ i = slot => t.notices[i].id = x.id
      <3>1. s.notices[i] \in Notice
        BY <1>1 DEF Backend
      <3>2. CASE i = slot
        <4>1. t.notices[i] = [s.notices[i] EXCEPT !.id = x.id]
          BY <1>1, <1>3, <3>2 DEF Backend
        <4> QED BY <3>1, <3>2, <4>1 DEF Notice
      <3>3. CASE i # slot
        BY <1>1, <1>3, <3>3 DEF Backend
      <3> QED BY <3>2, <3>3
    <2> QED BY <1>1, <2>1 DEF Kept
  <1>5. \A kind : Requests(t, kind) = Requests(s, kind)
    BY <1>3 DEF Requests
  <1>6. TypeInv(t, d, e, ab)
    BY <1>3 DEF Sound, TypeInv
  <1>7. NoticeInv(t)
    <2>1. \A i \in Slots \ Kept(t) : t.notices[i] = NoNotice
      BY <1>1, <1>4 DEF Sound, NoticeInv
    <2>2. \A i \in Slots : t.notices[i].pending \/ t.owner = 0 => t.notices[i].id = 0
      BY <1>2, <1>3, <1>4 DEF Sound, NoticeInv
    <2> QED BY <1>3, <1>4, <2>1, <2>2 DEF Sound, NoticeInv
  <1>8. CallInv(t)
    <2>1. ASSUME NEW b \in t.calls, b.kind = "notify", NEW i \in Kept(t),
                 t.notices[i].serial = b.serial
          PROVE  t.notices[i].id = 0 /\ ~t.notices[i].pending
      <3>1. b \in s.calls /\ b # c /\ s.notices[i].serial = b.serial
        BY <1>3, <1>4, <2>1
      <3>2. b.serial # c.serial
        BY <1>2, <2>1, <3>1 DEF Sound, CallInv
      <3>3. i # slot
        BY <3>1, <3>2
      <3> QED BY <1>4, <2>1, <3>1, <3>3 DEF Sound, CallInv
    <2> QED BY <1>3, <2>1 DEF Sound, CallInv
  <1>9. AskInv(t)
    BY <1>3, <1>4, <1>5 DEF Sound, AskInv
  <1>10. AnswerInv(t, e)
    BY <1>3, <1>4, <1>5 DEF Sound, AnswerInv
  <1>11. DaemonInv(t, d, e)
    <2>1. t.owner = d.alive => \A i \in Slots : t.notices[i].id <= d.ids
      <3>1. x.from = d.alive => x.id <= d.ids
        BY <1>1 DEF Sound, DaemonInv
      <3> QED BY <1>1, <1>2, <1>3, <1>4, <3>1 DEF Sound, DaemonInv
    <2> QED BY <1>3, <2>1 DEF Sound, DaemonInv
  <1>12. NameInv(t, d, e)
    <2>1. ASSUME NEW a \in d.shown, NEW i \in Kept(t),
                 \/ t.notices[i].serial = a.serial
                 \/ t.owner = d.alive /\ t.notices[i].id = a.id
          PROVE  t.notices[i].chat = a.chat /\ t.notices[i].number = a.number
      <3>1. CASE i = slot /\ t.owner = d.alive /\ t.notices[i].id = a.id
        <4>1. x.from = d.alive /\ x.id = a.id
          BY <1>2, <1>3, <1>4, <3>1
        <4>2. c.serial = a.serial
          BY <4>1 DEF Sound, NameInv
        <4> QED BY <1>1, <1>4, <3>1, <4>2 DEF Sound, NameInv
      <3>2. CASE ~(i = slot /\ t.owner = d.alive /\ t.notices[i].id = a.id)
        BY <1>3, <1>4, <2>1, <3>2 DEF Sound, NameInv
      <3> QED BY <3>1, <3>2
    <2>2. ASSUME NEW k \in Messages(e, "action"), NEW i \in Kept(t),
                 k.from = t.owner, k.id = t.notices[i].id
          PROVE  t.notices[i].chat = k.chat
      <3>1. CASE i = slot
        <4>1. k.from = x.from /\ k.id = x.id
          BY <1>2, <1>3, <1>4, <2>2, <3>1
        <4>2. s.notices[slot].chat = k.chat
          BY <1>1, <4>1 DEF Sound, NameInv
        <4> QED BY <1>1, <1>4, <3>1, <4>2
      <3>2. CASE i # slot
        BY <1>3, <1>4, <2>2, <3>2 DEF Sound, NameInv
      <3> QED BY <3>1, <3>2
    <2> QED BY <1>4, <2>1, <2>2 DEF Sound, NameInv
  <1>13. WatchInv(t, d, e)
    BY <1>3 DEF Sound, WatchInv
  <1>14. GivenUp(t, d, ab)
    BY <1>2, <1>3, <1>5 DEF Sound, GivenUp
  <1>15. AlertInv(t, d, e, ab)
    <2> SUFFICES ASSUME NEW a \in d.shown
                 PROVE  Held(t, d, ab, a) \/ Answered(t, d, e, a)
      BY DEF AlertInv
    <2>1. Held(s, d, ab, a) \/ Answered(s, d, e, a)
      BY DEF Sound, AlertInv
    <2>2. a.id # 0
      BY DEF Sound, DaemonInv
    <2>3. CASE Held(s, d, ab, a)
      <3>1. ASSUME \E i \in Slots : s.notices[i].id = a.id
            PROVE  \E i \in Slots : t.notices[i].id = a.id
        <4>1. PICK i \in Slots : s.notices[i].id = a.id
          BY <3>1
        <4>2. i # slot
          BY <1>2, <2>2, <4>1
        <4> QED BY <1>4, <4>1, <4>2
      <3> QED BY <1>3, <1>5, <2>3, <3>1 DEF Held
    <2>4. CASE Answered(s, d, e, a)
      <3>1. PICK y \in Messages(e, "notify") :
                   y.from = d.alive /\ y.id = a.id /\ y.call \in s.calls
        BY <2>4 DEF Answered
      <3>2. CASE y.call # c
        BY <1>3, <3>1, <3>2 DEF Answered
      <3>3. CASE y.call = c
        <4>1. y = x
          <5>1. PICK j \in DOMAIN e, k \in DOMAIN e : e[j] = x /\ e[k] = y
            BY <1>1 DEF Messages, ToSet
          <5>2. e[j].kind = "notify" /\ e[k].kind = "notify"
                /\ e[j].call.serial = e[k].call.serial
            BY <1>1, <3>3, <5>1 DEF Messages
          <5>3. j = k
            BY <5>2 DEF Sound, AnswerInv
          <5> QED BY <5>1, <5>3
        <4>2. s.owner = d.alive /\ t.notices[slot].id = a.id
          BY <1>2, <1>4, <3>1, <4>1
        <4> QED BY <1>1, <1>3, <4>2 DEF Held
      <3> QED BY <3>2, <3>3
    <2> QED BY <2>1, <2>3, <2>4
  <1>16. RefsInv(t)
    <2>1. IsFiniteSet(s.calls) /\ s.refs = Cardinality(s.calls)
                                           + (IF s.stopped THEN 0 ELSE 1)
      BY DEF Sound, RefsInv
    <2>2. /\ IsFiniteSet(s.calls \ {c})
          /\ Cardinality(s.calls \ {c}) = Cardinality(s.calls) - 1
      BY <2>1, FS_RemoveElement
    <2>3. Cardinality(s.calls) \in Nat
      BY <2>1, FS_CardinalityType
    <2> QED BY <1>3, <2>1, <2>2, <2>3 DEF RefsInv
  <1> QED BY <1>6, <1>7, <1>8, <1>9, <1>10, <1>11, <1>12, <1>13, <1>14, <1>15, <1>16
          DEF Sound, t

\* notified with a reply.
LEMMA NotifiedSound ==
    ASSUME NEW s, NEW d, NEW e, NEW ab, Sound(s, d, e, ab),
           NEW x \in Messages(e, "notify"), x.call \in s.calls
    PROVE  /\ Sound(Notified(s, x.call, x.id), d, e, ab)
           /\ x.call \notin Notified(s, x.call, x.id).calls
  <1> DEFINE c == x.call
             v == s.notices[c.slot]
             t == Notified(s, c, x.id)
  <1>1. /\ s \in Backend /\ c \in Call /\ c.slot \in Slots /\ x \in ToSet(e)
        /\ x.kind = "notify" /\ c.kind = "notify" /\ c.to = x.from /\ x.id \in Nat
    <2>1. x \in ToSet(e) /\ x.kind = "notify" /\ e \in Seq(Event) /\ s \in Backend
      BY DEF Messages, Sound, TypeInv
    <2>2. x \in Event
      BY <2>1, ToSetFacts
    <2>3. c \in Call
      BY <2>1 DEF Backend
    <2>4. c.kind = "notify" /\ c.to = x.from
      BY <2>1 DEF Sound, AnswerInv
    <2> QED BY <2>1, <2>2, <2>3, <2>4 DEF Event, Call
  <1>2. \A r \in Requests(s, "notify") : r.call # c
    BY DEF Sound, AnswerInv
  <1>3. ASSUME NEW y \in Messages(e, "notify"), y.call = c
        PROVE  y = x
    <2>1. PICK j \in DOMAIN e, k \in DOMAIN e : e[j] = x /\ e[k] = y
      BY DEF Messages, ToSet
    <2>2. e[j].kind = "notify" /\ e[k].kind = "notify"
          /\ e[j].call.serial = e[k].call.serial
      BY <1>3, <2>1 DEF Messages
    <2>3. j = k
      BY <2>2 DEF Sound, AnswerInv
    <2> QED BY <2>1, <2>3
  <1>4. CASE s.stopped \/ c.generation # s.generation
    <2>1. t = Release(s, c)
      BY <1>4 DEF Notified
    <2>2. \A y \in Messages(e, "notify"), a \in d.shown :
            y.call = c /\ y.from = d.alive /\ y.id = a.id => Held(s, d, ab, a)
      <3> SUFFICES ASSUME NEW y \in Messages(e, "notify"), NEW a \in d.shown,
                          y.call = c, y.from = d.alive, y.id = a.id
                   PROVE  Held(s, d, ab, a)
        OBVIOUS
      <3>1. y = x /\ c.to = d.alive
        BY <1>1, <1>3
      <3>2. s.stopped
        BY <1>4, <3>1, LiveCall
      <3>3. c.serial \in ab
        BY <1>1, <3>1, <3>2 DEF Sound, GivenUp
      <3>4. a.serial = c.serial
        BY <3>1 DEF Sound, NameInv
      <3> QED BY <3>3, <3>4 DEF Held
    <2>3. Sound(Release(s, c), d, e, ab)
      <3> HIDE DEF c
      <3> QED BY <1>2, <2>2, CallReleased DEF c
    <2> QED BY <1>1, <2>1, <2>3, ReleaseFields
  <1>5. CASE /\ ~s.stopped /\ c.generation = s.generation
             /\ v.chat # NoChat /\ v.serial = c.serial
    <2>1. t = Learned(s, x)
      BY <1>5 DEF Notified, Learned
    <2>2. c.slot \in Kept(s)
      BY <1>1, <1>5 DEF Kept
    <2>3. Sound(Learned(s, x), d, e, ab)
      BY <1>5, <2>2, NumberLearned
    <2>4. x.call \notin Learned(s, x).calls
      BY DEF Learned, Release
    <2> QED BY <2>1, <2>3, <2>4
  <1>6. CASE /\ ~s.stopped /\ c.generation = s.generation
             /\ ~(v.chat # NoChat /\ v.serial = c.serial)
    <2> DEFINE close == [kind |-> "close", to |-> s.owner, id |-> x.id]
               u == CloseId(s, x.id)
    <2>1. s.owner # 0 /\ s.owner = c.to /\ x.id # 0
      BY <1>1, <1>6 DEF Sound, CallInv, DaemonInv
    <2>2. close \in Closing /\ s.out \in Seq(Asking \cup Closing)
      BY <1>1 DEF Closing, Backend
    <2>3. u = SendCloses(s, <<close>>)
      <3> DEFINE A == Asking \cup Closing
      <3>1. close \in A
        BY <2>2
      <3> HIDE DEF close
      <3>2. Append(s.out, close) = s.out \o <<close>>
        BY <2>2, <3>1, AppendIsConcat
      <3> QED BY <2>1, <3>2 DEF CloseId, SendCloses, close
    <2>4. /\ <<close>> \in Seq(Closing) /\ ToSet(<<close>>) = {close}
      <3> HIDE DEF close
      <3>1. <<close>> \in Seq(Closing)
        BY <2>2
      <3> QED BY <3>1 DEF ToSet
    <2>5. /\ Sound(u, d, e, ab)
          /\ Requests(u, "close") = Requests(s, "close") \cup {close}
      <3>1. \A r \in ToSet(<<close>>) : r.to = s.owner /\ s.owner # 0
        BY <2>1, <2>4
      <3> HIDE DEF close, u
      <3> QED BY <2>3, <2>4, <3>1, ClosesSent
    <2>6. u.calls = s.calls /\ c \in u.calls
      BY <1>1 DEF CloseId, Backend
    <2>7. \A r \in Requests(u, "notify") : r.call # c
      BY <2>5 DEF Sound, AnswerInv
    <2>8. \A y \in Messages(e, "notify"), a \in d.shown :
            y.call = c /\ y.from = d.alive /\ y.id = a.id => Held(u, d, ab, a)
      <3> SUFFICES ASSUME NEW y \in Messages(e, "notify"), NEW a \in d.shown,
                          y.call = c, y.from = d.alive, y.id = a.id
                   PROVE  Held(u, d, ab, a)
        OBVIOUS
      <3>1. y = x /\ s.owner = d.alive /\ a.id = x.id
        BY <1>1, <1>3, <2>1
      <3>2. close \in Requests(u, "close") /\ close.to = d.alive /\ close.id = a.id
        BY <2>5, <3>1
      <3> HIDE DEF close
      <3> QED BY <3>2 DEF Held
    <2>9. t = Release(u, c)
      BY <1>6 DEF Notified
    <2> HIDE DEF u, t, c, close
    <2>10. Sound(Release(u, c), d, e, ab)
      BY <2>5, <2>6, <2>7, <2>8, CallReleased
    <2>11. c \notin Release(u, c).calls
      BY DEF Release
    <2> QED BY <2>9, <2>10, <2>11 DEF t, c
  <1> QED BY <1>4, <1>5, <1>6

\* notified without a reply, its alert given up if the daemon lives.
LEMMA NotifyFailedSound ==
    ASSUME NEW s, NEW d, NEW e, NEW ab, Sound(s, d, e, ab), NEW c \in s.calls,
           c.kind = "notify", c.to = d.alive => c.serial \in ab
    PROVE  Sound(NotifyFailed(s, c), d, e, ab)
  <1> DEFINE clear == c.generation = s.generation
                      /\ s.notices[c.slot].serial = c.serial
             u == IF clear THEN ClearNotice(s, c.slot) ELSE s
  <1>1. s \in Backend /\ c \in Call /\ c.slot \in Slots
    <2>1. s \in Backend /\ c \in Call
      BY DEF Sound, TypeInv, Backend
    <2> QED BY <2>1 DEF Call
  <1>2. Sound(u, d, e, ab) /\ u.calls = s.calls
    <2>1. CASE ~clear
      BY <2>1
    <2>2. CASE clear
      <3>1. u = Cleared(s, {c.slot})
        BY <1>1, <2>2 DEF ClearNotice, Cleared, Backend
      <3>2. s.notices[c.slot].id = 0
        <4>1. CASE c.slot \in Kept(s)
          BY <2>2, <4>1 DEF Sound, CallInv
        <4>2. CASE c.slot \notin Kept(s)
          BY <1>1, <4>2 DEF Sound, NoticeInv, NoNotice
        <4> QED BY <4>1, <4>2
      <3>3. \A a \in d.shown : a.id # 0
        BY DEF Sound, DaemonInv
      <3>4. Sound(Cleared(s, {c.slot}), d, e, ab)
        BY <1>1, <3>2, <3>3, NoticesCleared
      <3>5. Cleared(s, {c.slot}).calls = s.calls
        BY <1>1 DEF Cleared, Backend
      <3> QED BY <3>1, <3>4, <3>5
    <2> QED BY <2>1, <2>2
  <1>3. NotifyFailed(s, c) = Release(u, c)
    BY DEF NotifyFailed
  <1> HIDE DEF u
  <1>4. \A x \in Messages(e, "notify"), a \in d.shown :
          x.call = c /\ x.from = d.alive /\ x.id = a.id => Held(u, d, ab, a)
    <2> SUFFICES ASSUME NEW x \in Messages(e, "notify"), NEW a \in d.shown,
                        x.call = c, x.from = d.alive, x.id = a.id
                 PROVE  Held(u, d, ab, a)
      OBVIOUS
    <2>1. c.to = d.alive
      BY DEF Sound, AnswerInv, Messages
    <2>2. a.serial = c.serial
      BY DEF Sound, NameInv
    <2> QED BY <2>1, <2>2 DEF Held
  <1>5. Sound(Release(u, c), d, e, ab)
    BY <1>2, <1>4, CallReleased
  <1> QED BY <1>3, <1>5

\* The daemon's abilities are known, or taken to be none.
Readied(s, abilities) == [s EXCEPT !.ready = TRUE, !.abilities = abilities]

LEMMA ReadySound ==
    ASSUME NEW s, NEW d, NEW e, NEW ab, Sound(s, d, e, ab), s.owner # 0,
           NEW abilities \in SUBSET {"actions", "images"}
    PROVE  /\ Sound(Readied(s, abilities), d, e, ab)
           /\ Readied(s, abilities).stopped = s.stopped
           /\ Readied(s, abilities).calls = s.calls
  <1> DEFINE t == Readied(s, abilities)
  <1>1. s \in Backend
    BY DEF Sound, TypeInv
  <1>2. /\ t.refs = s.refs /\ t.serial = s.serial /\ t.generation = s.generation
        /\ t.stopped = s.stopped /\ t.ready
        /\ t.owner = s.owner /\ t.calls = s.calls /\ t.out = s.out
        /\ t.notices = s.notices
    BY <1>1 DEF Readied, Backend
  <1>3. t \in Backend
    BY <1>1 DEF Readied, Backend
  <1> HIDE DEF t
  <1>4. Kept(t) = Kept(s) /\ \A kind : Requests(t, kind) = Requests(s, kind)
    BY <1>2 DEF Kept, Requests
  <1>5. TypeInv(t, d, e, ab)
    BY <1>3 DEF Sound, TypeInv
  <1>6. NoticeInv(t)
    BY <1>2, <1>4 DEF Sound, NoticeInv
  <1>7. CallInv(t) /\ AskInv(t) /\ AnswerInv(t, e)
    BY <1>2, <1>4 DEF Sound, CallInv, AskInv, AnswerInv
  <1>8. DaemonInv(t, d, e)
    BY <1>2 DEF Sound, DaemonInv
  <1>9. NameInv(t, d, e)
    BY <1>2, <1>4 DEF Sound, NameInv
  <1>10. WatchInv(t, d, e)
    BY <1>2 DEF Sound, WatchInv
  <1>11. GivenUp(t, d, ab) /\ AlertInv(t, d, e, ab)
    BY <1>2, <1>4 DEF Sound, GivenUp, AlertInv, Held, Answered
  <1>12. RefsInv(t)
    BY <1>2 DEF Sound, RefsInv
  <1> QED BY <1>2, <1>5, <1>6, <1>7, <1>8, <1>9, <1>10, <1>11, <1>12 DEF Sound, t

\* capabilities.
LEMMA CapabilitiesSound ==
    ASSUME NEW s, NEW d, NEW e, NEW ab, Sound(s, d, e, ab), NEW c \in s.calls,
           c.kind = "capabilities", NEW reply \in BOOLEAN,
           NEW abilities \in SUBSET {"actions", "images"}
    PROVE  Sound(Capabilities(s, c, reply, abilities), d, e, ab)
  <1> DEFINE known == IF reply THEN abilities ELSE {}
             skip == s.stopped \/ c.generation # s.generation
             r == Readied(s, known)
             u == IF skip THEN s ELSE SendNotices(r, Slots)
  <1>1. Capabilities(s, c, reply, abilities) = Release(u, c)
    BY DEF Capabilities, Readied
  <1>2. Sound(u, d, e, ab) /\ c \in u.calls
    <2>1. CASE skip
      BY <2>1
    <2>2. CASE ~skip
      <3>1. s.owner # 0
        BY <2>2 DEF Sound, CallInv
      <3>2. Sound(r, d, e, ab) /\ ~r.stopped /\ r.calls = s.calls
        BY <2>2, <3>1, ReadySound
      <3> HIDE DEF r
      <3>3. Sound(SendNotices(r, Slots), d, e, ab)
        BY <3>2, NoticesSent
      <3>4. c \in SendNotices(r, Slots).calls
        <4>1. r \in Backend
          BY <3>2 DEF Sound, TypeInv
        <4> QED BY <3>2, <4>1 DEF SendNotices, Backend
      <3> QED BY <2>2, <3>3, <3>4
    <2> QED BY <2>1, <2>2
  <1> HIDE DEF u
  <1>3. \A q \in Requests(u, "notify") : q.call # c
    BY <1>2 DEF Sound, AskInv, Requests
  <1>4. \A x \in Messages(e, "notify") : x.call # c
    BY DEF Sound, AnswerInv, Messages
  <1>5. Sound(Release(u, c), d, e, ab)
    BY <1>2, <1>3, <1>4, CallReleased
  <1> QED BY <1>1, <1>5

\* zc_notifications_free.
LEMMA StopSound ==
    ASSUME NEW s, NEW d, NEW e, NEW ab, Sound(s, d, e, ab), ~s.stopped,
           NEW more \in SUBSET Nat, ab \subseteq more,
           \A c \in s.calls : c.kind = "notify" /\ c.to = d.alive => c.serial \in more
    PROVE  Sound(Stop(s), d, e, more)
  <1> DEFINE u == CloseSlots(s, Slots)
             t == Stop(s)
  <1>1. /\ Sound(u, d, e, ab) /\ u.calls = s.calls /\ u.notices = s.notices
        /\ u.owner = s.owner /\ u.refs = s.refs /\ u.stopped = s.stopped
        /\ s.owner # 0 =>
             \A i \in Slots : s.notices[i].id # 0 =>
                \E r \in Requests(u, "close") : r.to = s.owner /\ r.id = s.notices[i].id
    BY SlotsDropped
  <1>2. Sound(u, d, e, more)
    BY <1>1, MoreGivenUp
  <1>3. u \in Backend
    BY <1>1 DEF Sound, TypeInv
  <1> HIDE DEF u
  <1>4. /\ t.refs = u.refs - 1 /\ t.serial = u.serial /\ t.generation = u.generation
        /\ t.stopped /\ t.ready = u.ready /\ t.abilities = u.abilities
        /\ t.owner = u.owner /\ t.calls = u.calls /\ t.out = u.out
        /\ t.notices = u.notices
    BY <1>3 DEF Stop, Backend, u
  <1>5. t \in Backend
    <2> DEFINE refs == u.refs - 1
    <2>1. refs \in Int
      BY <1>3 DEF Backend
    <2>2. t = [u EXCEPT !.stopped = TRUE, !.refs = refs]
      BY DEF Stop, u
    <2> HIDE DEF refs, t
    <2> QED BY <1>3, <2>1, <2>2 DEF Backend
  <1> HIDE DEF t
  <1>6. Kept(t) = Kept(u) /\ \A kind : Requests(t, kind) = Requests(u, kind)
    BY <1>4 DEF Kept, Requests
  <1>7. TypeInv(t, d, e, more)
    BY <1>2, <1>5 DEF Sound, TypeInv
  <1>8. NoticeInv(t) /\ CallInv(t)
    BY <1>2, <1>4, <1>6 DEF Sound, NoticeInv, CallInv
  <1>9. AskInv(t) /\ AnswerInv(t, e)
    BY <1>2, <1>4, <1>6 DEF Sound, AskInv, AnswerInv
  <1>10. DaemonInv(t, d, e)
    BY <1>2, <1>4 DEF Sound, DaemonInv
  <1>11. NameInv(t, d, e)
    BY <1>2, <1>4, <1>6 DEF Sound, NameInv
  <1>12. WatchInv(t, d, e)
    BY <1>2, <1>4 DEF Sound, WatchInv
  <1>13. GivenUp(t, d, more)
    <2>1. ASSUME NEW r \in Requests(u, "notify"), r.to = d.alive
          PROVE  r.call.serial \in more
      <3>1. r.call.serial \in more \/ r.call \in u.calls
        BY <1>2, <2>1 DEF Sound, GivenUp
      <3>2. r.call.kind = "notify" /\ r.call.to = d.alive
        BY <1>2, <2>1 DEF Sound, AskInv, Requests
      <3> QED BY <1>1, <3>1, <3>2
    <2> QED BY <1>1, <1>4, <1>6, <2>1 DEF GivenUp
  <1>14. AlertInv(t, d, e, more)
    <2> SUFFICES ASSUME NEW a \in d.shown
                 PROVE  Held(t, d, more, a) \/ Answered(t, d, e, a)
      BY DEF AlertInv
    <2>1. Held(u, d, more, a) \/ Answered(u, d, e, a)
      BY <1>2 DEF Sound, AlertInv
    <2>2. ASSUME u.owner = d.alive, \E i \in Slots : u.notices[i].id = a.id
          PROVE  Held(t, d, more, a)
      <3>1. a.id # 0 /\ d.alive # 0
        BY DEF Sound, DaemonInv
      <3>2. \E r \in Requests(u, "close") : r.to = d.alive /\ r.id = a.id
        BY <1>1, <2>2, <3>1
      <3> QED BY <1>6, <3>2 DEF Held
    <2> QED BY <1>4, <1>6, <2>1, <2>2 DEF Held, Answered
  <1>15. RefsInv(t)
    <2>1. IsFiniteSet(u.calls) /\ u.refs = Cardinality(u.calls) + 1
      BY <1>1 DEF Sound, RefsInv
    <2>2. Cardinality(u.calls) \in Nat
      BY <2>1, FS_CardinalityType
    <2> QED BY <1>4, <2>1, <2>2 DEF RefsInv
  <1> QED BY <1>7, <1>8, <1>9, <1>10, <1>11, <1>12, <1>13, <1>14, <1>15 DEF Sound, t

-----------------------------------------------------------------------------
(* Messages that are dispatched.                                            *)

\* The messages after the first.
LEMMA TailFacts ==
    ASSUME NEW e \in Seq(Event), e # <<>>
    PROVE  /\ Head(e) \in Event /\ Tail(e) \in Seq(Event)
           /\ ToSet(e) = ToSet(Tail(e)) \cup {Head(e)}
           /\ \A kind : Messages(Tail(e), kind) \subseteq Messages(e, kind)
           /\ \A k \in DOMAIN Tail(e) :
                k \in Nat \ {0} /\ k + 1 \in DOMAIN e /\ Tail(e)[k] = e[k + 1]
           /\ \A k \in DOMAIN e : \/ k = 1
                                  \/ k - 1 \in DOMAIN Tail(e) /\ Tail(e)[k - 1] = e[k]
           /\ 1 \in DOMAIN e /\ e[1] = Head(e)
           /\ DOMAIN e \subseteq Nat \ {0}
  <1>1. /\ Head(e) \in Event /\ Tail(e) \in Seq(Event)
        /\ ToSet(e) = ToSet(Tail(e)) \cup {Head(e)}
    BY ToSetFacts
  <1>2. \A kind : Messages(Tail(e), kind) \subseteq Messages(e, kind)
    BY <1>1 DEF Messages
  <1>3. /\ Len(e) \in Nat \ {0} /\ Len(Tail(e)) = Len(e) - 1
        /\ DOMAIN e = 1..Len(e) /\ DOMAIN Tail(e) = 1..(Len(e) - 1)
        /\ \A k \in 1..(Len(e) - 1) : Tail(e)[k] = e[k + 1]
        /\ e[1] = Head(e)
    BY <1>1, EmptySeq, HeadTailProperties, LenProperties
  <1> QED BY <1>1, <1>2, <1>3

\* Everything but the watch survives when a message is taken; the watch does too if
\* the message is no change of owner.
LEMMA MessageTaken ==
    ASSUME NEW s, NEW d, NEW e, NEW ab, Sound(s, d, e, ab), e # <<>>,
           Head(e).kind = "notify" => Head(e).call \notin s.calls
    PROVE  /\ TypeInv(s, d, Tail(e), ab) /\ AnswerInv(s, Tail(e))
           /\ DaemonInv(s, d, Tail(e)) /\ NameInv(s, d, Tail(e))
           /\ AlertInv(s, d, Tail(e), ab)
           /\ s.stopped \/ ~IsChange(Head(e)) => Sound(s, d, Tail(e), ab)
  <1> DEFINE f == Tail(e)
  <1>1. e \in Seq(Event)
    BY DEF Sound, TypeInv
  <1>2. /\ f \in Seq(Event) /\ ToSet(e) = ToSet(f) \cup {Head(e)}
        /\ \A kind : Messages(f, kind) \subseteq Messages(e, kind)
        /\ \A k \in DOMAIN f : k \in Nat \ {0} /\ k + 1 \in DOMAIN e /\ f[k] = e[k + 1]
        /\ \A k \in DOMAIN e : k = 1 \/ (k - 1 \in DOMAIN f /\ f[k - 1] = e[k])
        /\ e[1] = Head(e) /\ DOMAIN e \subseteq Nat \ {0}
    BY <1>1, TailFacts
  <1> HIDE DEF f
  <1>3. TypeInv(s, d, f, ab)
    BY <1>2 DEF Sound, TypeInv
  <1>4. AnswerInv(s, f)
    <2>1. ASSUME NEW j \in DOMAIN f, NEW k \in DOMAIN f,
                 f[j].kind = "notify", f[k].kind = "notify",
                 f[j].call.serial = f[k].call.serial
          PROVE  j = k
      <3>1. j + 1 = k + 1
        BY <1>2, <2>1 DEF Sound, AnswerInv
      <3> QED BY <1>2, <3>1
    <2> QED BY <1>2, <2>1 DEF Sound, AnswerInv
  <1>5. DaemonInv(s, d, f)
    BY <1>2 DEF Sound, DaemonInv
  <1>6. NameInv(s, d, f)
    BY <1>2 DEF Sound, NameInv
  <1>7. AlertInv(s, d, f, ab)
    <2> SUFFICES ASSUME NEW a \in d.shown, Answered(s, d, e, a)
                 PROVE  Answered(s, d, f, a)
      BY DEF Sound, AlertInv
    <2>1. PICK x \in Messages(e, "notify") :
                 x.from = d.alive /\ x.id = a.id /\ x.call \in s.calls
      BY DEF Answered
    <2>2. x # Head(e)
      BY <2>1 DEF Messages
    <2>3. x \in Messages(f, "notify")
      BY <1>2, <2>2 DEF Messages
    <2> QED BY <2>1, <2>3 DEF Answered
  <1>8. ASSUME s.stopped \/ ~IsChange(Head(e))
        PROVE  WatchInv(s, d, f)
    <2> SUFFICES ASSUME ~s.stopped
                 PROVE  WatchInv(s, d, f)
      BY DEF Sound, WatchInv
    <2>1. \A k \in DOMAIN f : IsChange(f[k]) =>
            Number(f[k]) > s.generation /\ Number(f[k]) <= Final(d)
      BY <1>2 DEF Sound, WatchInv
    <2>2. \A j, k \in DOMAIN f : IsChange(f[j]) /\ IsChange(f[k]) /\ j < k
             => Number(f[j]) < Number(f[k])
      <3> SUFFICES ASSUME NEW j \in DOMAIN f, NEW k \in DOMAIN f,
                          IsChange(f[j]), IsChange(f[k]), j < k
                   PROVE  Number(f[j]) < Number(f[k])
        OBVIOUS
      <3>1. j + 1 < k + 1 /\ j + 1 \in DOMAIN e /\ k + 1 \in DOMAIN e
        BY <1>2
      <3> QED BY <1>2, <3>1 DEF Sound, WatchInv
    <2>3. ASSUME NEW m \in (s.generation + 1)..Final(d)
          PROVE  \E k \in DOMAIN f : IsChange(f[k]) /\ Number(f[k]) = m
      <3>1. PICK k \in DOMAIN e : IsChange(e[k]) /\ Number(e[k]) = m
        BY DEF Sound, WatchInv
      <3>2. k # 1
        BY <1>2, <1>8, <3>1
      <3> QED BY <1>2, <3>1, <3>2
    <2> QED BY <2>1, <2>2, <2>3 DEF Sound, WatchInv
  <1> QED BY <1>3, <1>4, <1>5, <1>6, <1>7, <1>8 DEF Sound, f

\* A change of owner is the next one, and the others follow it.
LEMMA ChangeTaken ==
    ASSUME NEW s, NEW d, NEW e, NEW ab, Sound(s, d, e, ab), e # <<>>, ~s.stopped,
           IsChange(Head(e))
    PROVE  /\ Number(Head(e)) = s.generation + 1 /\ s.generation + 1 <= Final(d)
           /\ \A k \in DOMAIN Tail(e) : IsChange(Tail(e)[k]) =>
                 /\ Number(Tail(e)[k]) > s.generation + 1
                 /\ Number(Tail(e)[k]) <= Final(d)
           /\ \A j, k \in DOMAIN Tail(e) :
                IsChange(Tail(e)[j]) /\ IsChange(Tail(e)[k]) /\ j < k
                   => Number(Tail(e)[j]) < Number(Tail(e)[k])
           /\ \A m \in (s.generation + 2)..Final(d) :
                \E k \in DOMAIN Tail(e) : IsChange(Tail(e)[k]) /\ Number(Tail(e)[k]) = m
  <1> DEFINE f == Tail(e)
  <1>1. e \in Seq(Event) /\ s.generation \in Nat /\ d.started \in Nat
    BY DEF Sound, TypeInv, Backend, Daemon
  <1>2. /\ ToSet(e) = ToSet(f) \cup {Head(e)}
        /\ \A k \in DOMAIN f : k \in Nat \ {0} /\ k + 1 \in DOMAIN e /\ f[k] = e[k + 1]
        /\ \A k \in DOMAIN e : k = 1 \/ (k - 1 \in DOMAIN f /\ f[k - 1] = e[k])
        /\ 1 \in DOMAIN e /\ e[1] = Head(e) /\ DOMAIN e \subseteq Nat \ {0}
    BY <1>1, TailFacts
  <1> HIDE DEF f
  <1>3. Final(d) \in Int
    BY <1>1 DEF Final
  <1>4. \A k \in DOMAIN e : Number(e[k]) \in Int
    <2>1. \A k \in DOMAIN e : e[k] \in ToSet(e)
      BY DEF ToSet
    <2>2. \A x \in ToSet(e) : x.from \in Int
      BY <1>1 DEF Sound, DaemonInv
    <2> QED BY <2>1, <2>2 DEF Number
  <1>5. /\ \A k \in DOMAIN e : IsChange(e[k]) =>
             Number(e[k]) > s.generation /\ Number(e[k]) <= Final(d)
        /\ \A j, k \in DOMAIN e : IsChange(e[j]) /\ IsChange(e[k]) /\ j < k
             => Number(e[j]) < Number(e[k])
        /\ \A m \in (s.generation + 1)..Final(d) :
             \E k \in DOMAIN e : IsChange(e[k]) /\ Number(e[k]) = m
    BY DEF Sound, WatchInv
  <1>6. Number(e[1]) = s.generation + 1
    <2>1. s.generation < Number(e[1]) /\ Number(e[1]) <= Final(d)
      BY <1>2, <1>5
    <2>2. s.generation + 1 \in (s.generation + 1)..Final(d)
      BY <1>1, <1>2, <1>3, <1>4, <2>1
    <2>3. PICK k \in DOMAIN e : IsChange(e[k]) /\ Number(e[k]) = s.generation + 1
      BY <1>5, <2>2
    <2>4. ASSUME k # 1
          PROVE  FALSE
      <3>1. 1 < k
        BY <1>2, <2>4
      <3>2. Number(e[1]) < Number(e[k])
        BY <1>2, <1>5, <2>3, <3>1
      <3> QED BY <1>1, <1>2, <1>4, <2>1, <2>3, <3>2
    <2> QED BY <2>3, <2>4
  <1>7. ASSUME NEW k \in DOMAIN f, IsChange(f[k])
        PROVE  Number(f[k]) > s.generation + 1 /\ Number(f[k]) <= Final(d)
    <2>1. k + 1 \in DOMAIN e /\ f[k] = e[k + 1] /\ 1 < k + 1
      BY <1>2
    <2>2. Number(e[1]) < Number(e[k + 1])
      BY <1>2, <1>5, <1>7, <2>1
    <2> QED BY <1>1, <1>4, <1>5, <1>6, <1>7, <2>1, <2>2
  <1>8. ASSUME NEW j \in DOMAIN f, NEW k \in DOMAIN f, IsChange(f[j]), IsChange(f[k]),
               j < k
        PROVE  Number(f[j]) < Number(f[k])
    <2>1. j + 1 < k + 1 /\ j + 1 \in DOMAIN e /\ k + 1 \in DOMAIN e
      BY <1>2, <1>8
    <2> QED BY <1>2, <1>5, <1>8, <2>1
  <1>9. ASSUME NEW m \in (s.generation + 2)..Final(d)
        PROVE  \E k \in DOMAIN f : IsChange(f[k]) /\ Number(f[k]) = m
    <2>1. m \in (s.generation + 1)..Final(d) /\ m # s.generation + 1
      BY <1>1, <1>3
    <2>2. PICK k \in DOMAIN e : IsChange(e[k]) /\ Number(e[k]) = m
      BY <1>5, <2>1
    <2>3. k # 1
      BY <1>6, <2>1, <2>2
    <2> QED BY <1>2, <2>2, <2>3
  <1>10. s.generation + 1 <= Final(d)
    BY <1>2, <1>5, <1>6
  <1> QED BY <1>2, <1>6, <1>7, <1>8, <1>9, <1>10 DEF f

\* appeared: the daemon before it is gone, so no notice has a number.
LEMMA AppearedSound ==
    ASSUME NEW s, NEW d, NEW e, NEW ab, Sound(s, d, e, ab), e # <<>>, ~s.stopped,
           Head(e).kind = "appeared"
    PROVE  Sound(Appeared(s, Head(e).from), d, Tail(e), ab)
  <1> DEFINE f == Tail(e)
             o == Head(e).from
             c == [kind |-> "capabilities", generation |-> s.generation + 1,
                   slot |-> 1, serial |-> s.notices[1].serial, to |-> o]
             r == [kind |-> "capabilities", to |-> o, call |-> c,
                   message |-> NoMessage, actions |-> "actions" \in s.abilities]
             t == Appeared(s, o)
  <1>1. /\ s \in Backend /\ e \in Seq(Event) /\ Head(e) \in ToSet(e)
        /\ s.generation \in Nat /\ s.owner \in Nat /\ d.started \in Nat
        /\ s.out \in Seq(Asking \cup Closing) /\ 1 \in Slots
    BY TailFacts, NoticesAssumption DEF Sound, TypeInv, Backend, Daemon, Slots
  <1>2. o \in Nat /\ o # 0 /\ o <= d.started
    BY <1>1 DEF Sound, DaemonInv
  <1>3. /\ s.generation + 1 = 2 * o - 1 /\ s.generation + 1 <= Final(d)
        /\ \A k \in DOMAIN f : IsChange(f[k]) =>
              Number(f[k]) > s.generation + 1 /\ Number(f[k]) <= Final(d)
        /\ \A j, k \in DOMAIN f : IsChange(f[j]) /\ IsChange(f[k]) /\ j < k
              => Number(f[j]) < Number(f[k])
        /\ \A m \in (s.generation + 2)..Final(d) :
             \E k \in DOMAIN f : IsChange(f[k]) /\ Number(f[k]) = m
    <2>1. IsChange(Head(e)) /\ Number(Head(e)) = 2 * o - 1
      BY DEF IsChange, Number
    <2> HIDE DEF o, f
    <2> QED BY <2>1, ChangeTaken DEF f
  <1>4. s.owner = 0
    <2>1. s.owner # 0 => s.generation = 2 * s.owner - 1
      BY DEF Sound, WatchInv
    <2> HIDE DEF o
    <2> QED BY <1>1, <1>2, <1>3, <2>1
  <1>5. /\ TypeInv(s, d, f, ab) /\ AnswerInv(s, f) /\ DaemonInv(s, d, f)
        /\ NameInv(s, d, f) /\ AlertInv(s, d, f, ab)
    BY MessageTaken
  <1>6. \A i \in Slots : s.notices[i].id = 0
    BY <1>4 DEF Sound, NoticeInv
  <1>7. c \in Call /\ r \in Asking
    <2>1. s.notices[1] \in Notice
      BY <1>1 DEF Backend
    <2>2. NoMessage \in Message
      <3>1. 0 \in 0..MaxMessages
        BY NoticesAssumption
      <3> QED BY <3>1 DEF NoMessage, Message
    <2>3. c \in Call
      BY <1>1, <1>2, <2>1 DEF Call, Notice
    <2> HIDE DEF c, o
    <2> QED BY <1>2, <2>2, <2>3 DEF Asking
  <1>8. /\ t.refs = s.refs + 1 /\ t.serial = s.serial
        /\ t.generation = s.generation + 1
        /\ t.stopped = s.stopped /\ ~t.ready
        /\ t.owner = o /\ t.calls = s.calls \cup {c} /\ t.out = Append(s.out, r)
        /\ t.notices = s.notices /\ t \in Backend
    <2> DEFINE refs == s.refs + 1
               generation == s.generation + 1
               calls == s.calls \cup {c}
               out == Append(s.out, r)
               u == [s EXCEPT !.generation = @ + 1, !.ready = FALSE, !.owner = o]
    <2>1. refs \in Int /\ generation \in Nat /\ calls \in SUBSET Call
      BY <1>1, <1>7 DEF Backend
    <2>2. out \in Seq(Asking \cup Closing)
      BY <1>1, <1>7, AppendProperties
    <2>3. NewCall(u, "capabilities", 1) = c
      BY <1>1 DEF NewCall, Backend
    <2>4. Request(u, c, NoMessage) = r
      BY <1>1 DEF Request, Backend
    <2>5. t = [u EXCEPT !.refs = @ + 1, !.calls = @ \cup {c}, !.out = Append(@, r)]
      BY <2>3, <2>4 DEF Appeared
    <2> HIDE DEF c, r, o
    <2>6. t = [s EXCEPT !.refs = refs, !.generation = generation, !.ready = FALSE,
                        !.owner = o, !.calls = calls, !.out = out]
      BY <1>1, <2>5 DEF Backend
    <2> HIDE DEF t, refs, generation, calls, out
    <2>7. /\ t.refs = refs /\ t.serial = s.serial /\ t.generation = generation
          /\ t.stopped = s.stopped /\ ~t.ready
          /\ t.owner = o /\ t.calls = calls /\ t.out = out /\ t.notices = s.notices
      BY <1>1, <2>6 DEF Backend
    <2>8. t \in Backend
      BY <1>1, <1>2, <2>1, <2>2, <2>6 DEF Backend
    <2> QED BY <2>7, <2>8 DEF refs, generation, calls, out
  <1>9. /\ c.kind = "capabilities" /\ c.to = o /\ c.generation = s.generation + 1
        /\ r.kind = "capabilities" /\ r.to = o /\ r.call = c
    OBVIOUS
  <1> HIDE DEF t, c, r, o
  <1>10. ToSet(t.out) = ToSet(s.out) \cup {r}
    <2> DEFINE A == Asking \cup Closing
    <2>1. s.out \in Seq(A) /\ r \in A
      BY <1>1, <1>7
    <2> HIDE DEF A
    <2> QED BY <1>8, <2>1, ToSetFacts
  <1>11. /\ Kept(t) = Kept(s) /\ Kept(s) \subseteq Slots
         /\ Requests(t, "notify") = Requests(s, "notify")
         /\ Requests(t, "close") = Requests(s, "close")
    BY <1>8, <1>9, <1>10 DEF Kept, Requests
  <1>12. \A b \in s.calls : b.generation <= s.generation /\ b.generation \in Nat
    BY <1>1 DEF Sound, CallInv, Backend, Call
  <1>13. TypeInv(t, d, f, ab)
    BY <1>5, <1>8 DEF TypeInv
  <1>14. NoticeInv(t)
    BY <1>6, <1>8, <1>11 DEF Sound, NoticeInv
  <1>15. CallInv(t)
    <2>1. ASSUME NEW b \in t.calls
          PROVE  /\ b.to # 0 /\ b.generation = 2 * b.to - 1
                 /\ b.generation <= t.generation
                 /\ b.generation = t.generation => b.to = t.owner
                 /\ b.kind = "notify" => b.serial \in 1..t.serial
      <3>1. CASE b = c
        BY <1>1, <1>2, <1>3, <1>8, <1>9, <3>1
      <3>2. CASE b \in s.calls
        <4>1. b.generation <= t.generation /\ b.generation # t.generation
          BY <1>1, <1>8, <1>12, <3>2
        <4> QED BY <1>8, <3>2, <4>1 DEF Sound, CallInv
      <3> QED BY <1>8, <3>1, <3>2
    <2>2. \A b \in t.calls : b.kind = "notify" => b \in s.calls
      BY <1>8, <1>9
    <2>3. \A b, y \in t.calls :
            b.kind = "notify" /\ y.kind = "notify" /\ b.serial = y.serial => b = y
      BY <2>2 DEF Sound, CallInv
    <2>4. \A b \in t.calls : b.kind = "notify" =>
            \A i \in Kept(t) : t.notices[i].serial = b.serial =>
               t.notices[i].id = 0 /\ ~t.notices[i].pending
      BY <1>8, <1>11, <2>2 DEF Sound, CallInv
    <2> QED BY <2>1, <2>3, <2>4 DEF CallInv
  <1>16. AskInv(t)
    <2>1. ASSUME NEW j \in DOMAIN t.out, t.out[j].kind = "notify"
          PROVE  j \in DOMAIN s.out /\ t.out[j] = s.out[j]
      <3> DEFINE A == Asking \cup Closing
      <3>0. s.out \in Seq(A) /\ r \in A
        BY <1>1, <1>7
      <3> HIDE DEF A
      <3>1. /\ Len(s.out) \in Nat /\ DOMAIN s.out = 1..Len(s.out)
            /\ DOMAIN t.out = 1..(Len(s.out) + 1)
            /\ \A i \in 1..Len(s.out) : t.out[i] = s.out[i]
            /\ t.out[Len(s.out) + 1] = r
        BY <1>8, <3>0, AppendProperties, LenProperties
      <3>2. j # Len(s.out) + 1
        BY <1>9, <2>1, <3>1
      <3> QED BY <3>1, <3>2
    <2>2. \A j, k \in DOMAIN t.out :
             t.out[j].kind = "notify" /\ t.out[k].kind = "notify"
                /\ t.out[j].call.serial = t.out[k].call.serial => j = k
      BY <2>1 DEF Sound, AskInv
    <2>3. \A q \in ToSet(t.out) :
             /\ q.to # 0
             /\ q.kind # "close" => q.call.kind = q.kind /\ q.call.to = q.to
      BY <1>2, <1>9, <1>10 DEF Sound, AskInv
    <2> QED BY <1>8, <1>11, <2>2, <2>3 DEF Sound, AskInv
  <1>17. AnswerInv(t, f)
    BY <1>5, <1>8, <1>11 DEF AnswerInv
  <1>18. DaemonInv(t, d, f)
    <2>1. \A b \in t.calls : b.to <= d.started
      BY <1>2, <1>5, <1>8, <1>9 DEF DaemonInv
    <2>2. \A q \in ToSet(t.out) : q.to <= d.started
      BY <1>2, <1>5, <1>9, <1>10 DEF DaemonInv
    <2>3. \A i \in Slots : t.notices[i].id <= d.ids
      <3>1. d.ids \in Nat
        BY DEF Sound, TypeInv, Daemon
      <3> QED BY <1>6, <1>8, <3>1
    <2> QED BY <1>2, <1>5, <1>8, <2>1, <2>2, <2>3 DEF DaemonInv
  <1>19. NameInv(t, d, f)
    <2>1. /\ \A a \in d.shown : a.id # 0
          /\ \A k \in Messages(f, "action") : k.id # 0
      BY <1>5 DEF DaemonInv, Messages
    <2> QED BY <1>5, <1>6, <1>8, <1>11, <2>1 DEF NameInv
  <1>20. WatchInv(t, d, f)
    <2>1. (t.generation + 1)..Final(d) = (s.generation + 2)..Final(d)
      BY <1>1, <1>8
    <2> QED BY <1>3, <1>8, <2>1 DEF WatchInv
  <1>21. GivenUp(t, d, ab)
    BY <1>8, <1>11 DEF Sound, GivenUp
  <1>22. AlertInv(t, d, f, ab)
    <2>1. \A a \in d.shown : a.id # 0
      BY DEF Sound, DaemonInv
    <2> QED BY <1>5, <1>6, <1>8, <1>11, <2>1 DEF AlertInv, Held, Answered
  <1>23. RefsInv(t)
    <2>1. IsFiniteSet(s.calls) /\ s.refs = Cardinality(s.calls) + 1
      BY DEF Sound, RefsInv
    <2>2. c \notin s.calls
      BY <1>1, <1>9, <1>12
    <2>3. /\ IsFiniteSet(s.calls \cup {c})
          /\ Cardinality(s.calls \cup {c}) = Cardinality(s.calls) + 1
      BY <2>1, <2>2, FS_AddElement
    <2>4. Cardinality(s.calls) \in Nat
      BY <2>1, FS_CardinalityType
    <2> QED BY <1>8, <2>1, <2>3, <2>4 DEF RefsInv
  <1> QED BY <1>13, <1>14, <1>15, <1>16, <1>17, <1>18, <1>19, <1>20, <1>21, <1>22,
             <1>23 DEF Sound, t, o, f

\* vanished: the daemon and its alerts are gone by now.
LEMMA VanishedSound ==
    ASSUME NEW s, NEW d, NEW e, NEW ab, Sound(s, d, e, ab), e # <<>>, ~s.stopped,
           Head(e).kind = "vanished"
    PROVE  Sound(Vanished(s), d, Tail(e), ab)
  <1> DEFINE f == Tail(e)
             u == Cleared(s, Slots)
             t == Vanished(s)
  <1>1. /\ s \in Backend /\ s.generation \in Nat /\ s.owner \in Nat
        /\ d.started \in Nat /\ d.alive \in {0, d.started}
        /\ e \in Seq(Event)
    BY DEF Sound, TypeInv, Backend, Daemon, DaemonInv
  <1>2. /\ s.generation + 1 <= Final(d)
        /\ \A k \in DOMAIN f : IsChange(f[k]) =>
              Number(f[k]) > s.generation + 1 /\ Number(f[k]) <= Final(d)
        /\ \A j, k \in DOMAIN f : IsChange(f[j]) /\ IsChange(f[k]) /\ j < k
              => Number(f[j]) < Number(f[k])
        /\ \A m \in (s.generation + 2)..Final(d) :
             \E k \in DOMAIN f : IsChange(f[k]) /\ Number(f[k]) = m
    <2>1. IsChange(Head(e))
      BY DEF IsChange
    <2> HIDE DEF f
    <2> QED BY <2>1, ChangeTaken DEF f
  <1>3. \A a \in d.shown : s.owner # d.alive
    <2> SUFFICES ASSUME NEW a \in d.shown, s.owner = d.alive
                 PROVE  FALSE
      OBVIOUS
    <2>1. d.alive # 0
      BY DEF Sound, DaemonInv
    <2>2. s.generation = 2 * d.alive - 1
      BY <2>1 DEF Sound, WatchInv
    <2>3. Final(d) = 2 * d.alive - 1
      BY <1>1, <2>1 DEF Final
    <2> QED BY <1>1, <1>2, <2>2, <2>3
  <1>4. Sound(u, d, e, ab)
    BY <1>3, NoticesCleared
  <1>5. /\ u \in Backend /\ u.refs = s.refs /\ u.serial = s.serial
        /\ u.generation = s.generation
        /\ u.stopped = s.stopped /\ u.owner = s.owner /\ u.calls = s.calls
        /\ u.out = s.out /\ \A i \in Slots : u.notices[i] = NoNotice
    BY <1>1, <1>4 DEF Sound, TypeInv, Cleared, Backend
  <1>6. t = [u EXCEPT !.generation = @ + 1, !.ready = FALSE, !.owner = 0]
    BY <1>1 DEF Vanished, Cleared, Backend
  <1>7. /\ TypeInv(u, d, f, ab) /\ AnswerInv(u, f) /\ DaemonInv(u, d, f)
        /\ NameInv(u, d, f) /\ AlertInv(u, d, f, ab)
    <2> HIDE DEF u
    <2> QED BY <1>4, MessageTaken
  <1> HIDE DEF u, t, f
  <1>8. /\ t.refs = u.refs /\ t.serial = u.serial /\ t.generation = u.generation + 1
        /\ t.stopped = u.stopped /\ ~t.ready
        /\ t.owner = 0 /\ t.calls = u.calls /\ t.out = u.out
        /\ t.notices = u.notices
    BY <1>5, <1>6 DEF Backend
  <1>9. t \in Backend
    <2> DEFINE generation == u.generation + 1
    <2>1. generation \in Nat
      BY <1>1, <1>5
    <2>2. t = [u EXCEPT !.generation = generation, !.ready = FALSE, !.owner = 0]
      BY <1>6
    <2> HIDE DEF generation
    <2> QED BY <1>5, <2>1, <2>2 DEF Backend
  <1>10. /\ Kept(t) = {} /\ Kept(u) = {}
         /\ \A kind : Requests(t, kind) = Requests(u, kind)
    BY <1>5, <1>8 DEF Kept, Requests, NoNotice
  <1>11. TypeInv(t, d, f, ab)
    BY <1>7, <1>9 DEF TypeInv
  <1>12. NoticeInv(t)
    <2>1. \A i \in Slots : t.notices[i] = NoNotice
      BY <1>5, <1>8
    <2>2. NoNotice.id = 0
      BY DEF NoNotice
    <2> QED BY <1>8, <1>10, <2>1, <2>2 DEF NoticeInv
  <1>13. CallInv(t)
    <2>1. \A c \in u.calls : c.generation <= u.generation /\ c.generation \in Nat
      BY <1>4, <1>5 DEF Sound, CallInv, Backend, Call
    <2>2. \A c \in t.calls :
             c.generation <= t.generation /\ c.generation # t.generation
      BY <1>1, <1>5, <1>8, <2>1
    <2> QED BY <1>4, <1>8, <1>10, <2>2 DEF Sound, CallInv
  <1>14. AskInv(t)
    BY <1>4, <1>8, <1>10 DEF Sound, AskInv
  <1>15. AnswerInv(t, f)
    BY <1>7, <1>8, <1>10 DEF AnswerInv
  <1>16. DaemonInv(t, d, f)
    <2>1. \A i \in Slots : t.notices[i].id <= d.ids
      <3>1. d.ids \in Nat
        BY DEF Sound, TypeInv, Daemon
      <3> QED BY <1>5, <1>8, <3>1 DEF NoNotice
    <2> QED BY <1>1, <1>7, <1>8, <2>1 DEF DaemonInv
  <1>17. NameInv(t, d, f)
    BY <1>7, <1>10 DEF NameInv
  <1>18. WatchInv(t, d, f)
    <2>1. t.generation + 1 = s.generation + 2
      BY <1>1, <1>5, <1>8
    <2> QED BY <1>2, <1>5, <1>8, <2>1 DEF WatchInv
  <1>19. GivenUp(t, d, ab)
    BY <1>4, <1>8, <1>10 DEF Sound, GivenUp
  <1>20. AlertInv(t, d, f, ab)
    BY <1>3, <1>5, <1>7, <1>8, <1>10 DEF AlertInv, Held, Answered
  <1>21. RefsInv(t)
    BY <1>4, <1>8 DEF Sound, RefsInv
  <1> QED BY <1>11, <1>12, <1>13, <1>14, <1>15, <1>16, <1>17, <1>18, <1>19, <1>20,
             <1>21 DEF Sound, t, f

-----------------------------------------------------------------------------
(* What the daemon does.                                                    *)

\* Alerts may go.
LEMMA AlertsGone ==
    ASSUME NEW s, NEW d, NEW e, NEW ab, Sound(s, d, e, ab), NEW T \in SUBSET d.shown
    PROVE  Sound(s, [d EXCEPT !.shown = T], e, ab)
  <1> DEFINE u == [d EXCEPT !.shown = T]
  <1>1. d \in Daemon
    BY DEF Sound, TypeInv
  <1>2. /\ u.alive = d.alive /\ u.started = d.started /\ u.ids = d.ids /\ u.shown = T
        /\ u \in Daemon
    BY <1>1 DEF Daemon
  <1> HIDE DEF u
  <1>3. TypeInv(s, u, e, ab)
    BY <1>2 DEF Sound, TypeInv
  <1>4. DaemonInv(s, u, e)
    BY <1>2 DEF Sound, DaemonInv
  <1>5. NameInv(s, u, e)
    BY <1>2 DEF Sound, NameInv
  <1>6. WatchInv(s, u, e)
    BY <1>2 DEF Sound, WatchInv, Final
  <1>7. GivenUp(s, u, ab) /\ AlertInv(s, u, e, ab)
    BY <1>2 DEF Sound, GivenUp, AlertInv, Held, Answered
  <1> QED BY <1>3, <1>4, <1>5, <1>6, <1>7 DEF Sound, u

\* The messages before and with a new one.
LEMMA AppendFacts ==
    ASSUME NEW e \in Seq(Event), NEW x \in Event
    PROVE  /\ Append(e, x) \in Seq(Event)
           /\ ToSet(Append(e, x)) = ToSet(e) \cup {x}
           /\ \A kind : Messages(Append(e, x), kind)
                          = IF x.kind = kind THEN Messages(e, kind) \cup {x}
                            ELSE Messages(e, kind)
           /\ DOMAIN Append(e, x) = DOMAIN e \cup {Len(e) + 1}
           /\ \A k \in DOMAIN e : k \in Nat /\ k < Len(e) + 1 /\ Append(e, x)[k] = e[k]
           /\ Append(e, x)[Len(e) + 1] = x
  <1>1. Append(e, x) \in Seq(Event) /\ ToSet(Append(e, x)) = ToSet(e) \cup {x}
    BY AppendProperties, ToSetFacts
  <1>2. \A kind : Messages(Append(e, x), kind)
                    = IF x.kind = kind THEN Messages(e, kind) \cup {x}
                      ELSE Messages(e, kind)
    BY <1>1 DEF Messages
  <1>3. /\ Len(e) \in Nat /\ DOMAIN e = 1..Len(e)
        /\ DOMAIN Append(e, x) = 1..(Len(e) + 1)
        /\ \A k \in 1..Len(e) : Append(e, x)[k] = e[k]
        /\ Append(e, x)[Len(e) + 1] = x
    BY AppendProperties, LenProperties
  <1>4. 1..(Len(e) + 1) = (1..Len(e)) \cup {Len(e) + 1}
    BY <1>3
  <1> QED BY <1>1, <1>2, <1>3, <1>4

\* A message of the daemon other than an answer to Notify.
LEMMA SignalSent ==
    ASSUME NEW s, NEW d, NEW e, NEW ab, Sound(s, d, e, ab), NEW x \in Event,
           x.kind \in {"capabilities", "closed", "action"},
           x.from = d.alive, d.alive # 0,
           x.kind = "capabilities" => x.call.kind = x.kind /\ x.call.to = x.from,
           x.kind \in {"closed", "action"} => x.id \in 1..d.ids,
           x.kind = "closed" => \A a \in d.shown : x.id # a.id,
           x.kind = "action" => \E a \in d.shown : x.id = a.id /\ x.chat = a.chat
    PROVE  Sound(s, d, Append(e, x), ab)
  <1> DEFINE f == Append(e, x)
  <1>1. e \in Seq(Event) /\ d \in Daemon
    BY DEF Sound, TypeInv
  <1>2. /\ f \in Seq(Event) /\ ToSet(f) = ToSet(e) \cup {x}
        /\ \A kind : Messages(f, kind) = IF x.kind = kind THEN Messages(e, kind) \cup {x}
                                         ELSE Messages(e, kind)
        /\ DOMAIN f = DOMAIN e \cup {Len(e) + 1}
        /\ \A k \in DOMAIN e : f[k] = e[k]
        /\ f[Len(e) + 1] = x
    BY <1>1, AppendFacts
  <1> HIDE DEF f
  <1>3. Messages(f, "notify") = Messages(e, "notify")
    BY <1>2
  <1>4. d.alive \in 1..d.started
    BY <1>1 DEF Sound, DaemonInv, Daemon
  <1>5. TypeInv(s, d, f, ab)
    BY <1>2 DEF Sound, TypeInv
  <1>6. AnswerInv(s, f)
    <2>1. \A j, k \in DOMAIN f :
            f[j].kind = "notify" /\ f[k].kind = "notify"
               /\ f[j].call.serial = f[k].call.serial => j = k
      BY <1>2 DEF Sound, AnswerInv
    <2>2. \A y \in ToSet(f) : y.kind \in {"notify", "capabilities"} =>
            y.call.kind = y.kind /\ y.call.to = y.from
      BY <1>2 DEF Sound, AnswerInv
    <2> QED BY <1>3, <2>1, <2>2 DEF Sound, AnswerInv
  <1>7. DaemonInv(s, d, f)
    <2>1. \A y \in ToSet(f) : y.from \in 1..d.started
      BY <1>2, <1>4 DEF Sound, DaemonInv
    <2>2. \A y \in ToSet(f) : y.kind \in {"notify", "closed", "action"} =>
            y.id # 0 /\ (y.from = d.alive => y.id <= d.ids)
      BY <1>1, <1>2 DEF Sound, DaemonInv, Daemon
    <2>3. \A y \in Messages(f, "closed"), a \in d.shown :
            y.from = d.alive => y.id # a.id
      BY <1>2 DEF Sound, DaemonInv
    <2> QED BY <2>1, <2>2, <2>3 DEF Sound, DaemonInv
  <1>8. NameInv(s, d, f)
    <2>1. ASSUME NEW k \in Messages(f, "action"), NEW i \in Kept(s),
                 k.from = s.owner, k.id = s.notices[i].id
          PROVE  s.notices[i].chat = k.chat
      <3>1. CASE k \in Messages(e, "action")
        BY <2>1, <3>1 DEF Sound, NameInv
      <3>2. CASE k = x /\ x.kind = "action"
        <4>1. PICK a \in d.shown : x.id = a.id /\ x.chat = a.chat
          BY <3>2
        <4> QED BY <2>1, <3>2, <4>1 DEF Sound, NameInv
      <3> QED BY <1>2, <3>1, <3>2
    <2>2. ASSUME NEW k \in Messages(f, "action"), NEW y \in Messages(f, "notify"),
                 NEW i \in Kept(s), k.from = y.from, k.id = y.id,
                 s.notices[i].serial = y.call.serial
          PROVE  s.notices[i].chat = k.chat
      <3>1. CASE k \in Messages(e, "action")
        BY <1>3, <2>2, <3>1 DEF Sound, NameInv
      <3>2. CASE k = x /\ x.kind = "action"
        <4>1. PICK a \in d.shown : x.id = a.id /\ x.chat = a.chat
          BY <3>2
        <4>2. y.call.serial = a.serial
          BY <1>3, <2>2, <3>2, <4>1 DEF Sound, NameInv
        <4> QED BY <2>2, <3>2, <4>1, <4>2 DEF Sound, NameInv
      <3> QED BY <1>2, <3>1, <3>2
    <2> QED BY <1>3, <2>1, <2>2 DEF Sound, NameInv
  <1>9. WatchInv(s, d, f)
    <2>1. /\ ~IsChange(x) /\ \A k \in DOMAIN e : IsChange(f[k]) <=> IsChange(e[k])
          /\ \A k \in DOMAIN f : IsChange(f[k]) => k \in DOMAIN e /\ f[k] = e[k]
      BY <1>2 DEF IsChange
    <2>2. ASSUME ~s.stopped
          PROVE  \A m \in (s.generation + 1)..Final(d) :
                    \E k \in DOMAIN f : IsChange(f[k]) /\ Number(f[k]) = m
      <3> SUFFICES ASSUME NEW m \in (s.generation + 1)..Final(d)
                   PROVE  \E k \in DOMAIN f : IsChange(f[k]) /\ Number(f[k]) = m
        OBVIOUS
      <3>1. PICK k \in DOMAIN e : IsChange(e[k]) /\ Number(e[k]) = m
        BY <2>2 DEF Sound, WatchInv
      <3> QED BY <1>2, <3>1
    <2> QED BY <2>1, <2>2 DEF Sound, WatchInv
  <1>10. AlertInv(s, d, f, ab)
    BY <1>3 DEF Sound, AlertInv, Answered
  <1> QED BY <1>5, <1>6, <1>7, <1>8, <1>9, <1>10 DEF Sound, f

\* A request is taken from the bus; one to close an alert has been served.
Skipped(s) == [s EXCEPT !.out = Tail(@)]

LEMMA RequestTaken ==
    ASSUME NEW s, NEW d, NEW e, NEW ab, Sound(s, d, e, ab), s.out # <<>>,
           Head(s.out).kind = "close" /\ Head(s.out).to = d.alive =>
              \A a \in d.shown : a.id # Head(s.out).id
    PROVE  /\ Sound(Skipped(s), d, e, ab)
           /\ Head(s.out) \in ToSet(s.out)
           /\ Head(s.out) \in Asking \cup Closing
           /\ Skipped(s).calls = s.calls /\ Skipped(s).notices = s.notices
           /\ Skipped(s).owner = s.owner /\ Skipped(s).stopped = s.stopped
           /\ Skipped(s).serial = s.serial
           /\ Head(s.out).kind = "notify" =>
                \A r \in Requests(Skipped(s), "notify") :
                   r.call.serial # Head(s.out).call.serial
  <1> DEFINE t == Skipped(s)
             h == Head(s.out)
             A == Asking \cup Closing
  <1>1. s \in Backend /\ s.out \in Seq(A)
    BY DEF Sound, TypeInv, Backend
  <1> HIDE DEF A
  <1>2. /\ t.refs = s.refs /\ t.serial = s.serial /\ t.generation = s.generation
        /\ t.stopped = s.stopped /\ t.ready = s.ready /\ t.abilities = s.abilities
        /\ t.owner = s.owner /\ t.calls = s.calls /\ t.out = Tail(s.out)
        /\ t.notices = s.notices
    BY <1>1 DEF Skipped, Backend
  <1>3. /\ Tail(s.out) \in Seq(A) /\ h \in A
        /\ ToSet(s.out) = ToSet(t.out) \cup {h}
    BY <1>1, <1>2, ToSetFacts
  <1>4. t \in Backend
    <2> DEFINE o == Tail(s.out)
    <2>1. o \in Seq(Asking \cup Closing) /\ t = [s EXCEPT !.out = o]
      BY <1>3 DEF Skipped, A
    <2> HIDE DEF o, t
    <2> QED BY <1>1, <2>1 DEF Backend
  <1>5. /\ \A j \in DOMAIN t.out :
             j \in Nat \ {0} /\ j + 1 \in DOMAIN s.out /\ t.out[j] = s.out[j + 1]
        /\ 1 \in DOMAIN s.out /\ s.out[1] = h
    <2>1. /\ Len(s.out) \in Nat \ {0} /\ Len(t.out) = Len(s.out) - 1
          /\ DOMAIN s.out = 1..Len(s.out) /\ DOMAIN t.out = 1..(Len(s.out) - 1)
          /\ \A j \in 1..(Len(s.out) - 1) : t.out[j] = s.out[j + 1]
          /\ s.out[1] = h
      BY <1>1, <1>2, <1>3, EmptySeq, HeadTailProperties, LenProperties
    <2> QED BY <2>1
  <1> HIDE DEF t, h
  <1>6. /\ Kept(t) = Kept(s)
        /\ \A kind : Requests(t, kind) \subseteq Requests(s, kind)
        /\ \A kind : h.kind # kind => Requests(t, kind) = Requests(s, kind)
    BY <1>2, <1>3 DEF Kept, Requests
  <1>7. TypeInv(t, d, e, ab)
    BY <1>4 DEF Sound, TypeInv
  <1>8. NoticeInv(t) /\ CallInv(t)
    BY <1>2, <1>6 DEF Sound, NoticeInv, CallInv
  <1>9. AskInv(t)
    <2>1. ASSUME NEW j \in DOMAIN t.out, NEW k \in DOMAIN t.out,
                 t.out[j].kind = "notify", t.out[k].kind = "notify",
                 t.out[j].call.serial = t.out[k].call.serial
          PROVE  j = k
      <3>1. j + 1 = k + 1
        BY <1>5, <2>1 DEF Sound, AskInv
      <3> QED BY <1>5, <3>1
    <2> QED BY <1>2, <1>3, <1>6, <2>1 DEF Sound, AskInv
  <1>10. AnswerInv(t, e)
    BY <1>2, <1>6 DEF Sound, AnswerInv
  <1>11. DaemonInv(t, d, e)
    BY <1>2, <1>3 DEF Sound, DaemonInv
  <1>12. NameInv(t, d, e)
    BY <1>2, <1>6 DEF Sound, NameInv
  <1>13. WatchInv(t, d, e)
    BY <1>2 DEF Sound, WatchInv
  <1>14. GivenUp(t, d, ab)
    BY <1>2, <1>6 DEF Sound, GivenUp
  <1>15. AlertInv(t, d, e, ab)
    <2> SUFFICES ASSUME NEW a \in d.shown
                 PROVE  Held(t, d, ab, a) \/ Answered(t, d, e, a)
      BY DEF AlertInv
    <2>1. Held(s, d, ab, a) \/ Answered(s, d, e, a)
      BY DEF Sound, AlertInv
    <2>2. ASSUME NEW r \in Requests(s, "close"), r.to = d.alive, r.id = a.id
          PROVE  r \in Requests(t, "close")
      <3>1. r # h
        BY <2>2 DEF Requests, h
      <3> QED BY <1>3, <3>1 DEF Requests
    <2> QED BY <1>2, <2>1, <2>2 DEF Held, Answered
  <1>16. RefsInv(t)
    BY <1>2 DEF Sound, RefsInv
  <1>17. ASSUME h.kind = "notify", NEW r \in Requests(t, "notify")
         PROVE  r.call.serial # h.call.serial
    <2>1. PICK j \in DOMAIN t.out : t.out[j] = r
      BY DEF Requests, ToSet
    <2>2. j + 1 \in DOMAIN s.out /\ s.out[j + 1] = r /\ j + 1 # 1
      BY <1>5, <2>1
    <2> QED BY <1>5, <1>17, <2>2 DEF Sound, AskInv, Requests
  <1>18. Sound(t, d, e, ab)
    BY <1>7, <1>8, <1>9, <1>10, <1>11, <1>12, <1>13, <1>14, <1>15, <1>16 DEF Sound
  <1> QED BY <1>2, <1>3, <1>17, <1>18 DEF t, h, A

\* A message that is no change of owner.
LEMMA WatchKept ==
    ASSUME NEW s, NEW d, NEW e \in Seq(Event), NEW x \in Event, WatchInv(s, d, e),
           ~IsChange(x)
    PROVE  WatchInv(s, d, Append(e, x))
  <1> DEFINE f == Append(e, x)
  <1>1. /\ DOMAIN f = DOMAIN e \cup {Len(e) + 1}
        /\ \A k \in DOMAIN e : f[k] = e[k]
        /\ f[Len(e) + 1] = x
    BY AppendFacts
  <1> HIDE DEF f
  <1>2. \A k \in DOMAIN f : IsChange(f[k]) => k \in DOMAIN e /\ f[k] = e[k]
    BY <1>1
  <1>3. ASSUME ~s.stopped
        PROVE  \A m \in (s.generation + 1)..Final(d) :
                  \E k \in DOMAIN f : IsChange(f[k]) /\ Number(f[k]) = m
    <2> SUFFICES ASSUME NEW m \in (s.generation + 1)..Final(d)
                 PROVE  \E k \in DOMAIN f : IsChange(f[k]) /\ Number(f[k]) = m
      OBVIOUS
    <2>1. PICK k \in DOMAIN e : IsChange(e[k]) /\ Number(e[k]) = m
      BY <1>3 DEF WatchInv
    <2> QED BY <1>1, <2>1
  <1> QED BY <1>2, <1>3 DEF WatchInv, f

\* The alert a request asks for, and the answer with its number.
AlertFor(d, r) == [id |-> d.ids + 1, chat |-> r.message.chat,
                   number |-> r.message.number, serial |-> r.call.serial,
                   actions |-> r.actions]
Showing(d, r) == [d EXCEPT !.ids = d.ids + 1, !.shown = @ \cup {AlertFor(d, r)}]
AnswerTo(d, r) == [kind |-> "notify", from |-> r.to, call |-> r.call, id |-> d.ids + 1]

\* The daemon shows an alert and answers with its number.
LEMMA AlertShown ==
    ASSUME NEW s, NEW d, NEW e, NEW ab, Sound(s, d, e, ab), s.out # <<>>,
           Head(s.out).kind = "notify", Head(s.out).to = d.alive
    PROVE  Sound(Skipped(s), Showing(d, Head(s.out)),
                 Append(e, AnswerTo(d, Head(s.out))), ab)
  <1> DEFINE h == Head(s.out)
             t == Skipped(s)
             u == Showing(d, h)
             v == AlertFor(d, h)
             x == AnswerTo(d, h)
             f == Append(e, x)
  <1>1. /\ Sound(t, d, e, ab) /\ h \in ToSet(s.out) /\ h \in Asking \cup Closing
        /\ t.calls = s.calls /\ t.notices = s.notices /\ t.owner = s.owner
        /\ t.stopped = s.stopped /\ t.serial = s.serial
        /\ \A r \in Requests(t, "notify") : r.call.serial # h.call.serial
    BY RequestTaken
  <1> HIDE DEF t, h
  <1>2. h.kind = "notify" /\ h.to = d.alive /\ h \in Requests(s, "notify")
    BY <1>1 DEF h, Requests
  <1>3. /\ h.to # 0 /\ h.call.kind = "notify" /\ h.call.to = h.to
        /\ h.call.serial \in 1..s.serial /\ h.message.chat # NoChat
        /\ \A i \in Kept(s) : s.notices[i].serial = h.call.serial =>
              /\ s.notices[i].chat = h.message.chat
              /\ s.notices[i].number = h.message.number
              /\ ~s.notices[i].pending
        /\ \A y \in Messages(e, "notify") : h.call.serial # y.call.serial
        /\ h.call.serial \in ab \/ h.call \in s.calls
    BY <1>1, <1>2 DEF Sound, AskInv, AnswerInv, GivenUp
  <1>4. /\ h.to \in Nat /\ h.call \in Call /\ h.message \in Message
        /\ h.actions \in BOOLEAN
    BY <1>1, <1>2 DEF Asking, Closing
  <1>5. /\ d \in Daemon /\ d.ids \in Nat /\ d.shown \subseteq Alert /\ d.started \in Nat
        /\ e \in Seq(Event) /\ d.alive \in 1..d.started /\ d.alive \in Nat
        /\ s.serial \in Nat
    <2>1. d \in Daemon /\ e \in Seq(Event) /\ s \in Backend
      BY DEF Sound, TypeInv
    <2>2. d.alive \in {0, d.started}
      BY DEF Sound, DaemonInv
    <2> QED BY <1>2, <1>3, <2>1, <2>2 DEF Daemon, Backend
  <1>6. /\ v \in Alert /\ v.id = d.ids + 1 /\ v.chat = h.message.chat
        /\ v.number = h.message.number /\ v.serial = h.call.serial
    <2>1. h.message.chat \in Chats /\ h.message.number \in 0..MaxMessages
      BY <1>3, <1>4 DEF Message
    <2>2. h.call.serial \in Nat
      BY <1>4 DEF Call
    <2> QED BY <1>4, <1>5, <2>1, <2>2 DEF Alert, AlertFor
  <1> HIDE DEF v
  <1>7. /\ u.alive = d.alive /\ u.started = d.started /\ u.ids = d.ids + 1
        /\ u.shown = d.shown \cup {v}
        /\ u \in Daemon
    <2> DEFINE ids == d.ids + 1
               shown == d.shown \cup {v}
    <2>1. ids \in Nat /\ shown \in SUBSET Alert
      BY <1>5, <1>6
    <2>2. u = [d EXCEPT !.ids = ids, !.shown = shown]
      BY <1>5 DEF Showing, v, Daemon
    <2> HIDE DEF u, ids, shown
    <2>3. /\ u.alive = d.alive /\ u.started = d.started /\ u.ids = ids
          /\ u.shown = shown /\ u \in Daemon
      BY <1>5, <2>1, <2>2 DEF Daemon
    <2> QED BY <2>3 DEF ids, shown
  <1> HIDE DEF u
  <1>8. /\ x \in Event /\ x.kind = "notify" /\ x.from = d.alive /\ x.call = h.call
        /\ x.id = d.ids + 1
    BY <1>2, <1>4, <1>5 DEF AnswerTo, Event
  <1> HIDE DEF x
  <1>9. /\ f \in Seq(Event) /\ ToSet(f) = ToSet(e) \cup {x}
        /\ Messages(f, "notify") = Messages(e, "notify") \cup {x}
        /\ Messages(f, "closed") = Messages(e, "closed")
        /\ Messages(f, "action") = Messages(e, "action")
        /\ DOMAIN f = DOMAIN e \cup {Len(e) + 1}
        /\ \A k \in DOMAIN e : f[k] = e[k]
        /\ f[Len(e) + 1] = x
    BY <1>5, <1>8, AppendFacts
  <1> HIDE DEF f
  <1>10. Kept(t) = Kept(s)
    BY <1>1 DEF Kept
  <1>11. TypeInv(t, u, f, ab)
    BY <1>1, <1>7, <1>9 DEF Sound, TypeInv
  <1>12. AnswerInv(t, f)
    <2>1. \A y \in ToSet(f) : y.kind \in {"notify", "capabilities"} =>
            y.call.kind = y.kind /\ y.call.to = y.from
      BY <1>1, <1>2, <1>3, <1>8, <1>9 DEF Sound, AnswerInv
    <2>2. ASSUME NEW y \in Messages(f, "notify")
          PROVE  /\ y.call.serial \in 1..t.serial
                 /\ \A i \in Kept(t) :
                      t.notices[i].serial = y.call.serial => ~t.notices[i].pending
                 /\ \A r \in Requests(t, "notify") : r.call.serial # y.call.serial
      BY <1>1, <1>3, <1>8, <1>9, <1>10 DEF Sound, AnswerInv
    <2>3. ASSUME NEW j \in DOMAIN f, NEW k \in DOMAIN f,
                 f[j].kind = "notify", f[k].kind = "notify",
                 f[j].call.serial = f[k].call.serial
          PROVE  j = k
      <3>1. \A m \in DOMAIN e : e[m].kind = "notify" => e[m].call.serial # h.call.serial
        BY <1>3 DEF Messages, ToSet
      <3> QED BY <1>8, <1>9, <2>3, <3>1 DEF Sound, AnswerInv
    <2> QED BY <2>1, <2>2, <2>3 DEF AnswerInv
  <1>13. \A a \in d.shown : a.id \in Nat /\ a.id <= d.ids /\ a.id # v.id
    <2>1. \A a \in d.shown : a.id \in 1..d.ids
      BY DEF Sound, DaemonInv
    <2> QED BY <1>5, <1>6, <2>1
  <1>14. \A y \in ToSet(e) : y.kind \in {"notify", "closed", "action"} /\ y.from = d.alive =>
            y.id \in Nat /\ y.id <= d.ids /\ y.id # v.id
    <2>1. \A y \in ToSet(e) : y \in Event
      BY <1>5, ToSetFacts
    <2>2. \A y \in ToSet(e) : y.kind \in {"notify", "closed", "action"} => y.id \in Nat
      BY <2>1 DEF Event
    <2>3. \A y \in ToSet(e) : y.kind \in {"notify", "closed", "action"} /\ y.from = d.alive =>
            y.id <= d.ids
      BY DEF Sound, DaemonInv
    <2> QED BY <1>5, <1>6, <2>2, <2>3
  <1>15. s.owner = d.alive => \A i \in Slots : /\ s.notices[i].id \in Nat
                                               /\ s.notices[i].id <= d.ids
                                               /\ s.notices[i].id # v.id
    <2>1. \A i \in Slots : s.notices[i].id \in Nat
      BY DEF Sound, TypeInv, Backend, Notice
    <2> QED BY <1>5, <1>6, <2>1 DEF Sound, DaemonInv
  <1>16. DaemonInv(t, u, f)
    <2>1. \A y \in ToSet(f) : y.from \in 1..u.started
      BY <1>1, <1>5, <1>7, <1>8, <1>9 DEF Sound, DaemonInv
    <2>2. ASSUME NEW y \in ToSet(f), y.kind \in {"notify", "closed", "action"}
          PROVE  y.id # 0 /\ (y.from = u.alive => y.id <= u.ids)
      <3>1. CASE y = x
        BY <1>5, <1>7, <1>8, <3>1
      <3>2. CASE y \in ToSet(e)
        <4>1. y.id # 0
          BY <2>2, <3>2 DEF Sound, DaemonInv
        <4> QED BY <1>5, <1>7, <1>14, <2>2, <3>2, <4>1
      <3> QED BY <1>9, <3>1, <3>2
    <2>3. \A a \in u.shown : a.id \in 1..u.ids /\ a.serial <= t.serial
      <3>1. \A a \in d.shown : a.id \in 1..d.ids /\ a.serial <= s.serial
        BY DEF Sound, DaemonInv
      <3>2. v.id \in 1..(d.ids + 1) /\ v.serial <= s.serial
        BY <1>3, <1>5, <1>6
      <3> QED BY <1>1, <1>5, <1>7, <3>1, <3>2
    <2>4. \A a, b \in u.shown : a.id = b.id => a = b
      BY <1>7, <1>13 DEF Sound, DaemonInv
    <2>5. t.owner = u.alive => \A i \in Slots : t.notices[i].id <= u.ids
      BY <1>1, <1>5, <1>7, <1>15
    <2>6. \A y \in Messages(f, "closed"), a \in u.shown : y.from = u.alive => y.id # a.id
      <3>1. \A y \in Messages(e, "closed") : y \in ToSet(e) /\ y.kind = "closed"
        BY DEF Messages
      <3> QED BY <1>7, <1>9, <1>14, <3>1 DEF Sound, DaemonInv
    <2>7. /\ u.alive \in {0, u.started} /\ u.started <= MaxStarts /\ t.owner <= u.started
          /\ \A c \in t.calls : c.to <= u.started
          /\ \A r \in ToSet(t.out) : r.to <= u.started
          /\ u.alive = 0 => u.shown = {}
      BY <1>1, <1>5, <1>7 DEF Sound, DaemonInv
    <2> QED BY <2>1, <2>2, <2>3, <2>4, <2>5, <2>6, <2>7 DEF DaemonInv
  <1>17. NameInv(t, u, f)
    <2>1. \A a \in u.shown, i \in Kept(t) :
            \/ t.notices[i].serial = a.serial
            \/ t.owner = u.alive /\ t.notices[i].id = a.id
            => t.notices[i].chat = a.chat /\ t.notices[i].number = a.number
      <3>1. Kept(s) \subseteq Slots
        BY DEF Kept
      <3>2. \A i \in Kept(s) :
            \/ s.notices[i].serial = v.serial
            \/ s.owner = d.alive /\ s.notices[i].id = v.id
            => s.notices[i].chat = v.chat /\ s.notices[i].number = v.number
        BY <1>3, <1>6, <1>15, <3>1
      <3> QED BY <1>1, <1>7, <1>10, <3>2 DEF Sound, NameInv
    <2>2. \A a \in u.shown, y \in Messages(f, "notify") :
            y.from = u.alive /\ y.id = a.id => y.call.serial = a.serial
      <3>1. \A y \in Messages(e, "notify") : y \in ToSet(e) /\ y.kind = "notify"
        BY DEF Messages
      <3>2. x.id = v.id /\ x.call.serial = v.serial
        BY <1>6, <1>8
      <3> QED BY <1>1, <1>7, <1>9, <1>13, <1>14, <3>1, <3>2 DEF Sound, NameInv
    <2>3. \A k \in Messages(f, "action"), i \in Kept(t) :
            k.from = t.owner /\ k.id = t.notices[i].id => t.notices[i].chat = k.chat
      BY <1>1, <1>9 DEF Sound, NameInv
    <2>4. \A k \in Messages(f, "action"), y \in Messages(f, "notify"), i \in Kept(t) :
            k.from = y.from /\ k.id = y.id /\ t.notices[i].serial = y.call.serial
               => t.notices[i].chat = k.chat
      <3>1. \A k \in Messages(e, "action") : k \in ToSet(e) /\ k.kind = "action"
        BY DEF Messages
      <3>2. x.from = d.alive /\ x.id = v.id
        BY <1>6, <1>8
      <3> QED BY <1>1, <1>9, <1>14, <3>1, <3>2 DEF Sound, NameInv
    <2> QED BY <2>1, <2>2, <2>3, <2>4 DEF NameInv
  <1>18. WatchInv(t, u, f)
    <2>1. ~IsChange(x)
      BY <1>8 DEF IsChange
    <2>2. WatchInv(t, d, f)
      BY <1>1, <1>5, <1>8, <2>1, WatchKept DEF Sound, f
    <2> QED BY <1>7, <2>2 DEF WatchInv, Final
  <1>19. GivenUp(t, u, ab)
    BY <1>1, <1>7 DEF Sound, GivenUp
  <1>20. AlertInv(t, u, f, ab)
    <2>1. ASSUME NEW a \in d.shown
          PROVE  Held(t, u, ab, a) \/ Answered(t, u, f, a)
      <3>1. Held(t, d, ab, a) \/ Answered(t, d, e, a)
        BY <1>1 DEF Sound, AlertInv
      <3> QED BY <1>7, <1>9, <3>1 DEF Held, Answered
    <2>2. Held(t, u, ab, v) \/ Answered(t, u, f, v)
      BY <1>1, <1>3, <1>6, <1>7, <1>8, <1>9 DEF Held, Answered
    <2> QED BY <1>7, <2>1, <2>2 DEF AlertInv
  <1>21. NoticeInv(t) /\ CallInv(t) /\ AskInv(t) /\ RefsInv(t)
    BY <1>1 DEF Sound
  <1> QED BY <1>11, <1>12, <1>16, <1>17, <1>18, <1>19, <1>20, <1>21
          DEF Sound, t, u, f, x, h

\* The next change of owner is announced.
LEMMA ChangeSent ==
    ASSUME NEW s, NEW d, NEW u, NEW e \in Seq(Event), NEW x \in Event,
           WatchInv(s, d, e), ~s.stopped, s.generation \in Nat, Final(d) \in Nat,
           Final(u) = Final(d) + 1, IsChange(x), Number(x) = Final(u)
    PROVE  WatchInv(s, u, Append(e, x))
  <1> DEFINE f == Append(e, x)
  <1>1. /\ DOMAIN f = DOMAIN e \cup {Len(e) + 1}
        /\ \A k \in DOMAIN e : k \in Nat /\ k < Len(e) + 1 /\ f[k] = e[k]
        /\ f[Len(e) + 1] = x
    BY AppendFacts
  <1>2. Len(e) \in Nat
    BY LenProperties
  <1> HIDE DEF f
  <1>3. s.generation <= Final(d) /\ (s.owner # 0 => s.generation = 2 * s.owner - 1)
    BY DEF WatchInv
  <1>4. ASSUME NEW k \in DOMAIN e, IsChange(e[k])
        PROVE  /\ Number(e[k]) \in Int /\ Number(e[k]) > s.generation
               /\ Number(e[k]) <= Final(d)
    <2>1. e[k] \in Event
      BY ElementOfSeq, LenProperties
    <2>2. e[k].from \in Nat
      BY <2>1, <1>4 DEF Event, IsChange
    <2>3. Number(e[k]) \in Int
      BY <2>2 DEF Number
    <2> QED BY <1>4, <2>3 DEF WatchInv
  <1>5. ASSUME NEW k \in DOMAIN f, IsChange(f[k])
        PROVE  Number(f[k]) > s.generation /\ Number(f[k]) <= Final(u)
    <2>1. CASE k \in DOMAIN e
      BY <1>1, <1>4, <1>5, <2>1
    <2>2. CASE k = Len(e) + 1
      BY <1>1, <1>3, <2>2
    <2> QED BY <1>1, <2>1, <2>2
  <1>6. ASSUME NEW j \in DOMAIN f, NEW k \in DOMAIN f, IsChange(f[j]), IsChange(f[k]),
               j < k
        PROVE  Number(f[j]) < Number(f[k])
    <2>1. j \in DOMAIN e
      BY <1>1, <1>2, <1>6
    <2>2. CASE k \in DOMAIN e
      BY <1>1, <1>6, <2>1, <2>2 DEF WatchInv
    <2>3. CASE k = Len(e) + 1
      BY <1>1, <1>4, <1>6, <2>1, <2>3
    <2> QED BY <1>1, <2>2, <2>3
  <1>7. ASSUME NEW m \in (s.generation + 1)..Final(u)
        PROVE  \E k \in DOMAIN f : IsChange(f[k]) /\ Number(f[k]) = m
    <2>1. CASE m = Final(u)
      BY <1>1, <2>1
    <2>2. CASE m # Final(u)
      <3>1. m \in (s.generation + 1)..Final(d)
        BY <2>2
      <3>2. PICK k \in DOMAIN e : IsChange(e[k]) /\ Number(e[k]) = m
        BY <3>1 DEF WatchInv
      <3> QED BY <1>1, <3>2
    <2> QED BY <2>1, <2>2
  <1>8. s.generation <= Final(u)
    BY <1>3
  <1> QED BY <1>3, <1>5, <1>6, <1>7, <1>8 DEF WatchInv, f

\* The daemon dies, or the next one starts: either shows nothing yet.
NextDaemon(d) ==
    IF d.alive = 0 THEN [alive |-> d.started + 1, started |-> d.started + 1,
                         ids |-> 0, shown |-> {}]
    ELSE [d EXCEPT !.alive = 0, !.shown = {}]
NextChange(d) ==
    IF d.alive = 0 THEN [kind |-> "appeared", from |-> d.started + 1]
    ELSE [kind |-> "vanished", from |-> d.alive]

LEMMA DaemonChanged ==
    ASSUME NEW s, NEW d, NEW e, NEW ab, Sound(s, d, e, ab), ~s.stopped,
           d.started < MaxStarts
    PROVE  Sound(s, NextDaemon(d), Append(e, NextChange(d)), ab)
  <1> DEFINE u == NextDaemon(d)
             x == NextChange(d)
             f == Append(e, x)
  <1>1. /\ s \in Backend /\ d \in Daemon /\ e \in Seq(Event)
        /\ s.generation \in Nat /\ s.owner \in Nat /\ MaxStarts \in Nat
        /\ d.started \in Nat /\ d.alive \in {0, d.started} /\ d.ids \in Nat
    BY NoticesAssumption DEF Sound, TypeInv, Backend, Daemon, DaemonInv
  <1>2. /\ u \in Daemon /\ u.shown = {} /\ u.alive \in {0, u.started}
        /\ u.alive # 0 => u.alive = d.started + 1
        /\ u.started \in Nat /\ u.started >= d.started /\ u.started <= MaxStarts
        /\ u.ids \in Nat
        /\ d.alive # 0 => u.alive = 0 /\ u.started = d.started
        /\ d.alive = 0 => u.alive = u.started /\ u.started = d.started + 1
    <2>1. CASE d.alive = 0
      BY <1>1, <2>1 DEF NextDaemon, Daemon
    <2>2. CASE d.alive # 0
      <3>1. u = [d EXCEPT !.alive = 0, !.shown = {}]
        BY <2>2 DEF NextDaemon
      <3> HIDE DEF u
      <3>2. /\ u.alive = 0 /\ u.shown = {} /\ u.started = d.started
            /\ u.ids = d.ids /\ u \in Daemon
        BY <1>1, <3>1 DEF Daemon
      <3> QED BY <1>1, <2>2, <3>2
    <2> QED BY <2>1, <2>2
  <1>3. /\ x \in Event /\ IsChange(x) /\ x.kind \notin {"notify", "closed", "action"}
        /\ x.kind \in {"appeared", "vanished"}
        /\ x.from \in 1..u.started
        /\ Final(d) \in Nat /\ Final(u) = Final(d) + 1 /\ Number(x) = Final(u)
    <2>1. CASE d.alive = 0
      <3>1. x = [kind |-> "appeared", from |-> d.started + 1]
        BY <2>1 DEF NextChange
      <3>2. x.kind = "appeared" /\ x.from = d.started + 1 /\ x \in Event
        BY <1>1, <3>1 DEF Event
      <3> HIDE DEF x, u
      <3>3. Final(d) = 2 * d.started /\ Final(u) = 2 * (d.started + 1) - 1
        BY <1>1, <1>2, <2>1 DEF Final
      <3> QED BY <1>1, <1>2, <2>1, <3>2, <3>3 DEF IsChange, Number
    <2>2. CASE d.alive # 0
      <3>1. x = [kind |-> "vanished", from |-> d.alive]
        BY <2>2 DEF NextChange
      <3>2. x.kind = "vanished" /\ x.from = d.alive /\ x \in Event
        BY <1>1, <3>1 DEF Event
      <3> HIDE DEF x, u
      <3>3. Final(d) = 2 * d.started - 1 /\ Final(u) = 2 * d.started
        BY <1>1, <1>2, <2>2 DEF Final
      <3> QED BY <1>1, <1>2, <2>2, <3>2, <3>3 DEF IsChange, Number
    <2> QED BY <2>1, <2>2
  <1> HIDE DEF u, x
  <1>4. /\ f \in Seq(Event) /\ ToSet(f) = ToSet(e) \cup {x}
        /\ Messages(f, "notify") = Messages(e, "notify")
        /\ Messages(f, "closed") = Messages(e, "closed")
        /\ Messages(f, "action") = Messages(e, "action")
        /\ DOMAIN f = DOMAIN e \cup {Len(e) + 1}
        /\ \A k \in DOMAIN e : f[k] = e[k]
        /\ f[Len(e) + 1] = x
    BY <1>1, <1>3, AppendFacts
  <1>5. WatchInv(s, u, f)
    BY <1>1, <1>3, ChangeSent DEF Sound
  <1> HIDE DEF f
  <1>6. \A m \in Nat : m <= d.started => m # u.alive \/ (m = 0 /\ u.alive = 0)
    BY <1>1, <1>2
  <1>7. TypeInv(s, u, f, ab)
    BY <1>2, <1>4 DEF Sound, TypeInv
  <1>8. AnswerInv(s, f)
    <2>1. \A y \in ToSet(f) : y.kind \in {"notify", "capabilities"} =>
            y.call.kind = y.kind /\ y.call.to = y.from
      BY <1>3, <1>4 DEF Sound, AnswerInv
    <2>2. \A j, k \in DOMAIN f :
            f[j].kind = "notify" /\ f[k].kind = "notify"
               /\ f[j].call.serial = f[k].call.serial => j = k
      BY <1>3, <1>4 DEF Sound, AnswerInv
    <2> QED BY <1>4, <2>1, <2>2 DEF Sound, AnswerInv
  <1>9. DaemonInv(s, u, f)
    <2>1. \A y \in ToSet(e) : y.from \in 1..d.started
      BY DEF Sound, DaemonInv
    <2>2. \A y \in ToSet(f) : y.from \in 1..u.started
      BY <1>1, <1>2, <1>3, <1>4, <2>1
    <2>3. \A y \in ToSet(e) : y.from # u.alive
      BY <1>1, <1>2, <2>1
    <2>4. \A y \in ToSet(f) : y.kind \in {"notify", "closed", "action"} =>
            y.id # 0 /\ (y.from = u.alive => y.id <= u.ids)
      BY <1>3, <1>4, <2>3 DEF Sound, DaemonInv
    <2>5. s.owner <= d.started
      BY DEF Sound, DaemonInv
    <2>6. s.owner = u.alive => \A i \in Slots : s.notices[i].id <= u.ids
      <3>1. SUFFICES ASSUME s.owner = u.alive, NEW i \in Slots
                     PROVE  s.notices[i].id <= u.ids
        OBVIOUS
      <3>2. s.owner = 0
        BY <1>1, <1>6, <2>5, <3>1
      <3>3. s.notices[i].id = 0
        BY <3>2 DEF Sound, NoticeInv
      <3> QED BY <1>2, <3>3
    <2>7. /\ \A c \in s.calls : c.to \in Nat /\ c.to <= d.started
          /\ \A r \in ToSet(s.out) : r.to <= d.started
      BY <1>1 DEF Sound, DaemonInv, Backend, Call
    <2>8. \A r \in ToSet(s.out) : r.to \in Nat
      <3>1. s.out \in Seq(Asking \cup Closing)
        BY <1>1 DEF Backend
      <3> DEFINE A == Asking \cup Closing
      <3> HIDE DEF A
      <3>2. \A r \in ToSet(s.out) : r \in A
        BY <3>1, ToSetFacts DEF A
      <3> QED BY <3>2 DEF A, Asking, Closing
    <2>9. /\ s.owner <= u.started /\ \A c \in s.calls : c.to <= u.started
          /\ \A r \in ToSet(s.out) : r.to <= u.started
      BY <1>1, <1>2, <2>5, <2>7, <2>8
    <2> QED BY <1>2, <2>2, <2>4, <2>6, <2>9 DEF DaemonInv
  <1>10. NameInv(s, u, f)
    BY <1>2, <1>4 DEF Sound, NameInv
  <1>11. GivenUp(s, u, ab)
    <2>1. \A r \in Requests(s, "notify") : r.to # 0 /\ r.to <= d.started
      BY DEF Sound, AskInv, DaemonInv, Requests
    <2>2. \A r \in Requests(s, "notify") : r.to \in Nat
      <3> DEFINE A == Asking \cup Closing
      <3>1. s.out \in Seq(A)
        BY <1>1 DEF Backend
      <3> HIDE DEF A
      <3>2. \A r \in ToSet(s.out) : r \in A
        BY <3>1, ToSetFacts
      <3> QED BY <3>2 DEF A, Asking, Closing, Requests
    <2>3. \A r \in Requests(s, "notify") : r.to # u.alive
      BY <1>6, <2>1, <2>2
    <2> QED BY <2>3 DEF GivenUp
  <1>12. AlertInv(s, u, f, ab)
    BY <1>2 DEF AlertInv
  <1> QED BY <1>5, <1>7, <1>8, <1>9, <1>10, <1>11, <1>12 DEF Sound, u, x, f

-----------------------------------------------------------------------------
(* Every step keeps the invariant.                                          *)

\* Dismissing a conversation's notices.
LEMMA DismissSound ==
    ASSUME NEW s, NEW d, NEW e, NEW ab, Sound(s, d, e, ab), NEW chat
    PROVE  Sound(Dismiss(s, chat), d, e, ab) /\ Dismiss(s, chat).stopped = s.stopped
  <1> DEFINE K == {i \in Slots : s.notices[i].chat = chat}
             u == CloseSlots(s, K)
  <1>1. K \in SUBSET Slots
    OBVIOUS
  <1> HIDE DEF K
  <1>2. /\ Sound(DropSlots(s, K), d, e, ab) /\ Sound(u, d, e, ab)
        /\ DropSlots(s, K) = Cleared(u, K) /\ u.stopped = s.stopped
    BY <1>1, SlotsDropped
  <1>3. u \in Backend
    BY <1>2 DEF Sound, TypeInv
  <1> HIDE DEF u
  <1>4. Cleared(u, K).stopped = u.stopped
    BY <1>3 DEF Cleared, Backend
  <1> QED BY <1>2, <1>4 DEF Dismiss, K

\* A message waits in one of the slots.
LEMMA WaitSlotFacts ==
    ASSUME NEW w \in [Slots -> Incoming \cup {NoMessage}]
    PROVE  WaitSlot(w) \in Slots
  <1> DEFINE free == {i \in Slots : w[i] = NoMessage}
  <1>1. Slots \in SUBSET Nat /\ 1 \in Slots
    BY NoticesAssumption DEF Slots
  <1>2. CASE free # {}
    <2>1. Min(free) \in free
      BY <1>1, <1>2, MinFacts
    <2> QED BY <1>2, <2>1 DEF WaitSlot
  <1>3. CASE free = {}
    <2> DEFINE T == {w[i].number : i \in Slots}
    <2>1. \A i \in Slots : w[i].number \in Nat
      BY NoticesAssumption DEF Incoming, NoMessage
    <2>2. T \in SUBSET Nat /\ T # {}
      BY <1>1, <2>1
    <2>3. PICK u \in T : \A m \in T : u <= m
      BY <2>2, LeastNat
    <2>4. \E i \in Slots : \A j \in Slots : w[i].number <= w[j].number
      BY <2>3
    <2> QED BY <1>3, <2>4 DEF WaitSlot
  <1> QED BY <1>2, <1>3

\* Forgetting what waits keeps the type of the slots.
LEMMA WithoutFacts ==
    ASSUME waiting \in [Slots -> Incoming \cup {NoMessage}], NEW chat
    PROVE  Without(chat) \in [Slots -> Incoming \cup {NoMessage}]
  BY DEF Without

\* The worker queues the notice of a message.
LEMMA ArriveKeeps ==
    ASSUME Invariant, NEW chat \in Chats, Arrive(chat)
    PROVE  Invariant'
  <1> DEFINE m == [chat |-> chat, number |-> arrived + 1]
             q == IF Len(queue) = QueueLimit THEN Tail(queue) ELSE queue
  <1>1. /\ queue \in Seq(Incoming) /\ Len(queue) <= QueueLimit /\ QueueLimit \in Nat \ {0}
        /\ MaxMessages \in Nat /\ arrived \in Nat /\ arrived < MaxMessages
        /\ queue' = Append(q, m) /\ arrived' = arrived + 1
        /\ \A i \in DOMAIN queue : queue[i].number = arrived - Len(queue) + i
    BY NoticesAssumption
       DEF Invariant, QueueInv, Arrive, Enqueue, NewestKept
  <1>2. m \in Incoming /\ m.number = arrived + 1
    BY <1>1 DEF Incoming
  <1>3. /\ Len(queue) \in Nat /\ QueueLimit \in Nat \ {0} /\ Len(queue) <= QueueLimit
        /\ DOMAIN queue = 1..Len(queue)
    BY <1>1, LenProperties
  <1>4. \A i \in 1..Len(queue) : queue[i].number = arrived - Len(queue) + i
    BY <1>1, <1>3
  <1>5. /\ q \in Seq(Incoming) /\ Len(q) < QueueLimit /\ Len(q) \in Nat
        /\ \A i \in 1..Len(q) : q[i].number = arrived - Len(q) + i
    <2>1. CASE Len(queue) = QueueLimit
      <3>1. queue # <<>> /\ q = Tail(queue)
        BY <1>1, <1>3, <2>1, EmptySeq
      <3> HIDE DEF q
      <3>2. /\ Tail(queue) \in Seq(Incoming) /\ Len(Tail(queue)) = Len(queue) - 1
            /\ \A i \in 1..Len(Tail(queue)) : Tail(queue)[i] = queue[i + 1]
        BY <1>1, <3>1, HeadTailProperties
      <3>3. \A i \in 1..Len(q) : q[i].number = arrived - Len(q) + i
        <4>1. arrived \in Nat
          BY <1>1
        <4> QED BY <1>3, <1>4, <3>1, <3>2, <4>1
      <3> QED BY <1>3, <2>1, <3>1, <3>2, <3>3
    <2>2. CASE Len(queue) # QueueLimit
      <3>1. q = queue
        BY <2>2
      <3> HIDE DEF q
      <3>2. queue \in Seq(Incoming)
        BY <1>1
      <3>3. Len(queue) < QueueLimit
        <4> DEFINE length == Len(queue)
        <4>1. length \in Nat /\ QueueLimit \in Nat /\ length <= QueueLimit /\ length # QueueLimit
          BY <1>3, <2>2
        <4> HIDE DEF length
        <4>2. length < QueueLimit
          BY <4>1
        <4> QED BY <4>2 DEF length
      <3>4. Len(q) = Len(queue)
        BY <3>1
      <3> QED BY <1>3, <1>4, <3>1, <3>2, <3>3, <3>4
    <2> QED BY <2>1, <2>2
  <1> HIDE DEF q, m
  <1>6. /\ queue' \in Seq(Incoming) /\ Len(queue') = Len(q) + 1
        /\ DOMAIN queue' = 1..(Len(q) + 1)
        /\ \A i \in 1..Len(q) : queue'[i] = q[i]
        /\ queue'[Len(q) + 1] = m
    BY <1>1, <1>2, <1>5, AppendProperties, LenProperties
  <1>7. NewestKept'
    BY <1>1, <1>2, <1>5, <1>6 DEF NewestKept
  <1>8. QueueInv'
    BY <1>1, <1>5, <1>6, <1>7 DEF Invariant, QueueInv, Arrive
  <1> QED BY <1>8 DEF Invariant, Arrive

\* A notice leaves the queue.
LEMMA QueueTaken ==
    ASSUME QueueInv, queue # <<>>, queue' = Tail(queue), arrived' = arrived
    PROVE  /\ queue' \in Seq(Incoming) /\ Len(queue') <= QueueLimit /\ NewestKept'
           /\ Head(queue) \in Incoming
  <1>1. /\ queue \in Seq(Incoming) /\ Len(queue) <= QueueLimit /\ QueueLimit \in Nat
        /\ arrived \in Nat /\ MaxMessages \in Nat
        /\ \A i \in DOMAIN queue : queue[i].number = arrived - Len(queue) + i
    BY NoticesAssumption DEF QueueInv, NewestKept
  <1>2. Len(queue) \in Nat \ {0} /\ DOMAIN queue = 1..Len(queue)
    BY <1>1, LenProperties, EmptySeq
  <1>3. /\ queue' \in Seq(Incoming) /\ Len(queue') = Len(queue) - 1
        /\ \A i \in 1..Len(queue') : queue'[i] = queue[i + 1]
        /\ Head(queue) \in Incoming
    BY <1>1, HeadTailProperties
  <1>4. DOMAIN queue' = 1..(Len(queue) - 1)
    BY <1>3, LenProperties
  <1> QED BY <1>1, <1>2, <1>3, <1>4 DEF NewestKept

\* A message is delivered to the screen or to a slot it waits in.
LEMMA DeliverKeeps ==
    ASSUME Invariant, Deliver
    PROVE  Invariant'
  <1> DEFINE message == Head(queue)
             rest == Without(message.chat)
             dismissed == Dismiss(n, message.chat)
             slot == WaitSlot(rest)
  <1>1. QueueInv /\ Sound(n, daemon, events, abandoned)
    BY DEF Invariant
  <1>2. queue # <<>> /\ ~n.stopped /\ queue' = Tail(queue)
        /\ UNCHANGED <<arrived, reading, daemon, events, timeouts, abandoned>>
    BY DEF Deliver
  <1>3. /\ queue' \in Seq(Incoming) /\ Len(queue') <= QueueLimit /\ NewestKept'
        /\ message \in Incoming
    BY <1>1, <1>2, QueueTaken
  <1>4. rest \in [Slots -> Incoming \cup {NoMessage}]
    BY <1>1, WithoutFacts DEF QueueInv
  <1>5. slot \in Slots
    BY <1>4, WaitSlotFacts
  <1>6. Sound(dismissed, daemon, events, abandoned) /\ ~dismissed.stopped
    BY <1>1, <1>2, DismissSound
  <1>7. \/ waiting' = waiting /\ n' = n
        \/ waiting' = rest /\ n' = Show(n, message)
        \/ /\ waiting' = [rest EXCEPT ![slot] = message]
           /\ n' = IF rest[slot] = NoMessage THEN dismissed
                   ELSE Show(dismissed, rest[slot])
    BY DEF Deliver
  <1> HIDE DEF message, rest, dismissed, slot
  <1>8. waiting' \in [Slots -> Incoming \cup {NoMessage}]
    BY <1>1, <1>3, <1>4, <1>7 DEF QueueInv
  <1>9. Sound(n', daemon, events, abandoned)
    <2>1. CASE n' = n
      BY <1>1, <2>1
    <2>2. CASE n' = Show(n, message)
      BY <1>1, <1>2, <1>3, <2>2, ShowSound
    <2>3. CASE n' = dismissed
      BY <1>6, <2>3
    <2>4. CASE rest[slot] # NoMessage /\ n' = Show(dismissed, rest[slot])
      <3>1. rest[slot] \in Incoming
        BY <1>4, <1>5, <2>4
      <3> QED BY <1>6, <2>4, <3>1, ShowSound
    <2> QED BY <1>7, <2>1, <2>2, <2>3, <2>4
  <1>10. QueueInv'
    BY <1>1, <1>2, <1>3, <1>8 DEF QueueInv
  <1> QED BY <1>2, <1>9, <1>10 DEF Invariant

\* The conversation being read is dismissed.
LEMMA ReadKeeps ==
    ASSUME Invariant, Read
    PROVE  Invariant'
  <1>1. QueueInv /\ Sound(n, daemon, events, abandoned)
    BY DEF Invariant
  <1>2. waiting' \in [Slots -> Incoming \cup {NoMessage}]
    BY <1>1, WithoutFacts DEF QueueInv, Read
  <1>3. Sound(n', daemon, events, abandoned)
    BY <1>1, DismissSound DEF Read
  <1>4. QueueInv'
    BY <1>1, <1>2 DEF QueueInv, NewestKept, Read
  <1> QED BY <1>3, <1>4 DEF Invariant, Read

\* A message that waited is shown.
LEMMA PollKeeps ==
    ASSUME Invariant, NEW slot \in Slots, Poll(slot)
    PROVE  Invariant'
  <1>1. QueueInv /\ Sound(n, daemon, events, abandoned)
    BY DEF Invariant
  <1>2. waiting[slot] \in Incoming
    BY <1>1 DEF QueueInv, Poll
  <1>3. waiting' \in [Slots -> Incoming \cup {NoMessage}]
    BY <1>1 DEF QueueInv, Poll
  <1>4. Sound(n', daemon, events, abandoned)
    BY <1>1, <1>2, ShowSound DEF Poll
  <1>5. QueueInv'
    BY <1>1, <1>3 DEF QueueInv, NewestKept, Poll
  <1> QED BY <1>4, <1>5 DEF Invariant, Poll

\* The user turns to another conversation.
LEMMA TurnKeeps ==
    ASSUME Invariant, NEW chat \in Chats \cup {NoChat}, Turn(chat)
    PROVE  Invariant'
  <1>1. QueueInv'
    BY DEF Invariant, QueueInv, NewestKept, Turn
  <1> QED BY <1>1 DEF Invariant, Turn

\* The client ends.
LEMMA QuitKeeps ==
    ASSUME Invariant, Quit
    PROVE  Invariant'
  <1>1. QueueInv /\ Sound(n, daemon, events, abandoned) /\ ~n.stopped
    BY DEF Invariant, Quit
  <1>2. n.calls \subseteq Call /\ abandoned \in SUBSET Nat
    BY <1>1 DEF Sound, TypeInv, Backend
  <1>3. abandoned \cup Live(n) \in SUBSET Nat
    BY <1>2 DEF Live, Call
  <1>4. \A c \in n.calls : c.kind = "notify" /\ c.to = daemon.alive => c.serial \in Live(n)
    BY DEF Live
  <1> DEFINE more == abandoned \cup Live(n)
  <1>5. Sound(Stop(n), daemon, events, more)
    <2>1. /\ more \in SUBSET Nat /\ abandoned \subseteq more
          /\ \A c \in n.calls : c.kind = "notify" /\ c.to = daemon.alive => c.serial \in more
      BY <1>3, <1>4
    <2> HIDE DEF more
    <2> QED BY <1>1, <2>1, StopSound
  <1>6. QueueInv'
    <2>1. queue' = <<>> /\ <<>> \in Seq(Incoming) /\ Len(<<>>) = 0 /\ DOMAIN <<>> = {}
      BY EmptySeq DEF Quit
    <2>2. NewestKept'
      BY <2>1 DEF NewestKept
    <2> QED BY <1>1, <2>1, <2>2, NoticesAssumption DEF QueueInv, Quit
  <1> QED BY <1>5, <1>6 DEF Invariant, Quit

\* A step of the backend or the daemon leaves the queues alone.
LEMMA QueuesAlone ==
    ASSUME QueueInv, UNCHANGED <<arrived, queue, reading, waiting, timeouts>>
    PROVE  QueueInv'
  BY DEF QueueInv, NewestKept

\* A reply arrives.
LEMMA ReplyKeeps ==
    ASSUME NEW d, NEW e, NEW ab, Sound(n, d, e, ab), e # <<>>, ReplyArrives(Head(e))
    PROVE  Sound(n', d, Tail(e), ab)
  <1> DEFINE x == Head(e)
  <1>1. e \in Seq(Event)
    BY DEF Sound, TypeInv
  <1>2. x \in Event /\ x \in ToSet(e)
    BY <1>1, TailFacts
  <1>3. x.kind \in {"notify", "capabilities"} /\ ~IsChange(x)
    BY DEF ReplyArrives, IsChange
  <1>4. x.call.kind = x.kind
    BY <1>2, <1>3 DEF Sound, AnswerInv
  <1>5. CASE x.call \notin n.calls
    <2>1. n' = n
      BY <1>5 DEF ReplyArrives
    <2> QED BY <1>3, <1>5, <2>1, MessageTaken
  <1>6. CASE x.call \in n.calls /\ x.kind = "notify"
    <2>1. n' = Notified(n, x.call, x.id)
      BY <1>6 DEF ReplyArrives
    <2>2. x \in Messages(e, "notify")
      BY <1>2, <1>6 DEF Messages
    <2>3. Sound(n', d, e, ab) /\ x.call \notin n'.calls
      BY <1>6, <2>1, <2>2, NotifiedSound
    <2> QED BY <1>3, <2>3, MessageTaken
  <1>7. CASE x.call \in n.calls /\ x.kind = "capabilities"
    <2>1. n' = Capabilities(n, x.call, TRUE, x.abilities)
      BY <1>7 DEF ReplyArrives
    <2>2. x.abilities \in SUBSET {"actions", "images"}
      BY <1>2, <1>7 DEF Event
    <2>3. Sound(n', d, e, ab)
      BY <1>4, <1>7, <2>1, <2>2, CapabilitiesSound
    <2> QED BY <1>3, <1>7, <2>3, MessageTaken
  <1> QED BY <1>3, <1>5, <1>6, <1>7

\* A signal of the daemon arrives: the alert of a closed one is gone.
LEMMA SignalKeeps ==
    ASSUME NEW d, NEW e, NEW ab, Sound(n, d, e, ab), e # <<>>, SignalArrives(Head(e))
    PROVE  Sound(n', d, Tail(e), ab)
  <1> DEFINE x == Head(e)
  <1>1. e \in Seq(Event)
    BY DEF Sound, TypeInv
  <1>2. x \in ToSet(e)
    BY <1>1, TailFacts
  <1>3. x.kind \in {"closed", "action"} /\ ~IsChange(x) /\ x.kind # "notify"
    BY DEF SignalArrives, IsChange
  <1>4. Sound(n', d, e, ab)
    <2>1. CASE x.kind = "action" \/ Heard(x) = {}
      BY <2>1 DEF SignalArrives
    <2>2. CASE x.kind = "closed" /\ Heard(x) # {}
      <3> DEFINE i == Min(Heard(x))
      <3>1. Heard(x) \in SUBSET Nat /\ Heard(x) \subseteq Slots
        BY NoticesAssumption DEF Heard, NoticesOf, Slots
      <3>2. i \in Heard(x)
        BY <2>2, <3>1, MinFacts
      <3> HIDE DEF i
      <3>3. i \in Slots /\ n.notices[i].id = x.id /\ x.from = n.owner
        BY <3>2 DEF Heard, NoticesOf
      <3>4. n' = ClearNotice(n, i)
        BY <1>3, <2>2 DEF SignalArrives, i
      <3>5. ClearNotice(n, i) = Cleared(n, {i})
        <4>1. n \in Backend
          BY DEF Sound, TypeInv
        <4>2. n.notices \in [Slots -> Notice]
          BY <4>1 DEF Backend
        <4> DEFINE g == [n.notices EXCEPT ![i] = NoNotice]
                   h == [j \in Slots |-> IF j \in {i} THEN NoNotice ELSE n.notices[j]]
        <4>3. g = h
          BY <3>3, <4>2
        <4>4. ClearNotice(n, i) = [n EXCEPT !.notices = g]
          BY DEF ClearNotice
        <4>5. Cleared(n, {i}) = [n EXCEPT !.notices = h]
          BY DEF Cleared
        <4> QED BY <4>3, <4>4, <4>5
      <3>6. \A a \in d.shown : x.from = d.alive => x.id # a.id
        <4>1. x \in Messages(e, "closed")
          BY <1>2, <2>2 DEF Messages
        <4> QED BY <4>1 DEF Sound, DaemonInv
      <3>7. Sound(Cleared(n, {i}), d, e, ab)
        <4>1. \A j \in {i}, a \in d.shown :
                 ~(~n.stopped /\ n.owner = d.alive /\ n.notices[j].id = a.id)
          BY <3>3, <3>6
        <4> QED BY <3>3, <4>1, NoticesCleared
      <3> QED BY <3>4, <3>5, <3>7
    <2> QED BY <1>3, <2>1, <2>2
  <1> QED BY <1>3, <1>4, MessageTaken

\* A daemon comes or goes.
LEMMA OwnerKeeps ==
    ASSUME NEW d, NEW e, NEW ab, Sound(n, d, e, ab), e # <<>>, OwnerChanges(Head(e))
    PROVE  Sound(n', d, Tail(e), ab)
  <1>1. CASE n.stopped
    BY <1>1, MessageTaken DEF OwnerChanges
  <1>2. CASE ~n.stopped /\ Head(e).kind = "appeared"
    BY <1>2, AppearedSound DEF OwnerChanges
  <1>3. CASE ~n.stopped /\ Head(e).kind = "vanished"
    BY <1>3, VanishedSound DEF OwnerChanges
  <1> QED BY <1>1, <1>2, <1>3 DEF OwnerChanges

\* A bus message is dispatched.
LEMMA DispatchKeeps ==
    ASSUME Invariant, Dispatch
    PROVE  Invariant'
  <1>1. QueueInv /\ Sound(n, daemon, events, abandoned)
    BY DEF Invariant
  <1>2. /\ events # <<>> /\ events' = Tail(events)
        /\ UNCHANGED <<arrived, queue, reading, waiting, daemon, timeouts, abandoned>>
        /\ \/ ReplyArrives(Head(events)) \/ SignalArrives(Head(events))
           \/ OwnerChanges(Head(events))
    BY DEF Dispatch
  <1>3. Sound(n', daemon, Tail(events), abandoned)
    BY <1>1, <1>2, ReplyKeeps, SignalKeeps, OwnerKeeps
  <1>4. QueueInv'
    BY <1>1, <1>2, QueuesAlone
  <1> QED BY <1>2, <1>3, <1>4 DEF Invariant

\* A call ends without a reply.
LEMMA CallFailsKeeps ==
    ASSUME Invariant, NEW call \in n.calls, CallFails(call)
    PROVE  Invariant'
  <1>1. QueueInv /\ Sound(n, daemon, events, abandoned)
    BY DEF Invariant
  <1>2. call \in Call /\ abandoned \in SUBSET Nat
    BY <1>1 DEF Sound, TypeInv, Backend
  <1>3. abandoned' \in SUBSET Nat /\ abandoned \subseteq abandoned'
    BY <1>2 DEF CallFails, Call
  <1>4. Sound(n, daemon, events, abandoned')
    BY <1>1, <1>3, MoreGivenUp
  <1>5. Sound(n', daemon, events, abandoned')
    <2>1. CASE call.kind = "notify"
      <3>1. n' = NotifyFailed(n, call) /\ (call.to = daemon.alive => call.serial \in abandoned')
        BY <2>1 DEF CallFails
      <3> QED BY <1>4, <2>1, <3>1, NotifyFailedSound
    <2>2. CASE call.kind = "capabilities"
      <3>1. n' = Capabilities(n, call, FALSE, {})
        BY <2>2 DEF CallFails
      <3>2. {} \in SUBSET {"actions", "images"} /\ FALSE \in BOOLEAN
        OBVIOUS
      <3> QED BY <1>4, <2>2, <3>1, <3>2, CapabilitiesSound
    <2> QED BY <1>2, <2>1, <2>2 DEF Call
  <1>6. QueueInv'
    <2>1. timeouts' \in 0..MaxTimeouts
      BY <1>1, NoticesAssumption DEF CallFails, QueueInv
    <2> QED BY <1>1, <2>1 DEF CallFails, QueueInv, NewestKept
  <1> QED BY <1>5, <1>6 DEF Invariant, CallFails

\* A daemon starts or dies.
LEMMA DaemonKeeps ==
    ASSUME Invariant, Start \/ Die
    PROVE  Invariant'
  <1>1. QueueInv /\ Sound(n, daemon, events, abandoned)
    BY DEF Invariant
  <1>2. /\ ~n.stopped /\ daemon.started < MaxStarts
        /\ UNCHANGED <<arrived, queue, reading, waiting, n, timeouts, abandoned>>
    BY DEF Start, Die
  <1>3. daemon' = NextDaemon(daemon) /\ events' = Append(events, NextChange(daemon))
    BY DEF Start, Die, NextDaemon, NextChange
  <1>4. Sound(n, NextDaemon(daemon), Append(events, NextChange(daemon)), abandoned)
    BY <1>1, <1>2, DaemonChanged
  <1>5. QueueInv'
    BY <1>1, <1>2, QueuesAlone
  <1> QED BY <1>2, <1>3, <1>4, <1>5 DEF Invariant

\* The daemon serves a request, or it is lost.
LEMMA ServeKeeps ==
    ASSUME Invariant, Serve
    PROVE  Invariant'
  <1> DEFINE r == Head(n.out)
             closed == {a \in daemon.shown : r.kind = "close" /\ a.id = r.id}
             left == daemon.shown \ closed
  <1>1. QueueInv /\ Sound(n, daemon, events, abandoned)
    BY DEF Invariant
  <1>2. /\ n.out # <<>> /\ n' = Skipped(n)
        /\ UNCHANGED <<arrived, queue, reading, waiting, timeouts, abandoned>>
    BY DEF Serve, Skipped
  <1>3. QueueInv'
    BY <1>1, <1>2, QueuesAlone
  <1>4. CASE r.to # daemon.alive
    <2>1. daemon' = daemon /\ events' = events
      BY <1>4 DEF Serve
    <2>2. Sound(Skipped(n), daemon, events, abandoned)
      BY <1>1, <1>2, <1>4, RequestTaken
    <2> QED BY <1>2, <1>3, <2>1, <2>2 DEF Invariant
  <1>5. CASE r.to = daemon.alive /\ r.kind = "notify"
    <2>1. /\ daemon' = Showing(daemon, r)
          /\ events' = Append(events, AnswerTo(daemon, r))
      BY <1>5 DEF Serve, Showing, AlertFor, AnswerTo
    <2>2. Sound(Skipped(n), Showing(daemon, r), Append(events, AnswerTo(daemon, r)),
                abandoned)
      BY <1>1, <1>2, <1>5, AlertShown
    <2> QED BY <1>2, <1>3, <2>1, <2>2 DEF Invariant
  <1>6. CASE r.to = daemon.alive /\ r.kind = "capabilities"
    <2>1. PICK abilities \in Abilities :
             /\ events' = Append(events, [kind |-> "capabilities", from |-> r.to,
                                          call |-> r.call, abilities |-> abilities])
             /\ daemon' = daemon
      BY <1>6 DEF Serve
    <2> DEFINE x == [kind |-> "capabilities", from |-> r.to, call |-> r.call,
                     abilities |-> abilities]
    <2>2. /\ Sound(Skipped(n), daemon, events, abandoned)
          /\ r \in ToSet(n.out) /\ r \in Asking \cup Closing
      BY <1>1, <1>2, <1>6, RequestTaken
    <2> HIDE DEF r
    <2>3. r.call.kind = "capabilities" /\ r.call.to = r.to /\ r.to # 0
      BY <1>1, <1>6, <2>2 DEF Sound, AskInv
    <2>4. x \in Event /\ x.kind = "capabilities" /\ x.from = r.to /\ x.call = r.call
      <3>1. abilities \in SUBSET {"actions", "images"}
        BY NoticesAssumption
      <3>2. r.to \in Nat /\ r.call \in Call
        BY <1>6, <2>2 DEF Asking, Closing
      <3> QED BY <3>1, <3>2 DEF Event
    <2> HIDE DEF x
    <2>5. Sound(Skipped(n), daemon, Append(events, x), abandoned)
      BY <1>6, <2>2, <2>3, <2>4, SignalSent
    <2> QED BY <1>2, <1>3, <2>1, <2>5 DEF Invariant, x
  <1>7. CASE r.to = daemon.alive /\ r.kind = "close"
    <2> DEFINE d == [daemon EXCEPT !.shown = left]
               x == [kind |-> "closed", from |-> r.to, id |-> r.id]
    <2>1. /\ daemon' = d
          /\ events' = IF closed = {} THEN events ELSE Append(events, x)
      BY <1>7 DEF Serve
    <2>2. Sound(n, d, events, abandoned)
      <3>1. left \in SUBSET daemon.shown
        OBVIOUS
      <3> HIDE DEF left
      <3> QED BY <1>1, <3>1, AlertsGone
    <2>3. /\ d.shown = left /\ d.alive = daemon.alive /\ d.ids = daemon.ids
      <3>1. daemon \in Daemon
        BY <1>1 DEF Sound, TypeInv
      <3> HIDE DEF left
      <3> QED BY <3>1 DEF Daemon
    <2>4. \A a \in left : a.id # r.id
      BY <1>7
    <2> HIDE DEF d, left
    <2>5. /\ Sound(Skipped(n), d, events, abandoned)
          /\ r \in ToSet(n.out) /\ r \in Asking \cup Closing
      BY <1>2, <2>2, <2>3, <2>4, RequestTaken
    <2> HIDE DEF r
    <2>6. CASE closed = {}
      BY <1>2, <1>3, <2>1, <2>5, <2>6 DEF Invariant
    <2>7. CASE closed # {}
      <3>1. PICK a \in daemon.shown : a.id = r.id
        BY <2>7
      <3>2. a.id \in 1..daemon.ids
        BY <1>1 DEF Sound, DaemonInv
      <3>3. r.to # 0
        BY <1>1, <2>5 DEF Sound, AskInv
      <3>4. x \in Event /\ x.kind = "closed" /\ x.from = r.to /\ x.id = r.id
        <4>1. r.to \in Nat /\ r.id \in Nat
          BY <1>7, <2>5 DEF Asking, Closing
        <4> QED BY <4>1 DEF Event
      <3> HIDE DEF x
      <3>5. Sound(Skipped(n), d, Append(events, x), abandoned)
        BY <1>7, <2>3, <2>4, <2>5, <3>1, <3>2, <3>3, <3>4, SignalSent
      <3> QED BY <1>2, <1>3, <2>1, <2>7, <3>5 DEF Invariant
    <2> QED BY <2>6, <2>7
  <1> HIDE DEF closed, left
  <1>8. r.to # daemon.alive \/ r.kind \in {"notify", "capabilities", "close"}
    BY DEF Serve
  <1> QED BY <1>4, <1>5, <1>6, <1>7, <1>8

\* An alert of a running daemon.
LEMMA AlertFacts ==
    ASSUME Invariant, NEW alert \in daemon.shown
    PROVE  /\ daemon \in Daemon /\ alert \in Alert /\ daemon.alive # 0
           /\ daemon.alive \in Nat
           /\ alert.id \in 1..daemon.ids /\ alert.id \in Nat
           /\ \A a \in daemon.shown : a.id = alert.id => a = alert
  <1>1. Sound(n, daemon, events, abandoned)
    BY DEF Invariant
  <1>2. daemon \in Daemon
    BY <1>1 DEF Sound, TypeInv
  <1>3. /\ daemon.alive # 0 /\ alert.id \in 1..daemon.ids
        /\ \A a \in daemon.shown : a.id = alert.id => a = alert
    BY <1>1 DEF Sound, DaemonInv
  <1> QED BY <1>2, <1>3 DEF Daemon, Alert

\* An alert expires.
LEMMA ExpireKeeps ==
    ASSUME Invariant, NEW alert \in daemon.shown, Expire(alert)
    PROVE  Invariant'
  <1> DEFINE left == daemon.shown \ {alert}
             d == [daemon EXCEPT !.shown = left]
             x == [kind |-> "closed", from |-> daemon.alive, id |-> alert.id]
  <1>1. QueueInv /\ Sound(n, daemon, events, abandoned)
    BY DEF Invariant
  <1>2. /\ daemon' = d /\ events' = Append(events, x)
        /\ UNCHANGED <<arrived, queue, reading, waiting, n, timeouts, abandoned>>
    BY DEF Expire
  <1>3. /\ daemon \in Daemon /\ daemon.alive # 0 /\ daemon.alive \in Nat
        /\ alert.id \in 1..daemon.ids /\ alert.id \in Nat
        /\ \A a \in left : a.id # alert.id
    BY AlertFacts
  <1>4. left \in SUBSET daemon.shown
    OBVIOUS
  <1>5. x \in Event /\ x.kind = "closed" /\ x.from = daemon.alive /\ x.id = alert.id
    BY <1>3 DEF Event
  <1> HIDE DEF left, x
  <1>6. Sound(n, d, events, abandoned)
    BY <1>1, <1>4, AlertsGone
  <1>7. d.shown = left /\ d.alive = daemon.alive /\ d.ids = daemon.ids
    BY <1>3 DEF Daemon
  <1> HIDE DEF d
  <1>8. Sound(n, d, Append(events, x), abandoned)
    BY <1>3, <1>5, <1>6, <1>7, SignalSent
  <1>9. QueueInv'
    BY <1>1, <1>2, QueuesAlone
  <1> QED BY <1>2, <1>8, <1>9 DEF Invariant

\* The user clicks an alert.
LEMMA ClickKeeps ==
    ASSUME Invariant, NEW alert \in daemon.shown, Click(alert)
    PROVE  Invariant'
  <1> DEFINE x == [kind |-> "action", from |-> daemon.alive, id |-> alert.id,
                   chat |-> alert.chat]
  <1>1. QueueInv /\ Sound(n, daemon, events, abandoned)
    BY DEF Invariant
  <1>2. /\ events' = Append(events, x)
        /\ UNCHANGED <<arrived, queue, reading, waiting, n, daemon, timeouts, abandoned>>
    BY DEF Click
  <1>3. /\ alert \in Alert /\ daemon.alive # 0 /\ daemon.alive \in Nat
        /\ alert.id \in 1..daemon.ids /\ alert.id \in Nat
    BY AlertFacts
  <1>4. /\ x \in Event /\ x.kind = "action" /\ x.from = daemon.alive
        /\ x.id = alert.id /\ x.chat = alert.chat
    BY <1>3 DEF Event, Alert
  <1> HIDE DEF x
  <1>5. Sound(n, daemon, Append(events, x), abandoned)
    BY <1>1, <1>3, <1>4, SignalSent
  <1>6. QueueInv'
    BY <1>1, <1>2, QueuesAlone
  <1> QED BY <1>2, <1>5, <1>6 DEF Invariant

-----------------------------------------------------------------------------
(* The theorems.                                                            *)

\* Nothing has happened yet.
LEMMA StartsSound ==
    ASSUME Init
    PROVE  Invariant
  <1> DEFINE s == [refs |-> 1, serial |-> 0, generation |-> 0, stopped |-> FALSE,
                   ready |-> FALSE, abilities |-> {}, owner |-> 0,
                   notices |-> [i \in Slots |-> NoNotice], calls |-> {}, out |-> <<>>]
             d == [alive |-> 0, started |-> 0, ids |-> 0, shown |-> {}]
  <1>1. /\ n = s /\ daemon = d /\ events = <<>> /\ abandoned = {}
    BY DEF Init
  <1>2. \A S : <<>> \in Seq(S)
    BY EmptySeq
  <1>3. NoNotice \in Notice
    BY NoticesAssumption DEF NoNotice, Notice
  <1>4. s \in Backend
    <2> DEFINE q == <<>>
               g == [i \in Slots |-> NoNotice]
    <2>1. q \in Seq(Asking \cup Closing) /\ g \in [Slots -> Notice]
      BY <1>2, <1>3
    <2> HIDE DEF q, g
    <2>2. [refs |-> 1, serial |-> 0, generation |-> 0, stopped |-> FALSE,
           ready |-> FALSE, abilities |-> {}, owner |-> 0,
           notices |-> g, calls |-> {}, out |-> q] \in Backend
      BY <2>1 DEF Backend
    <2> QED BY <2>2 DEF q, g
  <1>5. d \in Daemon
    BY DEF Daemon
  <1>6. /\ s.refs = 1 /\ s.serial = 0 /\ s.generation = 0 /\ ~s.stopped /\ ~s.ready
        /\ s.owner = 0 /\ s.calls = {} /\ s.out = <<>>
        /\ \A i \in Slots : s.notices[i] = NoNotice
    OBVIOUS
  <1>7. d.alive = 0 /\ d.started = 0 /\ d.ids = 0 /\ d.shown = {}
    OBVIOUS
  <1> HIDE DEF s, d
  <1>8. /\ Kept(s) = {} /\ ToSet(s.out) = {} /\ DOMAIN s.out = {}
        /\ \A kind : Requests(s, kind) = {}
        /\ ToSet(<<>>) = {} /\ \A kind : Messages(<<>>, kind) = {}
        /\ DOMAIN <<>> = {}
    <2>1. DOMAIN <<>> = {} /\ ToSet(<<>>) = {}
      BY DEF ToSet
    <2>2. Kept(s) = {}
      BY <1>6 DEF Kept, NoNotice
    <2> QED BY <1>6, <2>1, <2>2 DEF Requests, Messages
  <1>9. TypeInv(s, d, <<>>, {})
    BY <1>2, <1>4, <1>5 DEF TypeInv
  <1>10. NoticeInv(s)
    <2>1. NoNotice.id = 0
      BY DEF NoNotice
    <2> QED BY <1>6, <1>8, <2>1 DEF NoticeInv
  <1>11. CallInv(s) /\ AskInv(s) /\ AnswerInv(s, <<>>)
    BY <1>6, <1>8 DEF CallInv, AskInv, AnswerInv
  <1>12. DaemonInv(s, d, <<>>)
    <2>1. NoNotice.id = 0
      BY DEF NoNotice
    <2> QED BY <1>6, <1>7, <1>8, <2>1, NoticesAssumption DEF DaemonInv
  <1>13. NameInv(s, d, <<>>)
    BY <1>7, <1>8 DEF NameInv
  <1>14. WatchInv(s, d, <<>>)
    BY <1>6, <1>7, <1>8 DEF WatchInv, Final
  <1>15. GivenUp(s, d, {}) /\ AlertInv(s, d, <<>>, {})
    BY <1>6, <1>7, <1>8 DEF GivenUp, AlertInv
  <1>16. RefsInv(s)
    BY <1>6, FS_EmptySet DEF RefsInv
  <1>17. Sound(s, d, <<>>, {})
    BY <1>9, <1>10, <1>11, <1>12, <1>13, <1>14, <1>15, <1>16 DEF Sound
  <1>18. QueueInv
    <2>1. queue = <<>> /\ Len(<<>>) = 0
      BY DEF Init
    <2>2. NewestKept
      BY <1>8, <2>1 DEF NewestKept
    <2> QED BY <1>2, <2>1, <2>2, NoticesAssumption DEF QueueInv, Init
  <1> QED BY <1>1, <1>17, <1>18 DEF Invariant

\* Every step keeps the invariant.
LEMMA StepKeeps ==
    ASSUME Invariant, [Next]_vars
    PROVE  Invariant'
  <1>1. CASE \E c \in Chats : Arrive(c)
    BY <1>1, ArriveKeeps
  <1>2. CASE \E c \in Chats \cup {NoChat} : Turn(c)
    BY <1>2, TurnKeeps
  <1>3. CASE DeliverNotifications
    BY <1>3, DeliverKeeps, ReadKeeps, PollKeeps DEF DeliverNotifications
  <1>4. CASE Callbacks
    BY <1>4, DispatchKeeps, CallFailsKeeps DEF Callbacks
  <1>5. CASE Quit
    BY <1>5, QuitKeeps
  <1>6. CASE Start \/ Die
    BY <1>6, DaemonKeeps
  <1>7. CASE Serve
    BY <1>7, ServeKeeps
  <1>8. CASE \E a \in daemon.shown : Expire(a) \/ Click(a)
    BY <1>8, ExpireKeeps, ClickKeeps
  <1>9. CASE UNCHANGED vars
    <2>1. QueueInv'
      BY <1>9, QueuesAlone DEF vars, Invariant
    <2> QED BY <1>9, <2>1 DEF vars, Invariant
  <1> QED BY <1>1, <1>2, <1>3, <1>4, <1>5, <1>6, <1>7, <1>8, <1>9 DEF Next

\* The inductive invariant holds throughout.
THEOREM InvarianceHolds == Spec => []Invariant
  <1>1. Init => Invariant
    BY StartsSound
  <1>2. Invariant /\ [Next]_vars => Invariant'
    BY StepKeeps
  <1> QED BY <1>1, <1>2, PTL DEF Spec

\* The types of the queues, the backend and the daemon.
THEOREM TypeCorrect == Spec => []TypeOK
  <1>1. ASSUME Invariant
        PROVE  TypeOK
    <2>1. /\ QueueInv /\ n \in Backend /\ daemon \in Daemon /\ DaemonInv(n, daemon, events)
          /\ RefsInv(n)
      BY <1>1 DEF Invariant, Sound, TypeInv
    <2>2. Incoming \subseteq Message /\ NoMessage \in Message
      BY NoticesAssumption DEF Incoming, Message, NoMessage
    <2>3. queue \in Seq(Message) /\ Len(queue) <= QueueLimit
      <3>1. queue \in Seq(Incoming) /\ Len(queue) <= QueueLimit
        BY <2>1 DEF QueueInv
      <3>2. \A i \in 1..Len(queue) : queue[i] \in Message
        BY <2>2, <3>1, ElementOfSeq
      <3>3. queue = [i \in 1..Len(queue) |-> queue[i]] /\ Len(queue) \in Nat
        BY <3>1, LenProperties
      <3> QED BY <3>1, <3>2, <3>3, SeqDef
    <2>4. waiting \in [Slots -> Message]
      BY <2>1, <2>2 DEF QueueInv
    <2>5. n.refs \in Nat
      <3>1. Cardinality(n.calls) \in Nat
        BY <2>1, FS_CardinalityType DEF RefsInv
      <3> QED BY <2>1, <3>1 DEF RefsInv
    <2>6. /\ n.serial \in Nat /\ n.generation \in Nat /\ n.notices \in [Slots -> Notice]
      BY <2>1 DEF Backend
    <2>7. daemon.alive \in 0..MaxStarts
      BY <2>1, NoticesAssumption DEF Daemon, DaemonInv
    <2> QED BY <2>1, <2>3, <2>4, <2>5, <2>6, <2>7 DEF TypeOK, QueueInv, Notice
  <1> QED BY <1>1, InvarianceHolds, PTL

\* receiveEvents drops from the front: however long the window stalls, the worker's
\* queue holds the newest notices, in order and with none missing between them.
THEOREM NewestInQueue == Spec => []NewestKept
  <1>1. Invariant => NewestKept
    BY DEF Invariant, QueueInv
  <1> QED BY <1>1, InvarianceHolds, PTL

\* signal_received and notificationAction: a click leads to the conversation its alert
\* was for, whatever became of the slot, the calls and the daemon since.
THEOREM ClickFindsItsChat == Spec => []ClickOpensItsChat
  <1>1. ASSUME Invariant
        PROVE  ClickOpensItsChat
    <2>1. SUFFICES ASSUME events # <<>>, Head(events).kind = "action",
                          NEW i \in Heard(Head(events))
                   PROVE  n.notices[i].chat = Head(events).chat
      BY DEF ClickOpensItsChat
    <2> DEFINE k == Head(events)
    <2>2. Sound(n, daemon, events, abandoned)
      BY <1>1 DEF Invariant
    <2>3. events \in Seq(Event)
      BY <2>2 DEF Sound, TypeInv
    <2>4. k \in Messages(events, "action")
      BY <2>1, <2>3, TailFacts DEF Messages
    <2>5. i \in Kept(n) /\ k.from = n.owner /\ k.id = n.notices[i].id
      BY <2>1 DEF Heard, NoticesOf, Kept
    <2> QED BY <2>2, <2>4, <2>5 DEF Sound, NameInv
  <1> QED BY <1>1, InvarianceHolds, PTL

\* notified, close_id and zc_notifications_free: an alert of a running daemon is known
\* to a notice, about to be closed, or about to become known, unless its call was
\* given up.
THEOREM EveryAlertAccounted == Spec => []Accounted
  <1>1. ASSUME Invariant
        PROVE  Accounted
    <2> SUFFICES ASSUME NEW a \in daemon.shown
                 PROVE  \/ a.serial \in abandoned
                        \/ \E i \in DOMAIN n.out : n.out[i].kind = "close"
                                                   /\ n.out[i].to = daemon.alive
                                                   /\ n.out[i].id = a.id
                        \/ \E i \in DOMAIN events : events[i].kind = "notify"
                                                    /\ events[i].id = a.id
                                                    /\ events[i].call \in n.calls
                        \/ ~n.stopped /\ \E i \in Slots :
                                            /\ n.notices[i].id = a.id
                                            /\ n.notices[i].chat = a.chat
                                            /\ n.notices[i].number = a.number
      BY DEF Accounted
    <2>1. Sound(n, daemon, events, abandoned)
      BY <1>1 DEF Invariant
    <2>2. Held(n, daemon, abandoned, a) \/ Answered(n, daemon, events, a)
      BY <2>1 DEF Sound, AlertInv
    <2>3. a.id # 0
      BY <2>1 DEF Sound, DaemonInv
    <2>4. ASSUME NEW r \in Requests(n, "close"), r.to = daemon.alive, r.id = a.id
          PROVE  \E i \in DOMAIN n.out : n.out[i].kind = "close"
                                         /\ n.out[i].to = daemon.alive
                                         /\ n.out[i].id = a.id
      BY <2>4 DEF Requests, ToSet
    <2>5. ASSUME NEW x \in Messages(events, "notify"), x.id = a.id, x.call \in n.calls
          PROVE  \E i \in DOMAIN events : events[i].kind = "notify"
                                          /\ events[i].id = a.id
                                          /\ events[i].call \in n.calls
      BY <2>5 DEF Messages, ToSet
    <2>6. ASSUME n.owner = daemon.alive, NEW i \in Slots, n.notices[i].id = a.id
          PROVE  n.notices[i].chat = a.chat /\ n.notices[i].number = a.number
      <3>1. NoNotice.id = 0
        BY DEF NoNotice
      <3>2. i \in Kept(n)
        BY <2>1, <2>3, <2>6, <3>1 DEF Sound, NoticeInv
      <3> QED BY <2>1, <2>6, <3>2 DEF Sound, NameInv
    <2> QED BY <2>2, <2>4, <2>5, <2>6 DEF Held, Answered
  <1> QED BY <1>1, InvarianceHolds, PTL

\* new_call and release: the struct has a reference for its owner and one for every
\* call under way, so no callback meets a freed one and the last one frees it.
THEOREM ReferencesCounted == Spec => []RefsInv(n)
  <1>1. Invariant => RefsInv(n)
    BY DEF Invariant, Sound
  <1> QED BY <1>1, InvarianceHolds, PTL

=============================================================================
