-------------------------- MODULE SendOrderProofs --------------------------
(***************************************************************************)
(* More about Sends, for every value of its constants, on top of the        *)
(* invariant of SendsProofs.  First what the sender hands over: parts in    *)
(* their order and requests in the order they were accepted, an original     *)
(* stays pinned as long as its part may need it, and no operation goes back. *)
(* Then what reconcile and publish confirm: whose echo an operation claims.  *)
(***************************************************************************)
EXTENDS SendsProofs
-----------------------------------------------------------------------------
(* The inductive invariant.                                                 *)

Started(x) == x.state \notin {"queued", "dispatching"}

\* The files of a request are the ones it was submitted with.
FilesKept(v, w) ==
    /\ Len(w.parts) = Len(v.parts)
    /\ \A k \in 1..Len(v.parts) : w.parts[k].file = v.parts[k].file

FilesInv == \A r \in Requests : FilesKept(NewRequest(r), requests[r])

SummedInv == \A r \in Requests : ~TextOnly(r) => Summed(requests[r])

\* A part that has ended without being taken holds all queued ones.
Held(r, v) ==
    \/ NoneIn(v, {"queued"})
    \/ \A k \in 1..Len(v.parts) : Started(v.parts[k]) => <<r, k>> \in taken

HoldInv == \A r \in Requests : ~TextOnly(r) => Held(r, requests[r])

\* A dispatching operation is in the sender's hands, or recovery comes first.
DispatchInv ==
    \A o \in Ops : OpState(o) = "dispatching" =>
        recovery \/ (sender.pc # "idle" /\ sender.op = o /\ sender.epoch = epoch)

\* What the sender is about to call, and what it was told.
HandInv ==
    sender.pc # "idle" =>
        /\ \A k \in 1..(sender.op[2] - 1) : <<sender.op[1], k>> \in taken
        /\ (sender.pc = "returned" /\ sender.outcome = "invoked") => sender.op \in taken

\* Nothing of request r is queued.
Unqueued(r) == requests[r].state # "queued" /\ NoneIn(requests[r], {"queued"})

\* Operation o was handed over, or is about to be.
Begins(o) == calls[o] > 0 \/ (sender.pc # "idle" /\ sender.op = o)

\* Whatever was accepted before it has left the queue.
OrderInv ==
    /\ \A r \in Requests : acceptedAt[r] <= now
    /\ \A o \in Ops : Begins(o) =>
          \A q \in Requests : (epochOf[q] # 0 /\ acceptedAt[q] < acceptedAt[o[1]]) => Unqueued(q)

OInv == /\ IInv /\ SummedInv /\ FilesInv /\ HoldInv /\ DispatchInv /\ HandInv /\ OrderInv
        /\ PredecessorsTaken /\ OriginalKept
-----------------------------------------------------------------------------
(* How far a step may take an operation.                                    *)

Final == {"delivered", "failed", "skipped"}

\* The order of the stages, without numbers.
Further == [queued |-> {"dispatching", "invoked", "unknown", "submitted"} \cup Final,
            dispatching |-> {"invoked", "unknown", "submitted"} \cup Final,
            invoked |-> {"submitted"} \cup Final, unknown |-> {"submitted"} \cup Final,
            submitted |-> Final, delivered |-> {}, failed |-> {}, skipped |-> {}]

\* Operation p stays where it is, or becomes q and gets further.
Move(p, q) ==
    \/ q.state = p.state /\ (p.state \in Final => q.err = p.err)
    \/ q.state \in Further[p.state]

\* Request v becomes w: files, summary and the hold on its queue are kept.
Tidy(r, v, w) ==
    /\ FilesKept(v, w)
    /\ ~TextOnly(r) => Summed(w) /\ Held(r, w)

\* ... and no operation goes back.
Progress(r, v, w) ==
    /\ Tidy(r, v, w)
    /\ \A i \in PartsOf(r) : Move(At(v, i), At(w, i))

\* Nothing of w waits or is under way.
Quiescent(r, w) == \A i \in PartsOf(r) : At(w, i).state \notin {"queued", "dispatching"}

\* Moving is what the stages of NoRegression allow.
LEMMA MoveStages ==
    ASSUME NEW p, NEW q, p.state \in PartState, Move(p, q)
    PROVE  q.state = p.state \/ Stage(q.state) > Stage(p.state)
  BY DEF Move, Further, Final, Stage, PartState

\* What has left the queue does not come back, and a settled operation stays.
LEMMA MoveFacts ==
    ASSUME NEW p, NEW q, p.state \in PartState, Move(p, q)
    PROVE  /\ q.state = "queued" => p.state = "queued"
           /\ p.state \in Final => q.state = p.state /\ q.err = p.err
           /\ q.state = "dispatching" => p.state \in {"queued", "dispatching"}
  BY DEF Move, Further, Final, PartState

\* Other parts, and interrupted ones, move.
LEMMA AsideMoves ==
    \A p, q : Aside(p, q) => Move(p, q)
  BY DEF Aside, Move, Further, Final

\* So do interrupted parts.
LEMMA InterruptedMoves ==
    \A p, q : Interrupted(p, q) => Move(p, q)
  BY DEF Interrupted, Aside, Move, Further, Final

\* Every operation has a state of PartState.
LEMMA StateFacts ==
    ASSUME TypeOK, ShapeInv, NEW r \in Requests, NEW i \in PartsOf(r)
    PROVE  At(requests[r], i).state \in PartState
  <1>1. SendStatus \subseteq PartState
    BY DEF SendStatus, PartState
  <1> QED BY <1>1, RequestFacts DEF At, Part

\* What is dropped is tidy; only a reset takes a submitted text back.
LEMMA DroppedFacts ==
    ASSUME IInv, NEW r \in Requests, NEW w, Dropped(r, requests[r], w),
           requests[r].state \in Unfinished
    PROVE  /\ Tidy(r, requests[r], w) /\ Quiescent(r, w)
           /\ \A i \in PartsOf(r) :
                 \/ Move(At(requests[r], i), At(w, i))
                 \/ At(requests[r], i).state = "submitted" /\ At(w, i).state = "unknown"
           /\ requests[r].state = "dispatching" => Progress(r, requests[r], w)
  <1> DEFINE v == requests[r]
  <1>1. TypeOK /\ ShapeInv
    BY DEF IInv
  <1>2. /\ \A i \in PartsOf(r) : ~TextOnly(r) => i \in 1..Len(v.parts)
        /\ \A i \in PartsOf(r) : TextOnly(r) <=> i = 0
    BY <1>1, RequestFacts
  <1>3. CASE TextOnly(r)
    <2>1. Tidy(r, v, w)
      BY <1>3 DEF Tidy, FilesKept, Dropped
    <2>2. \A i \in PartsOf(r) : At(v, i) = v /\ At(w, i) = w
      BY <1>2, <1>3 DEF At
    <2>3. Move(v, w) \/ v.state = "submitted"
      BY DEF Move, Further, Final, Dropped, Unfinished
    <2>4. w.state = "unknown"
      BY DEF Dropped
    <2> HIDE DEF v
    <2> QED BY <2>1, <2>2, <2>3, <2>4 DEF Quiescent, Progress, v
  <1>4. CASE ~TextOnly(r)
    <2>1. /\ Len(w.parts) = Len(v.parts)
          /\ NoneIn(w, {"queued", "dispatching"}) /\ w.state = "unknown"
          /\ \A k \in 1..Len(v.parts) : Interrupted(v.parts[k], w.parts[k])
      BY <1>4 DEF Dropped
    <2>2. FilesKept(v, w)
      BY <2>1 DEF FilesKept, Interrupted, Aside
    <2>3. NoneIn(w, {"queued"}) /\ NoneIn(w, {"dispatching"})
      BY <2>1 DEF NoneIn
    <2>4. Summed(w) /\ Held(r, w)
      BY <2>1, <2>3 DEF Summed, Orderly, Held
    <2>5. \A i \in PartsOf(r) : Move(At(v, i), At(w, i))
      BY <1>2, <1>4, <2>1, InterruptedMoves DEF At
    <2>6. Quiescent(r, w)
      BY <1>2, <1>4, <2>1 DEF Quiescent, At, NoneIn
    <2> QED BY <2>2, <2>4, <2>5, <2>6 DEF Tidy, Progress
  <1> QED BY <1>3, <1>4

\* Core.reconcile.
LEMMA ReconciledMoves ==
    ASSUME IInv, NEW r \in Reconcilable
    PROVE  /\ Progress(r, requests[r], Reconciled(Imported, r))
           /\ Quiescent(r, Reconciled(Imported, r))
  <1> DEFINE v == requests[r]
             w == Reconciled(Imported, r)
  <1>1. TypeOK /\ ShapeInv
    BY DEF IInv
  <1>2. TextOnly(r) /\ v.state \in {"submitted", "unknown"} /\ r \in Requests
    BY DEF Reconcilable
  <1>3. w.parts = v.parts /\ (w.state = v.state \/ w.state \in {"submitted", "delivered", "failed"})
    BY <1>1, ReconciledFacts
  <1>4. \A i \in PartsOf(r) : At(v, i) = v /\ At(w, i) = w
    BY <1>1, <1>2, RequestFacts DEF At
  <1> HIDE DEF v, w
  <1>5. Move(v, w) /\ w.state \notin {"queued", "dispatching"}
    BY <1>2, <1>3 DEF Move, Further, Final
  <1>6. FilesKept(v, w)
    BY <1>3 DEF FilesKept
  <1> QED BY <1>2, <1>4, <1>5, <1>6 DEF Progress, Tidy, Quiescent, v, w

\* Part i gets further and the others are at most skipped.
LEMMA OnePartMoves ==
    ASSUME IInv, NEW r \in Requests, NEW w, NEW i, ~TextOnly(r), i \in 1..Len(requests[r].parts),
           OthersAside(requests[r], w, i),
           w.parts[i].file = requests[r].parts[i].file,
           Move(requests[r].parts[i], w.parts[i]),
           Summed(w),
           \/ NoneIn(w, {"queued"})
           \/ /\ \A k \in 1..Len(requests[r].parts) : k # i => w.parts[k] = requests[r].parts[k]
              /\ Held(r, requests[r])
              /\ Started(w.parts[i]) => Started(requests[r].parts[i]) \/ <<r, i>> \in taken
              /\ NoneIn(requests[r], {"queued"}) => NoneIn(w, {"queued"})
    PROVE  Progress(r, requests[r], w)
  <1> DEFINE v == requests[r]
  <1>1. TypeOK /\ ShapeInv
    BY DEF IInv
  <1>2. \A k \in PartsOf(r) : k # 0 /\ k \in 1..Len(v.parts)
    BY <1>1, RequestFacts
  <1> HIDE DEF v
  <1>3. Len(w.parts) = Len(v.parts) /\ FilesKept(v, w)
    BY DEF OthersAside, Aside, FilesKept, v
  <1>4. \A k \in 1..Len(v.parts) : Move(v.parts[k], w.parts[k])
    BY AsideMoves DEF OthersAside, v
  <1>5. Held(r, w)
    BY <1>3 DEF Held, v
  <1>6. \A k \in PartsOf(r) : Move(At(v, k), At(w, k))
    BY <1>2, <1>4 DEF At
  <1> QED BY <1>3, <1>5, <1>6 DEF Progress, Tidy, v

\* observation.publish.
LEMMA PublishedMoves ==
    ASSUME OInv, NEW r \in Requests, NEW i \in PartsOf(r), i # 0, ~NothingToPublish(r, i)
    PROVE  /\ Progress(r, requests[r], Published(r, i))
           /\ \A k \in PartsOf(r) : At(Published(r, i), k).state = "dispatching" =>
                 At(requests[r], k).state = "dispatching"
  <1> DEFINE v == requests[r]
             w == Published(r, i)
  <1>1. /\ IInv /\ TypeOK /\ ShapeInv /\ SummaryInv
        /\ Summed(v) \/ TextOnly(r)
        /\ Held(r, v) \/ TextOnly(r)
    BY DEF OInv, IInv, SummedInv, HoldInv
  <1>2. /\ i \in 1..Len(v.parts) /\ ~TextOnly(r)
        /\ v.parts[i].state \in {"invoked", "unknown", "submitted"}
        /\ Seen(i, v, w)
    BY <1>1, PublishedFacts
  <1>3. \A k \in PartsOf(r) : k # 0 /\ k \in 1..Len(v.parts)
    BY <1>1, <1>2, RequestFacts
  <1> HIDE DEF v, w
  <1>4. /\ OthersAside(v, w, i) /\ w.parts[i].file = v.parts[i].file /\ Summed(w)
        /\ w.parts[i].state \in {"invoked", "unknown", "submitted", "delivered", "failed"}
        /\ Move(v.parts[i], w.parts[i])
        /\ \/ NoneIn(w, {"queued"})
           \/ \A k \in 1..Len(v.parts) : k # i => w.parts[k] = v.parts[k]
    BY <1>1, <1>2 DEF Seen, Move, Further, Final
  <1>5. NoneIn(v, {"queued"}) => NoneIn(w, {"queued"})
    BY <1>4 DEF NoneIn, OthersAside, Aside
  <1>6. Started(v.parts[i])
    BY <1>2 DEF Started
  <1>7. Progress(r, v, w)
    BY <1>1, <1>2, <1>4, <1>5, <1>6, OnePartMoves DEF v
  <1>8. ASSUME NEW k \in PartsOf(r), At(w, k).state = "dispatching"
        PROVE  At(v, k).state = "dispatching"
    BY <1>3, <1>4, <1>8 DEF At, OthersAside, Aside
  <1> QED BY <1>7, <1>8 DEF v, w
-----------------------------------------------------------------------------
(* What every change of requests keeps.                                     *)

\* A request without files has no parts, and the files of the others differ.
LEMMA NewFiles ==
    ASSUME NEW r \in Requests
    PROVE  /\ TextOnly(r) => NewRequest(r).parts = <<>>
           /\ \A i, k \in 1..Len(NewRequest(r).parts) :
                 /\ NewRequest(r).parts[i].file # NoFile
                 /\ NewRequest(r).parts[i].file = NewRequest(r).parts[k].file
                 => i = k
  <1> DEFINE files == Payload[r].files
             list == [i \in 1..Len(files) |-> NewPart(files[i])]
             caption == IF Text(r) # NoText THEN <<NewPart(NoFile)>> ELSE <<>>
             s == NewRequest(r).parts
  <1>1. files \in Seq(Files) /\ \A i, k \in 1..Len(files) : files[i] = files[k] => i = k
    BY SendsAssumption
  <1>2. s = IF files = <<>> THEN <<>> ELSE caption \o list
    BY DEF NewRequest, InitParts
  <1>3. \A f : NewPart(f).file = f
    BY DEF NewPart
  <1>4. CASE files = <<>>
    BY <1>2, <1>4 DEF TextOnly
  <1>5. CASE files # <<>>
    <2> DEFINE n == Len(caption)
    <2>1. /\ caption \in Seq({NewPart(NoFile)}) /\ n \in {0, 1}
          /\ \A k \in 1..n : caption[k] = NewPart(NoFile)
      <3>1. CASE Text(r) # NoText
        <4>1. caption = <<NewPart(NoFile)>>
          BY <3>1
        <4> HIDE DEF caption
        <4> QED BY <4>1
      <3>2. CASE ~(Text(r) # NoText)
        <4>1. caption = <<>>
          BY <3>2
        <4> HIDE DEF caption
        <4> QED BY <4>1
      <3> QED BY <3>1, <3>2
    <2>2. Len(files) \in Nat /\ list \in Seq({NewPart(f) : f \in Files}) /\ Len(list) = Len(files)
      BY <1>1
    <2>3. \A k \in 1..Len(files) : list[k] = NewPart(files[k])
      OBVIOUS
    <2> HIDE DEF caption, list, files
    <2>4. /\ Len(caption \o list) = n + Len(files)
          /\ \A k \in 1..n : (caption \o list)[k] = NewPart(NoFile)
          /\ \A k \in 1..Len(files) : (caption \o list)[n + k] = NewPart(files[k])
      BY <2>1, <2>2, <2>3
    <2> HIDE DEF s, n
    <2>5. /\ Len(s) = n + Len(files)
          /\ \A k \in 1..n : s[k].file = NoFile
          /\ \A k \in 1..Len(files) : s[n + k].file = files[k]
      BY <1>2, <1>3, <1>5, <2>4
    <2>6. \A i \in 1..Len(s) : s[i].file # NoFile =>
             \E k \in 1..Len(files) : i = n + k /\ s[i].file = files[k]
      <3> SUFFICES ASSUME NEW i \in 1..Len(s), s[i].file # NoFile
                   PROVE  \E k \in 1..Len(files) : i = n + k /\ s[i].file = files[k]
        OBVIOUS
      <3>1. i \notin 1..n
        BY <2>5
      <3>2. i - n \in 1..Len(files) /\ i = n + (i - n)
        BY <2>1, <2>2, <2>5, <3>1
      <3> QED BY <2>5, <3>2
    <2>7. \A i, k \in 1..Len(s) : s[i].file # NoFile /\ s[i].file = s[k].file => i = k
      BY <1>1, <2>6
    <2> QED BY <1>5, <2>7 DEF TextOnly, s, files
  <1> QED BY <1>4, <1>5

\* A request with files has a part for each of them.
LEMMA NewRequestParts ==
    ASSUME NEW r \in Requests, ~TextOnly(r)
    PROVE  Len(NewRequest(r).parts) # 0
  <1> DEFINE files == Payload[r].files
             list == [k \in 1..Len(files) |-> NewPart(files[k])]
             caption == IF Text(r) # NoText THEN <<NewPart(NoFile)>> ELSE <<>>
             P == {NewPart(f) : f \in Files \cup {NoFile}}
             s == NewRequest(r).parts
  <1>1. files \in Seq(Files) /\ files # <<>>
    BY SendsAssumption DEF TextOnly
  <1>2. s = IF files = <<>> THEN <<>> ELSE caption \o list
    BY DEF NewRequest, InitParts
  <1>3. list \in Seq(P) /\ Len(list) = Len(files) /\ Len(files) \in Nat \ {0}
    BY <1>1
  <1>4. caption \in Seq(P)
    <2>1. NewPart(NoFile) \in P
      OBVIOUS
    <2> HIDE DEF P
    <2> QED BY <2>1
  <1> HIDE DEF caption, list, P, files
  <1>5. Len(caption \o list) = Len(caption) + Len(list) /\ Len(caption) \in Nat
    BY <1>3, <1>4
  <1>6. s = caption \o list
    BY <1>1, <1>2
  <1> HIDE DEF s
  <1>7. Len(s) # 0
    BY <1>3, <1>5, <1>6
  <1> QED BY <1>7 DEF s

\* The files of the parts are the ones submitted.
LEMMA NewRequestFiles ==
    ASSUME NEW r \in Requests, NEW k \in 1..Len(NewRequest(r).parts),
           NewRequest(r).parts[k].file # NoFile
    PROVE  NewRequest(r).parts[k].file \in RequestFiles(r)
  <1> DEFINE files == Payload[r].files
             F == {files[i] : i \in 1..Len(files)} \cup {NoFile}
             Q == {NewPart(f) : f \in F}
             list == [i \in 1..Len(files) |-> NewPart(files[i])]
             caption == IF Text(r) # NoText THEN <<NewPart(NoFile)>> ELSE <<>>
             s == NewRequest(r).parts
  <1>1. files \in Seq(Files)
    BY SendsAssumption
  <1>2. s = IF files = <<>> THEN <<>> ELSE caption \o list
    BY DEF NewRequest, InitParts
  <1>3. \A x \in Q : x.file \in F
    BY DEF NewPart
  <1>4. caption \in Seq(Q)
    <2>1. NewPart(NoFile) \in Q
      OBVIOUS
    <2> HIDE DEF Q
    <2> QED BY <2>1
  <1>5. list \in Seq(Q)
    <2>1. list \in [1..Len(files) -> Q] /\ Len(files) \in Nat
      BY <1>1
    <2> HIDE DEF Q, list, files
    <2> QED BY <2>1
  <1> HIDE DEF Q, list, caption
  <1>6. s \in Seq(Q)
    BY <1>2, <1>4, <1>5
  <1> HIDE DEF s
  <1>7. s[k] \in Q
    BY <1>6 DEF s
  <1> QED BY <1>3, <1>7 DEF RequestFiles, s

\* What was sent does not return to the queue and what has ended stays.
Advance(r, v, w) ==
    /\ Tidy(r, v, w)
    /\ \A i \in PartsOf(r) :
          /\ At(w, i).state = "queued" => At(v, i).state = "queued"
          /\ At(v, i).state \in Final =>
                At(w, i).state = At(v, i).state /\ At(w, i).err = At(v, i).err

QueueStep ==
    /\ requests' \in [Requests -> Request]
    /\ \A r \in Requests :
          \/ requests'[r] = requests[r]
          \/ epochOf[r] # 0 /\ Advance(r, requests[r], requests'[r])

\* Uploads are released for parts that are delivered or were never started.
RetiresSettled ==
    \E released :
        /\ uploads' = Retire(uploads, released)
        /\ \A r \in Requests, f \in Files : <<r, f>> \in released =>
              \E k \in 1..Len(requests'[r].parts) :
                  /\ requests'[r].parts[k].file = f
                  /\ \/ requests'[r].parts[k].err = "unstarted"
                     \/ requests'[r].parts[k].state = "delivered"

\* Making progress is advancing.
LEMMA ProgressAdvances ==
    ASSUME IInv, NEW r \in Requests, NEW w, Progress(r, requests[r], w)
    PROVE  Advance(r, requests[r], w)
  <1>1. TypeOK /\ ShapeInv
    BY DEF IInv
  <1> QED BY <1>1, StateFacts, MoveFacts DEF Progress, Advance

\* Files, summaries and the hold survive whatever Messages takes besides.
LEMMA TidyKeeps ==
    ASSUME OInv, IInv', QueueStep, taken \subseteq taken'
    PROVE  SummedInv' /\ FilesInv' /\ HoldInv'
  <1>1. SummedInv /\ FilesInv /\ HoldInv
    BY DEF OInv
  <1>2. \A r \in Requests : requests'[r] = requests[r] \/ Tidy(r, requests[r], requests'[r])
    BY DEF QueueStep, Advance
  <1>3. SummedInv'
    BY <1>1, <1>2 DEF SummedInv, Tidy
  <1>4. FilesInv'
    <2> SUFFICES ASSUME NEW r \in Requests PROVE FilesKept(NewRequest(r), requests'[r])
      BY DEF FilesInv
    <2>1. FilesKept(NewRequest(r), requests[r])
      BY <1>1 DEF FilesInv
    <2>2. requests'[r] = requests[r] \/ FilesKept(requests[r], requests'[r])
      BY <1>2 DEF Tidy
    <2> QED BY <2>1, <2>2 DEF FilesKept
  <1>5. HoldInv'
    <2> SUFFICES ASSUME NEW r \in Requests, ~TextOnly(r)
                 PROVE  \/ NoneIn(requests'[r], {"queued"})
                        \/ \A k \in 1..Len(requests'[r].parts) :
                              Started(requests'[r].parts[k]) => <<r, k>> \in taken'
      BY DEF HoldInv, Held
    <2>1. Held(r, requests'[r])
      BY <1>1, <1>2 DEF HoldInv, Tidy
    <2> QED BY <2>1 DEF Held
  <1> QED BY <1>3, <1>4, <1>5

\* A request with nothing queued stays so.
LEMMA UnqueuedStays ==
    ASSUME OInv, IInv', QueueStep, SummedInv', NEW r \in Requests, Unqueued(r)
    PROVE  Unqueued(r)'
  <1> DEFINE v == requests[r]
             w == requests'[r]
  <1>1. TypeOK /\ ShapeInv /\ ShapeInv'
    BY DEF OInv, IInv
  <1>2. \A i \in PartsOf(r) : At(w, i).state = "queued" => At(v, i).state = "queued"
    BY DEF QueueStep, Advance
  <1>3. Len(v.parts) = Len(NewRequest(r).parts) /\ Len(w.parts) = Len(NewRequest(r).parts)
    BY <1>1 DEF ShapeInv
  <1>4. v.state # "queued" /\ NoneIn(v, {"queued"})
    BY DEF Unqueued
  <1> HIDE DEF v, w
  <1>5. CASE TextOnly(r)
    <2>1. PartsOf(r) = {0} /\ Len(w.parts) = 0
      BY <1>3, <1>5, NewFiles DEF PartsOf
    <2>2. w.state # "queued"
      BY <1>2, <1>4, <2>1 DEF At
    <2> QED BY <2>1, <2>2 DEF Unqueued, NoneIn, w
  <1>6. CASE ~TextOnly(r)
    <2>1. PartsOf(r) = 1..Len(NewRequest(r).parts) /\ 0 \notin PartsOf(r)
      BY <1>6 DEF PartsOf
    <2>2. NoneIn(w, {"queued"})
      BY <1>2, <1>3, <1>4, <2>1 DEF NoneIn, At
    <2>3. Summed(w)
      BY <1>6 DEF SummedInv, w
    <2> QED BY <2>2, <2>3 DEF Summed, Unqueued, w
  <1> QED BY <1>5, <1>6

\* So does the order, as long as no operation begins.
LEMMA OrderKeeps ==
    ASSUME OInv, IInv', QueueStep, SummedInv', UNCHANGED <<epochOf, acceptedAt>>,
           now <= now', \A o \in Ops : Begins(o)' => Begins(o)
    PROVE  OrderInv'
  <1>1. TypeOK /\ OrderInv
    BY DEF OInv, IInv
  <1>2. \A r \in Requests : acceptedAt'[r] <= now'
    <2>1. now \in Nat /\ now' \in Nat /\ \A r \in Requests : acceptedAt[r] \in Nat
      BY <1>1 DEF TypeOK, IInv
    <2>2. \A r \in Requests : acceptedAt[r] <= now
      BY <1>1 DEF OrderInv
    <2> QED BY <2>1, <2>2
  <1>3. ASSUME NEW o \in Ops, Begins(o)', NEW q \in Requests,
               epochOf'[q] # 0, acceptedAt'[q] < acceptedAt'[o[1]]
        PROVE  Unqueued(q)'
    <2>1. Begins(o)
      BY <1>3
    <2>2. Unqueued(q)
      BY <1>1, <1>3, <2>1 DEF OrderInv
    <2> QED BY <2>2, UnqueuedStays
  <1> QED BY <1>2, <1>3 DEF OrderInv

\* An operation with a file, and the part that carries it.
LEMMA OpFileFacts ==
    ASSUME IInv, FilesInv, NEW o \in Ops, OpFile(o) # NoFile
    PROVE  /\ o[1] \in Requests /\ ~TextOnly(o[1])
           /\ o[2] \in 1..Len(requests[o[1]].parts) /\ o[2] # 0
           /\ requests[o[1]].parts[o[2]] \in Part
           /\ OpFile(o) = requests[o[1]].parts[o[2]].file /\ OpFile(o) \in Files
           /\ OpState(o) = requests[o[1]].parts[o[2]].state
           /\ OpErr(o) = requests[o[1]].parts[o[2]].err
           /\ \A k \in 1..Len(requests[o[1]].parts) :
                 requests[o[1]].parts[k].file = OpFile(o) => k = o[2]
  <1> DEFINE r == o[1]
             i == o[2]
  <1>1. TypeOK /\ ShapeInv
    BY DEF IInv
  <1>2. r \in Requests /\ i \in PartsOf(r) /\ i # 0
    BY OpsFacts DEF OpFile
  <1>3. ~TextOnly(r) /\ i \in 1..Len(requests[r].parts) /\ requests[r].parts[i] \in Part
    BY <1>1, <1>2, RequestFacts
  <1>4. /\ OpFile(o) = requests[r].parts[i].file
        /\ OpState(o) = requests[r].parts[i].state
        /\ OpErr(o) = requests[r].parts[i].err
    BY <1>2 DEF OpFile, OpState, OpErr, At
  <1>5. OpFile(o) \in Files
    BY <1>3, <1>4 DEF Part
  <1>6. FilesKept(NewRequest(r), requests[r])
    BY <1>2 DEF FilesInv
  <1>7. \A k \in 1..Len(requests[r].parts) : requests[r].parts[k].file = OpFile(o) => k = i
    <2> DEFINE s == NewRequest(r).parts
    <2>1. \A k \in 1..Len(s) : s[i].file # NoFile /\ s[i].file = s[k].file => i = k
      <3>1. i \in 1..Len(s)
        BY <1>3, <1>6 DEF FilesKept
      <3> QED BY <1>2, <3>1, NewFiles
    <2>2. /\ Len(requests[r].parts) = Len(s)
          /\ \A k \in 1..Len(s) : requests[r].parts[k].file = s[k].file
      BY <1>6 DEF FilesKept
    <2> HIDE DEF s
    <2> QED BY <1>3, <1>4, <2>1, <2>2
  <1> QED BY <1>2, <1>3, <1>4, <1>5, <1>7

\* Originals stay pinned when only what is settled is released.
LEMMA OriginalKeeps ==
    ASSUME OInv, IInv', FilesInv', QueueStep, RetiresSettled, UNCHANGED epochOf
    PROVE  OriginalKept'
  <1> SUFFICES ASSUME NEW o \in Ops, Accepted(o[1])', OpFile(o)' # NoFile
               PROVE  \/ uploads'[OpFile(o)'].state = "pinned" /\ uploads'[OpFile(o)'].req = o[1]
                      \/ OpState(o)' = "delivered"
                      \/ OpErr(o)' = "unstarted"
    BY DEF OriginalKept
  <1> DEFINE r == o[1]
             i == o[2]
             f == OpFile(o)
  <1>1. IInv /\ FilesInv /\ OriginalKept /\ TypeOK /\ ErrorInv
    BY DEF OInv, IInv
  <1>2. r \in Requests /\ i \in PartsOf(r)
    BY OpsFacts
  <1>3. FilesKept(NewRequest(r), requests[r]) /\ FilesKept(NewRequest(r), requests'[r])
        /\ i \in PartsOf(r) /\ i # 0 /\ ~TextOnly(r)
    BY <1>2, PartsOfFacts DEF FilesInv, OInv, OpFile
  <1>4. OpFile(o)' = f /\ f # NoFile
    BY <1>2, <1>3 DEF FilesKept, OpFile, PartsOf
  <1>5. /\ i \in 1..Len(requests[r].parts) /\ f \in Files
        /\ OpState(o) = requests[r].parts[i].state
        /\ OpErr(o) = requests[r].parts[i].err
    BY <1>1, <1>4, OpFileFacts
  <1>6. /\ i \in 1..Len(requests'[r].parts)
        /\ OpState(o)' = requests'[r].parts[i].state
        /\ OpErr(o)' = requests'[r].parts[i].err
        /\ \A k \in 1..Len(requests'[r].parts) : requests'[r].parts[k].file = f => k = i
    <2>1. \A k \in 1..Len(requests'[r].parts) : requests'[r].parts[k].file = f => k = i
      BY <1>2, <1>3, <1>4, NewFiles DEF FilesKept, OpFile, PartsOf
    <2>2. i \in 1..Len(requests'[r].parts)
      BY <1>3 DEF FilesKept, PartsOf
    <2> QED BY <1>3, <2>1, <2>2 DEF OpState, OpErr, At
  <1>7. \/ uploads[f].state = "pinned" /\ uploads[f].req = r
        \/ OpState(o) = "delivered"
        \/ OpErr(o) = "unstarted"
    BY <1>1, <1>4 DEF OriginalKept, Accepted
  <1>8. OpState(o) \in Final => OpState(o)' = OpState(o) /\ OpErr(o)' = OpErr(o)
    BY <1>2 DEF QueueStep, Advance, OpState, OpErr
  <1>9. OpErr(o) = "unstarted" => OpState(o) \in Final
    BY <1>1 DEF ErrorInv, Final
  <1>10. CASE uploads[f].state = "pinned" /\ uploads[f].req = r
    <2>1. PICK released :
             /\ uploads' = Retire(uploads, released)
             /\ \A q \in Requests, g \in Files : <<q, g>> \in released =>
                   \E k \in 1..Len(requests'[q].parts) :
                       /\ requests'[q].parts[k].file = g
                       /\ \/ requests'[q].parts[k].err = "unstarted"
                          \/ requests'[q].parts[k].state = "delivered"
      BY DEF RetiresSettled
    <2>2. CASE <<r, f>> \in released
      <3>1. r \in Requests /\ f \in Files
        BY <1>2, <1>5
      <3>2. PICK k \in 1..Len(requests'[r].parts) :
                 /\ requests'[r].parts[k].file = f
                 /\ \/ requests'[r].parts[k].err = "unstarted"
                    \/ requests'[r].parts[k].state = "delivered"
        <4> HIDE DEF r, f
        <4> QED BY <2>1, <2>2, <3>1
      <3>3. k = i
        BY <1>6, <3>2
      <3>4. OpErr(o)' = "unstarted" \/ OpState(o)' = "delivered"
        BY <1>6, <3>2, <3>3
      <3> QED BY <3>4
    <2>3. CASE <<r, f>> \notin released
      <3>1. uploads'[f] = uploads[f]
        BY <1>5, <1>10, <2>1, <2>3 DEF Retire
      <3> QED BY <1>4, <1>10, <3>1
    <2> QED BY <2>2, <2>3
  <1>11. CASE OpState(o) = "delivered" \/ OpErr(o) = "unstarted"
    BY <1>8, <1>9, <1>11 DEF Final
  <1> QED BY <1>7, <1>10, <1>11

\* Updating requests in one transaction releases what was not started.
LEMMA UpdateRetires ==
    ASSUME TypeOK, NEW S \in SUBSET Requests, NEW new,
           DOMAIN new = S, \A r \in S : new[r] \in Request, UpdateRequests(new)
    PROVE  RetiresSettled
  <1> DEFINE released == UNION {{r} \X UnstartedFiles(new[r]) : r \in DOMAIN new}
  <1>1. uploads' = Retire(uploads, released)
    BY DEF UpdateRequests
  <1>2. \A r \in S : requests'[r] = new[r]
    BY UpdateFacts
  <1>3. ASSUME NEW r \in Requests, NEW f \in Files, <<r, f>> \in released
        PROVE  \E k \in 1..Len(requests'[r].parts) :
                  /\ requests'[r].parts[k].file = f
                  /\ requests'[r].parts[k].err = "unstarted"
    <2>1. r \in S /\ f \in UnstartedFiles(new[r])
      BY <1>3
    <2> QED BY <1>2, <2>1 DEF UnstartedFiles
  <1> HIDE DEF released
  <1>4. \A r \in Requests, f \in Files : <<r, f>> \in released =>
           \E k \in 1..Len(requests'[r].parts) :
              /\ requests'[r].parts[k].file = f
              /\ \/ requests'[r].parts[k].err = "unstarted"
                 \/ requests'[r].parts[k].state = "delivered"
    BY <1>3
  <1> SUFFICES \E t : /\ uploads' = Retire(uploads, t)
                      /\ \A r \in Requests, f \in Files : <<r, f>> \in t =>
                            \E k \in 1..Len(requests'[r].parts) :
                               /\ requests'[r].parts[k].file = f
                               /\ \/ requests'[r].parts[k].err = "unstarted"
                                  \/ requests'[r].parts[k].state = "delivered"
    BY DEF RetiresSettled
  <1> WITNESS released
  <1> QED BY <1>1, <1>4

\* So does leaving the uploads alone.
LEMMA NothingRetired ==
    ASSUME TypeOK, UNCHANGED uploads
    PROVE  RetiresSettled
  <1>1. uploads = Retire(uploads, {})
    BY DEF TypeOK, Retire
  <1> QED BY <1>1 DEF RetiresSettled

\* All of this together.
LEMMA QueueKeeps ==
    ASSUME OInv, IInv', QueueStep, RetiresSettled,
           UNCHANGED <<epochOf, acceptedAt, calls, taken>>,
           now <= now', \A o \in Ops : Begins(o)' => Begins(o)
    PROVE  /\ SummedInv' /\ FilesInv' /\ HoldInv' /\ OrderInv'
           /\ PredecessorsTaken' /\ OriginalKept'
  <1>1. SummedInv' /\ FilesInv' /\ HoldInv'
    BY TidyKeeps
  <1>2. OrderInv'
    BY <1>1, OrderKeeps
  <1>3. PredecessorsTaken'
    BY DEF OInv, PredecessorsTaken
  <1>4. OriginalKept'
    BY <1>1, OriginalKeeps
  <1> QED BY <1>1, <1>2, <1>3, <1>4
-----------------------------------------------------------------------------
(* The steps.                                                               *)

\* What a step may do to the operations (NoRegression).
NoBack ==
    \A o \in Ops : Accepted(o[1]) =>
        \/ Stage(OpState(o)') > Stage(OpState(o))
        \/ OpState(o)' = OpState(o)
        \/ epoch' # epoch /\ OpState(o) = "submitted" /\ OpState(o)' = "unknown"

\* Requests that make progress do not go back.
LEMMA ProgressNoBack ==
    ASSUME IInv,
           \A r \in Requests : requests'[r] = requests[r] \/ Progress(r, requests[r], requests'[r])
    PROVE  NoBack
  <1>1. TypeOK /\ ShapeInv
    BY DEF IInv
  <1>2. ASSUME NEW o \in Ops
        PROVE  Stage(OpState(o)') > Stage(OpState(o)) \/ OpState(o)' = OpState(o)
    <2>1. o[1] \in Requests /\ o[2] \in PartsOf(o[1])
      BY OpsFacts
    <2>2. At(requests[o[1]], o[2]).state \in PartState
      BY <1>1, <2>1, StateFacts
    <2>3. \/ requests'[o[1]] = requests[o[1]]
          \/ Move(At(requests[o[1]], o[2]), At(requests'[o[1]], o[2]))
      BY <2>1 DEF Progress
    <2> QED BY <2>2, <2>3, MoveStages DEF OpState
  <1> QED BY <1>2 DEF NoBack

\* The requests of a step that makes progress.
LEMMA ProgressQueue ==
    ASSUME IInv, IInv',
           \A r \in Requests : \/ requests'[r] = requests[r]
                               \/ epochOf[r] # 0 /\ Progress(r, requests[r], requests'[r])
    PROVE  QueueStep
  BY ProgressAdvances DEF QueueStep, IInv, TypeOK

\* A step that leaves requests, uploads and the sender alone.
LEMMA SameKeeps ==
    ASSUME OInv, IInv',
           UNCHANGED <<epoch, requests, uploads, epochOf, acceptedAt, calls, taken, sender>>,
           recovery => recovery', now <= now'
    PROVE  OInv' /\ NoBack
  <1>1. IInv /\ TypeOK
    BY DEF OInv, IInv
  <1>2. QueueStep
    BY <1>1, ProgressQueue
  <1>3. RetiresSettled
    BY <1>1, NothingRetired
  <1>4. \A o \in Ops : Begins(o)' => Begins(o)
    BY DEF Begins
  <1>5. DispatchInv' /\ HandInv'
    BY DEF OInv, DispatchInv, HandInv, OpState
  <1>6. NoBack
    BY <1>1, ProgressNoBack
  <1> QED BY <1>2, <1>3, <1>4, <1>5, <1>6, QueueKeeps DEF OInv

\* A step of another thread that advances requests within an epoch.
LEMMA AdvanceKeeps ==
    ASSUME OInv, IInv', RetiresSettled,
           \A r \in Requests : \/ requests'[r] = requests[r]
                               \/ epochOf[r] # 0 /\ Progress(r, requests[r], requests'[r]),
           \A r \in Requests : \A i \in PartsOf(r) :
               At(requests'[r], i).state = "dispatching" => At(requests[r], i).state = "dispatching",
           UNCHANGED <<epoch, epochOf, acceptedAt, calls, taken, now, sender, recovery>>
    PROVE  OInv' /\ NoBack
  <1>1. IInv /\ TypeOK
    BY DEF OInv, IInv
  <1>2. QueueStep
    BY <1>1, ProgressQueue
  <1>3. \A o \in Ops : Begins(o)' => Begins(o)
    BY DEF Begins
  <1>4. HandInv'
    BY DEF OInv, HandInv
  <1>5. DispatchInv'
    BY OpsFacts DEF OInv, DispatchInv, OpState
  <1>6. NoBack
    BY <1>1, ProgressNoBack
  <1>7. now <= now'
    BY <1>1 DEF TypeOK
  <1> QED BY <1>2, <1>3, <1>4, <1>5, <1>6, <1>7, QueueKeeps DEF OInv

\* Nothing is dispatching once every dispatching request is dropped.
LEMMA DropsDispatching ==
    ASSUME OInv, IInv',
           \A r \in Requests :
              \/ requests'[r] = requests[r] /\ (epochOf[r] # 0 => requests[r].state # "dispatching")
              \/ Quiescent(r, requests'[r])
    PROVE  \A o \in Ops : OpState(o)' # "dispatching"
  <1> SUFFICES ASSUME NEW o \in Ops, OpState(o)' = "dispatching"
               PROVE  FALSE
    OBVIOUS
  <1> DEFINE r == o[1]
             i == o[2]
  <1>1. TypeOK /\ ShapeInv /\ SummedInv
    BY DEF OInv, IInv
  <1>2. r \in Requests /\ i \in PartsOf(r)
    BY OpsFacts
  <1>3. ~Quiescent(r, requests'[r])
    BY <1>2 DEF Quiescent, OpState
  <1>4. requests'[r] = requests[r] /\ (epochOf[r] # 0 => requests[r].state # "dispatching")
    BY <1>2, <1>3
  <1>5. At(requests[r], i).state = "dispatching"
    BY <1>4 DEF OpState
  <1>6. epochOf[r] # 0
    BY <1>1, <1>2, <1>5, NewRequestFacts DEF ShapeInv
  <1>7. CASE TextOnly(r)
    BY <1>1, <1>2, <1>4, <1>5, <1>6, <1>7, RequestFacts DEF At
  <1>8. CASE ~TextOnly(r)
    <2>1. i \in 1..Len(requests[r].parts) /\ i # 0
      BY <1>1, <1>2, <1>8, RequestFacts
    <2>2. ~NoneIn(requests[r], {"dispatching"})
      BY <1>5, <2>1 DEF NoneIn, At
    <2> QED BY <1>1, <1>2, <1>4, <1>6, <1>8, <2>2 DEF SummedInv, Summed
  <1> QED BY <1>7, <1>8

\* Journal.reset, whatever the sender is doing.
LEMMA ResetKeeps ==
    ASSUME OInv, IInv', Reset,
           UNCHANGED <<epochOf, acceptedAt, calls, taken, now, sender>>
    PROVE  OInv' /\ NoBack
  <1> DEFINE S == {q \in Requests : epochOf[q] # 0 /\ requests[q].state \in Unfinished}
             new == [r \in S |-> AfterReset(r)]
  <1>1. IInv /\ TypeOK /\ ShapeInv
    BY DEF OInv, IInv
  <1>2. \A r \in S : QuietChange(r, requests[r], AfterReset(r)) /\ Dropped(r, requests[r], AfterReset(r))
    BY <1>1, InterruptionsQuiet
  <1>3. \A r \in S : AfterReset(r) \in Request
    BY <1>2 DEF QuietChange, Reshaped
  <1>4. /\ DOMAIN new = S /\ (\A r \in S : new[r] = AfterReset(r)) /\ S \in SUBSET Requests
        /\ UpdateRequests(new) /\ epoch' = epoch + 1
        /\ \A r \in S : epochOf[r] # 0 /\ requests[r].state \in Unfinished
        /\ \A r \in Requests \ S : epochOf[r] # 0 => requests[r].state \notin Unfinished
    BY DEF Reset
  <1> HIDE DEF S, new
  <1>5. /\ requests' \in [Requests -> Request]
        /\ \A r \in S : requests'[r] = AfterReset(r)
        /\ \A r \in Requests \ S : requests'[r] = requests[r]
        /\ RetiresSettled
    BY <1>1, <1>3, <1>4, UpdateFacts, UpdateRetires
  <1>6. ASSUME NEW r \in S
        PROVE  /\ Tidy(r, requests[r], requests'[r]) /\ Quiescent(r, requests'[r])
               /\ \A i \in PartsOf(r) :
                     \/ Move(At(requests[r], i), At(requests'[r], i))
                     \/ /\ At(requests[r], i).state = "submitted"
                        /\ At(requests'[r], i).state = "unknown"
    BY <1>1, <1>2, <1>4, <1>5, DroppedFacts
  <1>7. ASSUME NEW r \in Requests, NEW i \in PartsOf(r)
        PROVE  At(requests[r], i).state \in PartState
    BY <1>1, <1>7, StateFacts
  <1>8. ASSUME NEW r \in S
        PROVE  Advance(r, requests[r], requests'[r])
    <2>1. \A i \in PartsOf(r) : At(requests'[r], i).state # "queued"
      BY <1>6 DEF Quiescent
    <2>2. ASSUME NEW i \in PartsOf(r), At(requests[r], i).state \in Final
          PROVE  /\ At(requests'[r], i).state = At(requests[r], i).state
                 /\ At(requests'[r], i).err = At(requests[r], i).err
      BY <1>4, <1>6, <1>7, <2>2, MoveFacts DEF Final
    <2> QED BY <1>6, <2>1, <2>2 DEF Advance
  <1>9. QueueStep
    BY <1>4, <1>5, <1>8 DEF QueueStep
  <1>10. NoBack
    <2> SUFFICES ASSUME NEW o \in Ops
                 PROVE  \/ Stage(OpState(o)') > Stage(OpState(o))
                        \/ OpState(o)' = OpState(o)
                        \/ OpState(o) = "submitted" /\ OpState(o)' = "unknown"
      BY <1>1, <1>4 DEF NoBack, TypeOK
    <2>1. o[1] \in Requests /\ o[2] \in PartsOf(o[1])
      BY OpsFacts
    <2>2. \/ At(requests'[o[1]], o[2]) = At(requests[o[1]], o[2])
          \/ Move(At(requests[o[1]], o[2]), At(requests'[o[1]], o[2]))
          \/ OpState(o) = "submitted" /\ OpState(o)' = "unknown"
      BY <1>5, <1>6, <2>1 DEF OpState
    <2> QED BY <1>7, <2>1, <2>2, MoveStages DEF OpState
  <1>11. \A o \in Ops : OpState(o)' # "dispatching"
    BY <1>4, <1>5, <1>6, DropsDispatching DEF Unfinished
  <1>12. DispatchInv'
    BY <1>11 DEF DispatchInv
  <1>13. HandInv'
    BY DEF OInv, HandInv
  <1>14. now <= now' /\ \A o \in Ops : Begins(o)' => Begins(o)
    BY <1>1 DEF TypeOK, Begins
  <1> QED BY <1>5, <1>9, <1>10, <1>12, <1>13, <1>14, QueueKeeps DEF OInv

\* Journal.recover, at start and in the loop.
LEMMA RecoverKeeps ==
    ASSUME OInv, IInv', Recover, sender'.pc = "idle",
           UNCHANGED <<epoch, epochOf, acceptedAt, calls, taken, now>>
    PROVE  OInv' /\ NoBack
  <1> DEFINE S == {q \in Requests : epochOf[q] # 0 /\ requests[q].state = "dispatching"}
             new == [r \in S |-> Recovered(r)]
  <1>1. IInv /\ TypeOK /\ ShapeInv
    BY DEF OInv, IInv
  <1>2. \A r \in S : QuietChange(r, requests[r], Recovered(r)) /\ Dropped(r, requests[r], Recovered(r))
    BY <1>1, InterruptionsQuiet
  <1>3. \A r \in S : Recovered(r) \in Request
    BY <1>2 DEF QuietChange, Reshaped
  <1>4. /\ DOMAIN new = S /\ (\A r \in S : new[r] = Recovered(r)) /\ S \in SUBSET Requests
        /\ UpdateRequests(new)
        /\ \A r \in S : epochOf[r] # 0 /\ requests[r].state = "dispatching"
        /\ \A r \in Requests \ S : epochOf[r] # 0 => requests[r].state # "dispatching"
    BY DEF Recover
  <1> HIDE DEF S, new
  <1>5. /\ \A r \in S : requests'[r] = Recovered(r)
        /\ \A r \in Requests \ S : requests'[r] = requests[r]
        /\ RetiresSettled
    BY <1>1, <1>3, <1>4, UpdateFacts, UpdateRetires
  <1>6. ASSUME NEW r \in S
        PROVE  Progress(r, requests[r], requests'[r]) /\ Quiescent(r, requests'[r])
    BY <1>1, <1>2, <1>4, <1>5, DroppedFacts DEF Unfinished
  <1>7. \A r \in Requests : \/ requests'[r] = requests[r]
                            \/ epochOf[r] # 0 /\ Progress(r, requests[r], requests'[r])
    BY <1>4, <1>5, <1>6
  <1>8. QueueStep /\ NoBack
    BY <1>1, <1>7, ProgressQueue, ProgressNoBack
  <1>9. \A o \in Ops : OpState(o)' # "dispatching"
    BY <1>4, <1>5, <1>6, DropsDispatching
  <1>10. DispatchInv' /\ HandInv'
    BY <1>9 DEF DispatchInv, HandInv
  <1>11. now <= now' /\ \A o \in Ops : Begins(o)' => Begins(o)
    BY <1>1 DEF TypeOK, Begins
  <1> QED BY <1>5, <1>8, <1>10, <1>11, QueueKeeps DEF OInv

\* observation.publish.
LEMMA PublishKeeps ==
    ASSUME OInv, IInv', ObservePublish
    PROVE  OInv' /\ NoBack
  <1> DEFINE r == observer.op[1]
             i == observer.op[2]
             v == Published(r, i)
  <1>1. /\ UNCHANGED <<epoch, epochOf, acceptedAt, core, sender, outside>>
        /\ observer.pc = "found"
    BY DEF ObservePublish
  <1>2. UNCHANGED <<epoch, epochOf, acceptedAt, calls, taken, now, sender, recovery>>
    BY <1>1 DEF core, outside
  <1>3. IInv /\ TypeOK /\ ShapeInv /\ SummaryInv /\ ObserverInv
    BY DEF OInv, IInv
  <1>4. r \in Requests /\ i \in PartsOf(r) /\ i # 0 /\ epochOf[r] # 0
    BY <1>1, <1>3, OpsFacts DEF ObserverInv
  <1>5. CASE UNCHANGED <<requests, uploads>>
    BY <1>2, <1>3, <1>5, NothingRetired, AdvanceKeeps
  <1>6. CASE /\ ~NothingToPublish(r, i)
             /\ requests' = [requests EXCEPT ![r] = v]
             /\ uploads' = Retire(uploads, {r} \X (UnstartedFiles(v) \cup DeliveredFile(v, i)))
    <2>1. /\ QuietChange(r, requests[r], v) /\ Seen(i, requests[r], v)
          /\ i \in 1..Len(requests[r].parts)
      BY <1>3, <1>4, <1>6, PublishedFacts
    <2>2. /\ Progress(r, requests[r], v)
          /\ \A k \in PartsOf(r) : At(v, k).state = "dispatching" =>
                At(requests[r], k).state = "dispatching"
      BY <1>4, <1>6, PublishedMoves
    <2>3. i \in 1..Len(v.parts)
      BY <2>1 DEF Seen, OthersAside
    <2> HIDE DEF r, i, v
    <2>4. requests'[r] = v /\ \A q \in Requests \ {r} : requests'[q] = requests[q]
      BY <1>3, <1>4, <1>6 DEF TypeOK
    <2>5. \A f : f \in UnstartedFiles(v) \cup DeliveredFile(v, i) =>
             \E k \in 1..Len(v.parts) :
                /\ v.parts[k].file = f
                /\ v.parts[k].err = "unstarted" \/ v.parts[k].state = "delivered"
      BY <2>3 DEF UnstartedFiles, DeliveredFile
    <2>6. RetiresSettled
      BY <1>6, <2>4, <2>5 DEF RetiresSettled
    <2>7. \A q \in Requests : \/ requests'[q] = requests[q]
                              \/ epochOf[q] # 0 /\ Progress(q, requests[q], requests'[q])
      BY <1>4, <2>2, <2>4
    <2>8. \A q \in Requests : \A k \in PartsOf(q) :
             At(requests'[q], k).state = "dispatching" => At(requests[q], k).state = "dispatching"
      BY <1>4, <2>2, <2>4
    <2> QED BY <1>2, <2>6, <2>7, <2>8, AdvanceKeeps
  <1> QED BY <1>5, <1>6 DEF ObservePublish

\* One ingestion transaction.
LEMMA IngestKeeps ==
    ASSUME OInv, IInv', Ingest
    PROVE  OInv' /\ NoBack
  <1>1. UNCHANGED <<epochOf, acceptedAt, recovery, sender, calls, taken, now>>
    BY DEF Ingest, outside
  <1>2. CASE Reset
    BY <1>1, <1>2, ResetKeeps
  <1>3. CASE /\ UpdateRequests([r \in Reconcilable |-> Reconciled(Imported, r)])
             /\ UNCHANGED epoch
    <2> DEFINE new == [r \in Reconcilable |-> Reconciled(Imported, r)]
    <2>1. IInv /\ TypeOK /\ ShapeInv
      BY DEF OInv, IInv
    <2>2. Reconcilable \in SUBSET Requests /\ \A r \in Reconcilable : epochOf[r] # 0
      BY <2>1 DEF Reconcilable, TypeOK
    <2>3. \A r \in Reconcilable : /\ Progress(r, requests[r], Reconciled(Imported, r))
                                  /\ Quiescent(r, Reconciled(Imported, r))
      BY <2>1, ReconciledMoves
    <2>4. \A r \in Reconcilable : Reconciled(Imported, r) \in Request
      BY <2>1, ReconciledFacts DEF QuietChange, Reshaped
    <2>5. /\ DOMAIN new = Reconcilable /\ \A r \in Reconcilable : new[r] = Reconciled(Imported, r)
          /\ UpdateRequests(new)
      BY <1>3
    <2> HIDE DEF new
    <2>6. /\ \A r \in Reconcilable : requests'[r] = Reconciled(Imported, r)
          /\ \A r \in Requests \ Reconcilable : requests'[r] = requests[r]
          /\ RetiresSettled
      BY <2>1, <2>2, <2>4, <2>5, UpdateFacts, UpdateRetires
    <2>7. \A r \in Requests : \/ requests'[r] = requests[r]
                              \/ epochOf[r] # 0 /\ Progress(r, requests[r], requests'[r])
      BY <2>2, <2>3, <2>6
    <2>8. \A r \in Requests : \A i \in PartsOf(r) :
             At(requests'[r], i).state = "dispatching" => At(requests[r], i).state = "dispatching"
      BY <2>3, <2>6 DEF Quiescent
    <2> QED BY <1>1, <1>3, <2>6, <2>7, <2>8, AdvanceKeeps
  <1> QED BY <1>2, <1>3 DEF Ingest

\* Accepting a request pins its files, which no unfinished part has pinned.
LEMMA AcceptKeeps ==
    ASSUME OInv, IInv', NEW r \in Requests, Accept(r)
    PROVE  OInv' /\ NoBack
  <1>1. /\ UNCHANGED <<epoch, calls, taken, now, sender, recovery>>
        /\ epochOf[r] = 0 /\ epochOf' = [epochOf EXCEPT ![r] = epoch]
        /\ acceptedAt' = [acceptedAt EXCEPT ![r] = now]
        /\ requests' = [requests EXCEPT ![r] = NewRequest(r)]
        /\ \A f \in RequestFiles(r) : uploads[f] = Upload(epoch)
        /\ uploads' = [f \in Files |-> IF f \in RequestFiles(r)
                                       THEN [state |-> "pinned", epoch |-> epoch, req |-> r]
                                       ELSE uploads[f]]
    BY DEF Accept, core, outside
  <1>2. IInv /\ TypeOK /\ ShapeInv /\ CallInv /\ SenderInv
    BY DEF OInv, IInv
  <1>3. requests' = requests
    BY <1>1, <1>2 DEF ShapeInv, TypeOK
  <1>4. QueueStep
    BY <1>2, <1>3, ProgressQueue
  <1>5. SummedInv' /\ FilesInv' /\ HoldInv'
    BY <1>1, <1>4, TidyKeeps
  <1>6. /\ DispatchInv' /\ HandInv' /\ PredecessorsTaken'
    BY <1>1, <1>3 DEF OInv, DispatchInv, HandInv, PredecessorsTaken, OpState
  <1>7. NoBack
    BY <1>2, <1>3, ProgressNoBack
  <1>8. /\ epochOf'[r] # 0 /\ acceptedAt'[r] = now
        /\ \A q \in Requests \ {r} : epochOf'[q] = epochOf[q] /\ acceptedAt'[q] = acceptedAt[q]
    BY <1>1, <1>2 DEF TypeOK
  <1>9. OrderInv'
    <2>1. now \in Nat /\ (\A q \in Requests : acceptedAt[q] \in Nat) /\ OrderInv
      BY <1>2 DEF TypeOK, OInv
    <2>2. \A q \in Requests : acceptedAt[q] <= now
      BY <2>1 DEF OrderInv
    <2>3. \A q \in Requests : acceptedAt'[q] <= now'
      BY <1>1, <1>8, <2>1, <2>2
    <2>4. ASSUME NEW o \in Ops, Begins(o)', NEW q \in Requests, epochOf'[q] # 0,
                 acceptedAt'[q] < acceptedAt'[o[1]]
          PROVE  Unqueued(q)'
      <3>1. Begins(o)
        BY <1>1, <2>4 DEF Begins
      <3>2. o[1] \in Requests /\ o[2] \in PartsOf(o[1])
        BY OpsFacts
      <3>3. epochOf[o[1]] # 0
        <4>1. CASE calls[o] > 0
          <5>1. OpState(o) # "queued"
            BY <1>2, <4>1 DEF CallInv
          <5>2. requests[o[1]] # NewRequest(o[1])
            BY <3>2, <5>1, NewRequestFacts DEF OpState
          <5> QED BY <1>2, <3>2, <5>2 DEF ShapeInv
        <4>2. CASE sender.pc # "idle" /\ sender.op = o
          BY <1>2, <4>2 DEF SenderInv
        <4> QED BY <3>1, <4>1, <4>2 DEF Begins
      <3>4. o[1] # r /\ acceptedAt'[o[1]] = acceptedAt[o[1]]
        BY <1>1, <1>8, <3>2, <3>3
      <3>5. q # r
        BY <1>8, <2>1, <2>2, <2>4, <3>2, <3>4
      <3>6. Unqueued(q)
        BY <1>8, <2>1, <2>4, <3>1, <3>4, <3>5 DEF OrderInv
      <3> QED BY <1>3, <3>6 DEF Unqueued
    <2> QED BY <2>3, <2>4 DEF OrderInv
  <1>10. OriginalKept'
    <2> SUFFICES ASSUME NEW o \in Ops, Accepted(o[1])', OpFile(o)' # NoFile
                 PROVE  \/ uploads'[OpFile(o)'].state = "pinned" /\ uploads'[OpFile(o)'].req = o[1]
                        \/ OpState(o)' = "delivered"
                        \/ OpErr(o)' = "unstarted"
      BY DEF OriginalKept
    <2> DEFINE f == OpFile(o)
    <2>1. OpFile(o)' = f /\ OpState(o)' = OpState(o) /\ OpErr(o)' = OpErr(o)
      BY <1>3 DEF OpFile, OpState, OpErr
    <2>2. /\ o[1] \in Requests /\ f \in Files /\ o[2] # 0 /\ ~TextOnly(o[1])
          /\ o[2] \in 1..Len(requests[o[1]].parts)
          /\ f = requests[o[1]].parts[o[2]].file
      BY <1>2, <2>1, OpFileFacts DEF OInv
    <2>3. CASE o[1] = r
      <3>1. f \in RequestFiles(r)
        BY <1>1, <1>2, <2>1, <2>2, <2>3, NewRequestFiles DEF ShapeInv
      <3> QED BY <1>1, <2>1, <2>2, <2>3, <3>1
    <2>4. CASE o[1] # r
      <3>1. \/ uploads[f].state = "pinned" /\ uploads[f].req = o[1]
            \/ OpState(o) = "delivered"
            \/ OpErr(o) = "unstarted"
        BY <1>8, <2>1, <2>2, <2>4 DEF OInv, OriginalKept, Accepted
      <3>2. f \in RequestFiles(r) => uploads[f].state # "pinned"
        BY <1>1 DEF Upload
      <3> QED BY <1>1, <2>1, <2>2, <3>1, <3>2
    <2> QED BY <2>3, <2>4
  <1> QED BY <1>5, <1>6, <1>7, <1>9, <1>10 DEF OInv

\* An upload is only replaced when no unfinished part has pinned it.
LEMMA ReplaceKeeps ==
    ASSUME OInv, IInv', NEW f \in Files, ReplaceUpload(f)
    PROVE  OInv' /\ NoBack
  <1>1. /\ UNCHANGED <<epoch, requests, epochOf, acceptedAt, calls, taken, now, sender, recovery>>
        /\ uploads[f].state \in {"deleting", "ready"}
        /\ uploads' = [uploads EXCEPT ![f] = Upload(epoch)]
    BY DEF ReplaceUpload, core, outside
  <1>2. IInv /\ TypeOK
    BY DEF OInv, IInv
  <1>3. QueueStep
    BY <1>1, <1>2, ProgressQueue
  <1>4. SummedInv' /\ FilesInv' /\ HoldInv'
    BY <1>1, <1>3, TidyKeeps
  <1>5. DispatchInv' /\ HandInv' /\ PredecessorsTaken'
    BY <1>1 DEF OInv, DispatchInv, HandInv, PredecessorsTaken, OpState
  <1>6. now <= now' /\ \A o \in Ops : Begins(o)' => Begins(o)
    BY <1>1, <1>2 DEF TypeOK, Begins
  <1>7. OrderInv'
    BY <1>1, <1>3, <1>4, <1>6, OrderKeeps
  <1>8. OriginalKept'
    <2>1. \A g \in Files : uploads[g].state = "pinned" => uploads'[g] = uploads[g]
      BY <1>1, <1>2 DEF TypeOK
    <2>2. \A o \in Ops : OpFile(o) # NoFile => OpFile(o) \in Files
      BY <1>2, OpFileFacts DEF OInv
    <2>3. \A o \in Ops : OpFile(o)' = OpFile(o) /\ OpState(o)' = OpState(o) /\ OpErr(o)' = OpErr(o)
                         /\ Accepted(o[1])' = Accepted(o[1])
      BY <1>1 DEF OpFile, OpState, OpErr, Accepted
    <2> QED BY <2>1, <2>2, <2>3 DEF OInv, OriginalKept
  <1>9. NoBack
    BY <1>1, <1>2, ProgressNoBack
  <1> QED BY <1>4, <1>5, <1>7, <1>8, <1>9 DEF OInv

\* One accepted request makes progress and is stored.
LEMMA OneKeeps ==
    ASSUME OInv, IInv', NEW r \in Requests, NEW w \in Request, epochOf[r] # 0,
           UpdateRequest(r, w), Progress(r, requests[r], w),
           UNCHANGED <<epochOf, acceptedAt, calls, taken>>
    PROVE  /\ QueueStep /\ NoBack
           /\ SummedInv' /\ FilesInv' /\ HoldInv' /\ PredecessorsTaken' /\ OriginalKept'
           /\ requests'[r] = w
           /\ \A q \in Requests \ {r} : requests'[q] = requests[q]
  <1> DEFINE new == [q \in {r} |-> w]
  <1>1. IInv /\ TypeOK
    BY DEF OInv, IInv
  <1>2. requests'[r] = w /\ \A q \in Requests \ {r} : requests'[q] = requests[q]
    BY <1>1, UpdateOne
  <1>3. RetiresSettled
    <2>1. /\ {r} \in SUBSET Requests /\ DOMAIN new = {r} /\ \A q \in {r} : new[q] \in Request
          /\ UpdateRequests(new)
      BY DEF UpdateRequest
    <2> HIDE DEF new
    <2> QED BY <1>1, <2>1, UpdateRetires
  <1>4. \A q \in Requests : \/ requests'[q] = requests[q]
                            \/ epochOf[q] # 0 /\ Progress(q, requests[q], requests'[q])
    BY <1>2
  <1>5. QueueStep /\ NoBack
    BY <1>1, <1>4, ProgressQueue, ProgressNoBack
  <1>6. SummedInv' /\ FilesInv' /\ HoldInv'
    BY <1>5, TidyKeeps
  <1>7. OriginalKept'
    BY <1>3, <1>5, <1>6, OriginalKeeps
  <1>8. PredecessorsTaken'
    BY DEF OInv, PredecessorsTaken
  <1> QED BY <1>2, <1>5, <1>6, <1>7, <1>8

\* While the sender is free to take the oldest queued request, nothing that
\* was accepted before it has a queued part.
LEMMA EarlierUnqueued ==
    ASSUME OInv, NEW r \in Requests, MayDispatch(r),
           NEW q \in Requests, epochOf[q] # 0, acceptedAt[q] < acceptedAt[r]
    PROVE  Unqueued(q)
  <1>1. TypeOK /\ ShapeInv /\ SummedInv /\ DispatchInv
    BY DEF OInv, IInv
  <1>2. requests[q].state # "queued"
    BY <1>1 DEF MayDispatch, OldestQueued, TypeOK
  <1>3. NoneIn(requests[q], {"queued"})
    <2>1. CASE TextOnly(q)
      BY <1>1, <2>1, NewFiles DEF ShapeInv, NoneIn
    <2>2. CASE ~TextOnly(q)
      <3>1. SUFFICES ASSUME ~NoneIn(requests[q], {"queued"})
                     PROVE  FALSE
        OBVIOUS
      <3>2. ~NoneIn(requests[q], {"dispatching"})
        BY <1>1, <1>2, <2>2, <3>1 DEF SummedInv, Summed
      <3>3. PICK k \in 1..Len(requests[q].parts) : requests[q].parts[k].state = "dispatching"
        BY <3>2 DEF NoneIn
      <3>4. k \in PartsOf(q) /\ k # 0
        BY <1>1, <2>2 DEF ShapeInv, PartsOf
      <3>5. <<q, k>> \in Ops /\ OpState(<<q, k>>) = "dispatching"
        BY <3>3, <3>4, OpsFacts DEF OpState, At
      <3> QED BY <1>1, <3>5 DEF DispatchInv, MayDispatch
    <2> QED BY <2>1, <2>2
  <1> QED BY <1>2, <1>3 DEF Unqueued

\* The durable mark: the operation that begins has all parts before it taken,
\* and everything accepted earlier has left the queue.
LEMMA PrepareSendKeeps ==
    ASSUME OInv, IInv', NEW r \in Requests, NEW i \in PartsOf(r), PrepareSend(r, i)
    PROVE  OInv' /\ NoBack
  <1> DEFINE v == requests[r]
             w == Dispatching(r, i)
             o == <<r, i>>
  <1>1. /\ UNCHANGED <<epoch, epochOf, acceptedAt, calls, taken, now, recovery>>
        /\ sender'.pc = "prepared" /\ sender'.op = o /\ sender'.epoch = epoch
        /\ MayDispatch(r) /\ OldestQueued(r) /\ NextOp(r, i) /\ UpdateRequest(r, w)
    BY DEF PrepareSend, MayDispatch, core, outside
  <1>2. IInv /\ TypeOK /\ ShapeInv /\ SummedInv /\ HoldInv /\ DispatchInv
    BY DEF OInv, IInv
  <1>3. /\ At(v, i).state = "queued" /\ epochOf[r] # 0
        /\ sender.pc = "idle" /\ ~recovery
    BY <1>1, <1>2, NextOpQueued DEF OldestQueued, MayDispatch
  <1>4. /\ SendChange(r, i, v, w) /\ At(w, i).state = "dispatching"
        /\ Begun(r, i, v, w)
    BY <1>2, DispatchingFacts
  <1>5. w \in Request
    BY <1>4 DEF SendChange, Reshaped
  <1>6. /\ \A k \in PartsOf(r) : ~TextOnly(r) => k \in 1..Len(v.parts)
        /\ \A k \in PartsOf(r) : TextOnly(r) <=> k = 0
        /\ i \in Nat
    BY <1>2, RequestFacts, PartsOfFacts
  <1>7. ~TextOnly(r) => Summed(v) /\ Held(r, v)
    BY <1>2 DEF SummedInv, HoldInv
  <1> HIDE DEF v, w
  <1>8. Progress(r, v, w)
    <2>1. CASE TextOnly(r)
      <3>1. FilesKept(v, w)
        BY <1>4, <2>1 DEF Begun, FilesKept
      <3>2. \A k \in PartsOf(r) : Move(At(v, k), At(w, k))
        BY <1>3, <1>4, <1>6, <2>1 DEF Move, Further
      <3> QED BY <2>1, <3>1, <3>2 DEF Progress, Tidy
    <2>2. CASE ~TextOnly(r)
      <3>1. /\ i \in 1..Len(v.parts) /\ i # 0 /\ Summed(w)
            /\ w.parts[i].file = v.parts[i].file
            /\ \A k \in 1..Len(v.parts) : k # i => w.parts[k] = v.parts[k]
        BY <1>4, <1>6, <1>7, <2>2 DEF Begun, Summed
      <3>2. OthersAside(v, w, i)
        BY <1>4, <3>1 DEF OthersAside, Aside, SendChange, Reshaped
      <3>3. v.parts[i].state = "queued" /\ w.parts[i].state = "dispatching"
        BY <1>3, <1>4, <3>1 DEF At
      <3>4. Move(v.parts[i], w.parts[i])
        BY <3>3 DEF Move, Further
      <3>5. ~NoneIn(v, {"queued"}) /\ ~Started(w.parts[i])
        BY <3>1, <3>3 DEF NoneIn, Started
      <3> QED BY <1>2, <1>7, <2>2, <3>1, <3>2, <3>4, <3>5, OnePartMoves DEF v
    <2> QED BY <2>1, <2>2
  <1>9. /\ QueueStep /\ NoBack
        /\ SummedInv' /\ FilesInv' /\ HoldInv' /\ PredecessorsTaken' /\ OriginalKept'
        /\ requests'[r] = w
        /\ \A q \in Requests \ {r} : requests'[q] = requests[q]
    BY <1>1, <1>3, <1>5, <1>8, OneKeeps DEF v
  <1>10. ASSUME NEW k \in PartsOf(r), k # i
         PROVE  At(w, k).state = At(v, k).state
    BY <1>4, <1>6, <1>10 DEF Begun, At
  <1>11. DispatchInv'
    <2> SUFFICES ASSUME NEW p \in Ops, p # o, OpState(p)' = "dispatching"
                 PROVE  FALSE
      BY <1>1 DEF DispatchInv
    <2>1. p[1] \in Requests /\ p[2] \in PartsOf(p[1]) /\ p = <<p[1], p[2]>>
      BY OpsFacts
    <2>2. OpState(p) = "dispatching"
      BY <1>9, <1>10, <2>1 DEF OpState, v
    <2> QED BY <1>2, <1>3, <2>2 DEF DispatchInv
  <1>12. HandInv'
    <2>1. ASSUME NEW k \in 1..(i - 1)
          PROVE  <<r, k>> \in taken
      <3>1. ~TextOnly(r) /\ i \in 1..Len(v.parts) /\ k \in 1..Len(v.parts)
        BY <1>6, <2>1
      <3>2. v.parts[k].state \in Advanced
        BY <1>1, <2>1, <3>1 DEF NextOp, IsNextPart, v
      <3>3. Started(v.parts[k]) /\ ~NoneIn(v, {"queued"})
        BY <1>3, <1>6, <3>1, <3>2 DEF Started, Advanced, NoneIn, At
      <3> QED BY <1>7, <3>1, <3>3 DEF Held
    <2> QED BY <1>1, <2>1 DEF HandInv
  <1>13. OrderInv'
    <2>1. now' = now /\ \A q \in Requests : acceptedAt'[q] <= now'
      BY <1>1 DEF OInv, OrderInv
    <2>2. ASSUME NEW p \in Ops, Begins(p)', NEW q \in Requests, epochOf'[q] # 0,
                 acceptedAt'[q] < acceptedAt'[p[1]]
          PROVE  Unqueued(q)'
      <3>1. Begins(p) \/ p = o
        BY <1>1, <2>2 DEF Begins
      <3>2. Unqueued(q)
        <4>1. CASE Begins(p)
          BY <1>1, <2>2, <4>1 DEF OInv, OrderInv
        <4>2. CASE p = o
          BY <1>1, <2>2, <4>2, EarlierUnqueued
        <4> QED BY <3>1, <4>1, <4>2
      <3> QED BY <1>9, <3>2, UnqueuedStays
    <2> QED BY <2>1, <2>2 DEF OrderInv
  <1> QED BY <1>9, <1>11, <1>12, <1>13 DEF OInv

\* What is dispatching after the sender's operation has ended was so before.
LEMMA DispatchEnds ==
    ASSUME OInv, NEW r \in Requests, NEW i \in PartsOf(r), <<r, i>> \in Ops,
           OpState(<<r, i>>)' # "dispatching",
           \A k \in PartsOf(r) \ {i} :
              At(requests'[r], k).state = "dispatching" => At(requests[r], k).state = "dispatching",
           \A q \in Requests \ {r} : requests'[q] = requests[q],
           NEW o \in Ops, OpState(o)' = "dispatching"
    PROVE  OpState(o) = "dispatching" /\ o # <<r, i>>
  <1>1. o # <<r, i>>
    OBVIOUS
  <1>2. o[1] \in Requests /\ o[2] \in PartsOf(o[1]) /\ o = <<o[1], o[2]>>
    BY OpsFacts
  <1> QED BY <1>1, <1>2 DEF OpState

\* Ending operation i of a request with parts, in the order of the queue.
LEMMA FinishMoves ==
    ASSUME OInv, NEW r \in Requests, ~TextOnly(r), NEW i \in PartsOf(r),
           NEW x \in Request, NEW outcome \in {"invoked", "unstarted", "uncertain"},
           Len(x.parts) = Len(requests[r].parts), Orderly(x),
           x.parts[i].file = requests[r].parts[i].file,
           \A k \in 1..Len(x.parts) : k # i => x.parts[k] = requests[r].parts[k],
           requests[r].parts[i].state \in {"queued", "dispatching"},
           requests[r].parts[i].state = "queued" => outcome = "unstarted",
           outcome = "invoked" => <<r, i>> \in taken
    PROVE  LET w == Finish(x, i, outcome)
           IN  /\ w \in Request /\ Progress(r, requests[r], w)
               /\ At(w, i).state # "dispatching"
               /\ \A k \in PartsOf(r) \ {i} :
                     At(w, k).state = "dispatching" => At(requests[r], k).state = "dispatching"
  <1> DEFINE v == requests[r]
             w == Finish(x, i, outcome)
  <1>1. IInv /\ TypeOK /\ ShapeInv /\ SummedInv /\ HoldInv
    BY DEF OInv, IInv
  <1>2. /\ \A k \in PartsOf(r) : k # 0 /\ k \in 1..Len(v.parts)
        /\ i \in 1..Len(x.parts)
    BY <1>1, RequestFacts
  <1>3. Held(r, v)
    BY <1>1 DEF HoldInv
  <1>4. /\ w \in Request
        /\ OthersAside(x, w, i)
        /\ w.parts[i].file = x.parts[i].file
        /\ w.parts[i].state = FinishState(outcome)
        /\ IF outcome = "invoked"
           THEN \A k \in 1..Len(x.parts) : k # i => w.parts[k] = x.parts[k]
           ELSE NoneIn(w, {"queued"})
        /\ Summed(w)
    BY <1>2, FinishFacts
  <1> HIDE DEF v, w
  <1>5. /\ OthersAside(v, w, i)
        /\ outcome = "invoked" => \A k \in 1..Len(v.parts) : k # i => w.parts[k] = v.parts[k]
    BY <1>4 DEF OthersAside, v
  <1>6. /\ w.parts[i].state \in {"invoked", "failed", "unknown"}
        /\ outcome = "unstarted" => w.parts[i].state = "failed"
    BY <1>4 DEF FinishState
  <1>7. Move(v.parts[i], w.parts[i])
    BY <1>6 DEF Move, Further, Final, v
  <1>8. outcome = "invoked" => ~Started(v.parts[i]) /\ (NoneIn(v, {"queued"}) => NoneIn(w, {"queued"}))
    <2>1. SUFFICES ASSUME outcome = "invoked"
                   PROVE  ~Started(v.parts[i]) /\ (NoneIn(v, {"queued"}) => NoneIn(w, {"queued"}))
      OBVIOUS
    <2>2. ~Started(v.parts[i])
      BY DEF Started, v
    <2>3. NoneIn(v, {"queued"}) => NoneIn(w, {"queued"})
      BY <1>5, <1>6, <2>1 DEF NoneIn, OthersAside
    <2> QED BY <2>2, <2>3
  <1>9. Progress(r, v, w)
    <2>1. w.parts[i].file = v.parts[i].file /\ i \in 1..Len(v.parts)
      BY <1>2, <1>4 DEF v
    <2> QED BY <1>1, <1>3, <1>4, <1>5, <1>7, <1>8, <2>1, OnePartMoves DEF v
  <1>10. At(w, i).state # "dispatching"
    BY <1>2, <1>6 DEF At
  <1>11. ASSUME NEW k \in PartsOf(r), k # i, At(w, k).state = "dispatching"
         PROVE  At(v, k).state = "dispatching"
    BY <1>2, <1>5, <1>11 DEF At, OthersAside, Aside
  <1> QED BY <1>4, <1>9, <1>10, <1>11 DEF v, w

\* rejectQueued ends what was never started, and holds the rest.
LEMMA RejectQueuedKeeps ==
    ASSUME OInv, IInv', NEW r \in Requests, NEW i \in PartsOf(r), RejectQueued(r, i)
    PROVE  OInv' /\ NoBack
  <1> DEFINE v == requests[r]
             x == Start(v, i, v.parts[i].time, v.parts[i].floor)
             w == IF TextOnly(r) THEN End(v, "failed", "unstarted")
                                 ELSE Finish(x, i, "unstarted")
             o == <<r, i>>
  <1>1. /\ UNCHANGED <<epoch, epochOf, acceptedAt, calls, taken, now, sender, recovery>>
        /\ MayDispatch(r) /\ OldestQueued(r) /\ NextOp(r, i) /\ UpdateRequest(r, w)
    BY DEF RejectQueued, MayDispatch, core, outside
  <1>2. IInv /\ TypeOK /\ ShapeInv /\ SummedInv /\ DispatchInv
    BY DEF OInv, IInv
  <1>3. /\ At(v, i).state = "queued" /\ epochOf[r] # 0
        /\ sender.pc = "idle"
    BY <1>1, <1>2, NextOpQueued DEF OldestQueued, MayDispatch
  <1>4. /\ \A k \in PartsOf(r) : ~TextOnly(r) => k \in 1..Len(v.parts)
        /\ \A k \in PartsOf(r) : TextOnly(r) <=> k = 0
        /\ v \in Request /\ \A k \in 1..Len(v.parts) : v.parts[k] \in Part
    BY <1>2, RequestFacts
  <1>5. ~TextOnly(r) => Summed(v)
    BY <1>2 DEF SummedInv
  <1> HIDE DEF v
  <1>6. /\ w \in Request /\ Progress(r, v, w)
        /\ At(w, i).state # "dispatching"
        /\ \A k \in PartsOf(r) \ {i} :
              At(w, k).state = "dispatching" => At(v, k).state = "dispatching"
    <2>1. CASE TextOnly(r)
      <3>1. "failed" \in SendStatus /\ "unstarted" \in ErrorInfo
        BY DEF SendStatus, ErrorInfo
      <3>2. /\ w \in Request /\ w.parts = v.parts /\ w.state = "failed"
        BY <1>4, <2>1, <3>1, EndRequest
      <3> HIDE DEF w
      <3>3. v.state = "queued" /\ \A k \in PartsOf(r) : k = 0 /\ At(v, k) = v /\ At(w, k) = w
        BY <1>3, <1>4, <2>1 DEF At
      <3>4. Move(v, w)
        BY <3>2, <3>3 DEF Move, Further, Final
      <3>5. FilesKept(v, w)
        BY <3>2 DEF FilesKept
      <3> QED BY <2>1, <3>2, <3>3, <3>4, <3>5 DEF Progress, Tidy
    <2>2. CASE ~TextOnly(r)
      <3> DEFINE p == v.parts[i]
      <3>1. i \in 1..Len(v.parts) /\ p \in Part /\ i # 0
        BY <1>4, <2>2
      <3>2. p.time \in Nat /\ p.floor \in Nat
        BY <3>1 DEF Part
      <3>3. p.state = "queued"
        BY <1>3, <3>1 DEF At
      <3>4. Orderly(v)
        BY <1>5, <2>2 DEF Summed
      <3> HIDE DEF p
      <3>5. /\ x \in Request /\ Len(x.parts) = Len(v.parts)
            /\ x.parts[i].file = v.parts[i].file
            /\ \A k \in 1..Len(v.parts) : k # i => x.parts[k] = v.parts[k]
            /\ Summed(x)
        BY <1>4, <3>1, <3>2, <3>4, StartFacts DEF p
      <3>6. w = Finish(x, i, "unstarted")
        BY <2>2
      <3> HIDE DEF x, w
      <3>7. Orderly(x) /\ v.parts[i].state = "queued"
        BY <3>3, <3>5 DEF Summed, p
      <3>8. /\ Len(x.parts) = Len(requests[r].parts)
            /\ x.parts[i].file = requests[r].parts[i].file
            /\ \A k \in 1..Len(x.parts) : k # i => x.parts[k] = requests[r].parts[k]
            /\ requests[r].parts[i].state \in {"queued", "dispatching"}
        BY <3>5, <3>7 DEF v
      <3> QED BY <2>2, <3>5, <3>6, <3>7, <3>8, FinishMoves DEF v
    <2> QED BY <2>1, <2>2
  <1> HIDE DEF w
  <1>7. /\ QueueStep /\ NoBack
        /\ SummedInv' /\ FilesInv' /\ HoldInv' /\ PredecessorsTaken' /\ OriginalKept'
        /\ requests'[r] = w
        /\ \A q \in Requests \ {r} : requests'[q] = requests[q]
    BY <1>1, <1>3, <1>6, OneKeeps DEF v
  <1>8. DispatchInv'
    <2>1. o \in Ops /\ OpState(o)' # "dispatching"
      BY <1>6, <1>7, OpsFacts DEF OpState
    <2>2. \A p \in Ops : OpState(p)' = "dispatching" => OpState(p) = "dispatching"
      BY <1>6, <1>7, <2>1, DispatchEnds DEF v
    <2> QED BY <1>1, <1>2, <2>2 DEF DispatchInv
  <1>9. HandInv'
    BY <1>1, <1>3 DEF HandInv
  <1>10. now <= now' /\ \A p \in Ops : Begins(p)' => Begins(p)
    BY <1>1, <1>2 DEF TypeOK, Begins
  <1>11. OrderInv'
    BY <1>1, <1>7, <1>10, OrderKeeps
  <1> QED BY <1>7, <1>8, <1>9, <1>11 DEF OInv

\* The automation call.
LEMMA InvokeKeeps ==
    ASSUME OInv, IInv', NEW outcome \in {"invoked", "unstarted", "uncertain"}, NEW took \in BOOLEAN,
           Invoke(outcome, took)
    PROVE  OInv' /\ NoBack
  <1> DEFINE o == sender.op
  <1>1. /\ UNCHANGED <<epoch, requests, uploads, epochOf, acceptedAt, now, recovery>>
        /\ sender.pc = "prepared"
        /\ calls' = [calls EXCEPT ![o] = calls[o] + 1]
        /\ sender'.pc = "returned" /\ sender'.op = o /\ sender'.epoch = sender.epoch
        /\ sender'.outcome = outcome
        /\ taken \subseteq taken' /\ (outcome = "invoked" => o \in taken')
    BY DEF Invoke, journal, core
  <1>2. IInv /\ TypeOK /\ HandInv /\ SenderInv
    BY DEF OInv, IInv
  <1>3. o \in Ops /\ \A p \in Ops \ {o} : calls'[p] = calls[p]
    BY <1>1, <1>2 DEF SenderInv, TypeOK
  <1>4. QueueStep /\ NoBack
    BY <1>1, <1>2, ProgressQueue, ProgressNoBack
  <1>5. SummedInv' /\ FilesInv' /\ HoldInv'
    BY <1>1, <1>4, TidyKeeps
  <1>6. OriginalKept'
    BY <1>1, <1>2, <1>4, <1>5, NothingRetired, OriginalKeeps
  <1>7. HandInv'
    BY <1>1, <1>2 DEF HandInv
  <1>8. DispatchInv'
    BY <1>1 DEF OInv, DispatchInv, OpState
  <1>9. PredecessorsTaken'
    <2>1. \A k \in 1..(o[2] - 1) : <<o[1], k>> \in taken'
      BY <1>1, <1>2 DEF HandInv
    <2> SUFFICES ASSUME NEW p \in Ops, calls'[p] > 0, NEW k \in 1..(p[2] - 1)
                 PROVE  <<p[1], k>> \in taken'
      BY DEF PredecessorsTaken
    <2>2. CASE p = o
      BY <2>1, <2>2
    <2>3. CASE p # o
      BY <1>1, <1>3, <2>3 DEF OInv, PredecessorsTaken
    <2> QED BY <2>2, <2>3
  <1>10. \A p \in Ops : Begins(p)' => Begins(p)
    BY <1>1, <1>3 DEF Begins
  <1>11. OrderInv'
    <2>1. now <= now'
      BY <1>1, <1>2 DEF TypeOK
    <2> QED BY <1>1, <1>4, <1>5, <1>10, <2>1, OrderKeeps
  <1> QED BY <1>4, <1>5, <1>6, <1>7, <1>8, <1>9, <1>11 DEF OInv

\* The result of a call ends the sender's operation, unless a reset did.
LEMMA ResultKeeps ==
    ASSUME OInv, IInv', FinishSend,
           NEW r \in Requests, NEW i \in PartsOf(r), sender.op = <<r, i>>
    PROVE  OInv' /\ NoBack
  <1> DEFINE o == <<r, i>>
             v == requests[r]
             w == SendResult(r, i)
             out == sender.outcome
  <1>1. /\ UNCHANGED <<epoch, epochOf, acceptedAt, calls, taken, now, recovery>>
        /\ sender'.pc = "idle" /\ sender.pc = "returned"
    BY IdleFacts DEF FinishSend, core, outside
  <1>2. \/ sender.epoch # epoch /\ UNCHANGED <<requests, uploads>>
        \/ sender.epoch = epoch /\ UpdateRequest(r, w)
    BY DEF FinishSend
  <1>3. IInv /\ TypeOK /\ ShapeInv /\ SummedInv /\ DispatchInv /\ HandInv /\ SenderInv
    BY DEF OInv, IInv
  <1>4. /\ o \in Ops /\ epochOf[r] # 0
        /\ out \in {"invoked", "unstarted", "uncertain"}
        /\ out = "invoked" => <<r, i>> \in taken
    BY <1>1, <1>3, OpsFacts DEF SenderInv, HandInv, TypeOK
  <1>5. HandInv'
    BY <1>1 DEF HandInv
  <1>6. now <= now' /\ \A p \in Ops : Begins(p)' => Begins(p)
    BY <1>1, <1>3 DEF TypeOK, Begins
  <1>7. CASE sender.epoch # epoch /\ UNCHANGED <<requests, uploads>>
    <2>1. QueueStep /\ NoBack
      BY <1>3, <1>7, ProgressQueue, ProgressNoBack
    <2>2. RetiresSettled
      BY <1>3, <1>7, NothingRetired
    <2>3. DispatchInv'
      BY <1>1, <1>3, <1>7 DEF DispatchInv, OpState
    <2> QED BY <1>1, <1>5, <1>6, <2>1, <2>2, <2>3, QueueKeeps DEF OInv
  <1>8. CASE sender.epoch = epoch /\ UpdateRequest(r, w)
    <2>1. /\ At(v, i).state = "dispatching"
          /\ TextOnly(r) => v = sender.work
      BY <1>1, <1>3, <1>8 DEF SenderInv, OpState
    <2>2. /\ \A k \in PartsOf(r) : ~TextOnly(r) => k \in 1..Len(v.parts)
          /\ \A k \in PartsOf(r) : TextOnly(r) <=> k = 0
          /\ v \in Request
      BY <1>3, <1>4, RequestFacts
    <2>3. ~TextOnly(r) => Summed(v)
      BY <1>3, <1>4 DEF SummedInv
    <2> HIDE DEF out, v
    <2>4. /\ w \in Request /\ Progress(r, v, w)
          /\ At(w, i).state # "dispatching"
          /\ \A k \in PartsOf(r) \ {i} :
                At(w, k).state = "dispatching" => At(v, k).state = "dispatching"
      <3>1. CASE TextOnly(r)
        <4>1. {"failed", "unknown"} \subseteq SendStatus
              /\ {"unstarted", "uncertain"} \subseteq ErrorInfo
          BY DEF SendStatus, ErrorInfo
        <4>2. w = IF out = "unstarted" THEN End(v, "failed", "unstarted")
                                       ELSE End(v, "unknown", "uncertain")
          BY <2>1, <3>1 DEF SendResult, TextResult, out
        <4> HIDE DEF w
        <4>3. w \in Request /\ w.parts = v.parts /\ w.state \in {"failed", "unknown"}
          BY <2>2, <4>1, <4>2, EndRequest
        <4>4. v.state = "dispatching" /\ \A k \in PartsOf(r) : k = 0 /\ At(v, k) = v /\ At(w, k) = w
          BY <1>4, <2>1, <2>2, <3>1 DEF At
        <4>5. Move(v, w)
          BY <4>3, <4>4 DEF Move, Further, Final
        <4>6. FilesKept(v, w)
          BY <4>3 DEF FilesKept
        <4>7. At(w, i).state # "dispatching" /\ \A k \in PartsOf(r) : k = i
          BY <1>4, <4>3, <4>4
        <4> QED BY <3>1, <4>3, <4>4, <4>5, <4>6, <4>7 DEF Progress, Tidy
      <3>2. CASE ~TextOnly(r)
        <4>1. w = Finish(v, i, out)
          BY <3>2 DEF SendResult, v, out
        <4>2. i # 0 /\ v.parts[i].state = "dispatching" /\ Orderly(v)
          BY <1>4, <2>1, <2>2, <2>3, <3>2 DEF At, Summed
        <4> HIDE DEF w
        <4> QED BY <1>4, <2>2, <3>2, <4>1, <4>2, FinishMoves DEF v
      <3> QED BY <3>1, <3>2
    <2> HIDE DEF w
    <2>5. /\ QueueStep /\ NoBack
          /\ SummedInv' /\ FilesInv' /\ HoldInv' /\ PredecessorsTaken' /\ OriginalKept'
          /\ requests'[r] = w
          /\ \A q \in Requests \ {r} : requests'[q] = requests[q]
      BY <1>1, <1>4, <1>8, <2>4, OneKeeps DEF v
    <2>6. DispatchInv'
      <3>1. OpState(<<r, i>>)' # "dispatching" /\ <<r, i>> \in Ops
        BY <1>4, <2>4, <2>5 DEF OpState
      <3>2. \A p \in Ops : OpState(p)' = "dispatching" => OpState(p) = "dispatching" /\ p # o
        BY <1>4, <2>4, <2>5, <3>1, DispatchEnds DEF v
      <3> QED BY <1>1, <1>3, <3>2 DEF DispatchInv
    <2>7. OrderInv'
      BY <1>1, <1>6, <2>5, OrderKeeps
    <2> QED BY <1>5, <2>5, <2>6, <2>7 DEF OInv
  <1> QED BY <1>2, <1>7, <1>8

\* The sender's operation is a part of a request.
LEMMA FinishSendKeeps ==
    ASSUME OInv, IInv', FinishSend
    PROVE  OInv' /\ NoBack
  <1>1. sender.op \in Ops
    BY DEF OInv, IInv, SenderInv, FinishSend
  <1>2. /\ sender.op[1] \in Requests /\ sender.op[2] \in PartsOf(sender.op[1])
        /\ sender.op = <<sender.op[1], sender.op[2]>>
    BY <1>1, OpsFacts
  <1> QED BY <1>2, ResultKeeps

\* The result is lost, and recovery comes first.
LEMMA FinishFailsKeeps ==
    ASSUME OInv, IInv', FinishFails
    PROVE  OInv' /\ NoBack
  <1>1. /\ UNCHANGED <<epoch, requests, uploads, epochOf, acceptedAt, calls, taken, now>>
        /\ sender'.pc = "idle" /\ recovery'
    BY IdleFacts DEF FinishFails, journal, outside
  <1>2. IInv /\ TypeOK
    BY DEF OInv, IInv
  <1>3. QueueStep /\ NoBack
    BY <1>1, <1>2, ProgressQueue, ProgressNoBack
  <1>4. RetiresSettled
    BY <1>1, <1>2, NothingRetired
  <1>5. DispatchInv' /\ HandInv'
    BY <1>1 DEF DispatchInv, HandInv
  <1>6. now <= now' /\ \A o \in Ops : Begins(o)' => Begins(o)
    BY <1>1, <1>2 DEF TypeOK, Begins
  <1> QED BY <1>1, <1>3, <1>4, <1>5, <1>6, QueueKeeps DEF OInv
-----------------------------------------------------------------------------
(* The invariant and what follows from it.                                  *)

\* Nothing was sent, and the files are the ones to be submitted.
LEMMA InitOInv == Init => OInv
  <1> SUFFICES ASSUME Init
               PROVE  OInv
    OBVIOUS
  <1>1. IInv
    BY InitInv
  <1>2. /\ \A r \in Requests : requests[r] = NewRequest(r)
        /\ \A r \in Requests : epochOf[r] = 0 /\ acceptedAt[r] = 0
        /\ \A o \in Ops : calls[o] = 0
        /\ now = 0 /\ sender.pc = "idle"
    BY IdleFacts DEF Init
  <1>3. \A o \in Ops : OpState(o) = "queued"
    BY <1>2, OpsFacts, NewRequestFacts DEF OpState
  <1>4. FilesInv
    BY <1>2 DEF FilesInv, FilesKept
  <1>5. ASSUME NEW r \in Requests, ~TextOnly(r)
        PROVE  Summed(requests[r]) /\ Held(r, requests[r])
    <2> DEFINE v == requests[r]
    <2>1. v.state = "queued" /\ \A k \in 1..Len(v.parts) : v.parts[k].state = "queued"
      BY <1>2, NewRequestFacts
    <2>2. Len(v.parts) # 0
      BY <1>2, <1>5, NewRequestParts
    <2>3. Len(v.parts) \in Nat
      BY <1>1, RequestFacts DEF IInv
    <2> HIDE DEF v
    <2>4. ~NoneIn(v, {"queued"}) /\ NoneIn(v, {"dispatching"}) /\ NoneIn(v, {"failed", "skipped"})
      BY <2>1, <2>2, <2>3 DEF NoneIn
    <2> QED BY <2>1, <2>4 DEF Summed, Orderly, Held, Started, v
  <1>6. SummedInv /\ HoldInv
    BY <1>5 DEF SummedInv, HoldInv
  <1>7. DispatchInv /\ HandInv
    BY <1>2, <1>3 DEF DispatchInv, HandInv
  <1>8. OrderInv
    BY <1>2 DEF OrderInv, Begins
  <1>9. PredecessorsTaken
    BY <1>2 DEF PredecessorsTaken
  <1>10. OriginalKept
    BY <1>2, OpsFacts DEF OriginalKept, Accepted
  <1> QED BY <1>1, <1>4, <1>6, <1>7, <1>8, <1>9, <1>10 DEF OInv

\* The steps that leave the requests and the sender alone.
LEMMA OtherKeeps ==
    ASSUME OInv, IInv',
           \/ \E ready \in BOOLEAN : Probe(ready)
           \/ \E r \in Requests : RefuseSend(r)
           \/ IngestFails
           \/ \E r \in Requests : \E i \in PartsOf(r) : ObservePrepare(r, i)
           \/ ObserveLook
           \/ ObserveNothing
           \/ MessagesStep
           \/ Tick
           \/ UNCHANGED vars
    PROVE  OInv' /\ NoBack
  <1>1. now \in Nat /\ recovery \in BOOLEAN
    BY DEF OInv, IInv, TypeOK
  <1>2. CASE \/ \E ready \in BOOLEAN : Probe(ready)
             \/ \E r \in Requests : RefuseSend(r)
             \/ IngestFails
             \/ \E r \in Requests : \E i \in PartsOf(r) : ObservePrepare(r, i)
             \/ ObserveLook
             \/ ObserveNothing
             \/ UNCHANGED vars
    <2>1. UNCHANGED <<journal, sender, calls, taken, now>>
      BY <1>2 DEF Probe, RefuseSend, IngestFails, ObservePrepare, ObserveLook, ObserveNothing,
                  vars, outside
    <2>2. UNCHANGED <<epoch, requests, uploads, epochOf, acceptedAt, calls, taken, sender, now>>
      BY <2>1 DEF journal
    <2>3. recovery => recovery'
      BY <1>2 DEF Probe, RefuseSend, IngestFails, ObservePrepare, ObserveLook, ObserveNothing,
                  vars, core
    <2>4. now <= now'
      BY <1>1, <2>2
    <2> QED BY <2>2, <2>3, <2>4, SameKeeps
  <1>3. CASE MessagesStep \/ Tick
    <2>1. UNCHANGED <<journal, core, sender, calls, taken>> /\ (now' = now \/ now' = now + 1)
      BY <1>3 DEF MessagesStep, InsertEcho, ForeignSend, JoinRow, ChangeStatus, ReplaceSource, Tick
    <2>2. UNCHANGED <<epoch, requests, uploads, epochOf, acceptedAt, calls, taken, sender, recovery>>
      BY <2>1 DEF journal, core
    <2>3. now <= now'
      BY <1>1, <2>1
    <2> QED BY <2>2, <2>3, SameKeeps
  <1> QED BY <1>2, <1>3

\* Every step keeps the invariant, and takes no operation back.
LEMMA NextOInv == OInv /\ [Next]_vars => OInv' /\ NoBack
  <1> SUFFICES ASSUME OInv, [Next]_vars
               PROVE  OInv' /\ NoBack
    OBVIOUS
  <1>1. IInv'
    BY NextInv DEF OInv
  <1>2. CASE HttpStep
    <2>1. CASE ClientReset
      BY <1>1, <2>1, ResetKeeps DEF ClientReset, outside
    <2> QED BY <1>1, <1>2, <2>1, AcceptKeeps, ReplaceKeeps DEF HttpStep
  <1>3. CASE SenderStep
    <2>1. CASE RecoverSends
      BY <1>1, <2>1, RecoverKeeps DEF RecoverSends, outside
    <2> QED BY <1>1, <1>3, <2>1, OtherKeeps, PrepareSendKeeps, RejectQueuedKeeps, InvokeKeeps,
               FinishSendKeeps, FinishFailsKeeps DEF SenderStep
  <1>4. CASE Ingest
    BY <1>1, <1>4, IngestKeeps
  <1>5. CASE ObserverStep
    BY <1>1, <1>5, OtherKeeps, PublishKeeps DEF ObserverStep
  <1>6. CASE IngestFails \/ MessagesStep \/ Tick \/ UNCHANGED vars
    BY <1>1, <1>6, OtherKeeps
  <1>7. CASE Crash
    <2>1. sender'.pc = "idle"
      BY <1>7, IdleFacts DEF Crash
    <2> QED BY <1>1, <1>7, <2>1, RecoverKeeps DEF Crash, outside
  <1> QED BY <1>2, <1>3, <1>4, <1>5, <1>6, <1>7 DEF Next

\* The invariant holds in every reachable state of the send pipeline.
THEOREM OrderInvariance == Spec => []OInv
  BY InitOInv, NextOInv, PTL DEF Spec

\* senderLoop hands a part to Messages only after every part before it was
\* taken, whatever was recovered, reset or reported late in between.
THEOREM PredecessorsHandedOver == Spec => []PredecessorsTaken
  <1>1. OInv => PredecessorsTaken
    BY DEF OInv
  <1> QED BY <1>1, OrderInvariance, PTL

\* uploads.releasePart never lets go of an original that its part may still
\* need.
THEOREM OriginalsPinned == Spec => []OriginalKept
  <1>1. OInv => OriginalKept
    BY DEF OInv
  <1> QED BY <1>1, OrderInvariance, PTL

\* prepareSend takes requests in the order accept stored them: once a part of
\* a later one was handed over, an earlier one has nothing queued.
THEOREM DispatchedInOrder == Spec => []AcceptanceOrder
  <1>1. ASSUME OInv
        PROVE  AcceptanceOrder
    <2> SUFFICES ASSUME NEW o \in Ops, NEW q \in Requests, calls[o] > 0, epochOf[q] # 0,
                        acceptedAt[q] < acceptedAt[o[1]]
                 PROVE  requests[q].state # "queued" /\ ~SomePart(requests[q], {"queued"})
      BY DEF AcceptanceOrder, Accepted
    <2>1. Unqueued(q)
      BY <1>1 DEF OInv, OrderInv, Begins
    <2> QED BY <2>1 DEF Unqueued, NoneIn, SomePart
  <1> QED BY <1>1, OrderInvariance, PTL

\* Late automation results, stale observations, recovery and reconciliation
\* never take an operation back within its epoch.
THEOREM NoOperationGoesBack == Spec => NoRegression
  <1>1. ASSUME OInv, [Next]_vars
        PROVE  [NoBack]_vars
    BY <1>1, NextOInv
  <1>2. NoBack <=> \A o \in Ops : Accepted(o[1]) =>
                      \/ Stage(OpState(o)') > Stage(OpState(o))
                      \/ OpState(o)' = OpState(o)
                      \/ epoch' # epoch /\ OpState(o) = "submitted" /\ OpState(o)' = "unknown"
    BY Zenon DEF NoBack
  <1> QED BY <1>1, <1>2, OrderInvariance, PTL DEF Spec, NoRegression
-----------------------------------------------------------------------------
(* What the functions of sends.zig leave of an operation's association and  *)
(* boundary.                                                                *)

\* Only what was never started ends without a message.
Settled(p) == p.state \in Final /\ p.mid = NoMessage => p.err = "unstarted"

\* Operation p becomes q with the same message and boundary.
Carries(p, q) == q.mid = p.mid /\ q.time = p.time /\ q.floor = p.floor

Keeps(p, q) == Carries(p, q) /\ (Settled(p) => Settled(q))

\* The functions that assign to a part or a request.
LEMMA PartAssignments ==
    ASSUME NEW x \in Part, NEW state, NEW err, NEW m, NEW time, NEW floor
    PROVE  /\ Carries(x, End(x, state, err))
           /\ Settle(x, m, state, err).time = x.time /\ Settle(x, m, state, err).floor = x.floor
           /\ Mark(x, time, floor).time = time /\ Mark(x, time, floor).floor = floor
           /\ [x EXCEPT !.cand = m].state = x.state /\ [x EXCEPT !.cand = m].err = x.err
           /\ Carries(x, [x EXCEPT !.cand = m])
  BY DEF Part, Carries, End, Settle, Mark

LEMMA RequestAssignments ==
    ASSUME NEW x \in Request, NEW state, NEW err, NEW m, NEW time, NEW floor
    PROVE  /\ Carries(x, End(x, state, err))
           /\ Settle(x, m, state, err).time = x.time /\ Settle(x, m, state, err).floor = x.floor
           /\ Mark(x, time, floor).time = time /\ Mark(x, time, floor).floor = floor
           /\ [x EXCEPT !.cand = m].state = x.state /\ [x EXCEPT !.cand = m].err = x.err
           /\ Carries(x, [x EXCEPT !.cand = m])
  BY DEF Request, Carries, End, Settle, Mark

LEMMA KeepsFacts ==
    /\ \A p : Keeps(p, p)
    /\ \A p, q, s : Keeps(p, q) /\ Keeps(q, s) => Keeps(p, s)
  BY DEF Keeps, Carries

\* What is skipped was never started.
LEMMA SkipKeeps ==
    ASSUME NEW s \in Seq(Part)
    PROVE  \A k \in 1..Len(s) : Keeps(s[k], SkipQueued(s)[k])
  <1> SUFFICES ASSUME NEW k \in 1..Len(s)
               PROVE  Keeps(s[k], SkipQueued(s)[k])
    OBVIOUS
  <1>1. SkipQueued(s)[k] =
           IF s[k].state = "queued" THEN End(s[k], "skipped", "unstarted") ELSE s[k]
    BY DEF SkipQueued
  <1>2. s[k] \in Part
    OBVIOUS
  <1>3. "skipped" \in PartState /\ "unstarted" \in ErrorInfo
    BY DEF PartState, ErrorInfo
  <1>4. End(s[k], "skipped", "unstarted").err = "unstarted"
    BY <1>2, <1>3, EndPart
  <1>5. Carries(s[k], End(s[k], "skipped", "unstarted"))
    BY <1>2, PartAssignments
  <1>6. Keeps(s[k], End(s[k], "skipped", "unstarted"))
    BY <1>4, <1>5 DEF Keeps, Settled
  <1> QED BY <1>1, <1>6, KeepsFacts

\* sends.start sets the boundary of part i.
LEMMA StartKeeps ==
    ASSUME NEW v \in Request, NEW i \in 1..Len(v.parts), NEW time \in Nat, NEW floor \in Nat
    PROVE  LET w == Start(v, i, time, floor)
           IN  w.parts[i].time = time /\ w.parts[i].floor = floor
  <1> DEFINE s == [v.parts EXCEPT ![i] = Mark(v.parts[i], time, floor)]
             x == [v EXCEPT !.parts = s]
  <1>1. v.parts \in Seq(Part) /\ v.parts[i] \in Part
    BY DEF Request
  <1>2. /\ Mark(v.parts[i], time, floor) \in Part
        /\ Mark(v.parts[i], time, floor).time = time
        /\ Mark(v.parts[i], time, floor).floor = floor
    <2>1. Mark(v.parts[i], time, floor) \in Part
      BY <1>1, MarkPart
    <2> QED BY <1>1, <2>1 DEF Mark, Part
  <1>3. s \in Seq(Part) /\ s[i] = Mark(v.parts[i], time, floor)
    BY <1>1, <1>2, ExceptSeq
  <1> HIDE DEF s
  <1>4. x \in Request /\ x.parts = s
    BY <1>3, WithParts
  <1>5. Start(v, i, time, floor) = Summarize(x)
    BY DEF Start, s
  <1> HIDE DEF x
  <1>6. Summarize(x).parts = s
    BY <1>4, SummarizeFacts
  <1> QED BY <1>2, <1>3, <1>5, <1>6

\* sends.finish: a part that ends without being invoked was not started or is
\* unknown.
LEMMA FinishKeeps ==
    ASSUME NEW v \in Request, NEW i \in 1..Len(v.parts),
           NEW outcome \in {"invoked", "unstarted", "uncertain"}
    PROVE  LET w == Finish(v, i, outcome)
           IN  \A k \in 1..Len(v.parts) : Keeps(v.parts[k], w.parts[k])
  <1> DEFINE e == End(v.parts[i], FinishState(outcome), FinishErr(outcome))
             s == [v.parts EXCEPT ![i] = e]
             t == IF outcome = "invoked" THEN s ELSE SkipQueued(s)
             x == [v EXCEPT !.parts = t]
  <1>1. v.parts \in Seq(Part) /\ v.parts[i] \in Part
    BY DEF Request
  <1>2. FinishState(outcome) \in PartState /\ FinishErr(outcome) \in ErrorInfo
    BY DEF FinishState, FinishErr, PartState, ErrorInfo
  <1>3. e \in Part /\ e.state = FinishState(outcome) /\ e.err = FinishErr(outcome)
    BY <1>1, <1>2, EndPart
  <1>4. Keeps(v.parts[i], e)
    <2>1. Carries(v.parts[i], e)
      BY <1>1, PartAssignments
    <2> HIDE DEF e
    <2> QED BY <1>3, <2>1 DEF Keeps, Settled, Final, FinishState, FinishErr
  <1> HIDE DEF e
  <1>5. s \in Seq(Part) /\ Len(s) = Len(v.parts)
        /\ \A k \in 1..Len(v.parts) : Keeps(v.parts[k], s[k])
    BY <1>1, <1>3, <1>4, ExceptSeq, KeepsFacts
  <1> HIDE DEF s
  <1>6. t \in Seq(Part) /\ \A k \in 1..Len(v.parts) : Keeps(s[k], t[k])
    BY <1>5, SkipQueuedFacts, SkipKeeps, KeepsFacts
  <1> HIDE DEF t
  <1>7. x \in Request /\ x.parts = t
    BY <1>6, WithParts
  <1>8. Finish(v, i, outcome) = Summarize(x)
    BY DEF Finish, t, s, e
  <1> HIDE DEF x
  <1> QED BY <1>5, <1>6, <1>7, <1>8, SummarizeFacts, KeepsFacts

\* A recovery keeps what was claimed.
LEMMA InterruptKeeps ==
    ASSUME NEW v \in Request
    PROVE  LET w == Interrupt(v, FALSE)
           IN  \A k \in 1..Len(v.parts) : Keeps(v.parts[k], w.parts[k])
  <1> DEFINE held == [i \in 1..Len(v.parts) |-> InterruptPart(v.parts[i], FALSE)]
             t == SkipQueued(held)
             x == [v EXCEPT !.parts = t]
  <1>1. /\ v.parts \in Seq(Part) /\ Len(v.parts) \in Nat
        /\ \A k \in 1..Len(v.parts) : v.parts[k] \in Part
    BY DEF Request
  <1>2. ASSUME NEW k \in 1..Len(v.parts)
        PROVE  held[k] \in Part /\ Keeps(v.parts[k], held[k])
    <2>1. held[k] = InterruptPart(v.parts[k], FALSE)
      OBVIOUS
    <2>2. held[k] \in Part
      BY <1>1, <2>1, InterruptPartFacts
    <2>3. held[k] = IF v.parts[k].state = "dispatching"
                    THEN End(v.parts[k], "unknown", "uncertain") ELSE v.parts[k]
      BY <2>1 DEF InterruptPart
    <2>4. /\ Carries(v.parts[k], End(v.parts[k], "unknown", "uncertain"))
          /\ End(v.parts[k], "unknown", "uncertain").state = "unknown"
      BY <1>1, PartAssignments, EndPart DEF PartState, ErrorInfo
    <2> HIDE DEF held
    <2> QED BY <2>2, <2>3, <2>4, KeepsFacts DEF Keeps, Settled, Final
  <1>3. held \in [1..Len(v.parts) -> Part]
    BY <1>1, InterruptPartFacts
  <1> HIDE DEF held
  <1>4. held \in Seq(Part) /\ Len(held) = Len(v.parts)
    BY <1>1, <1>3
  <1>5. t \in Seq(Part) /\ \A k \in 1..Len(v.parts) : Keeps(held[k], t[k])
    BY <1>4, SkipQueuedFacts, SkipKeeps
  <1> HIDE DEF t
  <1>6. x \in Request /\ x.parts = t
    BY <1>5, WithParts
  <1>7. Interrupt(v, FALSE) = Summarize(x)
    BY DEF Interrupt, t, held
  <1> HIDE DEF x
  <1> QED BY <1>2, <1>5, <1>6, <1>7, SummarizeFacts, KeepsFacts

\* sends.observe gives part i the message and leaves the others theirs.
LEMMA ObserveKeeps ==
    ASSUME NEW v \in Request, NEW i \in 1..Len(v.parts), NEW m \in Nat,
           NEW status \in {"submitted", "delivered", "failed"}
    PROVE  LET w == Observe(v, i, m, status)
           IN  /\ \A k \in 1..Len(v.parts) : k # i => Keeps(v.parts[k], w.parts[k])
               /\ w.parts[i].mid = m
               /\ w.parts[i].time = v.parts[i].time /\ w.parts[i].floor = v.parts[i].floor
  <1> DEFINE err == IF status = "failed" THEN "uncertain" ELSE "none"
             e == Settle(v.parts[i], m, status, err)
             s == [v.parts EXCEPT ![i] = e]
             t == IF status = "failed" THEN SkipQueued(s) ELSE s
             x == [v EXCEPT !.parts = t]
  <1>1. v.parts \in Seq(Part) /\ v.parts[i] \in Part
    BY DEF Request
  <1>2. status \in PartState /\ err \in ErrorInfo
    BY DEF PartState, ErrorInfo
  <1> HIDE DEF err
  <1>3. e \in Part /\ e.mid = m
    BY <1>1, <1>2, SettlePart
  <1>4. e.time = v.parts[i].time /\ e.floor = v.parts[i].floor
    BY <1>1 DEF Settle, Part
  <1> USE DEF err
  <1> HIDE DEF e
  <1>5. s \in Seq(Part) /\ Len(s) = Len(v.parts) /\ s[i] = e
        /\ \A k \in 1..Len(v.parts) : k # i => s[k] = v.parts[k]
    BY <1>1, <1>3, ExceptSeq
  <1> HIDE DEF s
  <1>6. t \in Seq(Part) /\ \A k \in 1..Len(v.parts) : Keeps(s[k], t[k])
    BY <1>5, SkipQueuedFacts, SkipKeeps, KeepsFacts
  <1> HIDE DEF t
  <1>7. x \in Request /\ x.parts = t
    BY <1>6, WithParts
  <1>8. Observe(v, i, m, status) = Summarize(x)
    BY DEF Observe, t, s, e
  <1>9. t[i].mid = m /\ t[i].time = v.parts[i].time /\ t[i].floor = v.parts[i].floor
    BY <1>3, <1>4, <1>5, <1>6 DEF Keeps, Carries
  <1> HIDE DEF x
  <1> QED BY <1>5, <1>6, <1>7, <1>8, <1>9, SummarizeFacts, KeepsFacts
-----------------------------------------------------------------------------
(* What is claimed, and whose echo it is.                                   *)

\* The file an operation was submitted with.
FileOf(o) == IF o[2] = 0 THEN NoFile ELSE NewRequest(o[1]).parts[o[2]].file

\* The row an operation caused bears what the operation sent.
Bears(x) ==
    x.op # NoOp =>
        /\ x.op \in taken
        /\ x.text = IF FileOf(x.op) = NoFile THEN Text(x.op[1]) ELSE NoText
        /\ x.content = IF FileOf(x.op) = NoFile THEN NoContent ELSE ContentOf[FileOf(x.op)]

\* It was written after the dispatch and no later than an echo may come.
Due(m, x) ==
    x.op \in Ops /\ Current(x.op) =>
        /\ m > OpFloor(x.op)
        /\ OpTime(x.op) <= x.date + Skew
        /\ x.date <= OpTime(x.op) + EchoDelay

SameRow(x, y) == x.text = y.text /\ x.content = y.content /\ x.date = y.date /\ x.op = y.op

\* No operation has two rows in M.
OneRow(M) == \A k, m \in DOMAIN M : M[k].op = M[m].op /\ M[m].op # NoOp => k = m

\* A request of this epoch was accepted against the recorded source.
GenInv ==
    /\ gen # 0 /\ jgen <= gen
    /\ readReady => jgen # 0
    /\ \A r \in Requests : epochOf[r] <= epoch
    /\ jgen = 0 => \A r \in Requests : epochOf[r] # epoch

\* The rows of the Messages database; those still to come have none.
SourceInv ==
    /\ outbox \subseteq taken
    /\ \A m \in DOMAIN source : Bears(source[m]) /\ source[m].op \notin outbox
    /\ OneRow(source)
    /\ gen = jgen => \A m \in DOMAIN source : Due(m, source[m])

\* The imported rows, which stay in the source as long as it is the recorded one.
MessagesInv ==
    /\ \A m \in DOMAIN messages : Bears(messages[m]) /\ Due(m, messages[m])
    /\ OneRow(messages)
    /\ gen = jgen => \A m \in DOMAIN messages :
          m \in DOMAIN source /\ source[m].joined /\ SameRow(messages[m], source[m])

\* No boundary lies in the future.
BoundInv ==
    \A o \in Ops : Current(o) =>
        /\ OpTime(o) <= now
        /\ gen = jgen => OpFloor(o) <= Len(source)

\* An operation ends without a message only if it was never started, and does
\* not wait with one.
SettledInv ==
    \A o \in Ops : Current(o) =>
        /\ Settled(At(requests[o[1]], o[2]))
        /\ OpState(o) = "queued" => OpMid(o) = NoMessage

\* Record x bears the file, or the text, that operation o sends.
Fits(x, o) == IF FileOf(o) = NoFile THEN x.text = Text(o[1])
                                    ELSE x.content = ContentOf[FileOf(o)]

\* What an operation claims was imported and bears what the operation sent.
ClaimInv ==
    \A o \in Ops : Current(o) /\ OpMid(o) # NoMessage =>
        OpMid(o) \in DOMAIN messages /\ Fits(messages[OpMid(o)], o)

\* No other operation claims it.
ClaimedOnce ==
    \A o, p \in Ops :
        Current(o) /\ Current(p) /\ OpMid(o) = OpMid(p) /\ OpMid(o) # NoMessage => o = p

\* Whoever claims the echo of another operation finds that this one has
\* claimed something else before.
MistakenFirst ==
    \A o \in Ops : (Current(o) /\ OpMid(o) # NoMessage) =>
        LET x == messages[OpMid(o)].op
        IN  x \in Ops \ {o} /\ Current(x) => OpMid(x) \notin {NoMessage, OpMid(o)}

\* What the observation thread found for an operation that had no message.
LookInv ==
    (observer.pc # "idle" /\ observer.epoch = epoch) =>
        LET o == observer.op
            m == observer.cand
        IN  /\ Current(o)
            /\ observer.gen = jgen
            /\ observer.mid # NoMessage => OpMid(o) # NoMessage
            /\ observer.mid = NoMessage /\ m # NoMessage =>
                  /\ gen = jgen => m \in DOMAIN source /\ Fits(source[m], o)
                  /\ m \in DOMAIN messages => Fits(messages[m], o)

EchoInv ==
    /\ GenInv /\ SourceInv /\ MessagesInv /\ BoundInv /\ SettledInv
    /\ ClaimInv /\ ClaimedOnce /\ LookInv
    /\ observer.epoch <= epoch
    /\ EchoDelay <= Window => MistakenFirst
-----------------------------------------------------------------------------
(* Where no echo is stolen.                                                 *)

\* Echoes come within the window, other devices send other texts, and no epoch
\* ends.
Alone == /\ EchoDelay <= Window
         /\ \A r \in Requests : Text(r) \notin ForeignTexts
         /\ "reset" \notin FaultKinds /\ "replace" \notin FaultKinds

\* A row of another device.
Foreign(x) == x.op = NoOp => x.text \in ForeignTexts /\ x.content = NoContent

OwnRows ==
    /\ gen = 1 /\ epoch = 1 /\ jgen \in {0, 1}
    /\ \A m \in DOMAIN source : Foreign(source[m])
    /\ \A m \in DOMAIN messages : Foreign(messages[m])

\* Echoes come, and join, before the window closes.
Prompt == EchoDelay < Window /\ Joins \subseteq {TRUE}

\* A confirmed text claims the only row it has, and gets no other.
TextKept ==
    /\ \A m \in DOMAIN source : source[m].joined
    /\ \A r \in Requests : (TextOnly(r) /\ epochOf[r] = epoch /\ requests[r].mid # NoMessage) =>
         /\ requests[r].time + EchoDelay < now
         /\ \A m \in DOMAIN messages : messages[m].op = <<r, 0>> => m = requests[r].mid
         /\ gen = jgen => \A m \in DOMAIN source : source[m].op = <<r, 0>> => m = requests[r].mid

\* The echo of a text is claimed by no other operation.
TextEchoKept ==
    \A o \in Ops : (Current(o) /\ OpMid(o) # NoMessage) =>
        LET x == messages[OpMid(o)].op
        IN  x \in Ops /\ TextOnly(x[1]) /\ Current(x) => x = o
-----------------------------------------------------------------------------
(* How a step changes what is claimed.                                      *)

\* Operation o keeps its message and its boundary.
Still(o) == Current(o) /\ Keeps(At(requests[o[1]], o[2]), At(requests'[o[1]], o[2]))

\* It was not taken and has just been accepted or dispatched.
Fresh(o) ==
    /\ o \notin taken' /\ OpState(o)' \notin Final
    /\ OpMid(o)' = NoMessage /\ (Current(o) => OpMid(o) = NoMessage)
    /\ OpTime(o)' <= now /\ OpFloor(o)' <= Len(source)

\* It claims an imported message that bears what it sent and that no other
\* operation has; the one that caused the message has another.  A text claims
\* at the end of its window, in an ingestion.
Claims(o) ==
    LET m == OpMid(o)'
        x == messages'[m].op
    IN  /\ Current(o) /\ OpTime(o)' = OpTime(o) /\ OpFloor(o)' = OpFloor(o)
        /\ OpMid(o) = NoMessage /\ OpState(o)' # "queued"
        /\ m \in DOMAIN messages' /\ m # NoMessage /\ Fits(messages'[m], o)
        /\ \A p \in Ops \ {o} : Current(p)' => OpMid(p)' # m
        /\ EchoDelay <= Window /\ x \in Ops \ {o} /\ Current(x) => OpMid(x) # NoMessage
        /\ o[2] = 0 => /\ OpTime(o) + Window <= now /\ m = UniqueText(Imported, o[1])
                       /\ messages' = Imported /\ UNCHANGED source

EchoStep == \A o \in Ops : Current(o)' => Still(o) \/ Fresh(o) \/ Claims(o)

\* Imported messages stay, or nothing is left that could claim them.
Grows ==
    \/ \A m \in DOMAIN messages : m \in DOMAIN messages' /\ SameRow(messages'[m], messages[m])
    \/ \A o \in Ops : ~Current(o)'

\* What is proved of every step.
EchoNext == EchoInv' /\ EchoStep /\ Grows

\* No operation is the missing one.
LEMMA NoOpFacts == NoOp \notin Ops
  BY OpsFacts, SendsAssumption DEF NoOp

\* What an operation claims it keeps, and so does one that was taken its
\* boundary.
LEMMA StepFacts ==
    ASSUME EchoStep, NEW o \in Ops, Current(o)'
    PROVE  /\ OpMid(o)' # NoMessage => /\ Current(o) /\ OpTime(o)' = OpTime(o)
                                       /\ OpFloor(o)' = OpFloor(o)
                                       /\ OpMid(o)' = OpMid(o) \/ Claims(o)
           /\ o \in taken' =>
                 /\ Current(o) /\ OpTime(o)' = OpTime(o) /\ OpFloor(o)' = OpFloor(o)
                 /\ OpMid(o) # NoMessage => OpMid(o)' = OpMid(o)
  <1>1. Still(o) \/ Fresh(o) \/ Claims(o)
    BY DEF EchoStep
  <1>2. CASE Still(o)
    BY <1>2 DEF Still, Keeps, Carries, OpMid, OpTime, OpFloor
  <1>3. CASE Fresh(o)
    BY <1>3 DEF Fresh
  <1>4. CASE Claims(o)
    BY <1>4 DEF Claims
  <1> QED BY <1>1, <1>2, <1>3, <1>4

\* The claims stay consistent.
LEMMA ClaimsKeep ==
    ASSUME EchoInv, MessagesInv', EchoStep, Grows
    PROVE  /\ ClaimInv' /\ ClaimedOnce'
           /\ EchoDelay <= Window => MistakenFirst'
  <1>1. ClaimInv /\ ClaimedOnce /\ (EchoDelay <= Window => MistakenFirst)
    BY DEF EchoInv
  <1>2. ASSUME NEW o \in Ops, Current(o)', OpMid(o)' # NoMessage, ~Claims(o)
        PROVE  /\ Current(o) /\ OpMid(o)' = OpMid(o)
               /\ OpMid(o) \in DOMAIN messages /\ OpMid(o) \in DOMAIN messages'
               /\ SameRow(messages'[OpMid(o)], messages[OpMid(o)])
    <2>1. Current(o) /\ OpMid(o)' = OpMid(o)
      BY <1>2, StepFacts
    <2>2. OpMid(o) \in DOMAIN messages
      BY <1>1, <1>2, <2>1 DEF ClaimInv
    <2> QED BY <1>2, <2>1, <2>2 DEF Grows
  <1>3. ClaimInv'
    <2> SUFFICES ASSUME NEW o \in Ops, Current(o)', OpMid(o)' # NoMessage
                 PROVE  OpMid(o)' \in DOMAIN messages' /\ Fits(messages'[OpMid(o)'], o)
      BY DEF ClaimInv, Fits, FileOf
    <2>1. CASE Claims(o)
      BY <2>1 DEF Claims
    <2>2. CASE ~Claims(o)
      <3>1. /\ Current(o) /\ OpMid(o)' = OpMid(o) /\ OpMid(o) \in DOMAIN messages'
            /\ SameRow(messages'[OpMid(o)], messages[OpMid(o)])
        BY <1>2, <2>2
      <3>2. Fits(messages[OpMid(o)], o)
        BY <1>1, <3>1 DEF ClaimInv
      <3> QED BY <3>1, <3>2 DEF SameRow, Fits
    <2> QED BY <2>1, <2>2
  <1>4. ClaimedOnce'
    <2> SUFFICES ASSUME NEW o \in Ops, NEW p \in Ops, Current(o)', Current(p)',
                        OpMid(o)' = OpMid(p)', OpMid(o)' # NoMessage, o # p
                 PROVE  FALSE
      BY DEF ClaimedOnce
    <2>1. ~Claims(o) /\ ~Claims(p)
      BY DEF Claims
    <2> QED BY <1>1, <1>2, <2>1 DEF ClaimedOnce
  <1>5. ASSUME NEW x \in Ops, Current(x)', x \in taken'
        PROVE  Current(x) /\ (OpMid(x) # NoMessage => OpMid(x)' = OpMid(x))
    BY <1>5, StepFacts
  <1>6. ASSUME EchoDelay <= Window
        PROVE  MistakenFirst'
    <2> SUFFICES ASSUME NEW o \in Ops, NEW x \in Ops \ {o}, Current(o)', OpMid(o)' # NoMessage,
                        x = messages'[OpMid(o)'].op, Current(x)'
                 PROVE  OpMid(x)' \notin {NoMessage, OpMid(o)'}
      BY DEF MistakenFirst, Current, OpMid
    <2> DEFINE m == OpMid(o)'
    <2>1. m \in DOMAIN messages' /\ x \in Ops /\ x # o
      BY <1>3 DEF ClaimInv
    <2>2. x # NoOp => x \in taken'
      BY <2>1 DEF MessagesInv, Bears
    <2>3. x # NoOp
      BY <2>1, NoOpFacts
    <2>4. Current(x) /\ (OpMid(x) # NoMessage => OpMid(x)' = OpMid(x))
      BY <1>5, <2>2, <2>3
    <2>5. OpMid(x) # NoMessage /\ OpMid(x)' # m
      <3>1. CASE Claims(o)
        BY <1>6, <2>1, <2>4, <3>1 DEF Claims
      <3>2. CASE ~Claims(o)
        <4>1. Current(o) /\ OpMid(o) = m /\ messages[m].op = x
          BY <1>2, <3>2 DEF SameRow
        <4>2. OpMid(x) \notin {NoMessage, m}
          BY <1>1, <1>6, <2>1, <2>4, <4>1 DEF MistakenFirst
        <4> QED BY <2>4, <4>2
      <3> QED BY <3>1, <3>2
    <2> QED BY <2>4, <2>5
  <1> QED BY <1>3, <1>4, <1>6

\* An echo that was due stays so: what was taken keeps its boundary.
LEMMA DueKeeps ==
    ASSUME EchoStep, taken \subseteq taken', NEW m, NEW x, Bears(x), Due(m, x)
    PROVE  Due(m, x)'
  <1> SUFFICES ASSUME x.op \in Ops, Current(x.op)'
               PROVE  /\ m > OpFloor(x.op)'
                      /\ OpTime(x.op)' <= x.date + Skew
                      /\ x.date <= OpTime(x.op)' + EchoDelay
    BY DEF Due
  <1>1. x.op \in taken'
    BY NoOpFacts DEF Bears
  <1>2. Current(x.op) /\ OpTime(x.op)' = OpTime(x.op) /\ OpFloor(x.op)' = OpFloor(x.op)
    BY <1>1, StepFacts
  <1> QED BY <1>2 DEF Due

\* The rows of the source and the imported ones, when there is no new one.
LEMMA RowsKeep ==
    ASSUME EchoInv, EchoStep, UNCHANGED <<messages, jgen, gen, source>>,
           taken \subseteq taken', outbox' \subseteq taken',
           \A m \in DOMAIN source : source[m].op \notin outbox'
    PROVE  SourceInv' /\ MessagesInv'
  <1>1. SourceInv /\ MessagesInv
    BY DEF EchoInv
  <1>2. ASSUME NEW m, NEW x, Bears(x)
        PROVE  Bears(x)'
    BY <1>2 DEF Bears
  <1>3. ASSUME NEW m, NEW x, Bears(x), Due(m, x)
        PROVE  Due(m, x)'
    BY <1>3, DueKeeps
  <1>4. SourceInv'
    <2>1. \A m \in DOMAIN source : Bears(source[m])'
      BY <1>1, <1>2 DEF SourceInv
    <2>2. gen = jgen => \A m \in DOMAIN source : Due(m, source[m])'
      BY <1>1, <1>3 DEF SourceInv
    <2> QED BY <1>1, <2>1, <2>2 DEF SourceInv
  <1>5. MessagesInv'
    <2>1. \A m \in DOMAIN messages : Bears(messages[m])' /\ Due(m, messages[m])'
      BY <1>1, <1>2, <1>3 DEF MessagesInv
    <2> QED BY <1>1, <2>1 DEF MessagesInv
  <1> QED BY <1>4, <1>5

\* The numbers of an operation.
LEMMA RecordFacts ==
    ASSUME NEW o \in Ops, NEW v \in Request, Len(v.parts) = Len(NewRequest(o[1]).parts)
    PROVE  /\ At(v, o[2]).mid \in Nat /\ At(v, o[2]).time \in Nat /\ At(v, o[2]).floor \in Nat
           /\ At(v, o[2]).state \in PartState
  <1>1. o[1] \in Requests /\ o[2] \in PartsOf(o[1])
    BY OpsFacts
  <1>2. o[2] = 0 \/ o[2] \in 1..Len(v.parts)
    BY <1>1, PartsOfFacts
  <1>3. v.parts \in Seq(Part)
    BY DEF Request
  <1>4. SendStatus \subseteq PartState
    BY DEF SendStatus, PartState
  <1>5. CASE o[2] = 0
    BY <1>4, <1>5 DEF At, Request
  <1>6. CASE o[2] # 0
    <2>1. v.parts[o[2]] \in Part /\ At(v, o[2]) = v.parts[o[2]]
      BY <1>2, <1>3, <1>6 DEF At
    <2> QED BY <2>1 DEF Part
  <1> QED BY <1>5, <1>6

\* Boundaries do not move into the future.
LEMMA BoundsKeep ==
    ASSUME TypeOK, TypeOK', ShapeInv', EchoInv, EchoStep, now <= now',
           \/ gen' = jgen' => gen = jgen /\ Len(source) <= Len(source')
           \/ \A o \in Ops : ~Current(o)'
    PROVE  BoundInv'
  <1> SUFFICES ASSUME NEW o \in Ops, Current(o)'
               PROVE  /\ OpTime(o)' <= now'
                      /\ gen' = jgen' => OpFloor(o)' <= Len(source')
    BY DEF BoundInv
  <1>1. Still(o) \/ Fresh(o) \/ Claims(o)
    BY DEF EchoStep
  <1>2. \/ Current(o) /\ OpTime(o)' = OpTime(o) /\ OpFloor(o)' = OpFloor(o)
        \/ OpTime(o)' <= now /\ OpFloor(o)' <= Len(source)
    BY <1>1 DEF Still, Fresh, Claims, Keeps, Carries, OpTime, OpFloor
  <1>3. OpTime(o)' <= now /\ (gen = jgen => OpFloor(o)' <= Len(source))
    BY <1>2 DEF EchoInv, BoundInv
  <1>4. now \in Nat /\ now' \in Nat /\ Len(source) \in Nat /\ Len(source') \in Nat
    <2>1. source \in Seq(Row) /\ source' \in Seq(Row) /\ now \in Nat /\ now' \in Nat
      BY DEF TypeOK
    <2> QED BY <2>1
  <1>5. OpTime(o)' \in Nat /\ OpFloor(o)' \in Nat
    <2>1. o[1] \in Requests
      BY OpsFacts
    <2>2. requests'[o[1]] \in Request /\ Len(requests'[o[1]].parts) = Len(NewRequest(o[1]).parts)
      BY <2>1 DEF TypeOK, ShapeInv
    <2> QED BY <2>2, RecordFacts DEF OpTime, OpFloor
  <1> QED BY <1>3, <1>4, <1>5

\* What has ended or waits.
LEMMA SettledKeeps ==
    ASSUME TypeOK, EchoInv, EchoStep, NoBack
    PROVE  SettledInv'
  <1> SUFFICES ASSUME NEW o \in Ops, Current(o)'
               PROVE  /\ Settled(At(requests[o[1]], o[2]))'
                      /\ OpState(o)' = "queued" => OpMid(o)' = NoMessage
    BY DEF SettledInv
  <1>1. Still(o) \/ Fresh(o) \/ Claims(o)
    BY DEF EchoStep
  <1>2. CASE Still(o)
    <2>1. Accepted(o[1])
      BY <1>2, OpsFacts DEF Still, Current, Accepted, TypeOK
    <2>2. OpState(o)' = "queued" => OpState(o) = "queued"
      BY <2>1 DEF NoBack, Stage
    <2>3. OpMid(o)' = OpMid(o) /\ Settled(At(requests[o[1]], o[2]))'
      BY <1>2 DEF Still, Keeps, Carries, OpMid, EchoInv, SettledInv
    <2> QED BY <1>2, <2>2, <2>3 DEF Still, EchoInv, SettledInv
  <1>3. CASE Fresh(o)
    BY <1>3 DEF Fresh, Settled, OpState
  <1>4. CASE Claims(o)
    BY <1>4 DEF Claims, Settled, OpMid
  <1> QED BY <1>1, <1>2, <1>3, <1>4

\* All together.
LEMMA EchoKeeps ==
    ASSUME TypeOK, TypeOK', ShapeInv', EchoInv, EchoStep, NoBack, Grows,
           GenInv', SourceInv', MessagesInv', LookInv', observer'.epoch <= epoch', now <= now',
           \/ gen' = jgen' => gen = jgen /\ Len(source) <= Len(source')
           \/ \A o \in Ops : ~Current(o)'
    PROVE  EchoNext
  BY ClaimsKeep, BoundsKeep, SettledKeeps DEF EchoInv, EchoNext

\* What the observation thread found is still there.
LEMMA LookKeeps ==
    ASSUME TypeOK, ObserverInv, EchoInv, EchoStep, UNCHANGED <<epoch, observer, messages, jgen>>,
           \A o \in Ops : Current(o) => Current(o)',
           gen' = jgen' => /\ gen = jgen
                           /\ \A m \in DOMAIN source : /\ m \in DOMAIN source'
                                                        /\ source'[m].text = source[m].text
                                                        /\ source'[m].content = source[m].content
    PROVE  LookInv'
  <1> SUFFICES ASSUME observer.pc # "idle", observer.epoch = epoch
               PROVE  LookInv'
    BY DEF LookInv
  <1> DEFINE o == observer.op
  <1>1. o \in Ops /\ Current(o)
    BY DEF ObserverInv, EchoInv, LookInv
  <1>2. Current(o)'
    BY <1>1
  <1>3. OpMid(o) # NoMessage => OpMid(o)' # NoMessage
    <2>1. Still(o) \/ Fresh(o) \/ Claims(o)
      BY <1>1, <1>2 DEF EchoStep
    <2> QED BY <1>1, <2>1 DEF Still, Fresh, Claims, Keeps, Carries, OpMid
  <1> QED BY <1>2, <1>3 DEF EchoInv, LookInv, Fits

\* A step that claims nothing and is seen by no database.
LEMMA StillKeeps ==
    ASSUME OInv, OInv', NoBack, EchoInv,
           UNCHANGED <<epoch, epochOf, messages, jgen, gen, source, outbox, taken>>,
           readReady' => readReady, now <= now',
           \A r \in Requests : \A i \in PartsOf(r) : Keeps(At(requests[r], i), At(requests'[r], i)),
           UNCHANGED observer \/ observer' = Watching \/ (LookInv' /\ observer'.epoch <= epoch)
    PROVE  EchoNext
  <1>1. TypeOK /\ TypeOK' /\ ShapeInv' /\ ObserverInv
    BY DEF OInv, IInv
  <1>2. GenInv /\ SourceInv /\ observer.epoch <= epoch
    BY DEF EchoInv
  <1>3. EchoStep /\ \A o \in Ops : Current(o) => Current(o)'
    BY OpsFacts DEF EchoStep, Still, Current
  <1>4. GenInv'
    BY <1>2 DEF GenInv
  <1>5. SourceInv' /\ MessagesInv'
    BY <1>2, <1>3, RowsKeep DEF SourceInv
  <1>6. LookInv' /\ observer'.epoch <= epoch'
    <2>1. CASE UNCHANGED observer
      BY <1>1, <1>2, <1>3, <2>1, LookKeeps
    <2>2. CASE observer' = Watching
      BY <1>1, <2>2 DEF Watching, LookInv, TypeOK
    <2> QED BY <2>1, <2>2
  <1>7. Len(source) <= Len(source')
    <2>1. source \in Seq(Row)
      BY <1>1 DEF TypeOK
    <2> QED BY <2>1
  <1>8. Grows
    BY DEF Grows, SameRow
  <1> QED BY <1>1, <1>3, <1>4, <1>5, <1>6, <1>7, <1>8, EchoKeeps
-----------------------------------------------------------------------------
(* The steps that claim nothing.                                            *)

\* One request changes, or none does.
LEMMA OneStill ==
    ASSUME NEW r \in Requests, NEW w, requests'[r] = w,
           \A q \in Requests \ {r} : requests'[q] = requests[q],
           \A i \in PartsOf(r) : Keeps(At(requests[r], i), At(w, i))
    PROVE  \A q \in Requests : \A i \in PartsOf(q) : Keeps(At(requests[q], i), At(requests'[q], i))
  BY KeepsFacts

\* Flags, uploads and the clock.
LEMMA FlagsEcho ==
    ASSUME OInv, OInv', NoBack, EchoInv,
           \/ \E ready \in BOOLEAN : Probe(ready)
           \/ \E r \in Requests : RefuseSend(r)
           \/ IngestFails
           \/ \E f \in Files : ReplaceUpload(f)
           \/ FinishFails
           \/ Tick
           \/ UNCHANGED vars
    PROVE  EchoNext
  <1>1. UNCHANGED <<epoch, requests, epochOf, messages, jgen, gen, source, outbox, taken, observer>>
    BY DEF Probe, RefuseSend, IngestFails, ReplaceUpload, FinishFails, Tick, journal, outside, vars
  <1>2. readReady \in BOOLEAN /\ now \in Nat
    BY DEF OInv, IInv, TypeOK
  <1>3. readReady' => readReady
    BY <1>2, Zenon DEF Probe, RefuseSend, IngestFails, ReplaceUpload, FinishFails, Tick, core, vars
  <1>4. now' = now \/ now' = now + 1
    BY Zenon DEF Probe, RefuseSend, IngestFails, ReplaceUpload, FinishFails, Tick, outside, vars
  <1>5. now <= now'
    BY <1>2, <1>4
  <1>6. \A r \in Requests : \A i \in PartsOf(r) : Keeps(At(requests[r], i), At(requests'[r], i))
    BY <1>1, KeepsFacts
  <1> QED BY <1>1, <1>3, <1>5, <1>6, StillKeeps

\* The file of an operation is the one it was submitted with.
LEMMA FileKept ==
    ASSUME TypeOK, ShapeInv, FilesInv, NEW o \in Ops
    PROVE  OpFile(o) = FileOf(o)
  <1>1. o[1] \in Requests /\ o[2] \in PartsOf(o[1])
    BY OpsFacts
  <1>2. FilesKept(NewRequest(o[1]), requests[o[1]])
    BY <1>1 DEF FilesInv
  <1>3. o[2] # 0 => o[2] \in 1..Len(NewRequest(o[1]).parts)
    BY <1>1, PartsOfFacts
  <1> QED BY <1>2, <1>3 DEF OpFile, FileOf, FilesKept

\* Observation, outside the lock: what it finds for a part without a message
\* bears the part's file.
LEMMA LookEcho ==
    ASSUME OInv, OInv', NoBack, EchoInv,
           \/ \E r \in Requests : \E i \in PartsOf(r) : ObservePrepare(r, i)
           \/ ObserveLook
           \/ ObserveNothing
    PROVE  EchoNext
  <1>1. UNCHANGED <<epoch, requests, epochOf, messages, jgen, gen, source, outbox, taken, readReady, now>>
    BY DEF ObservePrepare, ObserveLook, ObserveNothing, journal, core, outside
  <1>2. /\ readReady \in BOOLEAN /\ now \in Nat /\ epoch \in Nat /\ source \in Seq(Row)
        /\ DOMAIN messages \subseteq Nat \ {0}
        /\ IInv /\ FilesInv /\ TypeOK /\ ShapeInv /\ ObserverInv
    BY DEF OInv, IInv, TypeOK
  <1>3. LookInv /\ observer.epoch <= epoch /\ MessagesInv
    BY DEF EchoInv
  <1>4. LookInv' /\ observer'.epoch <= epoch
    <2>1. ASSUME NEW r \in Requests, NEW i \in PartsOf(r), ObservePrepare(r, i)
          PROVE  LookInv' /\ observer'.epoch <= epoch
      <3>1. /\ observer'.pc = "looking" /\ observer'.epoch = epoch /\ observer'.gen = jgen
            /\ observer'.op = <<r, i>> /\ observer'.mid = requests[r].parts[i].mid
            /\ observer'.cand = NoMessage /\ epochOf[r] = epoch /\ i # 0
        BY <2>1 DEF ObservePrepare
      <3>2. Current(observer'.op) /\ observer'.mid = OpMid(observer'.op)
        BY <3>1 DEF Current, OpMid, At
      <3> QED BY <1>1, <1>2, <3>1, <3>2 DEF LookInv, Current, OpMid, NoMessage
    <2>2. CASE ObserveNothing
      <3>1. /\ observer'.op = observer.op /\ observer'.epoch = observer.epoch
            /\ observer'.gen = observer.gen /\ observer'.mid = observer.mid
            /\ observer'.cand = observer.cand /\ observer.pc = "looking"
        BY <1>2, <2>2 DEF ObserveNothing, TypeOK
      <3> SUFFICES ASSUME observer.epoch = epoch
                   PROVE  LookInv'
        BY <1>1, <1>3, <3>1 DEF LookInv
      <3>2. Current(observer.op)' <=> Current(observer.op)
        BY <1>1, <3>1 DEF Current
      <3>3. OpMid(observer.op)' = OpMid(observer.op)
        BY <1>1, <3>1 DEF OpMid
      <3> QED BY <1>1, <1>3, <3>1, <3>2, <3>3 DEF LookInv, Fits
    <2>3. CASE ObserveLook
      <3> DEFINE o == observer.op
                 m == observer'.cand
      <3>1. /\ observer'.pc = "found" /\ observer'.op = o /\ observer'.epoch = observer.epoch
            /\ observer'.gen = observer.gen /\ observer'.mid = observer.mid
            /\ observer.pc = "looking"
        BY <2>3 DEF ObserveLook
      <3>2. (observer.mid = NoMessage /\ m # NoMessage) => observer.gen = gen /\ m = UniqueEcho(o)
        BY <2>3 DEF ObserveLook
      <3> HIDE DEF m
      <3>3. ASSUME observer.mid = NoMessage, m # NoMessage, observer.epoch = epoch
            PROVE  /\ m \in DOMAIN source /\ Fits(source[m], o)
                   /\ m \in DOMAIN messages => Fits(messages[m], o)
        <4>1. observer.gen = gen /\ observer.gen = jgen /\ m \in Echoes(o)
          BY <1>3, <3>1, <3>2, <3>3, OneElement DEF UniqueEcho, LookInv
        <4>2. o \in Ops
          BY <1>2, <3>1 DEF ObserverInv
        <4>3. OpFile(o) = FileOf(o)
          BY <1>2, <4>2, FileKept
        <4>4. m \in DOMAIN source /\ Fits(source[m], o)
          BY <1>2, <4>1, <4>3 DEF Echoes, Nearby, Fits
        <4>5. m \in DOMAIN messages => /\ messages[m].text = source[m].text
                                       /\ messages[m].content = source[m].content
          BY <1>3, <4>1 DEF MessagesInv, SameRow
        <4> QED BY <4>4, <4>5 DEF Fits
      <3>4. SUFFICES ASSUME observer.epoch = epoch
                     PROVE  LookInv'
        BY <1>1, <1>3, <3>1 DEF LookInv
      <3>5. /\ Current(o) /\ observer.gen = jgen
            /\ observer.mid # NoMessage => OpMid(o) # NoMessage
        BY <1>3, <3>1, <3>4 DEF LookInv
      <3>6. Current(o)' /\ (observer.mid # NoMessage => OpMid(o)' # NoMessage)
        BY <1>1, <3>5, <3>1 DEF Current, OpMid, ObserveLook
      <3> QED BY <1>1, <3>1, <3>3, <3>4, <3>5, <3>6 DEF LookInv, Fits, m
    <2> QED BY <2>1, <2>2, <2>3
  <1>5. \A r \in Requests : \A i \in PartsOf(r) : Keeps(At(requests[r], i), At(requests'[r], i))
    BY <1>1, KeepsFacts
  <1>6. now <= now'
    BY <1>1, <1>2
  <1> QED BY <1>1, <1>4, <1>5, <1>6, StillKeeps

\* Journal.recover.
LEMMA RecoverStill ==
    ASSUME TypeOK, ShapeInv, Recover
    PROVE  \A r \in Requests : \A i \in PartsOf(r) : Keeps(At(requests[r], i), At(requests'[r], i))
  <1> DEFINE S == {q \in Requests : epochOf[q] # 0 /\ requests[q].state = "dispatching"}
             new == [r \in S |-> Recovered(r)]
  <1>1. \A r \in S : Recovered(r) \in Request
    BY InterruptionsQuiet DEF QuietChange, Reshaped
  <1>2. DOMAIN new = S /\ (\A r \in S : new[r] = Recovered(r)) /\ S \in SUBSET Requests
        /\ UpdateRequests(new)
    BY DEF Recover
  <1> HIDE DEF S, new
  <1>3. /\ \A r \in S : requests'[r] = Recovered(r)
        /\ \A r \in Requests \ S : requests'[r] = requests[r]
    BY <1>1, <1>2, UpdateFacts
  <1>4. ASSUME NEW r \in Requests, NEW i \in PartsOf(r)
        PROVE  Keeps(At(requests[r], i), At(Recovered(r), i))
    <2> DEFINE v == requests[r]
    <2>1. /\ v \in Request /\ (TextOnly(r) <=> i = 0)
          /\ ~TextOnly(r) => i \in 1..Len(v.parts)
      BY <1>4, RequestFacts
    <2>2. "unknown" \in SendStatus /\ "uncertain" \in ErrorInfo
      BY DEF SendStatus, ErrorInfo
    <2> HIDE DEF v
    <2>3. CASE TextOnly(r)
      <3>1. Recovered(r) = End(v, "unknown", "uncertain")
        BY <2>3 DEF Recovered, v
      <3>2. Carries(v, End(v, "unknown", "uncertain"))
        BY <2>1, RequestAssignments
      <3>3. End(v, "unknown", "uncertain").state = "unknown"
        BY <2>1, <2>2, EndRequest
      <3>4. Keeps(v, Recovered(r))
        BY <3>1, <3>2, <3>3 DEF Keeps, Settled, Final
      <3> QED BY <2>1, <2>3, <3>4 DEF At, v
    <2>4. CASE ~TextOnly(r)
      <3> DEFINE x == Interrupt(v, FALSE)
      <3>1. Recovered(r) = End(x, "unknown", "uncertain")
        BY <2>4 DEF Recovered, v
      <3>2. x \in Request /\ Keeps(v.parts[i], x.parts[i])
        BY <2>1, <2>4, InterruptFacts, InterruptKeeps
      <3> HIDE DEF x
      <3>3. Recovered(r).parts = x.parts
        BY <2>2, <3>1, <3>2, EndRequest
      <3> QED BY <2>1, <2>4, <3>2, <3>3 DEF At, v
    <2> QED BY <2>3, <2>4
  <1> QED BY <1>2, <1>3, <1>4, KeepsFacts

\* Recovery, in the loop and at start.
LEMMA RecoverEcho ==
    ASSUME OInv, OInv', NoBack, EchoInv, RecoverSends \/ Crash
    PROVE  EchoNext
  <1>1. /\ UNCHANGED <<epoch, epochOf, messages, jgen, gen, source, outbox, taken, now>>
        /\ Recover /\ (UNCHANGED readReady \/ readReady' = FALSE)
        /\ UNCHANGED observer \/ observer' = Watching
    BY DEF RecoverSends, Crash, outside
  <1>2. TypeOK /\ ShapeInv /\ now \in Nat
    BY DEF OInv, IInv, TypeOK
  <1>3. now <= now'
    BY <1>1, <1>2
  <1> QED BY <1>1, <1>2, <1>3, RecoverStill, StillKeeps

\* rejectQueued: what is rejected was not started.
LEMMA RejectEcho ==
    ASSUME OInv, OInv', NoBack, EchoInv, NEW r \in Requests, NEW i \in PartsOf(r), RejectQueued(r, i)
    PROVE  EchoNext
  <1> DEFINE v == requests[r]
             x == Start(v, i, v.parts[i].time, v.parts[i].floor)
             w == IF TextOnly(r) THEN End(v, "failed", "unstarted")
                                 ELSE Finish(x, i, "unstarted")
  <1>1. /\ UNCHANGED <<epoch, epochOf, messages, jgen, gen, source, outbox, taken, now, observer,
                       readReady>>
        /\ UpdateRequest(r, w)
    BY DEF RejectQueued, core, outside
  <1>2. TypeOK /\ ShapeInv /\ now \in Nat
    BY DEF OInv, IInv, TypeOK
  <1>3. /\ v \in Request /\ \A k \in PartsOf(r) : TextOnly(r) <=> k = 0
        /\ \A k \in PartsOf(r) : ~TextOnly(r) => k \in 1..Len(v.parts)
        /\ \A k \in 1..Len(v.parts) : v.parts[k] \in Part
    BY <1>2, RequestFacts
  <1> HIDE DEF v
  <1>4. w \in Request /\ \A k \in PartsOf(r) : Keeps(At(v, k), At(w, k))
    <2>1. CASE TextOnly(r)
      <3>1. "failed" \in SendStatus /\ "unstarted" \in ErrorInfo
        BY DEF SendStatus, ErrorInfo
      <3>2. w \in Request /\ w.err = "unstarted" /\ Carries(v, w)
        BY <1>3, <2>1, <3>1, EndRequest, RequestAssignments
      <3> HIDE DEF w
      <3> QED BY <1>3, <2>1, <3>2 DEF Keeps, Settled, At
    <2>2. CASE ~TextOnly(r)
      <3> DEFINE p == v.parts[i]
      <3>1. i \in 1..Len(v.parts) /\ p \in Part
        BY <1>3, <2>2
      <3>2. p.time \in Nat /\ p.floor \in Nat
        BY <3>1 DEF Part
      <3>3. x = Start(v, i, p.time, p.floor) /\ w = Finish(x, i, "unstarted")
        BY <2>2
      <3> HIDE DEF x, w, p
      <3>4. /\ x \in Request /\ Len(x.parts) = Len(v.parts)
            /\ x.parts[i].state = "dispatching" /\ x.parts[i].mid = v.parts[i].mid
            /\ \A k \in 1..Len(v.parts) : k # i => x.parts[k] = v.parts[k]
            /\ x.parts[i].time = p.time /\ x.parts[i].floor = p.floor
        <4>1. x.parts[i].time = p.time /\ x.parts[i].floor = p.floor
          BY <1>3, <3>1, <3>2, <3>3, StartKeeps
        <4> QED BY <1>3, <3>1, <3>2, <3>3, <4>1, StartFacts
      <3>5. \A k \in 1..Len(v.parts) : Keeps(v.parts[k], x.parts[k])
        BY <3>4, KeepsFacts DEF Keeps, Carries, Settled, Final, p
      <3>6. w \in Request /\ \A k \in 1..Len(v.parts) : Keeps(x.parts[k], w.parts[k])
        BY <3>1, <3>3, <3>4, FinishFacts, FinishKeeps
      <3>7. \A k \in PartsOf(r) : Keeps(v.parts[k], w.parts[k])
        BY <1>3, <2>2, <3>5, <3>6, KeepsFacts
      <3> QED BY <1>3, <2>2, <3>6, <3>7 DEF At
    <2> QED BY <2>1, <2>2
  <1> HIDE DEF w
  <1>5. requests'[r] = w /\ \A q \in Requests \ {r} : requests'[q] = requests[q]
    BY <1>1, <1>2, <1>4, UpdateOne
  <1>6. \A q \in Requests : \A k \in PartsOf(q) : Keeps(At(requests[q], k), At(requests'[q], k))
    BY <1>4, <1>5, OneStill DEF v
  <1>7. now <= now'
    BY <1>1, <1>2
  <1> QED BY <1>1, <1>6, <1>7, StillKeeps

\* dispatchOne after the call.
LEMMA ResultEcho ==
    ASSUME OInv, OInv', NoBack, EchoInv, FinishSend
    PROVE  EchoNext
  <1> DEFINE r == sender.op[1]
             i == sender.op[2]
             v == requests[r]
             w == SendResult(r, i)
             out == sender.outcome
  <1>1. /\ UNCHANGED <<epoch, epochOf, messages, jgen, gen, source, outbox, taken, now, observer,
                       readReady>>
        /\ sender.pc = "returned"
        /\ UNCHANGED requests \/ (sender.epoch = epoch /\ UpdateRequest(r, w))
    BY DEF FinishSend, core, outside
  <1>2. TypeOK /\ ShapeInv /\ now \in Nat /\ SenderInv
    BY DEF OInv, IInv, TypeOK
  <1>3. /\ r \in Requests /\ i \in PartsOf(r)
        /\ out \in {"invoked", "unstarted", "uncertain"}
        /\ (sender.epoch = epoch /\ TextOnly(r)) => v = sender.work
    BY <1>1, <1>2, OpsFacts DEF SenderInv, TypeOK
  <1>4. now <= now'
    BY <1>1, <1>2
  <1>5. CASE UNCHANGED requests
    <2>1. \A q \in Requests : \A k \in PartsOf(q) : Keeps(At(requests[q], k), At(requests'[q], k))
      BY <1>5, KeepsFacts
    <2> QED BY <1>1, <1>4, <2>1, StillKeeps
  <1>6. CASE sender.epoch = epoch /\ UpdateRequest(r, w)
    <2>1. /\ v \in Request /\ \A k \in PartsOf(r) : TextOnly(r) <=> k = 0
          /\ \A k \in PartsOf(r) : ~TextOnly(r) => k \in 1..Len(v.parts)
      BY <1>2, <1>3, RequestFacts
    <2>2. TextOnly(r) => v = sender.work
      BY <1>3, <1>6
    <2>3. w = IF TextOnly(r) THEN TextResult(v, out) ELSE Finish(v, i, out)
      BY <2>2 DEF SendResult
    <2> HIDE DEF out, v, w
    <2>4. w \in Request /\ \A k \in PartsOf(r) : Keeps(At(v, k), At(w, k))
      <3>1. CASE TextOnly(r)
        <4>1. {"failed", "unknown"} \subseteq SendStatus
              /\ {"unstarted", "uncertain"} \subseteq ErrorInfo
          BY DEF SendStatus, ErrorInfo
        <4>2. w = IF out = "unstarted" THEN End(v, "failed", "unstarted")
                                       ELSE End(v, "unknown", "uncertain")
          BY <2>3, <3>1 DEF TextResult
        <4>3. w \in Request /\ Carries(v, w) /\ (w.err = "unstarted" \/ w.state = "unknown")
          <5>1. /\ End(v, "failed", "unstarted") \in Request
                /\ End(v, "failed", "unstarted").err = "unstarted"
            BY <2>1, <4>1, EndRequest
          <5>2. /\ End(v, "unknown", "uncertain") \in Request
                /\ End(v, "unknown", "uncertain").state = "unknown"
            BY <2>1, <4>1, EndRequest
          <5>3. Carries(v, End(v, "failed", "unstarted"))
            BY <2>1, RequestAssignments
          <5>4. Carries(v, End(v, "unknown", "uncertain"))
            BY <2>1, RequestAssignments
          <5> QED BY <4>2, <5>1, <5>2, <5>3, <5>4
        <4>4. Keeps(v, w)
          BY <4>3 DEF Keeps, Settled, Final
        <4> QED BY <2>1, <3>1, <4>3, <4>4 DEF At
      <3>2. CASE ~TextOnly(r)
        <4>1. i \in 1..Len(v.parts) /\ w = Finish(v, i, out)
          BY <1>3, <2>1, <2>3, <3>2
        <4>2. w \in Request /\ \A k \in 1..Len(v.parts) : Keeps(v.parts[k], w.parts[k])
          BY <1>3, <2>1, <4>1, FinishFacts, FinishKeeps
        <4> QED BY <2>1, <3>2, <4>2 DEF At
      <3> QED BY <3>1, <3>2
    <2>5. requests'[r] = w /\ \A q \in Requests \ {r} : requests'[q] = requests[q]
      BY <1>2, <1>3, <1>6, <2>4, UpdateOne
    <2> HIDE DEF r, i
    <2>6. \A q \in Requests : \A k \in PartsOf(q) : Keeps(At(requests[q], k), At(requests'[q], k))
      BY <1>3, <2>4, <2>5, OneStill DEF v
    <2> QED BY <1>1, <1>4, <2>6, StillKeeps
  <1> QED BY <1>1, <1>5, <1>6

\* A step of the relay that begins something, with the rows as they are.
LEMMA BeginsKeeps ==
    ASSUME OInv, OInv', NoBack, EchoInv, EchoStep, GenInv',
           UNCHANGED <<epoch, messages, jgen, gen, source, now, observer>>,
           taken \subseteq taken', outbox' \subseteq taken',
           \A m \in DOMAIN source : source[m].op \notin outbox',
           \A o \in Ops : Current(o) => Current(o)'
    PROVE  EchoNext
  <1>1. TypeOK /\ TypeOK' /\ ShapeInv' /\ ObserverInv
    BY DEF OInv, IInv
  <1>2. observer.epoch <= epoch /\ now \in Nat /\ source \in Seq(Row)
    BY <1>1 DEF EchoInv, TypeOK
  <1>3. SourceInv' /\ MessagesInv'
    BY RowsKeep
  <1>4. LookInv' /\ observer'.epoch <= epoch'
    BY <1>1, <1>2, LookKeeps
  <1>5. Len(source) <= Len(source') /\ now <= now'
    BY <1>2
  <1>6. Grows
    BY DEF Grows, SameRow
  <1> QED BY <1>1, <1>3, <1>4, <1>5, <1>6, EchoKeeps

\* The automation call: nothing has the row of an operation yet to be taken.
LEMMA InvokeEcho ==
    ASSUME OInv, OInv', NoBack, EchoInv,
           NEW outcome \in {"invoked", "unstarted", "uncertain"}, NEW took \in BOOLEAN,
           Invoke(outcome, took)
    PROVE  EchoNext
  <1>1. /\ UNCHANGED <<epoch, requests, epochOf, messages, jgen, gen, source, now, observer, readReady>>
        /\ sender.pc = "prepared"
        /\ \/ UNCHANGED <<taken, outbox>>
           \/ taken' = taken \cup {sender.op} /\ outbox' = outbox \cup {sender.op}
    BY DEF Invoke, journal, core
  <1>2. sender.op \in Ops /\ sender.op \notin taken
    BY <1>1 DEF OInv, IInv, SenderInv, CallInv
  <1>3. GenInv /\ SourceInv
    BY DEF EchoInv
  <1>4. \A m \in DOMAIN source : source[m].op # sender.op
    BY <1>2, <1>3, NoOpFacts DEF SourceInv, Bears
  <1>5. taken \subseteq taken' /\ outbox' \subseteq taken'
        /\ \A m \in DOMAIN source : source[m].op \notin outbox'
    BY <1>1, <1>3, <1>4 DEF SourceInv
  <1>6. EchoStep /\ \A o \in Ops : Current(o) => Current(o)'
    BY <1>1, KeepsFacts DEF EchoStep, Still, Current
  <1>7. GenInv'
    BY <1>1, <1>3 DEF GenInv
  <1> QED BY <1>1, <1>5, <1>6, <1>7, BeginsKeeps

\* What was just accepted has neither message nor boundary.
LEMMA NewRequestBlank ==
    ASSUME NEW r \in Requests, NEW i \in PartsOf(r)
    PROVE  /\ At(NewRequest(r), i).mid = NoMessage
           /\ At(NewRequest(r), i).time = 0 /\ At(NewRequest(r), i).floor = 0
  <1> DEFINE files == Payload[r].files
             Q == {NewPart(f) : f \in Files \cup {NoFile}}
             list == [k \in 1..Len(files) |-> NewPart(files[k])]
             caption == IF Text(r) # NoText THEN <<NewPart(NoFile)>> ELSE <<>>
             s == NewRequest(r).parts
  <1>1. files \in Seq(Files)
    BY SendsAssumption
  <1>2. s = IF files = <<>> THEN <<>> ELSE caption \o list
    BY DEF NewRequest, InitParts
  <1>3. \A x \in Q : x.mid = NoMessage /\ x.time = 0 /\ x.floor = 0
    BY DEF NewPart
  <1>4. caption \in Seq(Q)
    <2>1. NewPart(NoFile) \in Q
      OBVIOUS
    <2> HIDE DEF Q
    <2> QED BY <2>1
  <1>5. list \in Seq(Q)
    <2>1. list \in [1..Len(files) -> Q] /\ Len(files) \in Nat
      BY <1>1
    <2> HIDE DEF Q, list, files
    <2> QED BY <2>1
  <1> HIDE DEF Q, list, caption
  <1>6. s \in Seq(Q)
    BY <1>2, <1>4, <1>5
  <1>7. i = 0 => At(NewRequest(r), i).mid = NoMessage
                 /\ At(NewRequest(r), i).time = 0 /\ At(NewRequest(r), i).floor = 0
    BY DEF At, NewRequest
  <1> HIDE DEF s
  <1>8. i # 0 => i \in 1..Len(s) /\ At(NewRequest(r), i) = s[i]
    BY PartsOfFacts DEF At, s
  <1>9. i # 0 => At(NewRequest(r), i) \in Q
    BY <1>6, <1>8
  <1> QED BY <1>3, <1>7, <1>9

\* A request is accepted.
LEMMA AcceptEcho ==
    ASSUME OInv, OInv', NoBack, EchoInv, NEW r \in Requests, Accept(r)
    PROVE  EchoNext
  <1>1. /\ UNCHANGED <<epoch, messages, jgen, gen, source, now, observer, readReady, taken, outbox>>
        /\ epochOf[r] = 0 /\ readReady
        /\ epochOf' = [epochOf EXCEPT ![r] = epoch]
        /\ requests' = [requests EXCEPT ![r] = NewRequest(r)]
    BY DEF Accept, core, outside
  <1>2. /\ TypeOK /\ ShapeInv /\ CallInv
        /\ epoch \in Nat \ {0} /\ now \in Nat /\ source \in Seq(Row)
        /\ requests \in [Requests -> Request] /\ epochOf \in [Requests -> Nat]
    BY DEF OInv, IInv, TypeOK
  <1>3. GenInv /\ SourceInv
    BY DEF EchoInv
  <1>4. /\ requests[r] = NewRequest(r) /\ requests' = requests
        /\ epochOf'[r] = epoch /\ \A q \in Requests \ {r} : epochOf'[q] = epochOf[q]
    BY <1>1, <1>2 DEF ShapeInv
  <1>5. ASSUME NEW o \in Ops, Current(o)'
        PROVE  Still(o) \/ Fresh(o)
    <2>1. o[1] \in Requests /\ o[2] \in PartsOf(o[1])
      BY OpsFacts
    <2>2. CASE o[1] = r
      <3>1. /\ OpState(o) = "queued" /\ OpMid(o) = NoMessage /\ OpTime(o) = 0 /\ OpFloor(o) = 0
        BY <1>4, <2>1, <2>2, NewRequestFacts, NewRequestBlank DEF OpState, OpMid, OpTime, OpFloor
      <3>2. /\ OpState(o)' = OpState(o) /\ OpMid(o)' = OpMid(o)
            /\ OpTime(o)' = OpTime(o) /\ OpFloor(o)' = OpFloor(o)
        BY <1>4 DEF OpState, OpMid, OpTime, OpFloor
      <3>3. o \notin taken'
        BY <1>1, <1>2, <3>1 DEF CallInv
      <3>4. 0 <= now /\ 0 <= Len(source)
        BY <1>2
      <3> QED BY <3>1, <3>2, <3>3, <3>4 DEF Fresh, Final
    <2>3. CASE o[1] # r
      <3>1. Current(o)
        BY <1>1, <1>4, <1>5, <2>1, <2>3 DEF Current
      <3>2. At(requests'[o[1]], o[2]) = At(requests[o[1]], o[2])
        BY <1>4
      <3> QED BY <3>1, <3>2, KeepsFacts DEF Still
    <2> QED BY <2>2, <2>3
  <1>6. EchoStep
    BY <1>5 DEF EchoStep
  <1>7. \A o \in Ops : Current(o) => Current(o)'
    BY <1>1, <1>4, OpsFacts DEF Current
  <1>8. GenInv'
    BY <1>1, <1>2, <1>3, <1>4 DEF GenInv
  <1> QED BY <1>1, <1>3, <1>6, <1>7, <1>8, BeginsKeeps DEF SourceInv

\* The durable mark, with the boundary.
LEMMA PrepareEcho ==
    ASSUME OInv, OInv', NoBack, EchoInv, NEW r \in Requests, NEW i \in PartsOf(r), PrepareSend(r, i)
    PROVE  EchoNext
  <1> DEFINE v == requests[r]
             w == Dispatching(r, i)
             o == <<r, i>>
  <1>1. /\ UNCHANGED <<epoch, epochOf, messages, jgen, gen, source, now, observer, readReady,
                       taken, outbox>>
        /\ OldestQueued(r) /\ NextOp(r, i) /\ epochOf[r] = epoch
        /\ UpdateRequest(r, w)
    BY DEF PrepareSend, MayDispatch, core, outside
  <1>2. /\ IInv /\ TypeOK /\ ShapeInv /\ CallInv
        /\ now \in Nat /\ source \in Seq(Row)
    BY DEF OInv, IInv, TypeOK
  <1>3. GenInv /\ SourceInv /\ SettledInv
    BY DEF EchoInv
  <1>4. o \in Ops /\ Current(o) /\ OpState(o) = "queued"
    BY <1>1, <1>2, OpsFacts, NextOpQueued DEF Current
  <1>5. o \notin taken /\ OpMid(o) = NoMessage
    BY <1>2, <1>3, <1>4 DEF CallInv, SettledInv
  <1>6. /\ v \in Request /\ \A k \in PartsOf(r) : TextOnly(r) <=> k = 0
        /\ \A k \in PartsOf(r) : ~TextOnly(r) => k \in 1..Len(v.parts)
    BY <1>2, RequestFacts
  <1>7. w \in Request /\ At(w, i).state = "dispatching" /\ Begun(r, i, v, w)
    BY <1>2, DispatchingFacts DEF SendChange, Reshaped
  <1>8. At(w, i).mid = At(v, i).mid /\ At(w, i).time = now /\ At(w, i).floor = Len(source)
    <2>1. Len(source) \in Nat
      BY <1>2
    <2> HIDE DEF v
    <2>2. CASE TextOnly(r)
      <3>1. w = Mark(v, now, Len(source)) /\ i = 0
        BY <1>6, <2>2 DEF Dispatching, v
      <3> QED BY <1>6, <3>1 DEF Mark, Request, At
    <2>3. CASE ~TextOnly(r)
      <3>1. w = Start(v, i, now, Len(source)) /\ i \in 1..Len(v.parts) /\ i # 0
        BY <1>6, <2>3 DEF Dispatching, v
      <3> HIDE DEF w
      <3>2. w.parts[i].mid = v.parts[i].mid
        BY <1>2, <1>6, <2>1, <3>1, StartFacts
      <3>3. w.parts[i].time = now /\ w.parts[i].floor = Len(source)
        BY <1>2, <1>6, <2>1, <3>1, StartKeeps
      <3> QED BY <3>1, <3>2, <3>3 DEF At
    <2> QED BY <2>2, <2>3
  <1> HIDE DEF w
  <1>9. requests'[r] = w /\ \A q \in Requests \ {r} : requests'[q] = requests[q]
    BY <1>1, <1>2, <1>7, UpdateOne
  <1>10. ASSUME NEW p \in Ops, Current(p)'
         PROVE  Still(p) \/ Fresh(p)
    <2>1. p[1] \in Requests /\ p[2] \in PartsOf(p[1]) /\ p = <<p[1], p[2]>>
      BY OpsFacts
    <2>2. Current(p)
      BY <1>1, <1>10 DEF Current
    <2>3. CASE p = o
      <3>1. OpMid(p)' = NoMessage /\ OpState(p)' = "dispatching"
            /\ OpTime(p)' = now /\ OpFloor(p)' = Len(source)
        BY <1>5, <1>7, <1>8, <1>9, <2>3 DEF OpMid, OpState, OpTime, OpFloor
      <3>2. now <= now /\ Len(source) <= Len(source)
        BY <1>2
      <3> QED BY <1>1, <1>5, <2>3, <3>1, <3>2 DEF Fresh, Final
    <2>4. CASE p # o
      <3>1. At(requests'[p[1]], p[2]) = At(requests[p[1]], p[2])
        <4>1. CASE p[1] # r
          BY <1>9, <2>1, <4>1
        <4>2. CASE p[1] = r
          <5>1. p[2] # i /\ p[2] \in PartsOf(r)
            BY <2>1, <2>4, <4>2
          <5>2. ~TextOnly(r) /\ p[2] # 0 /\ p[2] \in 1..Len(v.parts)
            BY <1>6, <5>1
          <5> QED BY <1>7, <1>9, <4>2, <5>1, <5>2 DEF Begun, At
        <4> QED BY <4>1, <4>2
      <3> QED BY <2>2, <3>1, KeepsFacts DEF Still
    <2> QED BY <2>3, <2>4
  <1>11. EchoStep /\ \A p \in Ops : Current(p) => Current(p)'
    BY <1>1, <1>10 DEF EchoStep, Current
  <1>12. GenInv'
    BY <1>1, <1>3 DEF GenInv
  <1> QED BY <1>1, <1>3, <1>11, <1>12, BeginsKeeps DEF SourceInv
-----------------------------------------------------------------------------
(* Messages and other devices.                                              *)

\* The relay does nothing meanwhile.
LEMMA SourceKeeps ==
    ASSUME OInv, OInv', NoBack, EchoInv, GenInv', SourceInv', MessagesInv',
           UNCHANGED <<epoch, requests, epochOf, messages, jgen, observer, now>>,
           gen' = jgen' => /\ gen = jgen /\ Len(source) <= Len(source')
                           /\ \A m \in DOMAIN source : /\ m \in DOMAIN source'
                                                       /\ source'[m].text = source[m].text
                                                       /\ source'[m].content = source[m].content
    PROVE  EchoNext
  <1>1. TypeOK /\ TypeOK' /\ ShapeInv' /\ ObserverInv
    BY DEF OInv, IInv
  <1>2. observer.epoch <= epoch /\ now \in Nat
    BY <1>1 DEF EchoInv, TypeOK
  <1>3. EchoStep /\ \A o \in Ops : Current(o) => Current(o)'
    BY KeepsFacts DEF EchoStep, Still, Current
  <1>4. LookInv'
    BY <1>1, <1>3, LookKeeps
  <1>5. Grows
    BY DEF Grows, SameRow
  <1>6. observer'.epoch <= epoch' /\ now <= now'
    BY <1>2
  <1> QED BY <1>1, <1>3, <1>4, <1>5, <1>6, EchoKeeps

\* A row is written.
LEMMA AppendKeeps ==
    ASSUME OInv, OInv', NoBack, EchoInv, NEW x,
           UNCHANGED <<epoch, requests, epochOf, messages, jgen, gen, observer, now, readReady, taken>>,
           source' = Append(source, x), outbox' \subseteq outbox, x.op \notin outbox',
           Bears(x), gen = jgen => Due(Len(source) + 1, x),
           x.op # NoOp => \A m \in DOMAIN source : source[m].op # x.op
    PROVE  EchoNext
  <1>1. GenInv /\ SourceInv /\ MessagesInv /\ source \in Seq(Row) /\ source' \in Seq(Row)
    BY DEF EchoInv, OInv, IInv, TypeOK
  <1> DEFINE n == Len(source)
  <1>2. /\ Len(source') = n + 1 /\ n \in Nat /\ source'[n + 1] = x
        /\ \A m \in DOMAIN source : m \in DOMAIN source' /\ source'[m] = source[m]
        /\ \A m \in DOMAIN source' : m \in DOMAIN source \/ m = n + 1
        /\ n + 1 \notin DOMAIN source
    BY <1>1
  <1> HIDE DEF n
  <1>3. \A y : Bears(y)' <=> Bears(y)
    BY DEF Bears
  <1>4. \A m, y : Due(m, y)' <=> Due(m, y)
    BY DEF Due, Current, OpFloor, OpTime
  <1>5. SourceInv'
    <2>1. \A m \in DOMAIN source' : Bears(source'[m]) /\ source'[m].op \notin outbox'
      BY <1>1, <1>2 DEF SourceInv
    <2>2. gen = jgen => \A m \in DOMAIN source' : Due(m, source'[m])
      BY <1>1, <1>2 DEF SourceInv, n
    <2>3. OneRow(source)'
      BY <1>1, <1>2 DEF SourceInv, OneRow
    <2> QED BY <1>1, <1>3, <1>4, <2>1, <2>2, <2>3 DEF SourceInv, Bears, Due, Current, OpFloor, OpTime
  <1>6. MessagesInv'
    BY <1>1, <1>2, <1>3, <1>4 DEF MessagesInv, Bears, Due, Current, OpFloor, OpTime
  <1>7. GenInv'
    BY <1>1 DEF GenInv
  <1>8. Len(source) <= Len(source')
    BY <1>2 DEF n
  <1> QED BY <1>2, <1>5, <1>6, <1>7, <1>8, SourceKeeps

\* The row of an operation comes after its dispatch, and in time.
LEMMA InsertEchoKeeps ==
    ASSUME OInv, OInv', NoBack, EchoInv,
           NEW o \in outbox, NEW date \in RowDates, NEW joined \in Joins, InsertEcho(o, date, joined)
    PROVE  EchoNext
  <1> DEFINE c == IF OpFile(o) = NoFile THEN NoContent ELSE ContentOf[OpFile(o)]
             x == NewRow(OpText(o), c, date, joined, o)
  <1>1. /\ UNCHANGED <<epoch, requests, epochOf, messages, jgen, gen, observer, now, readReady, taken>>
        /\ outbox' = outbox \ {o} /\ source' = Append(source, x)
        /\ now <= OpTime(o) + EchoDelay
    BY DEF InsertEcho, journal, core
  <1>2. /\ TypeOK /\ ShapeInv /\ FilesInv /\ now \in Nat /\ source \in Seq(Row)
        /\ outbox \subseteq Ops /\ requests \in [Requests -> Request]
    BY DEF OInv, IInv, TypeOK
  <1>3. GenInv /\ SourceInv /\ BoundInv
    BY DEF EchoInv
  <1>4. o \in Ops /\ o \in taken /\ OpFile(o) = FileOf(o)
    BY <1>2, <1>3, FileKept DEF SourceInv
  <1>5. /\ x.op = o /\ x.date = date /\ x.content = c
        /\ x.text = IF FileOf(o) = NoFile THEN Text(o[1]) ELSE NoText
    BY <1>4 DEF NewRow, OpText
  <1>6. c = IF FileOf(o) = NoFile THEN NoContent ELSE ContentOf[FileOf(o)]
    BY <1>4
  <1> HIDE DEF x, c
  <1>7. Bears(x)
    BY <1>4, <1>5, <1>6 DEF Bears
  <1>8. ASSUME gen = jgen, Current(o)
        PROVE  /\ Len(source) + 1 > OpFloor(o)
               /\ OpTime(o) <= date + Skew /\ date <= OpTime(o) + EchoDelay
    <2>1. /\ OpTime(o) \in Nat /\ OpFloor(o) \in Nat /\ Len(source) \in Nat
          /\ EchoDelay \in Nat /\ Skew \in Nat
      <3>1. o[1] \in Requests
        BY <1>4, OpsFacts
      <3>2. requests[o[1]] \in Request /\ Len(requests[o[1]].parts) = Len(NewRequest(o[1]).parts)
        BY <1>2, <3>1 DEF ShapeInv
      <3>3. OpTime(o) \in Nat /\ OpFloor(o) \in Nat
        BY <1>4, <3>2, RecordFacts DEF OpTime, OpFloor
      <3> QED BY <1>2, <3>3, SendsAssumption
    <2>2. date \in Nat /\ date <= now /\ now <= date + Skew
      BY <1>2 DEF RowDates
    <2>3. OpTime(o) <= now /\ OpFloor(o) <= Len(source)
      BY <1>3, <1>4, <1>8 DEF BoundInv
    <2> QED BY <1>1, <1>2, <2>1, <2>2, <2>3
  <1>9. gen = jgen => Due(Len(source) + 1, x)
    BY <1>5, <1>8 DEF Due
  <1>10. \A m \in DOMAIN source : source[m].op # o
    BY <1>3 DEF SourceInv
  <1>11. outbox' \subseteq outbox /\ x.op \notin outbox'
    BY <1>1, <1>5
  <1>12. x.op # NoOp => \A m \in DOMAIN source : source[m].op # x.op
    BY <1>5, <1>10
  <1> QED BY <1>1, <1>7, <1>9, <1>11, <1>12, AppendKeeps

\* So is the row of another device.
LEMMA ForeignKeeps ==
    ASSUME OInv, OInv', NoBack, EchoInv, NEW text \in ForeignTexts, ForeignSend(text)
    PROVE  EchoNext
  <1> DEFINE x == NewRow(text, NoContent, now, TRUE, NoOp)
  <1>1. /\ UNCHANGED <<epoch, requests, epochOf, messages, jgen, gen, observer, now, readReady, taken,
                       outbox>>
        /\ source' = Append(source, x)
    BY DEF ForeignSend, journal, core
  <1>2. x.op = NoOp
    BY DEF NewRow
  <1>3. outbox \subseteq Ops
    BY DEF OInv, IInv, TypeOK
  <1> HIDE DEF x
  <1>4. Bears(x) /\ Due(Len(source) + 1, x)
    BY <1>2, NoOpFacts DEF Bears, Due
  <1>5. outbox' \subseteq outbox /\ x.op \notin outbox'
    BY <1>1, <1>2, <1>3, NoOpFacts
  <1> QED BY <1>1, <1>2, <1>4, <1>5, AppendKeeps

\* Every row keeps what it says, and stays joined.
Touched ==
    /\ DOMAIN source' = DOMAIN source /\ Len(source') = Len(source)
    /\ \A m \in DOMAIN source : /\ SameRow(source'[m], source[m])
                                /\ source[m].joined => source'[m].joined

\* A row is joined or gets another status.
LEMMA TouchRows ==
    ASSUME source \in Seq(Row),
           \/ \E m \in 1..Len(source) : JoinRow(m)
           \/ \E m \in 1..Len(source), status \in Receipts : ChangeStatus(m, status)
    PROVE  Touched
  <1>1. ASSUME NEW m \in 1..Len(source), NEW x \in Row, SameRow(x, source[m]),
               source[m].joined => x.joined, source' = [source EXCEPT ![m] = x]
        PROVE  Touched
    BY <1>1 DEF Touched, SameRow
  <1>2. ASSUME NEW m \in 1..Len(source), JoinRow(m)
        PROVE  Touched
    <2> DEFINE x == [source[m] EXCEPT !.joined = TRUE]
    <2>1. x \in Row /\ SameRow(x, source[m]) /\ x.joined
      <3>1. source[m] \in Row
        OBVIOUS
      <3> QED BY <3>1 DEF Row, SameRow
    <2>2. source' = [source EXCEPT ![m] = x]
      BY <1>2 DEF JoinRow
    <2> HIDE DEF x
    <2> QED BY <1>1, <2>1, <2>2
  <1>3. ASSUME NEW m \in 1..Len(source), NEW status \in Receipts, ChangeStatus(m, status)
        PROVE  Touched
    <2> DEFINE x == [source[m] EXCEPT !.status = status]
    <2>1. status \in {"delivered", "failed"}
      BY SendsAssumption
    <2>2. x \in Row /\ SameRow(x, source[m]) /\ x.joined = source[m].joined
      <3>1. source[m] \in Row
        OBVIOUS
      <3> QED BY <2>1, <3>1 DEF Row, SameRow
    <2>3. source' = [source EXCEPT ![m] = x]
      BY <1>3 DEF ChangeStatus
    <2> HIDE DEF x
    <2> QED BY <1>1, <2>2, <2>3
  <1> QED BY <1>2, <1>3

LEMMA TouchKeeps ==
    ASSUME OInv, OInv', NoBack, EchoInv,
           \/ \E m \in 1..Len(source) : JoinRow(m)
           \/ \E m \in 1..Len(source), status \in Receipts : ChangeStatus(m, status)
    PROVE  EchoNext
  <1>1. UNCHANGED <<epoch, requests, epochOf, messages, jgen, gen, observer, now, readReady, taken,
                    outbox>>
    BY DEF JoinRow, ChangeStatus, journal, core
  <1>2. GenInv /\ SourceInv /\ MessagesInv /\ source \in Seq(Row)
    BY DEF EchoInv, OInv, IInv, TypeOK
  <1>3. /\ DOMAIN source' = DOMAIN source /\ Len(source') = Len(source)
        /\ \A m \in DOMAIN source : /\ SameRow(source'[m], source[m])
                                    /\ source[m].joined => source'[m].joined
    BY <1>2, TouchRows DEF Touched
  <1>4. \A x, y : SameRow(x, y) => (Bears(x)' <=> Bears(y))
    BY <1>1 DEF Bears, SameRow
  <1>5. \A m, x, y : SameRow(x, y) => (Due(m, x)' <=> Due(m, y))
    BY <1>1 DEF Due, SameRow, Current, OpFloor, OpTime
  <1>6. SourceInv'
    <2>1. \A m \in DOMAIN source : Bears(source[m])'
      BY <1>2, <1>3, <1>4 DEF SourceInv
    <2>2. gen = jgen => \A m \in DOMAIN source : Due(m, source[m])'
      BY <1>2, <1>3, <1>5 DEF SourceInv
    <2>3. OneRow(source)'
      BY <1>2, <1>3 DEF SourceInv, OneRow, SameRow
    <2>4. \A m \in DOMAIN source : source'[m].op \notin outbox'
      BY <1>1, <1>2, <1>3 DEF SourceInv, SameRow
    <2> QED BY <1>1, <1>2, <1>3, <2>1, <2>2, <2>3, <2>4 DEF SourceInv
  <1>7. MessagesInv'
    BY <1>1, <1>2, <1>3, <1>4, <1>5 DEF MessagesInv, SameRow
  <1>8. GenInv'
    BY <1>1, <1>2 DEF GenInv
  <1>9. Len(source) <= Len(source')
    BY <1>2, <1>3
  <1> QED BY <1>1, <1>3, <1>6, <1>7, <1>8, <1>9, SourceKeeps DEF SameRow

\* Nothing is matched against another source before the next ingestion.
LEMMA ReplaceEcho ==
    ASSUME OInv, OInv', NoBack, EchoInv, ReplaceSource
    PROVE  EchoNext
  <1>1. /\ UNCHANGED <<epoch, requests, epochOf, messages, jgen, observer, now, readReady, taken,
                       outbox>>
        /\ gen' = gen + 1 /\ source' = <<>>
    BY DEF ReplaceSource, journal, core
  <1>2. GenInv /\ SourceInv /\ MessagesInv /\ gen \in Nat /\ jgen \in Nat
    BY DEF EchoInv, OInv, IInv, TypeOK
  <1>3. gen' # jgen' /\ gen' # 0 /\ jgen' <= gen'
    BY <1>1, <1>2 DEF GenInv
  <1>4. GenInv'
    BY <1>1, <1>2, <1>3 DEF GenInv
  <1>5. DOMAIN source' = {}
    BY <1>1
  <1>6. SourceInv'
    BY <1>1, <1>2, <1>3, <1>5 DEF SourceInv, OneRow
  <1>7. MessagesInv'
    BY <1>1, <1>2, <1>3 DEF MessagesInv, Bears, Due, Current, OpFloor, OpTime
  <1> QED BY <1>1, <1>3, <1>4, <1>6, <1>7, SourceKeeps
-----------------------------------------------------------------------------
(* The steps that claim.                                                    *)

\* An operation whose echo is M[m] and that has no message yet competes with
\* any other one that M[m] could be matched to.
LEMMA OwnerCompetes ==
    ASSUME OInv, EchoInv, EchoDelay <= Window, NEW M, NEW m, M[m] \in Row,
           NEW o \in Ops, NEW x \in Ops, M[m].op = x,
           Bears(M[m]), Due(m, M[m]), Fits(M[m], o), Current(x), OpMid(x) = NoMessage
    PROVE  /\ x \in Unclaimed /\ Competes(M, x, o, m)
           /\ OpFile(x) # NoFile => M[m].text = NoText
  <1>1. TypeOK /\ ShapeInv /\ FilesInv /\ CallInv /\ ErrorInv /\ SettledInv
    BY DEF OInv, IInv, EchoInv
  <1>2. OpFile(x) = FileOf(x) /\ OpFile(o) = FileOf(o)
    BY <1>1, FileKept
  <1>3. /\ x \in taken
        /\ M[m].text = IF FileOf(x) = NoFile THEN Text(x[1]) ELSE NoText
        /\ M[m].content = IF FileOf(x) = NoFile THEN NoContent ELSE ContentOf[FileOf(x)]
    BY NoOpFacts DEF Bears
  <1>4. x \in Unclaimed
    <2>1. OpState(x) # "queued" /\ OpErr(x) # "unstarted"
      BY <1>1, <1>3 DEF CallInv, ErrorInv
    <2>2. OpState(x) \notin Final
      BY <1>1, <2>1 DEF SettledInv, Settled, OpState, OpMid, OpErr
    <2>3. OpState(x) \in PartState
      BY <1>1, OpsFacts, StateFacts DEF OpState
    <2>4. OpState(x) \in InFlight
      BY <2>1, <2>2, <2>3 DEF PartState, Final, InFlight
    <2> QED BY <2>4 DEF Unclaimed, Current
  <1>5. InBoundary(x, m, M[m])
    <2>1. /\ m > OpFloor(x) /\ OpTime(x) <= M[m].date + Skew
          /\ M[m].date <= OpTime(x) + EchoDelay
      BY DEF Due
    <2>2. OpTime(x) \in Nat
      <3>1. x[1] \in Requests
        BY OpsFacts
      <3>2. requests[x[1]] \in Request /\ Len(requests[x[1]].parts) = Len(NewRequest(x[1]).parts)
        BY <1>1, <3>1 DEF ShapeInv, TypeOK
      <3> QED BY <3>2, RecordFacts DEF OpTime
    <2>3. M[m].date \in Nat
      BY DEF Row
    <2>4. M[m].date <= OpTime(x) + Window
      BY <2>1, <2>2, <2>3, SendsAssumption
    <2> QED BY <2>1, <2>4 DEF InBoundary
  <1>6. Competes(M, x, o, m)
    <2>1. CASE OpFile(x) = NoFile
      BY <1>2, <1>3, <1>5, <2>1 DEF Competes
    <2>2. CASE OpFile(x) # NoFile
      <3>1. OpFile(x) \in Files
        BY <1>1, <2>2, OpFileFacts DEF OInv
      <3>2. M[m].content = ContentOf[OpFile(x)] /\ M[m].content # NoContent
        BY <1>2, <1>3, <2>2, <3>1, SendsAssumption
      <3>3. OpFile(o) # NoFile => M[m].content = ContentOf[OpFile(o)]
        BY <1>2 DEF Fits
      <3> QED BY <1>5, <2>2, <3>2, <3>3 DEF Competes
    <2> QED BY <2>1, <2>2
  <1> QED BY <1>2, <1>3, <1>4, <1>6

\* The unique echo of a text is its only candidate.
LEMMA UniqueTextAlone ==
    ASSUME source \in Seq(Row), NEW r, NEW m, m = UniqueText(Imported, r), m # NoMessage
    PROVE  /\ m \in DOMAIN Imported /\ Imported[m].text = Text(r)
           /\ InBoundary(<<r, 0>>, m, Imported[m])
           /\ ~ClaimedByOther(<<r, 0>>, m)
           /\ \A k \in TextCandidates(Imported, r) : k = m
           /\ \A p \in Unclaimed \ {<<r, 0>>} :
                 OpFile(p) = NoFile => ~Competes(Imported, p, <<r, 0>>, m)
  <1> DEFINE found == TextCandidates(Imported, r)
  <1>1. /\ Cardinality(found) = 1 /\ m = CHOOSE k \in found : TRUE
        /\ \A k \in found : \A p \in Unclaimed \ {<<r, 0>>} :
              OpFile(p) = NoFile => ~Competes(Imported, p, <<r, 0>>, k)
    BY DEF UniqueText
  <1>2. m \in found
    BY <1>1, OneElement
  <1>3. IsFiniteSet(found)
    <2>1. Len(source) \in Nat /\ found \subseteq 1..Len(source)
      BY DEF TextCandidates, Imported
    <2>2. IsFiniteSet(1..Len(source))
      BY <2>1, FS_Interval
    <2> QED BY <2>1, <2>2, FS_Subset
  <1>4. \A k \in found : k = m
    <2>1. \E y : found = {y}
      BY <1>1, <1>3, FS_Singleton
    <2> QED BY <1>2, <2>1
  <1>5. /\ m \in DOMAIN Imported /\ Imported[m].text = Text(r)
        /\ InBoundary(<<r, 0>>, m, Imported[m]) /\ ~ClaimedByOther(<<r, 0>>, m)
    BY <1>2 DEF TextCandidates
  <1> QED BY <1>1, <1>2, <1>4, <1>5

\* Core.reconcile keeps what a text has or confirms it with its unique echo
\* once the window is closed.
LEMMA ReconciledClaims ==
    ASSUME TypeOK, ShapeInv, NEW r \in Reconcilable
    PROVE  LET v == requests[r]
               w == Reconciled(Imported, r)
               m == UniqueText(Imported, r)
           IN  \/ Keeps(v, w)
               \/ /\ v.mid = NoMessage /\ m # NoMessage /\ ~(now < v.time + Window)
                  /\ w.mid = m /\ w.time = v.time /\ w.floor = v.floor /\ w.state # "queued"
  <1> DEFINE v == requests[r]
             w == Reconciled(Imported, r)
             m == UniqueText(Imported, r)
  <1>1. v \in Request /\ v.state \in {"submitted", "unknown"} /\ r \in Requests
    BY RequestFacts DEF Reconcilable
  <1>2. /\ DOMAIN Imported \subseteq Nat \ {0}
        /\ \A k \in DOMAIN Imported : Imported[k] \in Row
    BY ImportedFacts DEF TypeOK
  <1>3. m \in DOMAIN Imported \cup {NoMessage}
    BY UniqueTextFacts
  <1>4. CASE v.mid # NoMessage
    <2>1. w = v \/ \E s, e : w = End(v, s, e)
      BY <1>4 DEF Reconciled
    <2>2. CASE w = v
      BY <2>2, KeepsFacts
    <2>3. ASSUME NEW s, NEW e, w = End(v, s, e)
          PROVE  Keeps(v, w)
      <3> HIDE DEF v, w
      <3>1. Carries(v, w)
        BY <1>1, <2>3 DEF Carries, End, Request
      <3> QED BY <1>4, <3>1 DEF Keeps, Carries, Settled
    <2> QED BY <2>1, <2>2, <2>3
  <1>5. CASE v.mid = NoMessage /\ (m = NoMessage \/ now < v.time + Window)
    <2>1. w = [v EXCEPT !.cand = m]
      BY <1>5 DEF Reconciled
    <2> HIDE DEF v, w, m
    <2>2. w.mid = v.mid /\ w.time = v.time /\ w.floor = v.floor /\ w.state = v.state /\ w.err = v.err
      BY <1>1, <2>1 DEF Request
    <2>3. Keeps(v, w)
      BY <2>2 DEF Keeps, Carries, Settled
    <2> QED BY <2>3 DEF v, w
  <1>6. CASE v.mid = NoMessage /\ m # NoMessage /\ ~(now < v.time + Window)
    <2> DEFINE s == Observed(Imported[m].status)
               e == ObservedErr(Imported[m].status)
    <2>1. w = Settle(v, m, s, e)
      BY <1>6 DEF Reconciled
    <2>2. s \in {"submitted", "delivered", "failed"}
      BY <1>2, <1>3, <1>6, ObservedFacts
    <2> HIDE DEF v, w, m, s, e
    <2>3. w.mid = m /\ w.time = v.time /\ w.floor = v.floor /\ w.state = s
      BY <1>1, <2>1 DEF Settle, Request
    <2> QED BY <1>6, <2>2, <2>3 DEF v, w, m
  <1> QED BY <1>4, <1>5, <1>6

\* A new epoch has no operations yet.
LEMMA NoneCurrent ==
    ASSUME TypeOK, EchoInv, epoch' = epoch + 1, UNCHANGED epochOf
    PROVE  \A o \in Ops : ~Current(o)'
  <1>1. \A r \in Requests : epochOf[r] <= epoch /\ epochOf[r] \in Nat
    BY DEF EchoInv, GenInv, TypeOK
  <1>2. epoch \in Nat
    BY DEF TypeOK
  <1> QED BY <1>1, <1>2, OpsFacts DEF Current

\* Ingestion copies the joined rows of the source.
LEMMA ImportKeeps ==
    ASSUME TypeOK, EchoInv, EchoStep, messages' = Imported, jgen' = gen,
           UNCHANGED <<gen, source, taken, outbox>>,
           jgen = gen \/ \A o \in Ops : ~Current(o)'
    PROVE  SourceInv' /\ MessagesInv' /\ Grows
  <1>1. SourceInv /\ MessagesInv
    BY DEF EchoInv
  <1>2. \A m \in DOMAIN source : m \in 1..Len(source) /\ m \in DOMAIN source'
    BY DEF TypeOK
  <1>3. /\ \A m \in DOMAIN Imported : /\ m \in DOMAIN source /\ source[m].joined
                                      /\ Imported[m] = source[m]
        /\ \A m \in DOMAIN source : source[m].joined => m \in DOMAIN Imported
    BY <1>2 DEF Imported, TypeOK
  <1>4. \A x : Bears(x)' <=> Bears(x)
    BY DEF Bears
  <1>5. ASSUME NEW m, NEW x, Bears(x), jgen = gen => Due(m, x)
        PROVE  Due(m, x)'
    <2>1. CASE \A o \in Ops : ~Current(o)'
      BY <2>1 DEF Due
    <2>2. CASE jgen = gen
      BY <1>5, <2>2, DueKeeps
    <2> QED BY <2>1, <2>2
  <1>6. \A m \in DOMAIN source : Due(m, source[m])'
    BY <1>1, <1>5 DEF SourceInv
  <1>7. \A m \in DOMAIN source : Bears(source[m])'
    BY <1>1, <1>4 DEF SourceInv
  <1>8. SourceInv'
    BY <1>1, <1>6, <1>7 DEF SourceInv
  <1>9. MessagesInv'
    <2>1. \A m \in DOMAIN Imported : Bears(messages[m])' /\ Due(m, messages[m])'
      BY <1>3, <1>6, <1>7
    <2>2. OneRow(Imported)
      BY <1>1, <1>3 DEF SourceInv, OneRow
    <2> QED BY <1>3, <2>1, <2>2 DEF MessagesInv, SameRow, OneRow
  <1>10. Grows
    <2>1. jgen = gen => \A m \in DOMAIN messages : m \in DOMAIN messages' /\ SameRow(messages'[m], messages[m])
      BY <1>1, <1>3 DEF MessagesInv, SameRow
    <2> QED BY <2>1 DEF Grows
  <1> QED BY <1>8, <1>9, <1>10

\* A new epoch starts with a reset, or with the first ingestion of another
\* source.
LEMMA ResetEcho ==
    ASSUME OInv, OInv', NoBack, EchoInv, UNCHANGED <<epochOf, source, gen, outbox, taken, now, observer>>,
           epoch' = epoch + 1,
           \/ messages' = <<>> /\ jgen' = 0 /\ readReady' = FALSE
           \/ messages' = Imported /\ jgen' = gen
    PROVE  EchoNext
  <1>1. /\ TypeOK /\ TypeOK' /\ ShapeInv' /\ ObserverInv
        /\ epoch \in Nat /\ now \in Nat /\ gen \in Nat /\ jgen \in Nat
    BY DEF OInv, IInv, TypeOK
  <1>2. \A o \in Ops : ~Current(o)'
    BY <1>1, NoneCurrent
  <1>3. EchoStep /\ Grows
    BY <1>2 DEF EchoStep, Grows
  <1>4. GenInv /\ SourceInv /\ observer.epoch <= epoch
    BY DEF EchoInv
  <1>5. observer.epoch \in Nat /\ \A r \in Requests : epochOf[r] \in Nat /\ epochOf[r] <= epoch
    BY <1>1, <1>4 DEF TypeOK, GenInv
  <1>6. /\ observer'.epoch <= epoch' /\ observer'.epoch # epoch'
        /\ \A r \in Requests : epochOf'[r] <= epoch' /\ epochOf'[r] # epoch'
    BY <1>1, <1>4, <1>5
  <1>7. LookInv'
    BY <1>6 DEF LookInv
  <1>8. GenInv'
    BY <1>1, <1>4, <1>6 DEF GenInv
  <1>9. SourceInv' /\ MessagesInv'
    <2>1. CASE messages' = <<>> /\ jgen' = 0
      <3>1. gen' # jgen' /\ DOMAIN messages' = {}
        BY <1>4, <2>1 DEF GenInv
      <3>2. MessagesInv'
        BY <3>1 DEF MessagesInv, OneRow
      <3>3. SourceInv'
        BY <1>4, <3>1 DEF SourceInv, OneRow, Bears
      <3> QED BY <3>2, <3>3
    <2>2. CASE messages' = Imported /\ jgen' = gen
      BY <1>1, <1>2, <1>3, <2>2, ImportKeeps
    <2> QED BY <2>1, <2>2
  <1>10. now <= now'
    BY <1>1
  <1> QED BY <1>1, <1>2, <1>3, <1>6, <1>7, <1>8, <1>9, <1>10, EchoKeeps

\* What reconcile makes of the requests.
LEMMA IngestClaims ==
    ASSUME OInv, EchoInv, messages' = Imported, jgen = gen,
           UpdateRequests([r \in Reconcilable |-> Reconciled(Imported, r)]),
           UNCHANGED <<epoch, epochOf, source>>
    PROVE  EchoStep
  <1>1. IInv /\ TypeOK /\ ShapeInv /\ source \in Seq(Row)
    BY DEF OInv, IInv, TypeOK
  <1>2. SourceInv
    BY DEF EchoInv
  <1> DEFINE S == Reconcilable
             new == [r \in S |-> Reconciled(Imported, r)]
  <1>3. \A r \in S : Reconciled(Imported, r) \in Request
    BY <1>1, ReconciledFacts DEF QuietChange, Reshaped
  <1>4. DOMAIN new = S /\ (\A r \in S : new[r] = Reconciled(Imported, r)) /\ S \in SUBSET Requests
    BY DEF Reconcilable
  <1>5. \A r \in S : /\ TextOnly(r) /\ epochOf[r] = epoch
                     /\ requests[r].state \in {"submitted", "unknown"}
    BY DEF Reconcilable
  <1> HIDE DEF S, new
  <1>6. /\ \A r \in S : requests'[r] = Reconciled(Imported, r)
        /\ \A r \in Requests \ S : requests'[r] = requests[r]
    BY <1>1, <1>3, <1>4, UpdateFacts DEF new, S
  <1>7. \A r \in S : \A i \in PartsOf(r) : i = 0
    BY <1>4, <1>5, PartsOfFacts
  <1>8. /\ \A m \in DOMAIN Imported : /\ m \in DOMAIN source
                                      /\ Imported[m] = source[m] /\ Imported[m] \in Row
        /\ \A m \in DOMAIN Imported : Bears(Imported[m]) /\ Due(m, Imported[m])
    BY <1>1, <1>2 DEF SourceInv, Imported
  \* The text that gets a message, and its only candidate.
  <1> DEFINE Confirming(o, m) ==
                 /\ o[1] \in S /\ o = <<o[1], 0>> /\ m = UniqueText(Imported, o[1]) /\ m # NoMessage
                 /\ OpMid(o) = NoMessage /\ OpMid(o)' = m
                 /\ OpTime(o)' = OpTime(o) /\ OpFloor(o)' = OpFloor(o) /\ OpState(o)' # "queued"
                 /\ ~(now < OpTime(o) + Window)
  <1>9. ASSUME NEW o \in Ops
        PROVE  Keeps(At(requests[o[1]], o[2]), At(requests'[o[1]], o[2])) \/ Confirming(o, OpMid(o)')
    <2>1. o[1] \in Requests /\ o[2] \in PartsOf(o[1]) /\ o = <<o[1], o[2]>>
      BY OpsFacts
    <2>2. CASE o[1] \notin S
      BY <1>6, <2>1, <2>2, KeepsFacts
    <2>3. CASE o[1] \in S
      <3> DEFINE r == o[1]
      <3>1. o[2] = 0 /\ At(requests[r], o[2]) = requests[r] /\ At(requests'[r], o[2]) = Reconciled(Imported, r)
        BY <1>6, <1>7, <2>1, <2>3 DEF At
      <3> HIDE DEF r
      <3>2. r \in Reconcilable
        BY <2>3 DEF r, S
      <3>3. \/ Keeps(requests[r], Reconciled(Imported, r))
            \/ /\ requests[r].mid = NoMessage /\ UniqueText(Imported, r) # NoMessage
               /\ Reconciled(Imported, r).mid = UniqueText(Imported, r)
               /\ Reconciled(Imported, r).time = requests[r].time
               /\ Reconciled(Imported, r).floor = requests[r].floor
               /\ Reconciled(Imported, r).state # "queued"
               /\ ~(now < requests[r].time + Window)
        BY <1>1, <3>2, ReconciledClaims
      <3> QED BY <2>1, <2>3, <3>1, <3>3 DEF OpMid, OpTime, OpFloor, OpState, r
    <2> QED BY <2>2, <2>3
  <1>10. \A o, m : Confirming(o, m) =>
            /\ m \in DOMAIN Imported /\ Imported[m].text = Text(o[1])
            /\ InBoundary(o, m, Imported[m]) /\ ~ClaimedByOther(o, m)
            /\ \A p \in Unclaimed \ {o} : OpFile(p) = NoFile => ~Competes(Imported, p, o, m)
    BY <1>1, UniqueTextAlone
  <1>11. ASSUME NEW o \in Ops, Current(o), NEW m, m = OpMid(o)', Confirming(o, m)
         PROVE  Claims(o)
    <2>1. /\ m \in DOMAIN Imported /\ Imported[m].text = Text(o[1])
          /\ InBoundary(o, m, Imported[m]) /\ ~ClaimedByOther(o, m)
          /\ \A p \in Unclaimed \ {o} : OpFile(p) = NoFile => ~Competes(Imported, p, o, m)
      BY <1>10, <1>11
    <2>2. ASSUME NEW p \in Ops \ {o}, Current(p)'
          PROVE  OpMid(p)' # m
      <3>1. Current(p)
        BY <2>2 DEF Current
      <3>2. CASE Keeps(At(requests[p[1]], p[2]), At(requests'[p[1]], p[2]))
        BY <2>1, <3>1, <3>2 DEF Keeps, Carries, OpMid, ClaimedByOther, Current
      <3>3. CASE Confirming(p, OpMid(p)')
        <4> SUFFICES ASSUME OpMid(p)' = m
                     PROVE  FALSE
          OBVIOUS
        <4>1. Imported[m].text = Text(p[1]) /\ InBoundary(p, m, Imported[m])
          BY <1>10, <3>3
        <4>2. p \in Unclaimed
          BY <1>5, <3>1, <3>3 DEF Unclaimed, InFlight, OpState, At, Current
        <4>3. OpFile(p) = NoFile
          BY <3>3 DEF OpFile
        <4> QED BY <2>1, <4>1, <4>2, <4>3 DEF Competes
      <3> QED BY <1>9, <3>2, <3>3
    <2>3. ASSUME EchoDelay <= Window, NEW x \in Ops \ {o}, Imported[m].op = x, Current(x)
          PROVE  OpMid(x) # NoMessage
      <3> SUFFICES ASSUME OpMid(x) = NoMessage
                   PROVE  FALSE
        OBVIOUS
      <3>1. o[2] = 0 /\ TextOnly(o[1]) /\ o[1] \in Requests
        BY <1>5, <1>11, OpsFacts
      <3>2. Fits(Imported[m], o)
        BY <2>1, <3>1 DEF Fits, FileOf
      <3>3. /\ x \in Unclaimed /\ Competes(Imported, x, o, m)
            /\ OpFile(x) # NoFile => Imported[m].text = NoText
        BY <1>8, <2>1, <2>3, <3>2, OwnerCompetes
      <3>4. Text(o[1]) # NoText
        BY <3>1, SendsAssumption DEF Text, TextOnly
      <3> QED BY <2>1, <3>3, <3>4
    <2>4. m # NoMessage /\ m = UniqueText(Imported, o[1])
      BY <1>11
    <2>5. Fits(messages'[m], o)
      BY <2>1, <1>11 DEF Fits, FileOf
    <2>6. OpTime(o) + Window <= now
      <3>1. o[1] \in Requests /\ requests[o[1]] \in Request
        BY <1>1, OpsFacts DEF TypeOK
      <3>2. OpTime(o) \in Nat
        BY <1>1, <3>1, RecordFacts DEF OpTime, ShapeInv
      <3>3. now \in Nat /\ Window \in Nat
        BY <1>1, SendsAssumption DEF TypeOK
      <3>4. ~(now < OpTime(o) + Window)
        BY <1>11
      <3> QED BY <3>2, <3>3, <3>4
    <2> QED BY <1>11, <2>1, <2>2, <2>3, <2>4, <2>5, <2>6 DEF Claims
  <1> SUFFICES ASSUME NEW o \in Ops, Current(o)'
               PROVE  Still(o) \/ Claims(o)
    BY DEF EchoStep
  <1>12. Current(o)
    BY DEF Current
  <1> QED BY <1>9, <1>11, <1>12 DEF Still

\* One ingestion transaction.
LEMMA IngestEcho ==
    ASSUME OInv, OInv', NoBack, EchoInv, Ingest
    PROVE  EchoNext
  <1>1. /\ UNCHANGED <<epochOf, source, gen, outbox, taken, now, observer>>
        /\ messages' = Imported /\ jgen' = gen
    BY DEF Ingest, outside
  <1>2. CASE jgen \notin {0, gen}
    <2>1. epoch' = epoch + 1
      BY <1>2 DEF Ingest, Reset
    <2> QED BY <1>1, <2>1, ResetEcho
  <1>3. CASE jgen \in {0, gen}
    <2>1. /\ UpdateRequests([r \in Reconcilable |-> Reconciled(Imported, r)]) /\ epoch' = epoch
      BY <1>3 DEF Ingest
    <2>2. /\ TypeOK /\ TypeOK' /\ ShapeInv' /\ ObserverInv
          /\ now \in Nat /\ gen \in Nat /\ jgen \in Nat /\ source \in Seq(Row)
      BY DEF OInv, IInv, TypeOK
    <2>3. GenInv /\ LookInv /\ observer.epoch <= epoch
      BY DEF EchoInv
    <2>4. jgen # gen => \A o \in Ops : ~Current(o) /\ ~Current(o)'
      BY <1>1, <1>3, <2>1, <2>3, OpsFacts DEF GenInv, Current
    <2>5. EchoStep
      <3>1. CASE jgen = gen
        BY <1>1, <2>1, <3>1, IngestClaims
      <3>2. CASE jgen # gen
        BY <2>4, <3>2 DEF EchoStep
      <3> QED BY <3>1, <3>2
    <2>6. SourceInv' /\ MessagesInv' /\ Grows
      BY <1>1, <2>2, <2>4, <2>5, ImportKeeps
    <2>7. GenInv'
      BY <1>1, <2>1, <2>2, <2>3 DEF GenInv
    <2>8. LookInv'
      <3> SUFFICES ASSUME observer.pc # "idle", observer.epoch = epoch
                   PROVE  LookInv'
        BY <1>1, <2>1 DEF LookInv
      <3> DEFINE o == observer.op
      <3>1. /\ o \in Ops /\ Current(o) /\ observer.gen = jgen
            /\ observer.mid # NoMessage => OpMid(o) # NoMessage
        BY <2>2, <2>3 DEF ObserverInv, LookInv
      <3>2. jgen = gen /\ Current(o)'
        BY <1>1, <2>1, <2>4, <3>1 DEF Current
      <3>3. OpMid(o) # NoMessage => OpMid(o)' # NoMessage
        <4>1. ASSUME NEW p \in Ops, Current(p), Current(p)', OpMid(p) # NoMessage
              PROVE  OpMid(p)' # NoMessage
          <5>1. Still(p) \/ Fresh(p) \/ Claims(p)
            BY <2>5, <4>1 DEF EchoStep
          <5> QED BY <4>1, <5>1 DEF Still, Fresh, Claims, Keeps, Carries, OpMid
        <4>2. o' = o
          BY <1>1
        <4> HIDE DEF o
        <4> QED BY <3>1, <3>2, <4>1, <4>2 DEF Current, OpMid
      <3>4. \A m \in DOMAIN Imported : m \in DOMAIN source /\ Imported[m] = source[m]
        BY <2>2 DEF Imported
      <3> QED BY <1>1, <2>3, <3>1, <3>2, <3>3, <3>4 DEF LookInv, Fits
    <2>9. observer'.epoch <= epoch' /\ now <= now' /\ Len(source) <= Len(source')
      BY <1>1, <2>1, <2>2, <2>3
    <2>10. \/ gen' = jgen' => gen = jgen /\ Len(source) <= Len(source')
           \/ \A o \in Ops : ~Current(o)'
      BY <2>4, <2>9
    <2> QED BY <2>2, <2>5, <2>6, <2>7, <2>8, <2>9, <2>10, EchoKeeps
  <1> QED BY <1>2, <1>3

\* observation.publish keeps what a part has, or confirms it with the echo it
\* found.
LEMMA PublishedClaims ==
    ASSUME TypeOK, ShapeInv, SummaryInv, NEW r \in Requests, NEW i \in PartsOf(r), i # 0,
           ~NothingToPublish(r, i)
    PROVE  LET v == requests[r]
               w == Published(r, i)
           IN  /\ \A k \in PartsOf(r) \ {i} : Keeps(At(v, k), At(w, k))
               /\ \/ Keeps(At(v, i), At(w, i))
                  \/ /\ At(v, i).mid = NoMessage /\ Matched # NoMessage /\ At(w, i).mid = Matched
                     /\ At(w, i).time = At(v, i).time /\ At(w, i).floor = At(v, i).floor
                     /\ At(w, i).state # "queued"
  <1> DEFINE v == requests[r]
             w == Published(r, i)
             e == [v.parts[i] EXCEPT !.cand = Matched]
             s == [v.parts EXCEPT ![i] = e]
             st == Observed(observer.status)
  <1>1. /\ v \in Request /\ i \in 1..Len(v.parts) /\ ~TextOnly(r)
        /\ \A k \in PartsOf(r) : k # 0 /\ k \in 1..Len(v.parts)
        /\ v.parts \in Seq(Part) /\ v.parts[i] \in Part
    BY PublishedFacts, RequestFacts DEF Request
  <1>2. /\ v.parts[i].mid # NoMessage => v.parts[i].mid = Matched
        /\ v.parts[i].state \in {"invoked", "unknown", "submitted"}
    BY DEF NothingToPublish
  <1>3. Matched \in Nat /\ (Matched # NoMessage => st \in {"submitted", "delivered", "failed"})
    BY MatchedFacts
  <1>4. w.parts[i].state # "queued"
    BY <1>2, PublishedFacts DEF Seen
  <1>5. e \in Part /\ Keeps(v.parts[i], e)
    <2>1. /\ e \in Part /\ e.state = v.parts[i].state /\ e.err = v.parts[i].err
          /\ Carries(v.parts[i], e)
      BY <1>1, <1>3 DEF Part, Carries
    <2> HIDE DEF e
    <2> QED BY <2>1 DEF Keeps, Carries, Settled
  <1>6. \/ w = Observe(v, i, Matched, st) /\ Matched # NoMessage
        \/ w = [v EXCEPT !.parts = s]
    BY DEF Published
  <1> HIDE DEF v, w, e, st
  <1>7. CASE w = Observe(v, i, Matched, st) /\ Matched # NoMessage
    <2>1. /\ \A k \in 1..Len(v.parts) : k # i => Keeps(v.parts[k], w.parts[k])
          /\ w.parts[i].mid = Matched
          /\ w.parts[i].time = v.parts[i].time /\ w.parts[i].floor = v.parts[i].floor
      BY <1>1, <1>3, <1>7, ObserveKeeps
    <2>2. v.parts[i].mid # NoMessage => Keeps(v.parts[i], w.parts[i])
      BY <1>2, <1>7, <2>1 DEF Keeps, Carries, Settled
    <2> QED BY <1>1, <1>4, <1>7, <2>1, <2>2 DEF At, v, w
  <1>8. CASE w = [v EXCEPT !.parts = s]
    <2>1. /\ s \in Seq(Part) /\ s[i] = e
          /\ \A k \in 1..Len(v.parts) : k # i => s[k] = v.parts[k]
      BY <1>1, <1>5, ExceptSeq
    <2> HIDE DEF s
    <2>2. w.parts = s
      BY <1>1, <1>8, <2>1, WithParts
    <2>3. \A k \in 1..Len(v.parts) : Keeps(v.parts[k], w.parts[k])
      BY <1>5, <2>1, <2>2, KeepsFacts
    <2> QED BY <1>1, <2>3 DEF At, v, w
  <1> QED BY <1>6, <1>7, <1>8

\* The echo was unclaimed, and nothing unclaimed could have caused it as well.
LEMMA PublishClaims ==
    ASSUME OInv, EchoInv, UNCHANGED <<epoch, epochOf, messages>>,
           NEW r \in Requests, NEW i \in PartsOf(r), i # 0, NEW o, o = <<r, i>>, NEW w, NEW m,
           Current(o), OpMid(o) = NoMessage, m # NoMessage, m \in DOMAIN messages,
           Available(messages, o, m), Fits(messages[m], o),
           requests'[r] = w, \A q \in Requests \ {r} : requests'[q] = requests[q],
           \A k \in PartsOf(r) \ {i} : Keeps(At(requests[r], k), At(w, k)),
           At(w, i).mid = m, At(w, i).time = At(requests[r], i).time,
           At(w, i).floor = At(requests[r], i).floor, At(w, i).state # "queued"
    PROVE  EchoStep
  <1>1. o \in Ops /\ messages[m] \in Row /\ Bears(messages[m]) /\ Due(m, messages[m])
    BY OpsFacts DEF OInv, IInv, TypeOK, EchoInv, MessagesInv
  <1>2. ASSUME NEW p \in Ops \ {o}, Current(p)'
        PROVE  Still(p) /\ OpMid(p)' # m
    <2>1. p[1] \in Requests /\ p[2] \in PartsOf(p[1]) /\ p = <<p[1], p[2]>>
      BY OpsFacts
    <2>2. Keeps(At(requests[p[1]], p[2]), At(requests'[p[1]], p[2]))
      BY <2>1, KeepsFacts
    <2>3. Current(p)
      BY <1>2 DEF Current
    <2>4. OpMid(p) # m
      BY <2>3 DEF Available, ClaimedByOther, Current
    <2> QED BY <2>2, <2>3, <2>4 DEF Still, Keeps, Carries, OpMid
  <1>3. ASSUME EchoDelay <= Window, NEW x \in Ops \ {o}, messages[m].op = x, Current(x)
        PROVE  OpMid(x) # NoMessage
    <2> SUFFICES ASSUME OpMid(x) = NoMessage
                 PROVE  FALSE
      OBVIOUS
    <2>1. x \in Unclaimed /\ Competes(messages, x, o, m)
      BY <1>1, <1>3, OwnerCompetes
    <2> QED BY <2>1 DEF Available
  <1>4. Claims(o)
    <2>1. /\ OpMid(o)' = m /\ OpTime(o)' = OpTime(o) /\ OpFloor(o)' = OpFloor(o)
          /\ OpState(o)' # "queued"
      BY DEF OpMid, OpTime, OpFloor, OpState
    <2> QED BY <1>2, <1>3, <2>1 DEF Claims
  <1> QED BY <1>2, <1>4 DEF EchoStep

\* observation.publish.
LEMMA PublishEcho ==
    ASSUME OInv, OInv', NoBack, EchoInv, ObservePublish
    PROVE  EchoNext
  <1>1. /\ UNCHANGED <<epoch, epochOf, messages, jgen, gen, source, outbox, taken, now, readReady>>
        /\ observer.pc = "found" /\ observer' = Watching
    BY DEF ObservePublish, core, outside
  <1>2. /\ IInv /\ TypeOK /\ TypeOK' /\ ShapeInv /\ ShapeInv' /\ SummaryInv /\ ObserverInv
        /\ now \in Nat /\ source \in Seq(Row) /\ epoch \in Nat \ {0}
        /\ requests \in [Requests -> Request]
    BY DEF OInv, IInv, TypeOK
  <1>3. GenInv /\ SourceInv /\ LookInv
    BY DEF EchoInv
  <1>4. PICK r \in Requests : \E i \in PartsOf(r) : observer.op = <<r, i>> /\ i # 0
    BY <1>1, <1>2, OpsFacts DEF ObserverInv
  <1>5. PICK i \in PartsOf(r) : observer.op = <<r, i>> /\ i # 0
    BY <1>4
  <1>6. now <= now' /\ Len(source) <= Len(source')
    BY <1>1, <1>2
  <1>7. CASE UNCHANGED requests
    <2>1. \A q \in Requests : \A k \in PartsOf(q) : Keeps(At(requests[q], k), At(requests'[q], k))
      BY <1>7, KeepsFacts
    <2> QED BY <1>1, <1>6, <2>1, StillKeeps
  <1>8. ASSUME NEW v, v = Published(r, i), ~NothingToPublish(r, i),
               requests' = [requests EXCEPT ![r] = v]
        PROVE  EchoNext
    <2>1. observer.epoch = epoch
      BY <1>8 DEF NothingToPublish
    <2>2. /\ \A k \in PartsOf(r) \ {i} : Keeps(At(requests[r], k), At(v, k))
          /\ \/ Keeps(At(requests[r], i), At(v, i))
             \/ /\ At(requests[r], i).mid = NoMessage /\ Matched # NoMessage
                /\ At(v, i).mid = Matched
                /\ At(v, i).time = At(requests[r], i).time
                /\ At(v, i).floor = At(requests[r], i).floor
                /\ At(v, i).state # "queued"
      BY <1>2, <1>5, <1>8, PublishedClaims
    <2>3. requests'[r] = v /\ \A q \in Requests \ {r} : requests'[q] = requests[q]
      BY <1>2, <1>8
    <2>4. CASE Keeps(At(requests[r], i), At(v, i))
      <3>1. \A q \in Requests : \A k \in PartsOf(q) : Keeps(At(requests[q], k), At(requests'[q], k))
        BY <2>2, <2>3, <2>4, KeepsFacts
      <3> QED BY <1>1, <1>6, <3>1, StillKeeps
    <2>5. CASE /\ At(requests[r], i).mid = NoMessage /\ Matched # NoMessage
               /\ At(v, i).mid = Matched
               /\ At(v, i).time = At(requests[r], i).time
               /\ At(v, i).floor = At(requests[r], i).floor
               /\ At(v, i).state # "queued"
      <3> DEFINE o == <<r, i>>
      <3>1. o \in Ops /\ o = observer.op /\ OpMid(o) = NoMessage
        BY <1>5, <2>5, OpsFacts DEF OpMid
      <3>2. PICK m : m = Matched
        OBVIOUS
      <3>3. /\ m = observer.cand /\ m \in DOMAIN messages /\ m # NoMessage
            /\ Available(messages, o, m)
        BY <2>5, <3>1, <3>2 DEF Matched
      <3>4. Current(o) /\ Fits(messages[m], o)
        BY <1>1, <1>3, <2>1, <3>1, <3>3 DEF LookInv
      <3> HIDE DEF o
      <3>5. EchoStep
        BY <1>1, <2>2, <2>3, <2>5, <3>1, <3>2, <3>3, <3>4, <1>5, PublishClaims DEF o
      <3>6. SourceInv' /\ MessagesInv'
        BY <1>1, <1>3, <3>5, RowsKeep DEF SourceInv
      <3>7. GenInv' /\ Grows
        BY <1>1, <1>3 DEF GenInv, Grows, SameRow
      <3>8. LookInv' /\ observer'.epoch <= epoch'
        BY <1>1, <1>2 DEF LookInv, Watching
      <3> QED BY <1>1, <1>2, <1>6, <3>5, <3>6, <3>7, <3>8, EchoKeeps
    <2> QED BY <2>2, <2>4, <2>5
  <1> QED BY <1>5, <1>7, <1>8 DEF ObservePublish

\* POST /v1/reset.
LEMMA ClientResetEcho ==
    ASSUME OInv, OInv', NoBack, EchoInv, ClientReset
    PROVE  EchoNext
  <1>1. /\ UNCHANGED <<epochOf, source, gen, outbox, taken, now, observer>>
        /\ epoch' = epoch + 1 /\ messages' = <<>> /\ jgen' = 0 /\ readReady' = FALSE
    BY DEF ClientReset, Reset, outside
  <1> QED BY <1>1, ResetEcho
-----------------------------------------------------------------------------
(* Every step.                                                              *)

LEMMA InitEchoInv == Init => EchoInv
  <1> SUFFICES ASSUME Init
               PROVE  EchoInv
    OBVIOUS
  <1>1. /\ epoch = 1 /\ gen = 1 /\ jgen = 0 /\ readReady = FALSE /\ source = <<>> /\ messages = <<>>
        /\ outbox = {} /\ taken = {} /\ observer = Watching
        /\ \A r \in Requests : epochOf[r] = 0
    BY DEF Init
  <1>2. \A o \in Ops : ~Current(o)
    BY <1>1, OpsFacts DEF Current
  <1>3. GenInv
    BY <1>1 DEF GenInv
  <1>4. DOMAIN source = {} /\ DOMAIN messages = {}
    BY <1>1
  <1>5. SourceInv /\ MessagesInv
    BY <1>1, <1>4 DEF SourceInv, MessagesInv, OneRow
  <1>6. BoundInv /\ SettledInv /\ ClaimInv /\ ClaimedOnce /\ MistakenFirst
    BY <1>2 DEF BoundInv, SettledInv, ClaimInv, ClaimedOnce, MistakenFirst
  <1>7. LookInv /\ observer.epoch <= epoch
    BY <1>1 DEF LookInv, Watching
  <1> QED BY <1>3, <1>5, <1>6, <1>7 DEF EchoInv

LEMMA NextEchoInv == OInv /\ EchoInv /\ [Next]_vars => OInv' /\ EchoNext
  <1> SUFFICES ASSUME OInv, EchoInv, [Next]_vars
               PROVE  OInv' /\ EchoNext
    OBVIOUS
  <1>1. OInv' /\ NoBack
    BY NextOInv
  <1>2. CASE HttpStep
    BY <1>1, <1>2, AcceptEcho, ClientResetEcho, FlagsEcho DEF HttpStep
  <1>3. CASE SenderStep
    BY <1>1, <1>3, FlagsEcho, PrepareEcho, RejectEcho, InvokeEcho, ResultEcho, RecoverEcho
       DEF SenderStep
  <1>4. CASE ObserverStep
    BY <1>1, <1>4, LookEcho, PublishEcho DEF ObserverStep
  <1>5. CASE MessagesStep
    BY <1>1, <1>5, InsertEchoKeeps, ForeignKeeps, TouchKeeps, ReplaceEcho DEF MessagesStep
  <1>6. CASE Ingest \/ Crash
    BY <1>1, <1>6, IngestEcho, RecoverEcho
  <1>7. CASE IngestFails \/ Tick \/ UNCHANGED vars
    BY <1>1, <1>7, FlagsEcho
  <1> QED BY <1>2, <1>3, <1>4, <1>5, <1>6, <1>7 DEF Next

\* The invariant of what is claimed holds in every reachable state.
THEOREM EchoInvariance == Spec => [](OInv /\ EchoInv)
  <1>1. OInv /\ EchoInv /\ [Next]_vars => (OInv /\ EchoInv)'
    BY NextEchoInv DEF EchoNext
  <1> QED BY <1>1, InitOInv, InitEchoInv, PTL DEF Spec
-----------------------------------------------------------------------------
(* Whose echo it is.                                                        *)

\* What a step does to the rows.
LEMMA WorldSteps ==
    ASSUME TypeOK, [Next]_vars
    PROVE  \/ UNCHANGED <<epoch, messages, jgen, gen, source>> /\ now <= now'
           \/ Ingest \/ ClientReset \/ ReplaceSource
           \/ \E o \in outbox, date \in RowDates, joined \in Joins : InsertEcho(o, date, joined)
           \/ \E text \in ForeignTexts : ForeignSend(text)
           \/ Touched /\ UNCHANGED <<epoch, messages, jgen, gen, now>>
  <1>1. now \in Nat /\ source \in Seq(Row)
    BY DEF TypeOK
  <1>2. CASE Tick \/ Crash \/ IngestFails \/ UNCHANGED vars
    <2>1. UNCHANGED <<epoch, messages, jgen, gen, source>> /\ (now' = now \/ now' = now + 1)
      BY <1>2 DEF Tick, Crash, IngestFails, vars, journal, outside
    <2> QED BY <1>1, <2>1
  <1>3. CASE HttpStep \/ SenderStep \/ ObserverStep
    <2>1. ClientReset \/ UNCHANGED <<epoch, messages, jgen, gen, source, now>>
      BY <1>3 DEF HttpStep, Accept, ReplaceUpload, SenderStep, Probe, PrepareSend, RejectQueued,
                  RefuseSend, Invoke, FinishSend, FinishFails, RecoverSends, ObserverStep,
                  ObservePrepare, ObserveLook, ObserveNothing, ObservePublish, journal, outside
    <2> QED BY <1>1, <2>1
  <1>4. CASE MessagesStep
    <2>1. CASE \/ \E m \in 1..Len(source) : JoinRow(m)
               \/ \E m \in 1..Len(source), status \in Receipts : ChangeStatus(m, status)
      <3>1. UNCHANGED <<epoch, messages, jgen, gen, now>>
        BY <2>1 DEF JoinRow, ChangeStatus, journal
      <3> QED BY <1>1, <2>1, <3>1, TouchRows
    <2> QED BY <1>4, <2>1 DEF MessagesStep
  <1> QED BY <1>2, <1>3, <1>4 DEF Next

\* What was taken was accepted before.
LEMMA TakenAccepted ==
    ASSUME IInv, NEW o \in Ops, o \in taken
    PROVE  epochOf[o[1]] # 0
  <1>1. o[1] \in Requests /\ o[2] \in PartsOf(o[1])
    BY OpsFacts
  <1>2. OpState(o) # "queued"
    BY DEF IInv, CallInv
  <1> QED BY <1>1, <1>2, NewRequestFacts DEF IInv, ShapeInv, OpState

\* Alone, the rows stay those of the relay and of devices that send other
\* texts, in the first epoch.
LEMMA OwnRowsKeep ==
    ASSUME TypeOK, Alone, OwnRows, [Next]_vars
    PROVE  OwnRows'
  <1>1. source \in Seq(Row) /\ outbox \subseteq Ops
    BY DEF TypeOK
  <1>2. ASSUME NEW x, Foreign(x), source' = Append(source, x),
               UNCHANGED <<epoch, messages, jgen, gen>>
        PROVE  OwnRows'
    <2>1. \A m \in DOMAIN source' : source'[m] = x \/ (m \in DOMAIN source /\ source'[m] = source[m])
      BY <1>1, <1>2
    <2> QED BY <1>2, <2>1 DEF OwnRows, Foreign
  <1>3. CASE UNCHANGED <<epoch, messages, jgen, gen, source>>
    BY <1>3 DEF OwnRows, Foreign
  <1>4. CASE Ingest
    <2>1. /\ UNCHANGED <<gen, source>> /\ jgen' = gen /\ messages' = Imported
          /\ UNCHANGED epoch \/ jgen \notin {0, gen}
      BY <1>4 DEF Ingest, outside
    <2>2. \A m \in DOMAIN Imported : m \in DOMAIN source /\ Imported[m] = source[m]
      BY <1>1 DEF Imported
    <2> QED BY <2>1, <2>2 DEF OwnRows, Foreign
  <1>5. CASE ClientReset \/ ReplaceSource
    BY <1>5 DEF Alone, ClientReset, ReplaceSource, Fault
  <1>6. ASSUME NEW o \in outbox, NEW date \in RowDates, NEW joined \in Joins,
               InsertEcho(o, date, joined)
        PROVE  OwnRows'
    <2> DEFINE x == NewRow(OpText(o),
                           IF OpFile(o) = NoFile THEN NoContent ELSE ContentOf[OpFile(o)],
                           date, joined, o)
    <2>1. x.op = o
      BY DEF NewRow
    <2>2. source' = Append(source, x) /\ UNCHANGED <<epoch, messages, jgen, gen>>
      BY <1>6 DEF InsertEcho, journal
    <2> HIDE DEF x
    <2>3. Foreign(x)
      BY <1>1, <2>1, NoOpFacts DEF Foreign
    <2> QED BY <1>2, <2>2, <2>3
  <1>7. ASSUME NEW text \in ForeignTexts, ForeignSend(text)
        PROVE  OwnRows'
    <2> DEFINE x == NewRow(text, NoContent, now, TRUE, NoOp)
    <2>1. Foreign(x)
      BY DEF NewRow, Foreign
    <2>2. source' = Append(source, x) /\ UNCHANGED <<epoch, messages, jgen, gen>>
      BY <1>7 DEF ForeignSend, journal
    <2> HIDE DEF x
    <2> QED BY <1>2, <2>1, <2>2
  <1>8. CASE Touched /\ UNCHANGED <<epoch, messages, jgen, gen>>
    BY <1>8 DEF OwnRows, Touched, SameRow, Foreign
  <1> QED BY <1>3, <1>4, <1>5, <1>6, <1>7, <1>8, WorldSteps

\* Alone, what an operation claims is its own echo.
LEMMA OwnEcho ==
    ASSUME OInv, EchoInv, Alone, OwnRows, NoStolenEcho,
           NEW o \in Ops, Current(o), OpMid(o) # NoMessage
    PROVE  messages[OpMid(o)].op = o
  <1> DEFINE m == OpMid(o)
             x == messages[m].op
  <1>1. m \in DOMAIN messages /\ Fits(messages[m], o) /\ Foreign(messages[m]) /\ Bears(messages[m])
    BY DEF EchoInv, ClaimInv, MessagesInv, OwnRows
  <1>2. x \in Ops \cup {NoOp}
    BY <1>1 DEF OInv, IInv, TypeOK, Row
  <1>3. x # NoOp
    <2>1. CASE FileOf(o) = NoFile
      BY <1>1, <2>1, OpsFacts DEF Fits, Foreign, Alone
    <2>2. CASE FileOf(o) # NoFile
      <3>1. FileOf(o) \in Files
        BY <2>2, FileKept, OpFileFacts DEF OInv, IInv
      <3> QED BY <1>1, <2>2, <3>1, SendsAssumption DEF Fits, Foreign
    <2> QED BY <2>1, <2>2
  <1>4. Current(x)
    <2>1. epochOf[x[1]] # 0
      BY <1>1, <1>2, <1>3, TakenAccepted DEF Bears, OInv
    <2>2. x[1] \in Requests
      BY <1>2, <1>3, OpsFacts
    <2>3. epochOf[x[1]] \in Nat /\ epochOf[x[1]] <= 1 /\ epoch = 1
      BY <2>2 DEF EchoInv, GenInv, OwnRows, OInv, IInv, TypeOK
    <2> QED BY <2>1, <2>3 DEF Current
  <1> QED BY <1>3, <1>4 DEF NoStolenEcho

\* Alone, the one that an echo could be taken from has its own.
LEMMA NotStolen ==
    ASSUME OInv, OInv', EchoInv, EchoNext, Alone, OwnRows, NoStolenEcho
    PROVE  NoStolenEcho'
  <1>1. EchoInv' /\ EchoStep /\ Grows /\ EchoDelay <= Window
    BY DEF EchoNext, Alone
  <1>2. ClaimInv' /\ ClaimedOnce' /\ MistakenFirst' /\ MessagesInv'
    BY <1>1 DEF EchoInv
  <1> SUFFICES ASSUME NEW o \in Ops, NEW m, m = OpMid(o)', Current(o)', m # NoMessage,
                      NEW x, x = messages'[m].op, x # o, x # NoOp, Current(x)'
               PROVE  FALSE
    BY <1>2 DEF NoStolenEcho, ClaimedOnce, Current, OpMid
  <1>3. m \in DOMAIN messages' /\ x \in Ops /\ x \in taken'
    <2>1. m \in DOMAIN messages' /\ messages'[m] \in Row
      BY <1>2 DEF ClaimInv, OInv, IInv, TypeOK
    <2>2. x \in Ops
      BY <2>1 DEF Row
    <2> QED BY <1>2, <2>1, <2>2 DEF MessagesInv, Bears
  <1>4. OpMid(x)' \notin {NoMessage, m}
    BY <1>2, <1>3 DEF MistakenFirst, Current, OpMid
  <1>5. /\ Current(o) /\ Current(x)
        /\ OpMid(x) # NoMessage => OpMid(x)' = OpMid(x)
        /\ OpMid(o)' = OpMid(o) \/ Claims(o)
    BY <1>1, <1>3, StepFacts
  <1>6. CASE OpMid(o)' = OpMid(o)
    <2>1. messages[m].op = o /\ m \in DOMAIN messages
      BY <1>5, <1>6, OwnEcho DEF EchoInv, ClaimInv
    <2> QED BY <1>1, <2>1 DEF Grows, SameRow
  <1>7. CASE Claims(o)
    <2>1. OpMid(x) # NoMessage
      BY <1>1, <1>3, <1>5, <1>7 DEF Claims
    <2>2. /\ messages[OpMid(x)].op = x /\ OpMid(x) \in DOMAIN messages
      BY <1>3, <1>5, <2>1, OwnEcho DEF EchoInv, ClaimInv
    <2>3. OpMid(x) \in DOMAIN messages' /\ messages'[OpMid(x)].op = x
      BY <1>1, <2>2 DEF Grows, SameRow
    <2>4. OpMid(x) = m
      BY <1>2, <1>3, <2>3, NoOpFacts DEF MessagesInv, OneRow
    <2> QED BY <1>4, <1>5, <2>1, <2>4
  <1> QED BY <1>5, <1>6, <1>7

\* When echoes are prompt, that of a text is claimed by no other operation:
\* the text would have claimed another row of its own.
LEMMA TextEcho ==
    ASSUME EchoInv, Prompt, TextKept
    PROVE  TextEchoKept
  <1>1. EchoDelay <= Window
    BY SendsAssumption DEF Prompt
  <1>2. MistakenFirst /\ ClaimInv
    BY <1>1 DEF EchoInv
  <1> SUFFICES ASSUME NEW o \in Ops, Current(o), OpMid(o) # NoMessage,
                      NEW x \in Ops, x = messages[OpMid(o)].op, TextOnly(x[1]), Current(x), x # o
               PROVE  FALSE
    BY DEF TextEchoKept
  <1>3. OpMid(x) \notin {NoMessage, OpMid(o)}
    BY <1>2 DEF MistakenFirst
  <1>4. x[1] \in Requests /\ x[2] = 0 /\ x = <<x[1], 0>>
    BY OpsFacts, PartsOfFacts
  <1>5. requests[x[1]].mid = OpMid(x) /\ epochOf[x[1]] = epoch
    BY <1>4 DEF OpMid, At, Current
  <1>6. \A m \in DOMAIN messages : messages[m].op = x => m = OpMid(x)
    BY <1>3, <1>4, <1>5 DEF TextKept
  <1> QED BY <1>2, <1>3, <1>6 DEF ClaimInv

\* As long as an operation's epoch lasts, so does the source it is matched
\* against.
LEMMA SameSource ==
    ASSUME OInv, EchoInv, [Next]_vars, NEW o \in Ops, Current(o), Current(o)'
    PROVE  /\ gen' = jgen' => gen = jgen
           /\ UNCHANGED messages \/ (messages' = Imported /\ gen = jgen /\ UNCHANGED source)
           /\ now <= now'
  <1>1. /\ GenInv /\ TypeOK /\ now \in Nat /\ gen \in Nat /\ jgen \in Nat /\ epoch \in Nat
        /\ o[1] \in Requests /\ epochOf[o[1]] = epoch /\ epochOf'[o[1]] = epoch'
    BY OpsFacts DEF EchoInv, OInv, IInv, TypeOK, Current
  <1>2. jgen # 0
    BY <1>1 DEF GenInv
  <1>3. CASE Ingest
    <2>1. /\ UNCHANGED <<gen, source, now, epochOf>> /\ messages' = Imported
          /\ jgen # gen => epoch' = epoch + 1
      BY <1>2, <1>3 DEF Ingest, outside, Reset
    <2> QED BY <1>1, <2>1
  <1>4. CASE ClientReset
    <2>1. UNCHANGED epochOf /\ epoch' = epoch + 1
      BY <1>4 DEF ClientReset, Reset
    <2> QED BY <1>1, <2>1
  <1>5. CASE ReplaceSource
    <2>1. gen' = gen + 1 /\ UNCHANGED <<jgen, messages, now>> /\ jgen <= gen
      BY <1>1, <1>5 DEF ReplaceSource, journal, GenInv
    <2> QED BY <1>1, <2>1
  <1>6. CASE \/ UNCHANGED <<epoch, messages, jgen, gen, source>> /\ now <= now'
             \/ Touched /\ UNCHANGED <<epoch, messages, jgen, gen, now>>
    BY <1>1, <1>6
  <1>7. CASE \/ \E p \in outbox, date \in RowDates, joined \in Joins : InsertEcho(p, date, joined)
             \/ \E text \in ForeignTexts : ForeignSend(text)
    <2>1. UNCHANGED <<messages, jgen, gen, now>>
      BY <1>7 DEF InsertEcho, ForeignSend, journal
    <2> QED BY <1>1, <2>1
  <1> QED BY <1>1, <1>3, <1>4, <1>5, <1>6, <1>7, WorldSteps

\* When joins are prompt every row of the source is joined.
LEMMA JoinedKeeps ==
    ASSUME TypeOK, Prompt, [Next]_vars, \A m \in DOMAIN source : source[m].joined
    PROVE  \A m \in DOMAIN source' : source'[m].joined
  <1>1. source \in Seq(Row)
    BY DEF TypeOK
  <1>2. ASSUME NEW x, x.joined, source' = Append(source, x)
        PROVE  \A m \in DOMAIN source' : source'[m].joined
    BY <1>1, <1>2
  <1>3. CASE UNCHANGED source \/ Touched \/ source' = <<>>
    BY <1>3 DEF Touched
  <1>4. Ingest \/ ClientReset => UNCHANGED source
    BY DEF Ingest, ClientReset, outside
  <1>5. ReplaceSource => source' = <<>>
    BY DEF ReplaceSource
  <1>6. ASSUME NEW o \in outbox, NEW date \in RowDates, NEW joined \in Joins,
               InsertEcho(o, date, joined)
        PROVE  \A m \in DOMAIN source' : source'[m].joined
    <2>1. joined = TRUE
      BY DEF Prompt
    <2> QED BY <1>2, <1>6, <2>1 DEF InsertEcho, NewRow
  <1>7. ASSUME NEW text \in ForeignTexts, ForeignSend(text)
        PROVE  \A m \in DOMAIN source' : source'[m].joined
    BY <1>2, <1>7 DEF ForeignSend, NewRow
  <1> QED BY <1>3, <1>4, <1>5, <1>6, <1>7, WorldSteps

\* A text that is confirmed gets no other row: its echo would come too late.
LEMMA NoLateEcho ==
    ASSUME TypeOK, [Next]_vars, NEW o \in Ops, NEW k,
           OpTime(o) + EchoDelay < now, OpTime(o) \in Nat,
           \A m \in DOMAIN source : source[m].op = o => m = k
    PROVE  \A m \in DOMAIN source' : source'[m].op = o => m = k
  <1>1. source \in Seq(Row) /\ outbox \subseteq Ops /\ now \in Nat
    BY DEF TypeOK
  <1>2. ASSUME NEW x, x.op # o, source' = Append(source, x)
        PROVE  \A m \in DOMAIN source' : source'[m].op = o => m = k
    BY <1>1, <1>2
  <1>3. CASE UNCHANGED source \/ Touched \/ source' = <<>>
    BY <1>3 DEF Touched, SameRow
  <1>4. Ingest \/ ClientReset => UNCHANGED source
    BY DEF Ingest, ClientReset, outside
  <1>5. ReplaceSource => source' = <<>>
    BY DEF ReplaceSource
  <1>6. ASSUME NEW p \in outbox, NEW date \in RowDates, NEW joined \in Joins,
               InsertEcho(p, date, joined)
        PROVE  \A m \in DOMAIN source' : source'[m].op = o => m = k
    <2>1. p # o
      BY <1>1, <1>6, SendsAssumption DEF InsertEcho
    <2> QED BY <1>2, <1>6, <2>1 DEF InsertEcho, NewRow
  <1>7. ASSUME NEW text \in ForeignTexts, ForeignSend(text)
        PROVE  \A m \in DOMAIN source' : source'[m].op = o => m = k
    BY <1>2, <1>7, NoOpFacts DEF ForeignSend, NewRow
  <1> QED BY <1>3, <1>4, <1>5, <1>6, <1>7, WorldSteps

\* A text that is being confirmed has no other row: all of them would be its
\* candidates.
LEMMA OnlyEcho ==
    ASSUME OInv, EchoInv, EchoNext, Prompt, TextKept, NEW r \in Requests, TextOnly(r),
           NEW o, o = <<r, 0>>, Current(o)', Claims(o),
           NEW k \in DOMAIN Imported, Imported[k].op = o
    PROVE  k = OpMid(o)'
  <1>1. EchoInv' /\ Grows
    BY DEF EchoNext
  <1>2. /\ messages' = Imported /\ OpMid(o)' = UniqueText(Imported, r) /\ OpMid(o)' # NoMessage
        /\ Current(o) /\ OpTime(o)' = OpTime(o) /\ OpFloor(o)' = OpFloor(o)
    BY DEF Claims
  <1>3. o \in Ops /\ o[1] = r /\ o[2] = 0
    BY OpsFacts DEF PartsOf
  <1>4. /\ TypeOK /\ ShapeInv /\ source \in Seq(Row)
        /\ Imported[k] \in Row
    BY ImportedFacts DEF OInv, IInv, TypeOK
  <1>5. PICK x : x = Imported[k]
    OBVIOUS
  <1>6. Bears(x)' /\ Due(k, x)'
    <2>1. k \in DOMAIN messages' /\ x = messages'[k]
      BY <1>2, <1>5
    <2> QED BY <1>1, <2>1 DEF EchoInv, MessagesInv, Bears, Due, Current, OpFloor, OpTime
  <1>7. Imported[k].text = Text(r)
    BY <1>3, <1>6, <1>5, NoOpFacts DEF Bears, FileOf
  <1>8. /\ k > OpFloor(o) /\ OpTime(o) <= Imported[k].date + Skew
        /\ Imported[k].date <= OpTime(o) + EchoDelay
    <2>1. x.op = o
      BY <1>5
    <2>2. /\ k > OpFloor(o)' /\ OpTime(o)' <= x.date + Skew
          /\ x.date <= OpTime(o)' + EchoDelay
      BY <1>3, <1>6, <2>1 DEF Due, Current, OpFloor, OpTime
    <2> QED BY <1>2, <1>5, <2>2
  <1>9. InBoundary(o, k, Imported[k])
    <2>1. requests[r] \in Request /\ Len(requests[r].parts) = Len(NewRequest(r).parts)
      BY <1>4 DEF TypeOK, ShapeInv
    <2>2. OpTime(o) \in Nat /\ Imported[k].date \in Nat
      BY <1>3, <1>4, <2>1, RecordFacts DEF OpTime, Row
    <2> QED BY <1>8, <2>2, SendsAssumption DEF InBoundary, Prompt
  <1>10. ~ClaimedByOther(o, k)
    <2> SUFFICES ASSUME NEW p \in Ops \ {o}, Current(p), OpMid(p) = k
                 PROVE  FALSE
      BY DEF ClaimedByOther, Current
    <2>1. k # NoMessage
      BY <1>4, ImportedFacts DEF NoMessage
    <2>2. k \in DOMAIN messages
      BY <2>1 DEF EchoInv, ClaimInv
    <2>3. messages[k].op = o
      BY <1>1, <1>2, <1>3, <2>2 DEF Grows, SameRow
    <2>4. TextEchoKept
      BY TextEcho
    <2> QED BY <1>2, <1>3, <2>1, <2>3, <2>4 DEF TextEchoKept
  <1>11. k \in TextCandidates(Imported, r)
    BY <1>7, <1>9, <1>10 DEF TextCandidates
  <1> QED BY <1>2, <1>4, <1>11, UniqueTextAlone

LEMMA TextKeptKeeps ==
    ASSUME OInv, OInv', EchoInv, EchoNext, Prompt, TextKept, [Next]_vars
    PROVE  TextKept'
  <1>1. TypeOK /\ TypeOK' /\ ShapeInv /\ EchoStep /\ source \in Seq(Row)
    BY DEF OInv, IInv, EchoNext, TypeOK
  <1>2. \A m \in DOMAIN source' : source'[m].joined
    BY <1>1, JoinedKeeps DEF TextKept
  <1> SUFFICES ASSUME NEW r \in Requests, TextOnly(r), epochOf'[r] = epoch',
                      NEW k, k = requests'[r].mid, k # NoMessage
               PROVE  /\ requests'[r].time + EchoDelay < now'
                      /\ \A m \in DOMAIN messages' : messages'[m].op = <<r, 0>> => m = k
                      /\ gen' = jgen' =>
                            \A m \in DOMAIN source' : source'[m].op = <<r, 0>> => m = k
    BY <1>2 DEF TextKept
  <1>3. PICK o : o = <<r, 0>>
    OBVIOUS
  <1>4. /\ o \in Ops /\ o[1] = r /\ o[2] = 0 /\ Current(o)'
        /\ OpMid(o) = requests[r].mid /\ OpTime(o) = requests[r].time
        /\ OpMid(o)' = k /\ OpTime(o)' = requests'[r].time
    BY <1>3, OpsFacts DEF PartsOf, Current, OpMid, OpTime, At
  <1>5. /\ Current(o) /\ OpTime(o)' = OpTime(o)
        /\ OpMid(o)' = OpMid(o) \/ Claims(o)
    BY <1>1, <1>4, StepFacts
  <1>6. /\ gen' = jgen' => gen = jgen
        /\ UNCHANGED messages \/ (messages' = Imported /\ gen = jgen /\ UNCHANGED source)
        /\ now <= now'
    BY <1>4, <1>5, SameSource
  <1>7. /\ \A m \in DOMAIN Imported : m \in DOMAIN source /\ Imported[m] = source[m]
        /\ \A m \in DOMAIN source : m \in DOMAIN Imported
    BY <1>1 DEF Imported, TextKept
  <1>8. OpTime(o) \in Nat /\ now \in Nat /\ now' \in Nat
    <2>1. requests[r] \in Request /\ Len(requests[r].parts) = Len(NewRequest(r).parts)
      BY <1>1 DEF TypeOK, ShapeInv
    <2> QED BY <1>1, <1>4, <2>1, RecordFacts DEF OpTime, TypeOK
  <1>9. CASE OpMid(o)' = OpMid(o)
    <2>1. /\ OpTime(o) + EchoDelay < now
          /\ \A m \in DOMAIN messages : messages[m].op = o => m = k
          /\ gen = jgen => \A m \in DOMAIN source : source[m].op = o => m = k
      BY <1>3, <1>4, <1>5, <1>9 DEF TextKept, Current
    <2>2. gen = jgen => \A m \in DOMAIN source' : source'[m].op = o => m = k
      BY <1>1, <1>4, <1>8, <2>1, NoLateEcho
    <2>3. \A m \in DOMAIN messages' : messages'[m].op = o => m = k
      BY <1>6, <1>7, <2>1
    <2> QED BY <1>3, <1>4, <1>5, <1>6, <1>8, <2>1, <2>2, <2>3, SendsAssumption
  <1>10. CASE Claims(o)
    <2>1. messages' = Imported /\ UNCHANGED source /\ OpTime(o) + Window <= now
      BY <1>4, <1>10 DEF Claims
    <2>2. \A m \in DOMAIN Imported : Imported[m].op = o => m = k
      BY <1>3, <1>4, <1>10, OnlyEcho
    <2>3. OpTime(o) + EchoDelay < now'
      BY <1>6, <1>8, <2>1, SendsAssumption DEF Prompt
    <2> QED BY <1>3, <1>4, <1>5, <1>7, <2>1, <2>2, <2>3
  <1> QED BY <1>5, <1>9, <1>10
-----------------------------------------------------------------------------
(* What is guaranteed, and where.                                           *)

\* What reconcile or publish confirms is an imported message that bears the
\* text, or the file, that was sent, whatever other devices send and however
\* late echoes come.
THEOREM ConfirmedFits == Spec => []ClaimInv
  <1>1. EchoInv => ClaimInv
    BY DEF EchoInv
  <1> QED BY <1>1, EchoInvariance, PTL

\* claimedByOther and available: no message confirms two operations of an
\* epoch.
THEOREM ConfirmedOnce == Spec => []ClaimedOnce
  <1>1. EchoInv => ClaimedOnce
    BY DEF EchoInv
  <1> QED BY <1>1, EchoInvariance, PTL

\* The loops over unclaimed operations in reconcile and available: if echoes
\* come within observation_window_ms, an operation can take the echo of
\* another one only after that one has itself taken something else, and never
\* while it waits.
THEOREM WaitingKeepsEcho == ASSUME EchoDelay <= Window
                            PROVE  Spec => []MistakenFirst
  <1>1. EchoInv => MistakenFirst
    BY DEF EchoInv
  <1> QED BY <1>1, EchoInvariance, PTL

\* observation_window_ms and available: no operation confirms the echo of
\* another one, although texts and files may be the same and echoes come late,
\* not at all, or join late, as long as no other device sends one of the texts
\* and no new epoch begins.
THEOREM OwnEchoAlone == ASSUME Alone
                        PROVE  Spec => []NoStolenEcho
  <1> DEFINE Inv == Alone => OwnRows /\ NoStolenEcho
  <1>1. Init => Inv
    <2> SUFFICES ASSUME Init
                 PROVE  OwnRows /\ NoStolenEcho
      OBVIOUS
    <2>1. /\ gen = 1 /\ epoch = 1 /\ jgen = 0 /\ source = <<>> /\ messages = <<>>
          /\ \A r \in Requests : epochOf[r] = 0
      BY DEF Init
    <2>2. \A o \in Ops : ~Current(o)
      BY <2>1, OpsFacts DEF Current
    <2>3. DOMAIN source = {} /\ DOMAIN messages = {}
      BY <2>1
    <2> QED BY <2>1, <2>2, <2>3 DEF OwnRows, NoStolenEcho
  <1>2. (OInv /\ EchoInv) /\ Inv /\ [Next]_vars => Inv'
    <2> SUFFICES ASSUME OInv, EchoInv, Alone, OwnRows, NoStolenEcho, [Next]_vars
                 PROVE  OwnRows' /\ NoStolenEcho'
      BY DEF Alone
    <2>1. OInv' /\ EchoNext
      BY NextEchoInv
    <2>2. TypeOK
      BY DEF OInv, IInv
    <2> QED BY <2>1, <2>2, OwnRowsKeep, NotStolen
  <1>3. Inv => NoStolenEcho
    OBVIOUS
  <1> QED BY <1>1, <1>2, <1>3, EchoInvariance, PTL DEF Spec

\* observation_window_ms in reconcile: if echoes come and join before the
\* window closes, the echo of a text is confirmed by no other operation, not
\* even when other devices send the same text, epochs end or the source is
\* replaced.
THEOREM TextEchoesKept == ASSUME Prompt
                          PROVE  Spec => []TextEchoKept
  <1> DEFINE Inv == Prompt => TextKept
  <1>1. Init => Inv
    <2> SUFFICES ASSUME Init
                 PROVE  TextKept
      OBVIOUS
    <2>1. epoch = 1 /\ source = <<>> /\ \A r \in Requests : epochOf[r] = 0
      BY DEF Init
    <2> QED BY <2>1 DEF TextKept
  <1>2. (OInv /\ EchoInv) /\ Inv /\ [Next]_vars => Inv'
    <2> SUFFICES ASSUME OInv, EchoInv, Prompt, TextKept, [Next]_vars
                 PROVE  TextKept'
      BY DEF Prompt
    <2> QED BY NextEchoInv, TextKeptKeeps
  <1>3. EchoInv /\ Inv => TextEchoKept
    BY TextEcho
  <1> QED BY <1>1, <1>2, <1>3, EchoInvariance, PTL DEF Spec

\* So no text confirms the echo of another text under those conditions.
THEOREM OwnEchoOfTexts == ASSUME Prompt, \A r \in Requests : TextOnly(r)
                          PROVE  Spec => []NoStolenEcho
  <1>1. (OInv /\ EchoInv) /\ TextEchoKept => NoStolenEcho
    <2> SUFFICES ASSUME OInv, EchoInv, TextEchoKept,
                        NEW o \in Ops, Current(o), OpMid(o) # NoMessage,
                        NEW x, x = messages[OpMid(o)].op, Current(x), x # NoOp, x # o
                 PROVE  FALSE
      BY DEF EchoInv, ClaimedOnce, NoStolenEcho
    <2>1. messages[OpMid(o)] \in Row
      BY DEF EchoInv, ClaimInv, OInv, IInv, TypeOK
    <2>2. x \in Ops
      BY <2>1 DEF Row
    <2> QED BY <2>2, OpsFacts DEF TextEchoKept
  <1> QED BY <1>1, EchoInvariance, TextEchoesKept, PTL
=============================================================================
