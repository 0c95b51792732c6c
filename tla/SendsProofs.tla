---------------------------- MODULE SendsProofs ----------------------------
(***************************************************************************)
(* Proofs about Sends for every set of requests, files and texts, every      *)
(* window, skew and delay, and any number of rows, ticks and faults: the     *)
(* types, that automation is called at most once for an operation, and that  *)
(* an error saying that nothing was sent is true.                            *)
(***************************************************************************)
EXTENDS Sends, FiniteSetTheorems, SequenceTheorems, TLAPS
-----------------------------------------------------------------------------
(* What the operators of SendParts do to a request: they keep its type, the  *)
(* number of its parts and their files, and change the state and error of    *)
(* each part only in the ways below.                                         *)

\* Part q is p, or p skipped because an earlier part stopped.
Aside(p, q) ==
    /\ q.file = p.file
    /\ \/ q.state = p.state /\ q.err = p.err
       \/ p.state = "queued" /\ q.state = "skipped" /\ q.err = "unstarted"

\* Part q is p after an interruption.
Interrupted(p, q) ==
    IF p.state = "dispatching"
    THEN q.file = p.file /\ q.state = "unknown" /\ q.err = "uncertain"
    ELSE Aside(p, q)

\* Request w has the parts of v, part i excepted, or skipped ones for them.
OthersAside(v, w, i) ==
    /\ Len(w.parts) = Len(v.parts)
    /\ \A k \in 1..Len(v.parts) : k # i => Aside(v.parts[k], w.parts[k])

\* What a request that says it is unstarted is made of (sends.summarize).
AllUnstarted(parts) ==
    \A k \in 1..Len(parts) :
        \/ parts[k].state = "queued"
        \/ parts[k].state \in {"failed", "skipped"} /\ parts[k].err # "uncertain"

\* No part of v is in one of the states S.
NoneIn(v, S) == \A k \in 1..Len(v.parts) : v.parts[k].state \notin S

\* Nothing is queued behind a part that stopped.
Orderly(v) == NoneIn(v, {"queued"}) \/ NoneIn(v, {"failed", "skipped"})

\* The summary of a request with parts, as far as its queue is concerned: it is
\* dispatching when a part is, and what is queued shows.
Summed(v) ==
    /\ Orderly(v)
    /\ v.state = "dispatching" <=> ~NoneIn(v, {"dispatching"})
    /\ v.state = "queued" => ~NoneIn(v, {"queued"})
    /\ ~NoneIn(v, {"queued"}) => v.state \in {"queued", "dispatching"}
-----------------------------------------------------------------------------
(* The assignments, on parts and on requests.                               *)

\* Marking a part keeps its type and sets exactly state, time and floor.
LEMMA MarkPart ==
    ASSUME NEW p \in Part, NEW time \in Nat, NEW floor \in Nat
    PROVE  /\ Mark(p, time, floor) \in Part
           /\ Mark(p, time, floor).file = p.file
           /\ Mark(p, time, floor).state = "dispatching"
           /\ Mark(p, time, floor).err = p.err
           /\ Mark(p, time, floor).mid = p.mid
  <1>1. "dispatching" \in PartState
    BY DEF PartState
  <1> QED BY <1>1, Zenon DEF Part, Mark

\* The same for a text-only request, whose boundary is its own.
LEMMA MarkRequest ==
    ASSUME NEW v \in Request, NEW time \in Nat, NEW floor \in Nat
    PROVE  /\ Mark(v, time, floor) \in Request
           /\ Mark(v, time, floor).parts = v.parts
           /\ Mark(v, time, floor).state = "dispatching"
           /\ Mark(v, time, floor).err = v.err
           /\ Mark(v, time, floor).mid = v.mid
  <1>1. "dispatching" \in SendStatus
    BY DEF SendStatus
  <1> QED BY <1>1, Zenon DEF Request, Mark

\* Ending a part sets exactly its state and error.
LEMMA EndPart ==
    ASSUME NEW p \in Part, NEW state \in PartState, NEW err \in ErrorInfo
    PROVE  /\ End(p, state, err) \in Part
           /\ End(p, state, err).file = p.file
           /\ End(p, state, err).state = state
           /\ End(p, state, err).err = err
           /\ End(p, state, err).mid = p.mid
  BY Zenon DEF Part, End

\* The same for a request.
LEMMA EndRequest ==
    ASSUME NEW v \in Request, NEW state \in SendStatus, NEW err \in ErrorInfo
    PROVE  /\ End(v, state, err) \in Request
           /\ End(v, state, err).parts = v.parts
           /\ End(v, state, err).state = state
           /\ End(v, state, err).err = err
           /\ End(v, state, err).mid = v.mid
  BY Zenon DEF Request, End

\* Settling a part sets its message, state and error, and no other field but
\* the hint.
LEMMA SettlePart ==
    ASSUME NEW p \in Part, NEW m \in Nat, NEW state \in PartState, NEW err \in ErrorInfo
    PROVE  /\ Settle(p, m, state, err) \in Part
           /\ Settle(p, m, state, err).file = p.file
           /\ Settle(p, m, state, err).state = state
           /\ Settle(p, m, state, err).err = err
           /\ Settle(p, m, state, err).mid = m
  <1>1. NoMessage \in Nat
    BY DEF NoMessage
  <1> QED BY <1>1, Zenon DEF Part, Settle

\* The same for a request.
LEMMA SettleRequest ==
    ASSUME NEW v \in Request, NEW m \in Nat, NEW state \in SendStatus, NEW err \in ErrorInfo
    PROVE  /\ Settle(v, m, state, err) \in Request
           /\ Settle(v, m, state, err).parts = v.parts
           /\ Settle(v, m, state, err).state = state
           /\ Settle(v, m, state, err).err = err
           /\ Settle(v, m, state, err).mid = m
  <1>1. NoMessage \in Nat
    BY DEF NoMessage
  <1> QED BY <1>1, Zenon DEF Request, Settle

\* Replacing the parts of a request.
LEMMA WithParts ==
    ASSUME NEW v \in Request, NEW s \in Seq(Part)
    PROVE  /\ [v EXCEPT !.parts = s] \in Request
           /\ [v EXCEPT !.parts = s].parts = s
           /\ [v EXCEPT !.parts = s].state = v.state
           /\ [v EXCEPT !.parts = s].err = v.err
           /\ [v EXCEPT !.parts = s].mid = v.mid
  BY Zenon DEF Request
-----------------------------------------------------------------------------
(* The operators.                                                           *)

\* Summarizing keeps the parts, and reports that nothing was started only
\* when every part is queued or stopped without an uncertain outcome.
LEMMA SummarizeFacts ==
    ASSUME NEW v \in Request
    PROVE  /\ Summarize(v) \in Request
           /\ Summarize(v).parts = v.parts
           /\ Summarize(v).err = "unstarted" => AllUnstarted(v.parts)
           /\ Orderly(v) => Summed(Summarize(v))
  <1>1. SummaryState(v) \in SendStatus
    BY DEF SummaryState, SendStatus
  <1>2. SummaryErr(v) \in ErrorInfo
    BY DEF SummaryErr, ErrorInfo
  <1>3. ASSUME SummaryErr(v) = "unstarted"
        PROVE  AllUnstarted(v.parts)
    <2>1. ~SomePart(v, {"dispatching"}) /\ ~Attempted(v)
      BY <1>3 DEF SummaryErr
    <2>2. \A k \in 1..Len(v.parts) : v.parts[k].state \in PartState
      <3>1. v.parts \in Seq(Part)
        BY DEF Request
      <3>2. \A k \in 1..Len(v.parts) : v.parts[k] \in Part
        BY <3>1
      <3> QED BY <3>2 DEF Part
    <2>3. ASSUME NEW k \in 1..Len(v.parts)
          PROVE  /\ v.parts[k].state \notin {"dispatching", "unknown"} \cup Advanced
                 /\ v.parts[k].state \in {"failed", "skipped"} => v.parts[k].err # "uncertain"
      BY <2>1 DEF Attempted, Unresolved, SomePart
    <2> QED BY <2>2, <2>3 DEF AllUnstarted, Advanced, PartState
  <1>4. NoMessage \in Nat
    BY DEF NoMessage
  <1>5. /\ Summarize(v) \in Request
        /\ Summarize(v).parts = v.parts
        /\ Summarize(v).state = SummaryState(v)
        /\ Summarize(v).err = SummaryErr(v)
    BY <1>1, <1>2, <1>4, SettleRequest DEF Summarize
  <1>6. \A S : NoneIn(Summarize(v), S) <=> ~SomePart(v, S)
    BY <1>5 DEF NoneIn, SomePart
  <1>7. \A S : NoneIn(v, S) <=> ~SomePart(v, S)
    BY DEF NoneIn, SomePart
  <1>8. ASSUME Orderly(v)
        PROVE  Summed(Summarize(v))
    <2>1. ~SomePart(v, {"queued"}) \/ ~Stopped(v)
      BY <1>7, <1>8 DEF Orderly, Stopped
    <2>2. /\ SummaryState(v) = "dispatching" <=> SomePart(v, {"dispatching"})
          /\ SummaryState(v) = "queued" => SomePart(v, {"queued"})
          /\ SomePart(v, {"queued"}) => SummaryState(v) \in {"queued", "dispatching"}
      BY <2>1 DEF SummaryState
    <2> QED BY <1>5, <1>6, <2>1, <2>2 DEF Summed, Orderly, Stopped
  <1> QED BY <1>3, <1>5, <1>8

\* Skipping keeps length, types and files, and touches queued parts only.
LEMMA SkipQueuedFacts ==
    ASSUME NEW s \in Seq(Part)
    PROVE  /\ SkipQueued(s) \in Seq(Part)
           /\ Len(SkipQueued(s)) = Len(s)
           /\ \A k \in 1..Len(s) : Aside(s[k], SkipQueued(s)[k])
           /\ \A k \in 1..Len(s) : SkipQueued(s)[k].state # "queued"
  <1>1. Len(s) \in Nat /\ \A k \in 1..Len(s) : s[k] \in Part
    OBVIOUS
  <1>2. ASSUME NEW p \in Part
        PROVE  /\ End(p, "skipped", "unstarted") \in Part
               /\ End(p, "skipped", "unstarted").file = p.file
               /\ End(p, "skipped", "unstarted").state = "skipped"
               /\ End(p, "skipped", "unstarted").err = "unstarted"
    BY EndPart DEF PartState, ErrorInfo
  <1>3. SkipQueued(s) \in [1..Len(s) -> Part]
    BY <1>1, <1>2 DEF SkipQueued
  <1>4. SkipQueued(s) \in Seq(Part) /\ Len(SkipQueued(s)) = Len(s)
    BY <1>1, <1>3
  <1>5. \A k \in 1..Len(s) : SkipQueued(s)[k] =
            IF s[k].state = "queued" THEN End(s[k], "skipped", "unstarted") ELSE s[k]
    BY DEF SkipQueued
  <1> QED BY <1>1, <1>2, <1>4, <1>5 DEF Aside

\* Starting part i marks it and touches no other part.
LEMMA StartFacts ==
    ASSUME NEW v \in Request, NEW i \in 1..Len(v.parts), NEW time \in Nat, NEW floor \in Nat
    PROVE  LET w == Start(v, i, time, floor)
           IN  /\ w \in Request
               /\ Len(w.parts) = Len(v.parts)
               /\ w.parts[i].file = v.parts[i].file
               /\ w.parts[i].state = "dispatching"
               /\ w.parts[i].err = v.parts[i].err
               /\ w.parts[i].mid = v.parts[i].mid
               /\ \A k \in 1..Len(v.parts) : k # i => w.parts[k] = v.parts[k]
               /\ w.err = "unstarted" => AllUnstarted(w.parts)
               /\ Orderly(v) => Summed(w)
  <1> DEFINE s == [v.parts EXCEPT ![i] = Mark(v.parts[i], time, floor)]
             x == [v EXCEPT !.parts = s]
  <1>1. v.parts \in Seq(Part) /\ v.parts[i] \in Part
    BY DEF Request
  <1>2. /\ Mark(v.parts[i], time, floor) \in Part
        /\ Mark(v.parts[i], time, floor).file = v.parts[i].file
        /\ Mark(v.parts[i], time, floor).state = "dispatching"
        /\ Mark(v.parts[i], time, floor).err = v.parts[i].err
        /\ Mark(v.parts[i], time, floor).mid = v.parts[i].mid
    BY <1>1, MarkPart
  <1>3. /\ s \in Seq(Part)
        /\ Len(s) = Len(v.parts)
        /\ s[i] = Mark(v.parts[i], time, floor)
        /\ \A k \in 1..Len(v.parts) : k # i => s[k] = v.parts[k]
    BY <1>1, <1>2, ExceptSeq
  <1> HIDE DEF s
  <1>4. x \in Request /\ x.parts = s
    BY <1>3, WithParts
  <1>5. Start(v, i, time, floor) = Summarize(x)
    BY DEF Start, s
  <1> HIDE DEF x
  <1>6. Orderly(v) => Orderly(x)
    BY <1>2, <1>3, <1>4 DEF Orderly, NoneIn
  <1> QED BY <1>2, <1>3, <1>4, <1>5, <1>6, SummarizeFacts

\* Finishing part i ends it with the outcome of its call and at most skips
\* what was queued.
LEMMA FinishFacts ==
    ASSUME NEW v \in Request, NEW i \in 1..Len(v.parts),
           NEW outcome \in {"invoked", "unstarted", "uncertain"}
    PROVE  LET w == Finish(v, i, outcome)
           IN  /\ w \in Request
               /\ OthersAside(v, w, i)
               /\ w.parts[i].file = v.parts[i].file
               /\ w.parts[i].state = FinishState(outcome)
               /\ w.parts[i].err = FinishErr(outcome)
               /\ w.err = "unstarted" => AllUnstarted(w.parts)
               /\ IF outcome = "invoked"
                  THEN \A k \in 1..Len(v.parts) : k # i => w.parts[k] = v.parts[k]
                  ELSE NoneIn(w, {"queued"})
               /\ Orderly(v) => Summed(w)
  <1> DEFINE e == End(v.parts[i], FinishState(outcome), FinishErr(outcome))
             s == [v.parts EXCEPT ![i] = e]
             t == IF outcome = "invoked" THEN s ELSE SkipQueued(s)
             x == [v EXCEPT !.parts = t]
  <1>1. v.parts \in Seq(Part) /\ v.parts[i] \in Part
    BY DEF Request
  <1>2. FinishState(outcome) \in PartState /\ FinishErr(outcome) \in ErrorInfo
    BY DEF FinishState, FinishErr, PartState, ErrorInfo
  <1>3. /\ e \in Part
        /\ e.file = v.parts[i].file
        /\ e.state = FinishState(outcome)
        /\ e.err = FinishErr(outcome)
    BY <1>1, <1>2, EndPart
  <1> HIDE DEF e
  <1>4. /\ s \in Seq(Part)
        /\ Len(s) = Len(v.parts)
        /\ s[i] = e
        /\ \A k \in 1..Len(v.parts) : k # i => s[k] = v.parts[k]
    BY <1>1, <1>3, ExceptSeq
  <1>5. e.state # "queued"
    BY <1>3 DEF FinishState
  <1> HIDE DEF s
  <1>6. /\ t \in Seq(Part)
        /\ Len(t) = Len(v.parts)
        /\ \A k \in 1..Len(v.parts) : Aside(s[k], t[k])
        /\ IF outcome = "invoked" THEN t = s
           ELSE \A k \in 1..Len(v.parts) : t[k].state # "queued"
    BY <1>4, SkipQueuedFacts DEF Aside
  <1> HIDE DEF t
  <1>7. x \in Request /\ x.parts = t
    BY <1>6, WithParts
  <1>8. Finish(v, i, outcome) = Summarize(x)
    BY DEF Finish, t, s, e
  <1>9. /\ t[i].file = e.file /\ t[i].state = e.state /\ t[i].err = e.err
        /\ \A k \in 1..Len(v.parts) : k # i => Aside(v.parts[k], t[k])
    BY <1>4, <1>5, <1>6 DEF Aside
  <1> HIDE DEF x
  <1>10. IF outcome = "invoked"
         THEN \A k \in 1..Len(v.parts) : k # i => x.parts[k] = v.parts[k]
         ELSE NoneIn(x, {"queued"})
    BY <1>4, <1>6, <1>7 DEF NoneIn
  <1>11. Orderly(v) => Orderly(x)
    <2>1. CASE outcome = "invoked"
      <3>1. e.state = "invoked"
        BY <1>3, <2>1 DEF FinishState
      <3> QED BY <1>4, <1>6, <1>7, <2>1, <3>1 DEF Orderly, NoneIn
    <2>2. CASE outcome # "invoked"
      BY <1>10, <2>2 DEF Orderly
    <2> QED BY <2>1, <2>2
  <1>12. /\ Summarize(x) \in Request /\ Summarize(x).parts = t
         /\ Summarize(x).err = "unstarted" => AllUnstarted(t)
         /\ Orderly(v) => Summed(Summarize(x))
    BY <1>7, <1>11, SummarizeFacts
  <1>13. NoneIn(x, {"queued"}) => NoneIn(Summarize(x), {"queued"})
    BY <1>7, <1>12 DEF NoneIn
  <1> QED BY <1>3, <1>6, <1>7, <1>8, <1>9, <1>10, <1>12, <1>13 DEF OthersAside

\* An interrupted part keeps its type and file, and only a dispatching one
\* changes its state.
LEMMA InterruptPartFacts ==
    ASSUME NEW p \in Part, NEW reset \in BOOLEAN
    PROVE  LET q == InterruptPart(p, reset)
           IN  /\ q \in Part
               /\ q.file = p.file
               /\ p.state = "dispatching" => q.state = "unknown" /\ q.err = "uncertain"
               /\ p.state # "dispatching" => q.state = p.state /\ q.err = p.err
  <1> DEFINE h == IF p.state = "dispatching" THEN End(p, "unknown", "uncertain") ELSE p
  <1>1. /\ h \in Part
        /\ h.file = p.file
        /\ p.state = "dispatching" => h.state = "unknown" /\ h.err = "uncertain"
        /\ p.state # "dispatching" => h.state = p.state /\ h.err = p.err
    BY EndPart DEF PartState, ErrorInfo
  <1>2. h.state \in PartState /\ h.err \in ErrorInfo /\ NoMessage \in Nat
    BY <1>1 DEF Part, NoMessage
  <1>3. InterruptPart(p, reset) = IF reset THEN Settle(h, NoMessage, h.state, h.err) ELSE h
    BY DEF InterruptPart
  <1> HIDE DEF h
  <1> QED BY <1>1, <1>2, <1>3, SettlePart

\* Interrupting a request leaves no part queued or dispatching.
LEMMA InterruptFacts ==
    ASSUME NEW v \in Request, NEW reset \in BOOLEAN
    PROVE  LET w == Interrupt(v, reset)
           IN  /\ w \in Request
               /\ Len(w.parts) = Len(v.parts)
               /\ \A k \in 1..Len(v.parts) : Interrupted(v.parts[k], w.parts[k])
               /\ w.err = "unstarted" => AllUnstarted(w.parts)
               /\ NoneIn(w, {"queued", "dispatching"})
  <1> DEFINE s == [i \in 1..Len(v.parts) |-> InterruptPart(v.parts[i], reset)]
             t == SkipQueued(s)
             x == [v EXCEPT !.parts = t]
  <1>1. /\ v.parts \in Seq(Part) /\ Len(v.parts) \in Nat
        /\ \A k \in 1..Len(v.parts) : v.parts[k] \in Part
    BY DEF Request
  <1>2. s \in [1..Len(v.parts) -> Part]
    BY <1>1, InterruptPartFacts
  <1>3. s \in Seq(Part) /\ Len(s) = Len(v.parts)
    BY <1>1, <1>2
  <1>4. \A k \in 1..Len(v.parts) : s[k] = InterruptPart(v.parts[k], reset)
    OBVIOUS
  <1> HIDE DEF s
  <1>5. /\ t \in Seq(Part)
        /\ Len(t) = Len(v.parts)
        /\ \A k \in 1..Len(v.parts) : Aside(s[k], t[k])
        /\ \A k \in 1..Len(v.parts) : t[k].state # "queued"
    BY <1>3, SkipQueuedFacts
  <1>6. ASSUME NEW k \in 1..Len(v.parts)
        PROVE  Interrupted(v.parts[k], t[k])
    BY <1>1, <1>4, <1>5, InterruptPartFacts DEF Interrupted, Aside
  <1> HIDE DEF t
  <1>7. x \in Request /\ x.parts = t
    BY <1>5, WithParts
  <1>8. Interrupt(v, reset) = Summarize(x)
    BY DEF Interrupt, s, t
  <1> HIDE DEF x
  <1>9. \A k \in 1..Len(v.parts) : t[k].state \notin {"queued", "dispatching"}
    BY <1>5, <1>6 DEF Interrupted, Aside
  <1>10. /\ Summarize(x) \in Request /\ Summarize(x).parts = t
         /\ Summarize(x).err = "unstarted" => AllUnstarted(t)
    BY <1>7, SummarizeFacts
  <1>11. NoneIn(Summarize(x), {"queued", "dispatching"})
    BY <1>5, <1>9, <1>10 DEF NoneIn
  <1> QED BY <1>5, <1>6, <1>8, <1>10, <1>11

\* Observing part i gives it the message and its status, and at most skips
\* what was queued.
LEMMA ObserveFacts ==
    ASSUME NEW v \in Request, NEW i \in 1..Len(v.parts), NEW m \in Nat,
           NEW status \in {"submitted", "delivered", "failed"}
    PROVE  LET w == Observe(v, i, m, status)
           IN  /\ w \in Request
               /\ OthersAside(v, w, i)
               /\ w.parts[i].file = v.parts[i].file
               /\ w.parts[i].state = status
               /\ w.parts[i].err = IF status = "failed" THEN "uncertain" ELSE "none"
               /\ w.err = "unstarted" => AllUnstarted(w.parts)
               /\ IF status = "failed" THEN NoneIn(w, {"queued"})
                  ELSE \A k \in 1..Len(v.parts) : k # i => w.parts[k] = v.parts[k]
               /\ Orderly(v) => Summed(w)
  <1> DEFINE err == IF status = "failed" THEN "uncertain" ELSE "none"
             e == Settle(v.parts[i], m, status, err)
             s == [v.parts EXCEPT ![i] = e]
             t == IF status = "failed" THEN SkipQueued(s) ELSE s
             x == [v EXCEPT !.parts = t]
  <1>1. v.parts \in Seq(Part) /\ v.parts[i] \in Part
    BY DEF Request
  <1>2. status \in PartState /\ err \in ErrorInfo
    BY DEF PartState, ErrorInfo
  <1> HIDE DEF err
  <1>3. /\ e \in Part
        /\ e.file = v.parts[i].file
        /\ e.state = status
        /\ e.err = err
    BY <1>1, <1>2, SettlePart
  <1> USE DEF err
  <1> HIDE DEF e
  <1>4. /\ s \in Seq(Part)
        /\ Len(s) = Len(v.parts)
        /\ s[i] = e
        /\ \A k \in 1..Len(v.parts) : k # i => s[k] = v.parts[k]
    BY <1>1, <1>3, ExceptSeq
  <1>5. e.state # "queued"
    BY <1>3
  <1> HIDE DEF s
  <1>6. /\ t \in Seq(Part)
        /\ Len(t) = Len(v.parts)
        /\ \A k \in 1..Len(v.parts) : Aside(s[k], t[k])
        /\ IF status = "failed" THEN \A k \in 1..Len(v.parts) : t[k].state # "queued"
           ELSE t = s
    BY <1>4, SkipQueuedFacts DEF Aside
  <1> HIDE DEF t
  <1>7. x \in Request /\ x.parts = t
    BY <1>6, WithParts
  <1>8. Observe(v, i, m, status) = Summarize(x)
    BY DEF Observe, t, s, e
  <1>9. /\ t[i].file = e.file /\ t[i].state = e.state /\ t[i].err = e.err
        /\ \A k \in 1..Len(v.parts) : k # i => Aside(v.parts[k], t[k])
    BY <1>4, <1>5, <1>6 DEF Aside
  <1> HIDE DEF x
  <1>10. IF status = "failed" THEN NoneIn(x, {"queued"})
         ELSE \A k \in 1..Len(v.parts) : k # i => x.parts[k] = v.parts[k]
    BY <1>4, <1>6, <1>7 DEF NoneIn
  <1>11. Orderly(v) => Orderly(x)
    <2>1. CASE status = "failed"
      BY <1>10, <2>1 DEF Orderly
    <2>2. CASE status # "failed"
      BY <1>3, <1>4, <1>6, <1>7, <2>2 DEF Orderly, NoneIn
    <2> QED BY <2>1, <2>2
  <1>12. /\ Summarize(x) \in Request /\ Summarize(x).parts = t
         /\ Summarize(x).err = "unstarted" => AllUnstarted(t)
         /\ Orderly(v) => Summed(Summarize(x))
    BY <1>7, <1>11, SummarizeFacts
  <1>13. NoneIn(x, {"queued"}) => NoneIn(Summarize(x), {"queued"})
    BY <1>7, <1>12 DEF NoneIn
  <1> QED BY <1>3, <1>6, <1>7, <1>8, <1>9, <1>10, <1>12, <1>13 DEF OthersAside

-----------------------------------------------------------------------------
(* The inductive invariant.                                                 *)

\* A request keeps its number of parts, and one that was not accepted is as
\* it will be submitted.
ShapeInv ==
    \A r \in Requests :
        /\ Len(requests[r].parts) = Len(NewRequest(r).parts)
        /\ epochOf[r] = 0 => requests[r] = NewRequest(r)

\* Automation calls against the durable state of an operation: what is still
\* queued was not called, and only what was called can have been taken.
CallInv ==
    \A o \in Ops :
        /\ calls[o] <= 1
        /\ OpState(o) = "queued" => calls[o] = 0
        /\ o \in taken => calls[o] > 0

\* Errors against what Messages took; a stopped operation always has one.
ErrorInv ==
    \A o \in Ops :
        /\ OpErr(o) = "unstarted" => OpState(o) \in {"failed", "skipped"} /\ o \notin taken
        /\ OpState(o) \in {"failed", "skipped"} => OpErr(o) # "none"

\* A request with parts that says it is unstarted has only unstarted parts.
SummaryInv ==
    \A r \in Requests :
        (~TextOnly(r) /\ requests[r].err = "unstarted") => AllUnstarted(requests[r].parts)

\* What the sender holds while it is outside the lock: an operation that left
\* the queue and is not reported unstarted, dispatching unless a reset has
\* intervened, and not called before.
SenderInv ==
    sender.pc # "idle" =>
        /\ sender.op \in Ops
        /\ epochOf[sender.op[1]] # 0
        /\ sender.epoch <= epoch
        /\ OpState(sender.op) # "queued"
        /\ OpErr(sender.op) # "unstarted"
        /\ sender.epoch = epoch =>
              /\ OpState(sender.op) = "dispatching"
              /\ TextOnly(sender.op[1]) => requests[sender.op[1]] = sender.work
        /\ sender.pc = "prepared" => calls[sender.op] = 0
        /\ sender.pc = "returned" =>
              /\ sender.outcome # "none"
              /\ sender.outcome = "unstarted" => sender.op \notin taken

\* The observation thread looks at a part of an accepted request.
ObserverInv ==
    observer.pc # "idle" =>
        /\ observer.op \in Ops
        /\ observer.op[2] > 0
        /\ epochOf[observer.op[1]] # 0

IInv == /\ TypeOK /\ ShapeInv /\ CallInv /\ ErrorInv
        /\ SummaryInv /\ SenderInv /\ ObserverInv
-----------------------------------------------------------------------------
(* Operations and new requests.                                             *)

\* An operation is a pair of a request and one of its parts.
LEMMA OpsFacts ==
    /\ \A o \in Ops : o[1] \in Requests /\ o[2] \in PartsOf(o[1]) /\ o = <<o[1], o[2]>>
    /\ \A r \in Requests : \A i \in PartsOf(r) : <<r, i>> \in Ops
  BY DEF Ops

\* The parts of a request are numbered from 1, or it is operation 0 itself.
LEMMA PartsOfFacts ==
    ASSUME NEW r \in Requests, NEW i \in PartsOf(r)
    PROVE  /\ i \in Nat
           /\ TextOnly(r) <=> i = 0
           /\ ~TextOnly(r) => i \in 1..Len(NewRequest(r).parts)
  BY DEF PartsOf

\* sends.init: the parts of a new request are all queued, with no error.
LEMMA InitPartsFacts ==
    ASSUME NEW hasText \in BOOLEAN, NEW files \in Seq(Files)
    PROVE  InitParts(hasText, files) \in Seq({p \in Part : p.state = "queued" /\ p.err = "none"})
  <1> DEFINE Q == {p \in Part : p.state = "queued" /\ p.err = "none"}
             caption == IF hasText THEN <<NewPart(NoFile)>> ELSE <<>>
             list == [i \in 1..Len(files) |-> NewPart(files[i])]
  <1>1. ASSUME NEW f \in Files \cup {NoFile}
        PROVE  NewPart(f) \in Q
    BY DEF NewPart, Part, PartState, ErrorInfo, NoMessage
  <1> HIDE DEF Q
  <1>2. caption \in Seq(Q)
    BY <1>1
  <1>3. list \in [1..Len(files) -> Q]
    BY <1>1
  <1>4. list \in Seq(Q)
    BY <1>3
  <1>5. InitParts(hasText, files) = IF files = <<>> THEN <<>> ELSE caption \o list
    BY DEF InitParts
  <1> HIDE DEF caption, list
  <1>6. caption \o list \in Seq(Q)
    BY <1>2, <1>4
  <1> QED BY <1>5, <1>6 DEF Q

\* A request that was just accepted: everything queued, no error.
LEMMA NewRequestFacts ==
    ASSUME NEW r \in Requests
    PROVE  /\ NewRequest(r) \in Request
           /\ NewRequest(r).state = "queued" /\ NewRequest(r).err = "none"
           /\ \A k \in 1..Len(NewRequest(r).parts) :
                 NewRequest(r).parts[k].state = "queued" /\ NewRequest(r).parts[k].err = "none"
           /\ \A i \in PartsOf(r) :
                 At(NewRequest(r), i).state = "queued" /\ At(NewRequest(r), i).err = "none"
  <1> DEFINE Q == {p \in Part : p.state = "queued" /\ p.err = "none"}
             s == InitParts(Text(r) # NoText, Payload[r].files)
  <1>1. Payload[r].files \in Seq(Files)
    BY SendsAssumption
  <1>2. s \in Seq(Q)
    BY <1>1, InitPartsFacts
  <1>3. Q \subseteq Part
    OBVIOUS
  <1>4. s \in Seq(Part) /\ \A k \in 1..Len(s) : s[k].state = "queued" /\ s[k].err = "none"
    BY <1>2
  <1>5. /\ NewRequest(r).parts = s
        /\ NewRequest(r).state = "queued" /\ NewRequest(r).err = "none"
    BY DEF NewRequest
  <1> HIDE DEF s
  <1>6. NewRequest(r) \in Request
    BY <1>4 DEF NewRequest, Request, SendStatus, ErrorInfo, NoMessage, s
  <1> QED BY <1>4, <1>5, <1>6, PartsOfFacts DEF At
-----------------------------------------------------------------------------
(* How a step may change a request.                                         *)

\* Operation p becomes q without being sent: nothing new, skipped, or an
\* outcome that does not claim that nothing was sent.
Quiet(p, q) ==
    \/ q.state = p.state /\ q.err = p.err
    \/ p.state = "queued" /\ q.state = "skipped" /\ q.err = "unstarted"
    \/ /\ q.state \notin {"queued", "dispatching"}
       /\ q.err # "unstarted"
       /\ q.state \in {"failed", "skipped"} => q.err = "uncertain"

\* Request v becomes w with its parts, and w's summary is one of its parts.
Reshaped(r, v, w) ==
    /\ w \in Request
    /\ Len(w.parts) = Len(v.parts)
    /\ (~TextOnly(r) /\ w.err = "unstarted") => AllUnstarted(w.parts)

QuietChange(r, v, w) ==
    /\ Reshaped(r, v, w)
    /\ \A i \in PartsOf(r) : Quiet(At(v, i), At(w, i))

\* The change leaves what the sender is dispatching alone.
Holds(r, v, w) ==
    /\ TextOnly(r) => v.state # "dispatching" \/ w = v
    /\ \A i \in PartsOf(r) : At(v, i).state = "dispatching"
          => At(w, i).state = "dispatching" /\ At(w, i).err = At(v, i).err

UploadType == [state: {"ready", "pinned", "deleting"}, epoch: Nat,
               req: Requests \cup {NoRequest}]

\* Retiring uploads keeps their type.
LEMMA RetireType ==
    ASSUME NEW up \in [Files -> UploadType], NEW released
    PROVE  Retire(up, released) \in [Files -> UploadType]
  BY DEF Retire, UploadType

\* updateRequest stores the new records and no others.
LEMMA UpdateFacts ==
    ASSUME TypeOK, NEW S \in SUBSET Requests, NEW new,
           DOMAIN new = S, \A r \in S : new[r] \in Request, UpdateRequests(new)
    PROVE  /\ requests' \in [Requests -> Request]
           /\ uploads' \in [Files -> UploadType]
           /\ \A r \in S : requests'[r] = new[r]
           /\ \A r \in Requests \ S : requests'[r] = requests[r]
  <1>1. uploads \in [Files -> UploadType] /\ requests \in [Requests -> Request]
    BY DEF TypeOK, UploadType
  <1>2. uploads' \in [Files -> UploadType]
    BY <1>1, RetireType DEF UpdateRequests
  <1>3. requests' = [r \in Requests |-> IF r \in S THEN new[r] ELSE requests[r]]
    BY DEF UpdateRequests
  <1> QED BY <1>1, <1>2, <1>3

\* The same for one request.
LEMMA UpdateOne ==
    ASSUME TypeOK, NEW r \in Requests, NEW v \in Request, UpdateRequest(r, v)
    PROVE  /\ requests' \in [Requests -> Request]
           /\ uploads' \in [Files -> UploadType]
           /\ requests'[r] = v
           /\ \A q \in Requests \ {r} : requests'[q] = requests[q]
  <1> DEFINE new == [q \in {r} |-> v]
  <1>1. UpdateRequests(new)
    BY DEF UpdateRequest
  <1>2. DOMAIN new = {r} /\ new[r] = v
    OBVIOUS
  <1> HIDE DEF new
  <1> QED BY <1>1, <1>2, UpdateFacts

\* An accepted request, its parts and their numbers.
LEMMA RequestFacts ==
    ASSUME TypeOK, ShapeInv, NEW r \in Requests
    PROVE  /\ requests[r] \in Request
           /\ \A i \in PartsOf(r) : ~TextOnly(r) => i \in 1..Len(requests[r].parts)
           /\ \A i \in PartsOf(r) : TextOnly(r) <=> i = 0
           /\ Len(requests[r].parts) \in Nat
           /\ requests[r].state \in SendStatus /\ requests[r].err \in ErrorInfo
           /\ \A k \in 1..Len(requests[r].parts) : requests[r].parts[k] \in Part
  <1>1. requests[r] \in Request
    BY DEF TypeOK
  <1>2. requests[r].parts \in Seq(Part)
    BY <1>1 DEF Request
  <1> QED BY <1>1, <1>2, PartsOfFacts DEF ShapeInv, Request

\* Other parts that are at most skipped change quietly.
LEMMA AsideQuiet ==
    \A p, q : Aside(p, q) => Quiet(p, q)
  BY DEF Aside, Quiet

\* So do interrupted parts.
LEMMA InterruptedQuiet ==
    \A p, q : Interrupted(p, q) => Quiet(p, q)
  BY DEF Interrupted, Aside, Quiet

\* What an interruption leaves of a request: nothing of it waits.
Dropped(r, v, w) ==
    /\ w.state = "unknown" /\ w.err = "uncertain"
    /\ Len(w.parts) = Len(v.parts)
    /\ TextOnly(r) => w.parts = v.parts
    /\ ~TextOnly(r) => /\ NoneIn(w, {"queued", "dispatching"})
                       /\ \A k \in 1..Len(v.parts) : Interrupted(v.parts[k], w.parts[k])

\* Journal.recover and Journal.reset only report uncertain outcomes.
LEMMA InterruptionsQuiet ==
    ASSUME TypeOK, ShapeInv, NEW r \in Requests
    PROVE  /\ QuietChange(r, requests[r], Recovered(r))
           /\ QuietChange(r, requests[r], AfterReset(r))
           /\ Dropped(r, requests[r], Recovered(r))
           /\ Dropped(r, requests[r], AfterReset(r))
  <1> DEFINE v == requests[r]
             Held(u) == /\ u \in Request
                        /\ Len(u.parts) = Len(v.parts)
                        /\ ~TextOnly(r) => \A k \in 1..Len(v.parts) :
                                              /\ Quiet(v.parts[k], u.parts[k])
                                              /\ Interrupted(v.parts[k], u.parts[k])
                        /\ IF TextOnly(r) THEN u.parts = v.parts
                           ELSE NoneIn(u, {"queued", "dispatching"})
             x == IF TextOnly(r) THEN v ELSE Interrupt(v, FALSE)
             y == IF TextOnly(r) THEN v ELSE Interrupt(v, TRUE)
  <1>1. /\ v \in Request
        /\ \A i \in PartsOf(r) : ~TextOnly(r) => i \in 1..Len(v.parts)
        /\ \A i \in PartsOf(r) : TextOnly(r) <=> i = 0
    BY RequestFacts
  <1>2. "unknown" \in SendStatus /\ "uncertain" \in ErrorInfo /\ NoMessage \in Nat
    BY DEF SendStatus, ErrorInfo, NoMessage
  <1>3. Held(x) /\ Held(y)
    BY <1>1, InterruptFacts, InterruptedQuiet
  <1>4. ASSUME NEW u, Held(u),
               NEW w \in Request, w.parts = u.parts, w.state = "unknown", w.err = "uncertain"
        PROVE  QuietChange(r, v, w) /\ Dropped(r, v, w)
    <2>1. Reshaped(r, v, w)
      BY <1>4 DEF Reshaped
    <2>2. ASSUME NEW i \in PartsOf(r)
          PROVE  Quiet(At(v, i), At(w, i))
      <3>1. CASE TextOnly(r)
        BY <1>1, <1>4, <3>1 DEF At, Quiet
      <3>2. CASE ~TextOnly(r)
        BY <1>1, <1>4, <3>2 DEF At
      <3> QED BY <3>1, <3>2
    <2>3. Dropped(r, v, w)
      BY <1>4 DEF Dropped, NoneIn
    <2> QED BY <2>1, <2>2, <2>3 DEF QuietChange
  <1>5. Recovered(r) = End(x, "unknown", "uncertain")
    BY DEF Recovered
  <1>6. AfterReset(r) = Settle(y, NoMessage, "unknown", "uncertain")
    BY DEF AfterReset
  <1>7. y \in Request /\ x \in Request
    BY <1>3
  <1> HIDE DEF x, y, v, Held
  <1>8. /\ Recovered(r) \in Request
        /\ Recovered(r).parts = x.parts
        /\ Recovered(r).state = "unknown" /\ Recovered(r).err = "uncertain"
    BY <1>2, <1>5, <1>7, EndRequest
  <1>9. /\ AfterReset(r) \in Request
        /\ AfterReset(r).parts = y.parts
        /\ AfterReset(r).state = "unknown" /\ AfterReset(r).err = "uncertain"
    BY <1>2, <1>6, <1>7, SettleRequest
  <1>10. QuietChange(r, v, Recovered(r)) /\ Dropped(r, v, Recovered(r))
    BY <1>3, <1>4, <1>8
  <1>11. QuietChange(r, v, AfterReset(r)) /\ Dropped(r, v, AfterReset(r))
    BY <1>3, <1>4, <1>9
  <1> QED BY <1>10, <1>11 DEF v
-----------------------------------------------------------------------------
(* Matching echoes.                                                         *)

\* A set with one element has an element.
LEMMA OneElement ==
    ASSUME NEW S, Cardinality(S) = 1
    PROVE  (CHOOSE m \in S : TRUE) \in S
  <1>1. S # {}
    BY FS_EmptySet
  <1> QED BY <1>1

\* Imported messages are rows of the source.
LEMMA ImportedFacts ==
    ASSUME source \in Seq(Row)
    PROVE  /\ DOMAIN Imported \subseteq Nat \ {0}
           /\ \A m \in DOMAIN Imported : Imported[m] \in Row
  BY DEF Imported

\* A unique echo is one of the messages.
LEMMA UniqueTextFacts ==
    ASSUME NEW M, NEW r
    PROVE  UniqueText(M, r) \in DOMAIN M \cup {NoMessage}
  <1> DEFINE found == TextCandidates(M, r)
  <1>1. found \subseteq DOMAIN M
    BY DEF TextCandidates
  <1>2. UniqueText(M, r) = NoMessage
        \/ (Cardinality(found) = 1 /\ UniqueText(M, r) = CHOOSE m \in found : TRUE)
    BY DEF UniqueText
  <1> HIDE DEF found
  <1> QED BY <1>1, <1>2, OneElement

\* The status of a message as the outcome of an operation.
LEMMA ObservedFacts ==
    ASSUME NEW x \in Row
    PROVE  /\ Observed(x.status) \in {"submitted", "delivered", "failed"}
           /\ ObservedErr(x.status) = IF Observed(x.status) = "failed"
                                      THEN "uncertain" ELSE "none"
  BY DEF Row, Observed, ObservedErr

\* Core.reconcile changes a text-only request quietly.
LEMMA ReconciledFacts ==
    ASSUME TypeOK, ShapeInv, NEW r \in Reconcilable
    PROVE  /\ QuietChange(r, requests[r], Reconciled(Imported, r))
           /\ Holds(r, requests[r], Reconciled(Imported, r))
           /\ Reconciled(Imported, r).parts = requests[r].parts
           /\ \/ Reconciled(Imported, r).state = requests[r].state
              \/ Reconciled(Imported, r).state \in {"submitted", "delivered", "failed"}
  <1> DEFINE v == requests[r]
             M == Imported
             m == UniqueText(M, r)
             w == Reconciled(M, r)
  <1>1. /\ r \in Requests /\ TextOnly(r)
        /\ v.state \in {"submitted", "unknown"}
    BY DEF Reconcilable
  <1>2. /\ v \in Request
        /\ \A i \in PartsOf(r) : i = 0
    BY <1>1, RequestFacts
  <1>3. /\ DOMAIN M \subseteq Nat \ {0}
        /\ \A k \in DOMAIN M : M[k] \in Row
    BY ImportedFacts DEF TypeOK
  <1>4. m \in DOMAIN M \cup {NoMessage}
    BY UniqueTextFacts
  <1>5. m \in Nat
    BY <1>3, <1>4 DEF NoMessage
  <1>6. {"submitted", "delivered", "failed"} \subseteq SendStatus
        /\ {"none", "uncertain"} \subseteq ErrorInfo
    BY DEF SendStatus, ErrorInfo
  <1>7. \/ w = v
        \/ w = [v EXCEPT !.cand = m]
        \/ \E k \in DOMAIN M :
              \/ w = End(v, Observed(M[k].status), ObservedErr(M[k].status))
              \/ w = Settle(v, k, Observed(M[k].status), ObservedErr(M[k].status))
    BY <1>4 DEF Reconciled
  <1> HIDE DEF v, M, m, w
  <1>8. /\ w \in Request
        /\ w.parts = v.parts
        /\ \/ w.state = v.state /\ w.err = v.err
           \/ /\ w.state \in {"submitted", "delivered", "failed"}
              /\ w.err = IF w.state = "failed" THEN "uncertain" ELSE "none"
    <2>1. CASE w = v
      BY <1>2, <2>1
    <2>2. CASE w = [v EXCEPT !.cand = m]
      BY <1>2, <1>5, <2>2 DEF Request
    <2>3. ASSUME NEW k \in DOMAIN M,
                 \/ w = End(v, Observed(M[k].status), ObservedErr(M[k].status))
                 \/ w = Settle(v, k, Observed(M[k].status), ObservedErr(M[k].status))
          PROVE  <1>8!1 /\ <1>8!2 /\ <1>8!3
      <3>1. M[k] \in Row /\ k \in Nat
        BY <1>3
      <3> DEFINE s == Observed(M[k].status)
                 e == ObservedErr(M[k].status)
      <3>2. /\ s \in {"submitted", "delivered", "failed"}
            /\ e = IF s = "failed" THEN "uncertain" ELSE "none"
        BY <3>1, ObservedFacts
      <3>3. s \in SendStatus /\ e \in ErrorInfo
        BY <1>6, <3>2
      <3> HIDE DEF s, e
      <3>4. w = End(v, s, e) \/ w = Settle(v, k, s, e)
        BY <2>3 DEF s, e
      <3>5. w \in Request /\ w.parts = v.parts /\ w.state = s /\ w.err = e
        BY <1>2, <3>1, <3>3, <3>4, EndRequest, SettleRequest
      <3> QED BY <3>2, <3>5
    <2> QED BY <1>7, <2>1, <2>2, <2>3
  <1>9. Reshaped(r, v, w)
    BY <1>1, <1>8 DEF Reshaped
  <1>10. Quiet(v, w)
    BY <1>8 DEF Quiet
  <1>11. QuietChange(r, v, w) /\ Holds(r, v, w)
    BY <1>1, <1>2, <1>9, <1>10 DEF QuietChange, Holds, At, v
  <1> QED BY <1>8, <1>11 DEF v, w, M

\* What observation.publish found is an imported message.
LEMMA MatchedFacts ==
    ASSUME TypeOK
    PROVE  /\ Matched \in Nat
           /\ Matched # NoMessage =>
                 Observed(observer.status) \in {"submitted", "delivered", "failed"}
  <1>1. /\ DOMAIN messages \subseteq Nat \ {0}
        /\ \A m \in DOMAIN messages : messages[m] \in Row
        /\ NoMessage \in Nat
    BY DEF TypeOK, NoMessage
  <1>2. \/ Matched = NoMessage
        \/ Matched \in DOMAIN messages /\ messages[Matched].status = observer.status
    BY DEF Matched
  <1> QED BY <1>1, <1>2, ObservedFacts

\* What an observation of part i of a request makes of it.
Seen(i, v, w) ==
    /\ OthersAside(v, w, i)
    /\ w.parts[i].file = v.parts[i].file
    /\ \/ w.parts[i].state = v.parts[i].state
       \/ w.parts[i].state \in {"submitted", "delivered", "failed"}
    /\ \/ NoneIn(w, {"queued"})
       \/ \A k \in 1..Len(v.parts) : k # i => w.parts[k] = v.parts[k]
    /\ Summed(v) => Summed(w)

\* observation.publish changes a request with parts quietly.
LEMMA PublishedFacts ==
    ASSUME TypeOK, ShapeInv, SummaryInv, NEW r \in Requests, NEW i \in PartsOf(r),
           i # 0, ~NothingToPublish(r, i)
    PROVE  /\ QuietChange(r, requests[r], Published(r, i))
           /\ Holds(r, requests[r], Published(r, i))
           /\ i \in 1..Len(requests[r].parts) /\ ~TextOnly(r)
           /\ requests[r].parts[i].state \in {"invoked", "unknown", "submitted"}
           /\ Seen(i, requests[r], Published(r, i))
  <1> DEFINE v == requests[r]
             w == Published(r, i)
             e == [v.parts[i] EXCEPT !.cand = Matched]
             s == [v.parts EXCEPT ![i] = e]
             st == Observed(observer.status)
  <1>1. /\ v \in Request /\ ~TextOnly(r)
        /\ i \in 1..Len(v.parts)
        /\ \A k \in PartsOf(r) : k # 0 /\ k \in 1..Len(v.parts)
        /\ \A k \in 1..Len(v.parts) : v.parts[k] \in Part
        /\ v.parts \in Seq(Part)
    BY RequestFacts DEF Request
  <1>2. v.parts[i].state \in {"invoked", "unknown", "submitted"}
    BY DEF NothingToPublish
  <1>3. Matched \in Nat
    BY MatchedFacts
  <1>4. e \in Part /\ e.state = v.parts[i].state /\ e.err = v.parts[i].err
        /\ e.file = v.parts[i].file
    BY <1>1, <1>3 DEF Part
  <1>5. v.err = "unstarted" => AllUnstarted(v.parts)
    BY <1>1 DEF SummaryInv
  <1> HIDE DEF e, v
  <1>6. /\ s \in Seq(Part) /\ Len(s) = Len(v.parts) /\ s[i] = e
        /\ \A k \in 1..Len(v.parts) : k # i => s[k] = v.parts[k]
    BY <1>1, <1>4, ExceptSeq
  <1> HIDE DEF s
  <1>7. \/ /\ w = Observe(v, i, Matched, st)
           /\ st \in {"submitted", "delivered", "failed"}
        \/ w = [v EXCEPT !.parts = s]
    BY MatchedFacts DEF Published, v, s, e
  <1> HIDE DEF w, st
  <1>8. /\ w \in Request
        /\ OthersAside(v, w, i)
        /\ \/ w.parts[i].state = v.parts[i].state /\ w.parts[i].err = v.parts[i].err
           \/ /\ w.parts[i].state \in {"submitted", "delivered", "failed"}
              /\ w.parts[i].err = IF w.parts[i].state = "failed" THEN "uncertain" ELSE "none"
        /\ w.err = "unstarted" => AllUnstarted(w.parts)
        /\ Seen(i, v, w)
    <2>1. CASE w = Observe(v, i, Matched, st) /\ st \in {"submitted", "delivered", "failed"}
      <3>1. /\ w \in Request
            /\ OthersAside(v, w, i)
            /\ w.parts[i].file = v.parts[i].file
            /\ w.parts[i].state = st
            /\ w.parts[i].err = IF st = "failed" THEN "uncertain" ELSE "none"
            /\ w.err = "unstarted" => AllUnstarted(w.parts)
            /\ IF st = "failed" THEN NoneIn(w, {"queued"})
               ELSE \A k \in 1..Len(v.parts) : k # i => w.parts[k] = v.parts[k]
            /\ Orderly(v) => Summed(w)
        BY <1>1, <1>3, <2>1, ObserveFacts
      <3>2. Seen(i, v, w)
        BY <2>1, <3>1 DEF Seen, Summed
      <3> QED BY <2>1, <3>1, <3>2
    <2>2. CASE w = [v EXCEPT !.parts = s]
      <3>1. w \in Request /\ w.parts = s /\ w.err = v.err /\ w.state = v.state
        BY <1>1, <1>6, <2>2, WithParts
      <3>2. OthersAside(v, w, i)
        BY <1>6, <3>1 DEF OthersAside, Aside
      <3>3. w.err = "unstarted" => AllUnstarted(s)
        BY <1>1, <1>2, <1>5, <1>6, <3>1 DEF AllUnstarted
      <3>4. Summed(v) => Summed(w)
        <4>1. Len(w.parts) = Len(v.parts)
              /\ \A k \in 1..Len(v.parts) : w.parts[k].state = v.parts[k].state
          BY <1>4, <1>6, <3>1
        <4>2. \A S : NoneIn(w, S) <=> NoneIn(v, S)
          BY <4>1 DEF NoneIn
        <4> QED BY <3>1, <4>2 DEF Summed, Orderly
      <3>5. Seen(i, v, w)
        BY <1>4, <1>6, <3>1, <3>2, <3>4 DEF Seen
      <3> QED BY <1>1, <1>4, <1>6, <3>1, <3>2, <3>3, <3>5
    <2> QED BY <1>7, <2>1, <2>2
  <1>9. Reshaped(r, v, w)
    BY <1>8 DEF Reshaped, OthersAside
  <1>10. ASSUME NEW k \in 1..Len(v.parts)
         PROVE  /\ Quiet(v.parts[k], w.parts[k])
                /\ v.parts[k].state = "dispatching" =>
                      w.parts[k].state = "dispatching" /\ w.parts[k].err = v.parts[k].err
    BY <1>2, <1>8 DEF OthersAside, Aside, Quiet
  <1>11. QuietChange(r, v, w) /\ Holds(r, v, w)
    BY <1>1, <1>9, <1>10 DEF QuietChange, Holds, At
  <1> QED BY <1>1, <1>2, <1>8, <1>11 DEF v, w
-----------------------------------------------------------------------------
(* Steps that change requests quietly keep the invariant.                   *)

\* Every request stays as it is or, once accepted, changes quietly.
QuietStep ==
    /\ requests' \in [Requests -> Request]
    /\ \A r \in Requests :
          \/ requests'[r] = requests[r]
          \/ epochOf[r] # 0 /\ QuietChange(r, requests[r], requests'[r])

\* Without automation calls, quiet changes keep calls and errors consistent.
LEMMA QuietKeeps ==
    ASSUME IInv, QuietStep,
           \A r \in Requests : epochOf'[r] = 0 => epochOf[r] = 0, UNCHANGED <<calls, taken>>
    PROVE  ShapeInv' /\ CallInv' /\ ErrorInv' /\ SummaryInv'
  <1> USE DEF IInv
  <1>1. ShapeInv'
    BY DEF ShapeInv, QuietStep, QuietChange, Reshaped
  <1>2. SummaryInv'
    BY DEF SummaryInv, QuietStep, QuietChange, Reshaped
  <1>3. ASSUME NEW o \in Ops
        PROVE  \/ OpState(o)' = OpState(o) /\ OpErr(o)' = OpErr(o)
               \/ OpState(o) = "queued" /\ OpState(o)' = "skipped" /\ OpErr(o)' = "unstarted"
               \/ /\ OpState(o)' # "queued"
                  /\ OpErr(o)' # "unstarted"
                  /\ OpState(o)' \in {"failed", "skipped"} => OpErr(o)' = "uncertain"
    <2>1. o[1] \in Requests /\ o[2] \in PartsOf(o[1])
      BY OpsFacts
    <2>2. \/ requests'[o[1]] = requests[o[1]]
          \/ Quiet(At(requests[o[1]], o[2]), At(requests'[o[1]], o[2]))
      BY <2>1 DEF QuietStep, QuietChange
    <2> QED BY <2>2 DEF Quiet, OpState, OpErr
  <1>4. CallInv'
    BY <1>3 DEF CallInv
  <1>5. ASSUME NEW o \in Ops, OpState(o) = "queued"
        PROVE  o \notin taken
    BY <1>5 DEF CallInv
  <1>6. ErrorInv'
    BY <1>3, <1>5 DEF ErrorInv
  <1> QED BY <1>1, <1>2, <1>4, <1>6

\* The sender's operation is still dispatching after a step that holds it.
LEMMA SenderHeld ==
    ASSUME IInv, QuietStep,
           \A r \in Requests : Holds(r, requests[r], requests'[r]),
           UNCHANGED <<epoch, epochOf, sender, calls, taken>>
    PROVE  SenderInv'
  <1> SUFFICES ASSUME sender.pc # "idle"
               PROVE  SenderInv'
    BY DEF SenderInv
  <1> DEFINE o == sender.op
  <1>1. SenderInv
    BY DEF IInv
  <1>2. o \in Ops /\ o[1] \in Requests /\ o[2] \in PartsOf(o[1])
    BY <1>1, OpsFacts DEF SenderInv
  <1>3. /\ OpState(o)' # "queued"
        /\ OpErr(o)' # "unstarted"
    BY <1>1, <1>2 DEF SenderInv, QuietStep, QuietChange, Quiet, OpState, OpErr
  <1>4. ASSUME sender.epoch = epoch
        PROVE  /\ OpState(o)' = "dispatching"
               /\ TextOnly(o[1]) => requests'[o[1]] = sender.work
    <2>1. OpState(o) = "dispatching" /\ (TextOnly(o[1]) => requests[o[1]] = sender.work)
      BY <1>1, <1>4 DEF SenderInv
    <2>2. Holds(o[1], requests[o[1]], requests'[o[1]])
      BY <1>2
    <2>3. OpState(o)' = "dispatching"
      BY <1>2, <2>1, <2>2 DEF Holds, OpState
    <2>4. ASSUME TextOnly(o[1])
          PROVE  requests'[o[1]] = requests[o[1]]
      BY <1>2, <2>1, <2>2, <2>4, PartsOfFacts DEF Holds, OpState, At
    <2> QED BY <2>1, <2>3, <2>4
  <1> QED BY <1>1, <1>3, <1>4 DEF SenderInv

\* A reset lets go of it: its epoch is over.
LEMMA SenderReleased ==
    ASSUME IInv, QuietStep, epoch' = epoch + 1,
           UNCHANGED <<epochOf, sender, calls, taken>>
    PROVE  SenderInv'
  <1> SUFFICES ASSUME sender.pc # "idle"
               PROVE  SenderInv'
    BY DEF SenderInv
  <1> DEFINE o == sender.op
  <1>1. SenderInv /\ epoch \in Nat /\ sender.epoch \in Nat
    BY DEF IInv, TypeOK
  <1>2. o \in Ops /\ o[1] \in Requests /\ o[2] \in PartsOf(o[1])
    BY <1>1, OpsFacts DEF SenderInv
  <1>3. /\ OpState(o)' # "queued"
        /\ OpErr(o)' # "unstarted"
    BY <1>1, <1>2 DEF SenderInv, QuietStep, QuietChange, Quiet, OpState, OpErr
  <1> QED BY <1>1, <1>3 DEF SenderInv

\* Journal.recover as a step on all requests.
LEMMA RecoverFacts ==
    ASSUME TypeOK, ShapeInv, Recover
    PROVE  QuietStep /\ uploads' \in [Files -> UploadType]
  <1> DEFINE S == {q \in Requests : epochOf[q] # 0 /\ requests[q].state = "dispatching"}
             new == [r \in S |-> Recovered(r)]
  <1>1. \A r \in S : epochOf[r] # 0 /\ QuietChange(r, requests[r], Recovered(r))
    BY InterruptionsQuiet
  <1>2. \A r \in S : Recovered(r) \in Request
    BY <1>1 DEF QuietChange, Reshaped
  <1>3. DOMAIN new = S /\ \A r \in S : new[r] = Recovered(r)
    OBVIOUS
  <1>4. UpdateRequests(new)
    BY DEF Recover
  <1>5. S \in SUBSET Requests
    OBVIOUS
  <1> HIDE DEF S, new
  <1> QED BY <1>1, <1>2, <1>3, <1>4, <1>5, UpdateFacts DEF QuietStep

\* Journal.reset as a step on all requests.
LEMMA ResetFacts ==
    ASSUME TypeOK, ShapeInv, Reset
    PROVE  QuietStep /\ uploads' \in [Files -> UploadType] /\ epoch' = epoch + 1
  <1> DEFINE S == {q \in Requests : epochOf[q] # 0 /\ requests[q].state \in Unfinished}
             new == [r \in S |-> AfterReset(r)]
  <1>1. \A r \in S : epochOf[r] # 0 /\ QuietChange(r, requests[r], AfterReset(r))
    BY InterruptionsQuiet
  <1>2. \A r \in S : AfterReset(r) \in Request
    BY <1>1 DEF QuietChange, Reshaped
  <1>3. DOMAIN new = S /\ \A r \in S : new[r] = AfterReset(r)
    OBVIOUS
  <1>4. UpdateRequests(new) /\ epoch' = epoch + 1
    BY DEF Reset
  <1>5. S \in SUBSET Requests
    OBVIOUS
  <1> HIDE DEF S, new
  <1> QED BY <1>1, <1>2, <1>3, <1>4, <1>5, UpdateFacts DEF QuietStep

\* A step that leaves the requests alone.
LEMMA SameRequests ==
    ASSUME TypeOK, UNCHANGED requests
    PROVE  QuietStep /\ \A r \in Requests : Holds(r, requests[r], requests'[r])
  BY DEF QuietStep, Holds, TypeOK
-----------------------------------------------------------------------------
(* Steps that touch neither requests nor the sender.                        *)

\* Nothing but TypeOK and ObserverInv can be disturbed.
LEMMA Elsewhere ==
    ASSUME IInv, UNCHANGED <<epoch, requests, epochOf, sender, calls, taken>>
    PROVE  ShapeInv' /\ CallInv' /\ ErrorInv' /\ SummaryInv' /\ SenderInv'
  <1>1. TypeOK
    BY DEF IInv
  <1>2. QuietStep /\ \A r \in Requests : Holds(r, requests[r], requests'[r])
    BY <1>1, SameRequests
  <1> QED BY <1>2, QuietKeeps, SenderHeld

\* The idle states of the threads have their types.
LEMMA IdleFacts ==
    /\ Idle \in [pc: {"idle", "prepared", "returned"}, op: Ops \cup {NoOp}, epoch: Nat,
                 work: Request, outcome: {"none", "invoked", "unstarted", "uncertain"}]
    /\ Watching \in [pc: {"idle", "looking", "found"}, op: Ops \cup {NoOp}, epoch: Nat,
                     gen: Nat, mid: Nat, cand: Nat,
                     status: {"none", "sent", "delivered", "failed"}]
    /\ Idle.pc = "idle" /\ Watching.pc = "idle"
  <1>1. NoWork \in Request
    BY DEF NoWork, Request, SendStatus, ErrorInfo, NoMessage
  <1> QED BY <1>1 DEF Idle, Watching, NoMessage

\* Uploading an identifier again changes the upload only.
LEMMA ReplaceUploadStep ==
    ASSUME IInv, NEW f \in Files, ReplaceUpload(f)
    PROVE  IInv'
  <1> USE DEF IInv
  <1>1. UNCHANGED <<epoch, requests, epochOf, sender, calls, taken, observer>>
    BY DEF ReplaceUpload, outside
  <1>2. TypeOK'
    BY DEF TypeOK, ReplaceUpload, Upload, core, outside
  <1>3. ObserverInv'
    BY <1>1 DEF ObserverInv
  <1> QED BY <1>1, <1>2, <1>3, Elsewhere

\* The probe, refused sends and failed scans set flags only.
LEMMA FlagSteps ==
    ASSUME IInv,
           \/ \E ready \in BOOLEAN : Probe(ready)
           \/ \E r \in Requests : RefuseSend(r)
           \/ IngestFails
    PROVE  IInv'
  <1> USE DEF IInv
  <1>1. UNCHANGED <<journal, sender, observer, outside>>
    BY DEF Probe, RefuseSend, IngestFails
  <1>2. UNCHANGED <<epoch, requests, epochOf, sender, calls, taken, observer>>
    BY <1>1 DEF journal, outside
  <1>3. faults' \in Nat
    <2>1. faults \in Nat
      BY DEF TypeOK
    <2>2. faults' \in {faults, faults + 1}
      BY Zenon DEF Probe, RefuseSend, IngestFails, Fault
    <2> QED BY <2>1, <2>2
  <1>4. UNCHANGED <<readReady, automation, recovery>>
        \/ (\E b \in BOOLEAN : automation' = b /\ UNCHANGED <<readReady, recovery>>)
        \/ (recovery' = TRUE /\ readReady' \in {readReady, FALSE} /\ UNCHANGED automation)
        \/ (readReady' = FALSE /\ UNCHANGED <<automation, recovery>>)
    BY Zenon DEF Probe, RefuseSend, IngestFails
  <1>5. readReady' \in BOOLEAN /\ automation' \in BOOLEAN /\ recovery' \in BOOLEAN
    BY <1>4, Zenon DEF TypeOK
  <1>6. TypeOK'
    BY <1>1, <1>3, <1>5 DEF TypeOK, journal, outside
  <1>7. ObserverInv'
    BY <1>2 DEF ObserverInv
  <1> QED BY <1>2, <1>6, <1>7, Elsewhere

\* Messages only writes rows, and the clock only runs.
LEMMA MessagesSteps ==
    ASSUME IInv, MessagesStep \/ Tick
    PROVE  IInv'
  <1> USE DEF IInv
  <1>1. UNCHANGED <<journal, core, sender, observer, calls, taken>>
    BY DEF MessagesStep, Tick, InsertEcho, ForeignSend, JoinRow, ChangeStatus, ReplaceSource
  <1>2. UNCHANGED <<epoch, requests, epochOf, sender, calls, taken, observer>>
    BY <1>1 DEF journal
  <1>3. source' \in Seq(Row)
    <2>1. source \in Seq(Row) /\ now \in Nat /\ \A m \in 1..Len(source) : source[m] \in Row
      BY DEF TypeOK
    <2>2. ASSUME NEW text \in Texts \cup {NoText}, NEW content \in Contents \cup {NoContent},
                 NEW date \in Nat, NEW joined \in BOOLEAN, NEW o \in Ops \cup {NoOp}
          PROVE  NewRow(text, content, date, joined, o) \in Row
      BY DEF NewRow, Row
    <2>3. ASSUME NEW o \in outbox, NEW date \in RowDates, NEW joined \in Joins,
                 InsertEcho(o, date, joined)
          PROVE  source' \in Seq(Row)
      <3>1. o \in Ops /\ o[1] \in Requests /\ o[2] \in PartsOf(o[1])
        BY OpsFacts DEF TypeOK
      <3>2. requests[o[1]] \in Request
            /\ (o[2] # 0 => requests[o[1]].parts[o[2]] \in Part)
        BY <3>1, RequestFacts
      <3>3. OpFile(o) \in Files \cup {NoFile}
        BY <3>2 DEF OpFile, Part
      <3>4. Text(o[1]) \in Texts \cup {NoText} /\ ContentOf \in [Files -> Contents]
            /\ Joins \subseteq BOOLEAN
        BY <3>1, SendsAssumption DEF Text
      <3>5. OpText(o) \in Texts \cup {NoText} /\ date \in Nat /\ joined \in BOOLEAN
        BY <2>1, <3>4 DEF OpText, RowDates
      <3> DEFINE c == IF OpFile(o) = NoFile THEN NoContent ELSE ContentOf[OpFile(o)]
                 x == NewRow(OpText(o), c, date, joined, o)
      <3>6. c \in Contents \cup {NoContent}
        BY <3>3, <3>4
      <3>7. source' = Append(source, x)
        BY <2>3 DEF InsertEcho
      <3> HIDE DEF c
      <3>8. x \in Row
        BY <2>2, <3>1, <3>5, <3>6
      <3> HIDE DEF x
      <3> QED BY <2>1, <3>7, <3>8
    <2>4. ASSUME NEW text \in ForeignTexts, ForeignSend(text)
          PROVE  source' \in Seq(Row)
      <3>1. text \in Texts
        BY SendsAssumption
      <3> DEFINE x == NewRow(text, NoContent, now, TRUE, NoOp)
      <3>2. x \in Row
        BY <2>1, <2>2, <3>1
      <3>3. source' = Append(source, x)
        BY <2>4 DEF ForeignSend
      <3> HIDE DEF x
      <3> QED BY <2>1, <3>2, <3>3
    <2>5. ASSUME NEW m \in 1..Len(source), JoinRow(m)
          PROVE  source' \in Seq(Row)
      <3> DEFINE x == [source[m] EXCEPT !.joined = TRUE]
      <3>1. x \in Row
        BY <2>1 DEF Row
      <3>2. source' = [source EXCEPT ![m] = x]
        BY <2>5 DEF JoinRow
      <3> HIDE DEF x
      <3> QED BY <2>1, <3>1, <3>2, ExceptSeq
    <2>6. ASSUME NEW m \in 1..Len(source), NEW status \in Receipts, ChangeStatus(m, status)
          PROVE  source' \in Seq(Row)
      <3> DEFINE x == [source[m] EXCEPT !.status = status]
      <3>1. status \in {"delivered", "failed"}
        BY SendsAssumption
      <3>2. x \in Row
        BY <2>1, <3>1 DEF Row
      <3>3. source' = [source EXCEPT ![m] = x]
        BY <2>6 DEF ChangeStatus
      <3> HIDE DEF x
      <3> QED BY <2>1, <3>2, <3>3, ExceptSeq
    <2>7. ASSUME ReplaceSource \/ Tick
          PROVE  source' \in Seq(Row)
      <3>1. source' = <<>> \/ source' = source
        BY <2>7 DEF ReplaceSource, Tick
      <3>2. <<>> \in Seq(Row)
        OBVIOUS
      <3> QED BY <2>1, <3>1, <3>2, Zenon
    <2> QED BY <2>3, <2>4, <2>5, <2>6, <2>7 DEF MessagesStep
  <1>4. outbox' \subseteq Ops
    BY DEF TypeOK, MessagesStep, Tick, InsertEcho, ForeignSend, JoinRow, ChangeStatus,
           ReplaceSource
  <1>5. gen' \in Nat /\ now' \in Nat /\ faults' \in Nat
    <2>1. gen \in Nat /\ now \in Nat /\ faults \in Nat
      BY DEF TypeOK
    <2>2. /\ gen' \in {gen, gen + 1}
          /\ now' \in {now, now + 1}
          /\ faults' \in {faults, faults + 1}
      BY DEF MessagesStep, Tick, InsertEcho, ForeignSend, JoinRow, ChangeStatus,
             ReplaceSource, Fault
    <2> QED BY <2>1, <2>2
  <1>6. TypeOK'
    BY <1>1, <1>3, <1>4, <1>5 DEF TypeOK, journal, core
  <1>7. ObserverInv'
    BY <1>2 DEF ObserverInv
  <1> QED BY <1>2, <1>6, <1>7, Elsewhere
-----------------------------------------------------------------------------
(* HTTP, ingestion, observation and crashes.                                *)

\* Accepting a request stores it as it was submitted.
LEMMA AcceptStep ==
    ASSUME IInv, NEW r \in Requests, Accept(r)
    PROVE  IInv'
  <1> USE DEF IInv
  <1>1. /\ UNCHANGED <<epoch, sender, calls, taken, observer, core, messages, jgen, outside,
                       faults>>
        /\ epochOf[r] = 0
        /\ epochOf' = [epochOf EXCEPT ![r] = epoch]
        /\ acceptedAt' = [acceptedAt EXCEPT ![r] = now]
        /\ requests' = [requests EXCEPT ![r] = NewRequest(r)]
    BY DEF Accept, outside
  <1>2. /\ requests \in [Requests -> Request] /\ epoch \in Nat \ {0} /\ now \in Nat
        /\ epochOf \in [Requests -> Nat] /\ acceptedAt \in [Requests -> Nat]
        /\ uploads \in [Files -> UploadType]
    BY DEF TypeOK, UploadType
  <1>3. requests' = requests
    BY <1>1, <1>2 DEF ShapeInv
  <1>4. /\ epochOf' \in [Requests -> Nat] /\ acceptedAt' \in [Requests -> Nat]
        /\ epochOf'[r] # 0
        /\ \A q \in Requests : epochOf'[q] = 0 => epochOf[q] = 0
        /\ \A q \in Requests : epochOf[q] # 0 => epochOf'[q] # 0
    BY <1>1, <1>2
  <1>5. uploads' \in [Files -> UploadType]
    BY <1>2 DEF Accept, UploadType
  <1>6. TypeOK'
    BY <1>1, <1>2, <1>3, <1>4, <1>5 DEF TypeOK, UploadType, core, outside
  <1>7. ObserverInv'
    BY <1>1, <1>4, OpsFacts DEF ObserverInv
  <1>8. ShapeInv' /\ CallInv' /\ ErrorInv' /\ SummaryInv'
    BY <1>1, <1>3, <1>4, SameRequests, QuietKeeps
  <1>9. SenderInv'
    BY <1>1, <1>3, <1>4, OpsFacts DEF SenderInv, OpState, OpErr
  <1> QED BY <1>6, <1>7, <1>8, <1>9

\* POST /v1/reset.
LEMMA ClientResetStep ==
    ASSUME IInv, ClientReset
    PROVE  IInv'
  <1> USE DEF IInv
  <1>1. UNCHANGED <<epochOf, acceptedAt, automation, recovery, sender, observer, outside>>
    BY DEF ClientReset
  <1>2. UNCHANGED <<calls, taken>>
    BY <1>1 DEF outside
  <1>3. QuietStep /\ uploads' \in [Files -> UploadType] /\ epoch' = epoch + 1
    BY ResetFacts DEF ClientReset
  <1>4. ShapeInv' /\ CallInv' /\ ErrorInv' /\ SummaryInv'
    BY <1>1, <1>2, <1>3, QuietKeeps
  <1>5. SenderInv'
    BY <1>1, <1>2, <1>3, SenderReleased
  <1>6. ObserverInv'
    BY <1>1 DEF ObserverInv
  <1>7. DOMAIN messages' \subseteq Nat \ {0} /\ \A m \in DOMAIN messages' : messages'[m] \in Row
    <2>1. messages' = <<>>
      BY DEF ClientReset
    <2> QED BY <2>1
  <1>8. /\ requests' \in [Requests -> Request] /\ epoch' \in Nat \ {0}
        /\ faults' \in Nat /\ jgen' \in Nat
    BY <1>3 DEF QuietStep, TypeOK, ClientReset, Fault
  <1>9. readReady' \in BOOLEAN
    BY Zenon DEF ClientReset
  <1>10. TypeOK'
    BY <1>1, <1>3, <1>7, <1>8, <1>9 DEF TypeOK, UploadType, outside
  <1> QED BY <1>4, <1>5, <1>6, <1>10

\* One ingestion transaction.
LEMMA IngestStep ==
    ASSUME IInv, Ingest
    PROVE  IInv'
  <1> USE DEF IInv
  <1>1. /\ UNCHANGED <<epochOf, acceptedAt, automation, recovery, sender, observer, outside,
                       faults>>
        /\ messages' = Imported /\ jgen' = gen /\ readReady' = TRUE
    BY DEF Ingest
  <1>2. UNCHANGED <<calls, taken>>
    BY <1>1 DEF outside
  <1>3. QuietStep /\ uploads' \in [Files -> UploadType] /\ epoch' \in Nat \ {0} /\ SenderInv'
    <2>1. CASE Reset
      <3>1. QuietStep /\ uploads' \in [Files -> UploadType] /\ epoch' = epoch + 1
        BY <2>1, ResetFacts
      <3>2. SenderInv'
        BY <1>1, <1>2, <3>1, SenderReleased
      <3>3. epoch' \in Nat \ {0}
        BY <3>1 DEF TypeOK
      <3> QED BY <3>1, <3>2, <3>3
    <2>2. CASE /\ UpdateRequests([r \in Reconcilable |-> Reconciled(Imported, r)])
               /\ UNCHANGED epoch
      <3> DEFINE new == [r \in Reconcilable |-> Reconciled(Imported, r)]
      <3>1. Reconcilable \in SUBSET Requests /\ \A r \in Reconcilable : epochOf[r] # 0
        BY DEF Reconcilable, TypeOK
      <3>2. \A r \in Reconcilable : /\ QuietChange(r, requests[r], Reconciled(Imported, r))
                                    /\ Holds(r, requests[r], Reconciled(Imported, r))
        BY ReconciledFacts
      <3>3. \A r \in Reconcilable : Reconciled(Imported, r) \in Request
        BY <3>2 DEF QuietChange, Reshaped
      <3>4. DOMAIN new = Reconcilable
            /\ \A r \in Reconcilable : new[r] = Reconciled(Imported, r)
        OBVIOUS
      <3>5. UpdateRequests(new)
        BY <2>2
      <3> HIDE DEF new
      <3>6. /\ requests' \in [Requests -> Request]
            /\ uploads' \in [Files -> UploadType]
            /\ \A r \in Reconcilable : requests'[r] = Reconciled(Imported, r)
            /\ \A r \in Requests \ Reconcilable : requests'[r] = requests[r]
        BY <3>1, <3>3, <3>4, <3>5, UpdateFacts
      <3>7. QuietStep
        BY <3>1, <3>2, <3>6 DEF QuietStep
      <3>8. \A r \in Requests : Holds(r, requests[r], requests'[r])
        <4>1. \A r, v : Holds(r, v, v)
          BY DEF Holds
        <4> QED BY <3>2, <3>6, <4>1
      <3>9. SenderInv'
        BY <1>1, <1>2, <2>2, <3>7, <3>8, SenderHeld
      <3>10. epoch' \in Nat \ {0}
        BY <2>2 DEF TypeOK
      <3> QED BY <3>6, <3>7, <3>9, <3>10
    <2> QED BY <2>1, <2>2 DEF Ingest
  <1>4. ShapeInv' /\ CallInv' /\ ErrorInv' /\ SummaryInv'
    BY <1>1, <1>2, <1>3, QuietKeeps
  <1>5. ObserverInv'
    BY <1>1 DEF ObserverInv
  <1>6. DOMAIN messages' \subseteq Nat \ {0} /\ \A m \in DOMAIN messages' : messages'[m] \in Row
    BY <1>1, ImportedFacts DEF TypeOK
  <1>7. requests' \in [Requests -> Request] /\ jgen' \in Nat
    BY <1>1, <1>3 DEF QuietStep, TypeOK
  <1>8. TypeOK'
    BY <1>1, <1>3, <1>6, <1>7 DEF TypeOK, UploadType, outside
  <1> QED BY <1>3, <1>4, <1>5, <1>8

\* The observation thread outside the lock.
LEMMA ObserveSteps ==
    ASSUME IInv,
           \/ \E r \in Requests : \E i \in PartsOf(r) : ObservePrepare(r, i)
           \/ ObserveLook
           \/ ObserveNothing
    PROVE  IInv'
  <1> USE DEF IInv
  <1> DEFINE T == [pc: {"idle", "looking", "found"}, op: Ops \cup {NoOp}, epoch: Nat,
                   gen: Nat, mid: Nat, cand: Nat,
                   status: {"none", "sent", "delivered", "failed"}]
  <1>1. UNCHANGED <<journal, core, sender, outside>>
    BY DEF ObservePrepare, ObserveLook, ObserveNothing
  <1>2. UNCHANGED <<epoch, requests, epochOf, sender, calls, taken>>
    BY <1>1 DEF journal, outside
  <1>3. faults' \in Nat
    <2>1. faults \in Nat
      BY DEF TypeOK
    <2>2. faults' \in {faults, faults + 1}
      BY Zenon DEF ObservePrepare, ObserveLook, ObserveNothing, Fault
    <2> QED BY <2>1, <2>2
  <1>4. observer' \in T /\ ObserverInv'
    <2>1. ASSUME NEW r \in Requests, NEW i \in PartsOf(r), ObservePrepare(r, i)
          PROVE  observer' \in T /\ ObserverInv'
      <3>1. /\ i > 0 /\ epochOf[r] = epoch
            /\ observer' = [pc |-> "looking", op |-> <<r, i>>, epoch |-> epoch, gen |-> jgen,
                            mid |-> requests[r].parts[i].mid, cand |-> NoMessage,
                            status |-> "none"]
        BY <2>1 DEF ObservePrepare
      <3>2. requests[r].parts[i] \in Part
        BY <3>1, RequestFacts, PartsOfFacts
      <3>3. <<r, i>> \in Ops /\ requests[r].parts[i].mid \in Nat /\ NoMessage \in Nat
        BY <3>2, OpsFacts DEF Part, NoMessage
      <3>4. epoch \in Nat \ {0} /\ jgen \in Nat
        BY DEF TypeOK
      <3>5. observer' \in T
        BY <3>1, <3>3, <3>4
      <3>6. ObserverInv'
        BY <1>2, <3>1, <3>3, <3>4 DEF ObserverInv
      <3> QED BY <3>5, <3>6
    <2>2. ASSUME ObserveLook
          PROVE  observer' \in T /\ ObserverInv'
      <3> DEFINE o == observer.op
                 m == IF observer.gen # gen THEN NoMessage
                      ELSE IF observer.mid = NoMessage THEN UniqueEcho(o)
                      ELSE IF observer.mid \in 1..Len(source) THEN observer.mid
                      ELSE NoMessage
                 st == IF m = NoMessage THEN "none" ELSE source[m].status
      <3>1. observer.pc = "looking"
            /\ observer' = [pc |-> "found", op |-> o, epoch |-> observer.epoch,
                            gen |-> observer.gen, mid |-> observer.mid, cand |-> m,
                            status |-> st]
        BY <2>2 DEF ObserveLook
      <3>2. observer \in T /\ source \in Seq(Row)
        BY DEF TypeOK
      <3>3. UniqueEcho(o) \in 1..Len(source) \cup {NoMessage}
        <4>1. Echoes(o) \subseteq 1..Len(source)
          BY DEF Echoes, Nearby
        <4>2. \/ UniqueEcho(o) = NoMessage
              \/ /\ Cardinality(Echoes(o)) = 1
                 /\ UniqueEcho(o) = CHOOSE k \in Echoes(o) : TRUE
          BY DEF UniqueEcho
        <4> QED BY <4>1, <4>2, OneElement
      <3>4. m \in 1..Len(source) \cup {NoMessage}
        BY <3>3
      <3> HIDE DEF m
      <3>5. m # NoMessage => source[m] \in Row
        BY <3>2, <3>4
      <3>6. st \in {"none", "sent", "delivered", "failed"} /\ m \in Nat
        BY <3>2, <3>4, <3>5 DEF Row, NoMessage
      <3> HIDE DEF st
      <3>7. observer' \in T
        BY <3>1, <3>2, <3>6
      <3>8. ObserverInv'
        BY <1>2, <3>1 DEF ObserverInv
      <3> QED BY <3>7, <3>8
    <2>3. ASSUME ObserveNothing
          PROVE  observer' \in T /\ ObserverInv'
      <3>1. observer.pc = "looking" /\ observer' = [observer EXCEPT !.pc = "found"]
        BY <2>3 DEF ObserveNothing
      <3>2. observer \in T
        BY DEF TypeOK
      <3>3. observer' \in T /\ observer'.op = observer.op
        BY <3>1, <3>2
      <3>4. ObserverInv'
        BY <1>2, <3>1, <3>3 DEF ObserverInv
      <3> QED BY <3>3, <3>4
    <2> QED BY <2>1, <2>2, <2>3
  <1>5. TypeOK'
    BY <1>1, <1>3, <1>4 DEF TypeOK, journal, core, outside
  <1> QED BY <1>2, <1>4, <1>5, Elsewhere

\* observation.publish.
LEMMA ObservePublishStep ==
    ASSUME IInv, ObservePublish
    PROVE  IInv'
  <1> USE DEF IInv
  <1> DEFINE r == observer.op[1]
             i == observer.op[2]
             v == Published(r, i)
  <1>1. /\ UNCHANGED <<epoch, epochOf, acceptedAt, messages, jgen, core, sender, outside,
                       faults>>
        /\ observer.pc = "found" /\ observer' = Watching
    BY DEF ObservePublish
  <1>2. UNCHANGED <<calls, taken>>
    BY <1>1 DEF outside
  <1>3. /\ r \in Requests /\ i \in PartsOf(r) /\ i # 0 /\ epochOf[r] # 0
    BY <1>1, OpsFacts DEF ObserverInv
  <1>4. requests \in [Requests -> Request] /\ uploads \in [Files -> UploadType]
    BY DEF TypeOK, UploadType
  <1>5. \/ UNCHANGED <<requests, uploads>>
         \/ /\ ~NothingToPublish(r, i)
            /\ requests' = [requests EXCEPT ![r] = v]
            /\ \E released : uploads' = Retire(uploads, released)
    BY DEF ObservePublish
  <1> HIDE DEF r, i, v
  <1>6. /\ QuietStep /\ uploads' \in [Files -> UploadType]
        /\ \A q \in Requests : Holds(q, requests[q], requests'[q])
    <2>1. CASE UNCHANGED <<requests, uploads>>
      BY <1>4, <2>1, SameRequests
    <2>2. CASE /\ ~NothingToPublish(r, i)
               /\ requests' = [requests EXCEPT ![r] = v]
               /\ \E released : uploads' = Retire(uploads, released)
      <3>1. QuietChange(r, requests[r], v) /\ Holds(r, requests[r], v)
        BY <1>3, <2>2, PublishedFacts DEF v
      <3>2. v \in Request
        BY <3>1 DEF QuietChange, Reshaped
      <3>3. /\ requests' \in [Requests -> Request] /\ requests'[r] = v
            /\ \A q \in Requests \ {r} : requests'[q] = requests[q]
        BY <1>3, <1>4, <2>2, <3>2
      <3>4. QuietStep
        BY <1>3, <3>1, <3>3 DEF QuietStep
      <3>5. \A q, x : Holds(q, x, x)
        BY DEF Holds
      <3>6. \A q \in Requests : Holds(q, requests[q], requests'[q])
        BY <3>1, <3>3, <3>5
      <3> QED BY <1>4, <2>2, <3>4, <3>6, RetireType
    <2> QED BY <1>5, <2>1, <2>2
  <1>7. ShapeInv' /\ CallInv' /\ ErrorInv' /\ SummaryInv'
    BY <1>1, <1>2, <1>6, QuietKeeps
  <1>8. SenderInv'
    BY <1>1, <1>2, <1>6, SenderHeld
  <1>9. ObserverInv'
    BY <1>1, IdleFacts DEF ObserverInv
  <1>10. requests' \in [Requests -> Request]
    BY <1>6 DEF QuietStep
  <1>11. uploads' \in [Files -> UploadType]
    BY <1>6
  <1>12. observer' \in [pc: {"idle", "looking", "found"}, op: Ops \cup {NoOp}, epoch: Nat,
                       gen: Nat, mid: Nat, cand: Nat,
                       status: {"none", "sent", "delivered", "failed"}]
    BY <1>1, IdleFacts
  <1>13. /\ UNCHANGED <<epoch, epochOf, acceptedAt, messages, jgen, sender, faults>>
         /\ UNCHANGED <<readReady, automation, recovery>>
         /\ UNCHANGED <<source, gen, outbox, calls, taken, now>>
    BY <1>1 DEF core, outside
  <1>14. TypeOK
    OBVIOUS
  <1> HIDE DEF IInv
  <1>15. TypeOK'
    BY <1>10, <1>11, <1>12, <1>13, <1>14, Zenon DEF TypeOK, UploadType
  <1> QED BY <1>7, <1>8, <1>9, <1>15 DEF IInv

\* Recovery, at start and in the loop, with the sender idle afterwards.
LEMMA RecoverySteps ==
    ASSUME IInv, RecoverSends \/ Crash
    PROVE  IInv'
  <1> USE DEF IInv
  <1>1. /\ UNCHANGED <<epoch, epochOf, acceptedAt, messages, jgen, outside>>
        /\ Recover
        /\ (sender' = sender /\ sender.pc = "idle") \/ sender' = Idle
        /\ observer' = observer \/ observer' = Watching
        /\ faults' = faults \/ faults' = faults + 1
    BY DEF RecoverSends, Crash, Fault
  <1>2. readReady' \in BOOLEAN /\ automation' \in BOOLEAN /\ recovery' \in BOOLEAN
    <2>1. /\ readReady' = readReady \/ readReady' = FALSE
          /\ automation' = automation \/ automation' = FALSE
          /\ recovery' = FALSE
      BY Zenon DEF RecoverSends, Crash
    <2> QED BY <2>1, Zenon DEF TypeOK
  <1>3. UNCHANGED <<calls, taken>>
    BY <1>1 DEF outside
  <1>4. QuietStep /\ uploads' \in [Files -> UploadType]
    BY <1>1, RecoverFacts
  <1>5. ShapeInv' /\ CallInv' /\ ErrorInv' /\ SummaryInv'
    BY <1>1, <1>3, <1>4, QuietKeeps
  <1>6. SenderInv'
    BY <1>1, IdleFacts DEF SenderInv
  <1>7. ObserverInv'
    BY <1>1, IdleFacts DEF ObserverInv
  <1>8. requests' \in [Requests -> Request] /\ faults' \in Nat
    BY <1>1, <1>4 DEF QuietStep, TypeOK
  <1>9. TypeOK'
    BY <1>1, <1>2, <1>4, <1>8, IdleFacts DEF TypeOK, UploadType, outside
  <1> QED BY <1>5, <1>6, <1>7, <1>9
-----------------------------------------------------------------------------
(* The sender.                                                              *)

\* Operation i of request r changes, the others quietly.
SendChange(r, i, v, w) ==
    /\ Reshaped(r, v, w)
    /\ \A k \in PartsOf(r) \ {i} : Quiet(At(v, k), At(w, k))

\* The operation may become anything but queued, and unstarted only if it is
\* stopped and was not taken.
LEMMA SendKeeps ==
    ASSUME IInv, NEW r \in Requests, NEW i \in PartsOf(r), epochOf[r] # 0,
           requests' \in [Requests -> Request],
           \A q \in Requests \ {r} : requests'[q] = requests[q],
           SendChange(r, i, requests[r], requests'[r]),
           At(requests'[r], i).state # "queued",
           At(requests'[r], i).err = "unstarted" =>
               At(requests'[r], i).state \in {"failed", "skipped"} /\ <<r, i>> \notin taken,
           At(requests'[r], i).state \in {"failed", "skipped"} =>
               At(requests'[r], i).err # "none",
           UNCHANGED <<epochOf, calls, taken>>
    PROVE  ShapeInv' /\ CallInv' /\ ErrorInv' /\ SummaryInv'
  <1> USE DEF IInv
  <1>1. ShapeInv'
    BY DEF ShapeInv, SendChange, Reshaped
  <1>2. SummaryInv'
    BY DEF SummaryInv, SendChange, Reshaped
  <1>3. ASSUME NEW o \in Ops, o # <<r, i>>
        PROVE  \/ OpState(o)' = OpState(o) /\ OpErr(o)' = OpErr(o)
               \/ OpState(o) = "queued" /\ OpState(o)' = "skipped" /\ OpErr(o)' = "unstarted"
               \/ /\ OpState(o)' # "queued"
                  /\ OpErr(o)' # "unstarted"
                  /\ OpState(o)' \in {"failed", "skipped"} => OpErr(o)' = "uncertain"
    <2>1. o[1] \in Requests /\ o[2] \in PartsOf(o[1]) /\ o = <<o[1], o[2]>>
      BY OpsFacts
    <2>2. o[1] # r \/ o[2] # i
      BY <1>3, <2>1
    <2>3. \/ requests'[o[1]] = requests[o[1]]
          \/ Quiet(At(requests[o[1]], o[2]), At(requests'[o[1]], o[2]))
      BY <2>1, <2>2 DEF SendChange
    <2> QED BY <2>3 DEF Quiet, OpState, OpErr
  <1>4. /\ OpState(<<r, i>>)' = At(requests'[r], i).state
        /\ OpErr(<<r, i>>)' = At(requests'[r], i).err
    BY DEF OpState, OpErr
  <1>5. ASSUME NEW o \in Ops, OpState(o) = "queued"
        PROVE  o \notin taken
    BY <1>5 DEF CallInv
  <1>6. CallInv'
    BY <1>3, <1>4 DEF CallInv
  <1>7. ErrorInv'
    BY <1>3, <1>4, <1>5 DEF ErrorInv
  <1> QED BY <1>1, <1>2, <1>6, <1>7

\* The operation prepareSend picks is queued.
LEMMA NextOpQueued ==
    ASSUME IInv, NEW r \in Requests, NEW i \in PartsOf(r), OldestQueued(r), NextOp(r, i)
    PROVE  At(requests[r], i).state = "queued" /\ OpState(<<r, i>>) = "queued"
  <1>1. TypeOK /\ ShapeInv
    BY DEF IInv
  <1>2. At(requests[r], i).state = "queued"
    BY <1>1, RequestFacts DEF OldestQueued, NextOp, IsNextPart, At
  <1> QED BY <1>2 DEF OpState

\* What marking operation i makes of a request besides.
Begun(r, i, v, w) ==
    /\ TextOnly(r) => w.parts = v.parts
    /\ ~TextOnly(r) => /\ i \in 1..Len(v.parts)
                       /\ w.parts[i].file = v.parts[i].file
                       /\ \A k \in 1..Len(v.parts) : k # i => w.parts[k] = v.parts[k]
                       /\ Orderly(v) => Summed(w)

\* prepareSend marks it and changes nothing else.
LEMMA DispatchingFacts ==
    ASSUME IInv, NEW r \in Requests, NEW i \in PartsOf(r)
    PROVE  LET w == Dispatching(r, i)
           IN  /\ SendChange(r, i, requests[r], w)
               /\ At(w, i).state = "dispatching"
               /\ At(w, i).err = At(requests[r], i).err
               /\ Begun(r, i, requests[r], w)
  <1> DEFINE v == requests[r]
             w == Dispatching(r, i)
  <1>1. TypeOK /\ ShapeInv
    BY DEF IInv
  <1>2. /\ v \in Request
        /\ \A k \in PartsOf(r) : ~TextOnly(r) => k \in 1..Len(v.parts)
        /\ \A k \in PartsOf(r) : TextOnly(r) <=> k = 0
    BY <1>1, RequestFacts
  <1>3. now \in Nat /\ Len(source) \in Nat
    BY <1>1 DEF TypeOK
  <1>4. CASE TextOnly(r)
    <2>1. w = Mark(v, now, Len(source))
      BY <1>4 DEF Dispatching
    <2> HIDE DEF v, w
    <2>2. w \in Request /\ w.parts = v.parts /\ w.state = "dispatching" /\ w.err = v.err
      BY <1>2, <1>3, <2>1, MarkRequest
    <2>3. SendChange(r, i, v, w) /\ At(w, i).state = "dispatching" /\ At(w, i).err = At(v, i).err
      BY <1>2, <1>4, <2>2 DEF SendChange, Reshaped, At
    <2>4. Begun(r, i, v, w)
      BY <1>4, <2>2 DEF Begun
    <2> QED BY <2>3, <2>4 DEF v, w
  <1>5. CASE ~TextOnly(r)
    <2>1. w = Start(v, i, now, Len(source)) /\ i \in 1..Len(v.parts)
      BY <1>2, <1>5 DEF Dispatching
    <2> HIDE DEF v, w
    <2>2. /\ w \in Request /\ Len(w.parts) = Len(v.parts)
          /\ w.parts[i].state = "dispatching" /\ w.parts[i].err = v.parts[i].err
          /\ w.parts[i].file = v.parts[i].file
          /\ \A k \in 1..Len(v.parts) : k # i => w.parts[k] = v.parts[k]
          /\ w.err = "unstarted" => AllUnstarted(w.parts)
          /\ Orderly(v) => Summed(w)
      BY <1>2, <1>3, <2>1, StartFacts
    <2>3. SendChange(r, i, v, w) /\ At(w, i).state = "dispatching" /\ At(w, i).err = At(v, i).err
      BY <1>2, <1>5, <2>2 DEF SendChange, Reshaped, At, Quiet
    <2>4. Begun(r, i, v, w)
      BY <1>5, <2>1, <2>2 DEF Begun
    <2> QED BY <2>3, <2>4 DEF v, w
  <1> QED BY <1>4, <1>5

\* The durable mark before any automation is invoked.
LEMMA PrepareSendStep ==
    ASSUME IInv, NEW r \in Requests, NEW i \in PartsOf(r), PrepareSend(r, i)
    PROVE  IInv'
  <1> USE DEF IInv
  <1> DEFINE v == requests[r]
             w == Dispatching(r, i)
             o == <<r, i>>
  <1>1. /\ UNCHANGED <<epoch, epochOf, acceptedAt, messages, jgen, core, observer, outside,
                       faults>>
        /\ sender' = [pc |-> "prepared", op |-> o, epoch |-> epoch, work |-> w,
                      outcome |-> "none"]
    BY DEF PrepareSend
  <1>2. OldestQueued(r) /\ NextOp(r, i) /\ UpdateRequest(r, w)
    BY DEF PrepareSend, MayDispatch
  <1>3. UNCHANGED <<calls, taken>>
    BY <1>1 DEF outside
  <1>4. At(v, i).state = "queued" /\ OpState(o) = "queued" /\ epochOf[r] # 0
    BY <1>2, NextOpQueued DEF OldestQueued
  <1>5. SendChange(r, i, v, w) /\ At(w, i).state = "dispatching" /\ At(w, i).err = At(v, i).err
    BY DispatchingFacts
  <1>6. o \in Ops /\ calls[o] = 0
    BY <1>4, OpsFacts DEF CallInv
  <1>7. At(v, i).err # "unstarted"
    BY <1>4, <1>6 DEF ErrorInv, OpErr, OpState
  <1>8. w \in Request /\ epoch \in Nat
    BY <1>5 DEF SendChange, Reshaped, TypeOK
  <1> HIDE DEF w
  <1>9. /\ requests' \in [Requests -> Request] /\ uploads' \in [Files -> UploadType]
        /\ requests'[r] = w
        /\ \A q \in Requests \ {r} : requests'[q] = requests[q]
    BY <1>2, <1>8, UpdateOne
  <1>10. ShapeInv' /\ CallInv' /\ ErrorInv' /\ SummaryInv'
    BY <1>1, <1>3, <1>4, <1>5, <1>7, <1>9, SendKeeps
  <1>11. SenderInv'
    <2>1. OpState(o)' = "dispatching" /\ OpErr(o)' # "unstarted"
      BY <1>5, <1>7, <1>9 DEF OpState, OpErr
    <2>2. /\ sender'.op = o /\ sender'.op[1] = r /\ sender'.pc = "prepared"
          /\ sender'.epoch = epoch /\ sender'.work = w
      BY <1>1
    <2> QED BY <1>1, <1>3, <1>4, <1>6, <1>8, <1>9, <2>1, <2>2 DEF SenderInv
  <1>12. ObserverInv'
    BY <1>1 DEF ObserverInv
  <1>13. sender' \in [pc: {"idle", "prepared", "returned"}, op: Ops \cup {NoOp}, epoch: Nat,
                      work: Request, outcome: {"none", "invoked", "unstarted", "uncertain"}]
    BY <1>1, <1>6, <1>8
  <1>14. TypeOK'
    <2>1. UNCHANGED <<epoch, epochOf, acceptedAt, messages, jgen, core, observer, outside, faults>>
      BY <1>1
    <2> QED BY <1>9, <1>13, <2>1 DEF TypeOK, UploadType, core, outside
  <1> QED BY <1>10, <1>11, <1>12, <1>14

\* Ending operation i of a request with parts, as finish does.
LEMMA FinishChange ==
    ASSUME NEW r \in Requests, NEW v \in Request, NEW w, NEW i \in 1..Len(v.parts), ~TextOnly(r),
           PartsOf(r) \subseteq 1..Len(v.parts),
           NEW outcome \in {"invoked", "unstarted", "uncertain"},
           w = Finish(v, i, outcome)
    PROVE  /\ SendChange(r, i, v, w)
           /\ At(w, i).state = FinishState(outcome)
           /\ At(w, i).err = FinishErr(outcome)
  <1>1. /\ w \in Request
        /\ OthersAside(v, w, i)
        /\ w.parts[i].state = FinishState(outcome)
        /\ w.parts[i].err = FinishErr(outcome)
        /\ w.err = "unstarted" => AllUnstarted(w.parts)
    BY FinishFacts
  <1>2. Reshaped(r, v, w)
    BY <1>1 DEF Reshaped, OthersAside
  <1>3. \A k \in PartsOf(r) \ {i} : Quiet(v.parts[k], w.parts[k])
    BY <1>1, AsideQuiet DEF OthersAside
  <1>4. \A k \in PartsOf(r) \cup {i} : k # 0
    OBVIOUS
  <1> QED BY <1>1, <1>2, <1>3, <1>4 DEF SendChange, At

\* rejectQueued ends what was never started.
LEMMA RejectQueuedStep ==
    ASSUME IInv, NEW r \in Requests, NEW i \in PartsOf(r), RejectQueued(r, i)
    PROVE  IInv'
  <1> USE DEF IInv
  <1> DEFINE v == requests[r]
             p == v.parts[i]
             x == Start(v, i, p.time, p.floor)
             w == IF TextOnly(r) THEN End(v, "failed", "unstarted")
                                 ELSE Finish(x, i, "unstarted")
             o == <<r, i>>
  <1>1. UNCHANGED <<epoch, epochOf, acceptedAt, messages, jgen, core, sender, observer, outside>>
    BY DEF RejectQueued
  <1>2. OldestQueued(r) /\ NextOp(r, i) /\ UpdateRequest(r, w) /\ sender.pc = "idle"
        /\ faults' = faults + 1
    BY DEF RejectQueued, MayDispatch, Fault
  <1>3. UNCHANGED <<calls, taken>>
    BY <1>1 DEF outside
  <1>4. At(v, i).state = "queued" /\ OpState(o) = "queued" /\ epochOf[r] # 0
    BY <1>2, NextOpQueued DEF OldestQueued
  <1>5. o \in Ops /\ o \notin taken
    BY <1>4, OpsFacts DEF CallInv
  <1>6. /\ v \in Request
        /\ \A k \in PartsOf(r) : ~TextOnly(r) => k \in 1..Len(v.parts)
        /\ \A k \in PartsOf(r) : TextOnly(r) <=> k = 0
        /\ \A k \in 1..Len(v.parts) : v.parts[k] \in Part
    BY RequestFacts
  <1> HIDE DEF v
  <1>7. SendChange(r, i, v, w) /\ At(w, i).state = "failed" /\ At(w, i).err = "unstarted"
    <2>1. CASE TextOnly(r)
      <3>1. "failed" \in SendStatus /\ "unstarted" \in ErrorInfo
        BY DEF SendStatus, ErrorInfo
      <3>2. /\ w \in Request /\ w.parts = v.parts
            /\ w.state = "failed" /\ w.err = "unstarted"
        BY <1>6, <2>1, <3>1, EndRequest
      <3> QED BY <1>6, <2>1, <3>2 DEF SendChange, Reshaped, At
    <2>2. CASE ~TextOnly(r)
      <3>1. i \in 1..Len(v.parts) /\ p \in Part /\ PartsOf(r) \subseteq 1..Len(v.parts)
        BY <1>6, <2>2
      <3>2. p.time \in Nat /\ p.floor \in Nat
        BY <3>1 DEF Part
      <3> HIDE DEF p
      <3>3. /\ x \in Request /\ Len(x.parts) = Len(v.parts)
            /\ \A k \in 1..Len(v.parts) : k # i => x.parts[k] = v.parts[k]
        BY <1>6, <3>1, <3>2, StartFacts
      <3>4. w = Finish(x, i, "unstarted")
        BY <2>2
      <3> HIDE DEF x, w
      <3>5. /\ SendChange(r, i, x, w)
            /\ At(w, i).state = FinishState("unstarted")
            /\ At(w, i).err = FinishErr("unstarted")
        BY <2>2, <3>1, <3>3, <3>4, FinishChange
      <3>6. \A k \in PartsOf(r) \ {i} : At(x, k) = At(v, k)
        BY <1>6, <2>2, <3>3 DEF At
      <3>7. SendChange(r, i, v, w)
        BY <3>3, <3>5, <3>6 DEF SendChange, Reshaped
      <3> QED BY <3>5, <3>7 DEF FinishState, FinishErr
    <2> QED BY <2>1, <2>2
  <1>8. w \in Request
    BY <1>7 DEF SendChange, Reshaped
  <1> HIDE DEF w
  <1>9. /\ requests' \in [Requests -> Request] /\ uploads' \in [Files -> UploadType]
        /\ requests'[r] = w
        /\ \A q \in Requests \ {r} : requests'[q] = requests[q]
    BY <1>2, <1>8, UpdateOne
  <1>10. ShapeInv' /\ CallInv' /\ ErrorInv' /\ SummaryInv'
    BY <1>1, <1>3, <1>4, <1>5, <1>7, <1>9, SendKeeps DEF v
  <1>11. SenderInv'
    BY <1>1, <1>2 DEF SenderInv
  <1>12. ObserverInv'
    BY <1>1 DEF ObserverInv
  <1>13. faults' \in Nat
    BY <1>2 DEF TypeOK
  <1>14. TypeOK'
    BY <1>1, <1>9, <1>13 DEF TypeOK, UploadType, core, outside
  <1> QED BY <1>10, <1>11, <1>12, <1>14

\* The automation call: the only step that adds to calls and taken.
LEMMA InvokeStep ==
    ASSUME IInv, NEW outcome \in {"invoked", "unstarted", "uncertain"}, NEW took \in BOOLEAN,
           Invoke(outcome, took)
    PROVE  IInv'
  <1> USE DEF IInv
  <1> DEFINE o == sender.op
  <1>1. /\ UNCHANGED <<journal, core, observer, source, gen, now>>
        /\ sender.pc = "prepared"
        /\ calls' = [calls EXCEPT ![o] = calls[o] + 1]
        /\ sender' = [pc |-> "returned", op |-> o, epoch |-> sender.epoch,
                      work |-> sender.work, outcome |-> outcome]
    BY DEF Invoke
  <1>2. /\ taken' = taken \/ (outcome # "unstarted" /\ taken' = taken \cup {o})
        /\ outbox' = outbox \/ outbox' = outbox \cup {o}
        /\ faults' = faults \/ faults' = faults + 1
    BY DEF Invoke, Fault
  <1>3. UNCHANGED <<epoch, requests, epochOf, acceptedAt, uploads, messages, jgen>>
    BY <1>1 DEF journal
  <1>4. /\ o \in Ops /\ calls[o] = 0 /\ OpState(o) # "queued" /\ OpErr(o) # "unstarted"
    BY <1>1 DEF SenderInv
  <1>5. calls \in [Ops -> Nat] /\ taken \subseteq Ops /\ outbox \subseteq Ops /\ faults \in Nat
    BY DEF TypeOK
  <1>6. /\ calls' \in [Ops -> Nat] /\ calls'[o] = 1
        /\ \A p \in Ops \ {o} : calls'[p] = calls[p]
        /\ \A p \in Ops \ {o} : p \in taken' <=> p \in taken
        /\ taken' \subseteq Ops /\ outbox' \subseteq Ops /\ faults' \in Nat
    BY <1>1, <1>2, <1>4, <1>5
  <1>7. \A p \in Ops : OpState(p)' = OpState(p) /\ OpErr(p)' = OpErr(p)
    BY <1>3 DEF OpState, OpErr
  <1>8. CallInv'
    <2>1. SUFFICES ASSUME NEW p \in Ops
                   PROVE  /\ calls'[p] <= 1
                          /\ OpState(p)' = "queued" => calls'[p] = 0
                          /\ p \in taken' => calls'[p] > 0
      BY DEF CallInv
    <2>2. CASE p = o
      BY <1>4, <1>6, <1>7, <2>2
    <2>3. CASE p # o
      BY <1>6, <1>7, <2>3 DEF CallInv
    <2> QED BY <2>2, <2>3
  <1>9. ErrorInv'
    BY <1>4, <1>6, <1>7 DEF ErrorInv
  <1>10. ShapeInv' /\ SummaryInv' /\ ObserverInv'
    BY <1>1, <1>3 DEF ShapeInv, SummaryInv, ObserverInv
  <1>11. SenderInv'
    <2>1. /\ sender'.op = o /\ sender'.pc = "returned" /\ sender'.epoch = sender.epoch
          /\ sender'.work = sender.work /\ sender'.outcome = outcome
      BY <1>1
    <2>2. outcome = "unstarted" => o \notin taken'
      BY <1>2, <1>4 DEF CallInv
    <2> QED BY <1>1, <1>3, <1>7, <2>1, <2>2 DEF SenderInv
  <1>12. sender' \in [pc: {"idle", "prepared", "returned"}, op: Ops \cup {NoOp}, epoch: Nat,
                      work: Request, outcome: {"none", "invoked", "unstarted", "uncertain"}]
    BY <1>1 DEF TypeOK
  <1>13. UNCHANGED <<readReady, automation, recovery, observer, source, gen, now>>
    BY <1>1 DEF core
  <1>14. TypeOK'
    BY <1>3, <1>6, <1>12, <1>13 DEF TypeOK
  <1> QED BY <1>8, <1>9, <1>10, <1>11, <1>14

\* The result of the call is stored, or dropped after a reset.
LEMMA FinishSendStep ==
    ASSUME IInv, FinishSend
    PROVE  IInv'
  <1> USE DEF IInv
  <1> DEFINE o == sender.op
             r == o[1]
             i == o[2]
             v == requests[r]
             w == SendResult(r, i)
  <1>1. /\ UNCHANGED <<epoch, epochOf, acceptedAt, messages, jgen, core, observer, outside,
                       faults>>
        /\ sender' = Idle /\ sender.pc = "returned"
    BY DEF FinishSend
  <1>2. \/ UNCHANGED <<requests, uploads>>
        \/ sender.epoch = epoch /\ UpdateRequest(r, w)
    BY DEF FinishSend
  <1>3. UNCHANGED <<calls, taken>>
    BY <1>1 DEF outside
  <1>4. /\ o \in Ops /\ r \in Requests /\ i \in PartsOf(r) /\ o = <<r, i>> /\ epochOf[r] # 0
        /\ sender.outcome \in {"invoked", "unstarted", "uncertain"}
        /\ sender.outcome = "unstarted" => <<r, i>> \notin taken
    BY <1>1, OpsFacts DEF SenderInv, TypeOK
  <1>5. /\ requests' \in [Requests -> Request] /\ uploads' \in [Files -> UploadType]
        /\ ShapeInv' /\ CallInv' /\ ErrorInv' /\ SummaryInv'
    <2>1. CASE UNCHANGED <<requests, uploads>>
      <3>1. requests' \in [Requests -> Request] /\ uploads' \in [Files -> UploadType]
        BY <2>1 DEF TypeOK, UploadType
      <3>2. QuietStep
        BY <2>1, SameRequests
      <3> QED BY <1>1, <1>3, <3>1, <3>2, QuietKeeps
    <2>2. CASE sender.epoch = epoch /\ UpdateRequest(r, w)
      <3>1. TextOnly(r) => v = sender.work
        BY <1>1, <2>2 DEF SenderInv
      <3>2. /\ v \in Request
            /\ \A k \in PartsOf(r) : ~TextOnly(r) => k \in 1..Len(v.parts)
            /\ \A k \in PartsOf(r) : TextOnly(r) <=> k = 0
        BY <1>4, RequestFacts
      <3> HIDE DEF v
      <3>3. /\ SendChange(r, i, v, w)
            /\ \/ /\ At(w, i).state = "failed" /\ At(w, i).err = "unstarted"
                  /\ sender.outcome = "unstarted"
               \/ At(w, i).state \in {"unknown", "invoked"} /\ At(w, i).err # "unstarted"
        <4>1. CASE TextOnly(r)
          <5>1. {"failed", "unknown"} \subseteq SendStatus
                /\ {"unstarted", "uncertain"} \subseteq ErrorInfo
            BY DEF SendStatus, ErrorInfo
          <5>2. w = IF sender.outcome = "unstarted" THEN End(v, "failed", "unstarted")
                                                    ELSE End(v, "unknown", "uncertain")
            BY <3>1, <4>1 DEF SendResult, TextResult
          <5> HIDE DEF w
          <5>3. /\ w \in Request /\ w.parts = v.parts
                /\ \/ /\ w.state = "failed" /\ w.err = "unstarted"
                      /\ sender.outcome = "unstarted"
                   \/ w.state = "unknown" /\ w.err = "uncertain"
            BY <3>2, <5>1, <5>2, EndRequest
          <5> QED BY <1>4, <3>2, <4>1, <5>3 DEF SendChange, Reshaped, At
        <4>2. CASE ~TextOnly(r)
          <5>1. w = Finish(v, i, sender.outcome)
            BY <4>2 DEF SendResult, v
          <5>2. i \in 1..Len(v.parts) /\ PartsOf(r) \subseteq 1..Len(v.parts)
            BY <1>4, <3>2, <4>2
          <5> HIDE DEF w
          <5>3. /\ SendChange(r, i, v, w)
                /\ At(w, i).state = FinishState(sender.outcome)
                /\ At(w, i).err = FinishErr(sender.outcome)
            BY <1>4, <3>2, <4>2, <5>1, <5>2, FinishChange
          <5> QED BY <1>4, <5>3 DEF FinishState, FinishErr
        <4> QED BY <4>1, <4>2
      <3>4. w \in Request
        BY <3>3 DEF SendChange, Reshaped
      <3> HIDE DEF w
      <3>5. /\ requests' \in [Requests -> Request] /\ uploads' \in [Files -> UploadType]
            /\ requests'[r] = w
            /\ \A q \in Requests \ {r} : requests'[q] = requests[q]
        BY <1>4, <2>2, <3>4, UpdateOne
      <3>6. ShapeInv' /\ CallInv' /\ ErrorInv' /\ SummaryInv'
        BY <1>1, <1>3, <1>4, <3>3, <3>5, SendKeeps DEF v
      <3> QED BY <3>5, <3>6
    <2> QED BY <1>2, <2>1, <2>2
  <1>6. SenderInv' /\ ObserverInv'
    BY <1>1, IdleFacts DEF SenderInv, ObserverInv
  <1>7. TypeOK'
    <2>1. requests' \in [Requests -> Request] /\ uploads' \in [Files -> UploadType]
      BY <1>5
    <2>2. sender' \in [pc: {"idle", "prepared", "returned"}, op: Ops \cup {NoOp}, epoch: Nat,
                       work: Request, outcome: {"none", "invoked", "unstarted", "uncertain"}]
      BY <1>1, IdleFacts
    <2>3. UNCHANGED <<epoch, epochOf, acceptedAt, messages, jgen, readReady, automation, recovery,
                      observer, source, gen, outbox, calls, taken, now, faults>>
      BY <1>1 DEF core, outside
    <2> QED BY <2>1, <2>2, <2>3 DEF TypeOK, UploadType
  <1> QED BY <1>5, <1>6, <1>7

\* The result is lost; the request stays dispatching.
LEMMA FinishFailsStep ==
    ASSUME IInv, FinishFails
    PROVE  IInv'
  <1> USE DEF IInv
  <1>1. /\ UNCHANGED <<journal, readReady, automation, observer, outside>>
        /\ sender' = Idle /\ faults' = faults + 1
    BY DEF FinishFails, Fault
  <1>2. UNCHANGED <<epoch, requests, epochOf, acceptedAt, uploads, messages, jgen,
                    source, gen, outbox, calls, taken, now>>
    BY <1>1 DEF journal, outside
  <1>3. ShapeInv' /\ CallInv' /\ ErrorInv' /\ SummaryInv'
    BY <1>2, SameRequests, QuietKeeps
  <1>4. SenderInv' /\ ObserverInv'
    BY <1>1, <1>2, IdleFacts DEF SenderInv, ObserverInv
  <1>5. recovery' \in BOOLEAN
    BY Zenon DEF FinishFails
  <1>6. faults' \in Nat
    BY <1>1 DEF TypeOK
  <1>7. TypeOK'
    BY <1>1, <1>2, <1>5, <1>6, IdleFacts DEF TypeOK
  <1> QED BY <1>3, <1>4, <1>7
-----------------------------------------------------------------------------
(* The invariant and what follows from it.                                  *)

\* A relay whose journal is new.
LEMMA InitInv == Init => IInv
  <1> SUFFICES ASSUME Init
               PROVE  IInv
    OBVIOUS
  <1> USE DEF Init
  <1>1. \A r \in Requests : requests[r] = NewRequest(r)
    OBVIOUS
  <1>2. requests \in [Requests -> Request]
    BY NewRequestFacts
  <1>3. \A o \in Ops : OpState(o) = "queued" /\ OpErr(o) = "none"
    BY <1>1, OpsFacts, NewRequestFacts DEF OpState, OpErr
  <1>4. ShapeInv
    BY <1>1 DEF ShapeInv
  <1>5. CallInv /\ ErrorInv
    BY <1>3 DEF CallInv, ErrorInv
  <1>6. SummaryInv
    BY <1>1, NewRequestFacts DEF SummaryInv
  <1>7. SenderInv /\ ObserverInv
    BY IdleFacts DEF SenderInv, ObserverInv
  <1>8. TypeOK
    <2>1. DOMAIN messages \subseteq Nat \ {0} /\ \A m \in DOMAIN messages : messages[m] \in Row
      OBVIOUS
    <2>2. source \in Seq(Row)
      OBVIOUS
    <2>3. readReady \in BOOLEAN /\ automation \in BOOLEAN /\ recovery \in BOOLEAN
      BY Zenon
    <2>4. calls \in [Ops -> Nat] /\ epochOf \in [Requests -> Nat]
          /\ acceptedAt \in [Requests -> Nat] /\ uploads \in [Files -> UploadType]
      BY DEF Upload, UploadType
    <2>5. /\ epoch \in Nat \ {0} /\ jgen \in Nat /\ gen \in Nat /\ now \in Nat /\ faults \in Nat
          /\ outbox \subseteq Ops /\ taken \subseteq Ops
      OBVIOUS
    <2>6. sender = Idle /\ observer = Watching
      OBVIOUS
    <2> HIDE DEF Init
    <2> QED BY <1>2, <2>1, <2>2, <2>3, <2>4, <2>5, <2>6, IdleFacts DEF TypeOK, UploadType
  <1> QED BY <1>4, <1>5, <1>6, <1>7, <1>8 DEF IInv

\* Every step keeps it.
LEMMA NextInv == IInv /\ [Next]_vars => IInv'
  <1> SUFFICES ASSUME IInv, [Next]_vars
               PROVE  IInv'
    OBVIOUS
  <1>1. CASE HttpStep
    BY <1>1, AcceptStep, ClientResetStep, ReplaceUploadStep DEF HttpStep
  <1>2. CASE SenderStep
    BY <1>2, FlagSteps, PrepareSendStep, RejectQueuedStep, InvokeStep, FinishSendStep,
       FinishFailsStep, RecoverySteps DEF SenderStep
  <1>3. CASE Ingest \/ IngestFails
    BY <1>3, IngestStep, FlagSteps
  <1>4. CASE ObserverStep
    BY <1>4, ObserveSteps, ObservePublishStep DEF ObserverStep
  <1>5. CASE MessagesStep \/ Tick
    BY <1>5, MessagesSteps
  <1>6. CASE Crash
    BY <1>6, RecoverySteps
  <1>7. CASE UNCHANGED vars
    <2>1. /\ UNCHANGED <<epoch, requests, epochOf, sender, calls, taken>>
          /\ UNCHANGED <<acceptedAt, uploads, messages, jgen, readReady, automation, recovery,
                         observer, source, gen, outbox, now, faults>>
      BY <1>7 DEF vars, journal, core, outside
    <2>2. TypeOK' /\ ObserverInv'
      BY <2>1 DEF IInv, TypeOK, ObserverInv
    <2> QED BY <2>1, <2>2, Elsewhere DEF IInv
  <1> QED BY <1>1, <1>2, <1>3, <1>4, <1>5, <1>6, <1>7 DEF Next

\* The invariant holds in every reachable state of the send pipeline.
THEOREM Invariance == Spec => []IInv
  BY InitInv, NextInv, PTL DEF Spec

\* Every variable of the relay keeps its type: no outcome is stored that is
\* not a state of a part or a request, and every matched message exists.
THEOREM TypeCorrect == Spec => []TypeOK
  <1>1. IInv => TypeOK
    BY DEF IInv
  <1> QED BY <1>1, Invariance, PTL

\* Automation is called at most once for every operation.
THEOREM CalledAtMostOnce == Spec => []AtMostOnce
  <1>1. IInv => AtMostOnce
    BY DEF IInv, CallInv, AtMostOnce
  <1> QED BY <1>1, Invariance, PTL

\* An operation, or a request, that is reported unstarted was not taken.
THEOREM UnstartedNotTaken == Spec => []UnstartedIsTrue
  <1>1. ASSUME IInv
        PROVE  UnstartedIsTrue
    <2> USE <1>1 DEF IInv
    <2>1. ASSUME NEW o \in Ops, requests[o[1]].err = "unstarted"
          PROVE  o \notin taken
      <3>1. o[1] \in Requests /\ o[2] \in PartsOf(o[1])
        BY OpsFacts
      <3>2. CASE TextOnly(o[1])
        <4>1. OpErr(o) = "unstarted"
          BY <2>1, <3>1, <3>2, PartsOfFacts DEF OpErr, At
        <4> QED BY <4>1 DEF ErrorInv
      <3>3. CASE ~TextOnly(o[1])
        <4>1. AllUnstarted(requests[o[1]].parts)
          BY <2>1, <3>1, <3>3 DEF SummaryInv
        <4> DEFINE p == requests[o[1]].parts[o[2]]
        <4>2. o[2] \in 1..Len(requests[o[1]].parts) /\ o[2] # 0 /\ p \in Part
          BY <3>1, <3>3, RequestFacts
        <4>3. p.state = "queued" \/ (p.state \in {"failed", "skipped"} /\ p.err # "uncertain")
          BY <4>1, <4>2 DEF AllUnstarted
        <4>4. OpState(o) = p.state /\ OpErr(o) = p.err
          BY <4>2 DEF OpState, OpErr, At
        <4>5. p.err \in {"none", "unstarted", "uncertain"}
          BY <4>2 DEF Part, ErrorInfo
        <4> HIDE DEF p
        <4>6. CASE p.state = "queued"
          BY <4>4, <4>6 DEF CallInv
        <4>7. CASE p.state \in {"failed", "skipped"} /\ p.err # "uncertain"
          BY <4>4, <4>5, <4>7 DEF ErrorInv
        <4> QED BY <4>3, <4>6, <4>7
      <3> QED BY <3>2, <3>3
    <2> QED BY <2>1 DEF UnstartedIsTrue, ErrorInv
  <1> QED BY <1>1, Invariance, PTL
=============================================================================
