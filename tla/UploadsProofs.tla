--------------------------- MODULE UploadsProofs ---------------------------
(***************************************************************************)
(* Proofs about Uploads for every finite set of identifiers and any devices,  *)
(* files, streams, quotas, clocks and faults: a completed upload keeps its    *)
(* verified bytes, an upload has one writer, a completed upload is never      *)
(* reopened, and the disk stays within the quota.                            *)
(***************************************************************************)
EXTENDS Uploads, FiniteSetTheorems, WellFoundedInduction, TLAPS
-----------------------------------------------------------------------------
(* The inductive invariant.                                                 *)

Leased == StreamState \ {"idle", "answered"}

\* The states of a stream whose lease nobody else can have ended.
Writing == {"claimed", "receiving", "sealed", "failed"}

\* A stream with a lease knows what it was given; one without has no token.
StreamInv ==
    \A s \in Streams :
        IF stream[s].state \in Leased
        THEN /\ stream[s].id \in Ids
             /\ stream[s].epoch \in 1..MaxEpoch
             /\ stream[s].token \in 1..tokens
             /\ stream[s].file \in Descriptors
        ELSE stream[s].token = 0

\* Tokens are not shared, neither by streams nor with a release that waits.
TokenInv ==
    /\ \A s, z \in Streams :
          (stream[s].token = stream[z].token /\ stream[s].token # 0) => s = z
    /\ \A l \in queue : l.token <= tokens /\ \A s \in Streams : stream[s].token # l.token

\* A writing stream holds its row, which has kept the file it was claimed for.
LeaseInv ==
    \A s \in Streams : stream[s].state \in Writing =>
        /\ Holds(stream[s].id, stream[s])
        /\ row[stream[s].id].file = stream[s].file

\* The bytes of a sealed transfer are in place, in its own directory.
SealInv ==
    \A s \in Streams : stream[s].state = "sealed" =>
        /\ Reaches(stream[s])
        /\ dir[stream[s].id].file = stream[s].file

\* What the cleanup pass has in hand is being deleted, and the directory whose
\* row it is about to purge is gone.
CleanInv ==
    /\ \A id \in cleaner.ids : row[id].phase = "deleting"
    /\ cleaner.purging # NoId => /\ cleaner.purging \in cleaner.ids
                                 /\ dir[cleaner.purging].bytes = 0

\* The quota covers the bytes on disk, row by row.
BytesInv ==
    \A id \in Ids :
        IF row[id].phase = "none" THEN dir[id].bytes = 0
        ELSE row[id].file \in Descriptors /\ dir[id].bytes <= SizeOf[row[id].file]

QuotaInv == UsedBytes <= MaxBytes

IInv == /\ TypeOK /\ StreamInv /\ TokenInv /\ LeaseInv /\ SealInv
        /\ CleanInv /\ BytesInv /\ ReadyHasFile
-----------------------------------------------------------------------------
(* What a step does to rows and streams, field by field.                    *)

\* A stream moves to another state and keeps its lease.
Move(s, state) == stream' = [stream EXCEPT ![s].state = state]

\* A stream that moves changes its state only, and the others stay.
LEMMA MoveFacts ==
    ASSUME TypeOK, NEW s \in Streams, NEW st \in StreamState, Move(s, st)
    PROVE  /\ stream' \in [Streams -> Upload]
           /\ \A z \in Streams \ {s} : stream'[z] = stream[z]
           /\ \A z \in Streams :
                 /\ stream'[z].id = stream[z].id
                 /\ stream'[z].epoch = stream[z].epoch
                 /\ stream'[z].token = stream[z].token
                 /\ stream'[z].file = stream[z].file
                 /\ stream'[z].body = stream[z].body
                 /\ stream'[z].state = IF z = s THEN st ELSE stream[z].state
  <1>1. stream \in [Streams -> Upload]
    BY DEF TypeOK
  <1>2. [stream[s] EXCEPT !.state = st] \in Upload
    BY <1>1 DEF Upload
  <1>3. stream' = [stream EXCEPT ![s] = [stream[s] EXCEPT !.state = st]]
    BY DEF Move
  <1>4. stream' \in [Streams -> Upload]
    BY <1>1, <1>2, <1>3
  <1> QED BY <1>1, <1>3, <1>4 DEF Upload

\* Rows change their phase and nothing else that a lease depends on.
OnlyPhases ==
    \A id \in Ids : /\ row'[id] \in Row
                    /\ row'[id].epoch = row[id].epoch
                    /\ row'[id].lease = row[id].lease
                    /\ row'[id].file = row[id].file

SetPhase(id, phase) == row' = [row EXCEPT ![id].phase = phase]

\* A new phase of one row; its other columns stay.
LEMMA SetPhaseFacts ==
    ASSUME TypeOK, NEW id \in Ids, NEW phase \in Phase, SetPhase(id, phase)
    PROVE  /\ row' \in [Ids -> Row]
           /\ OnlyPhases
           /\ \A k \in Ids : row'[k].phase = IF k = id THEN phase ELSE row[k].phase
  <1>1. row \in [Ids -> Row]
    BY DEF TypeOK
  <1>2. [row[id] EXCEPT !.phase = phase] \in Row
    BY <1>1 DEF Row
  <1>3. row' = [row EXCEPT ![id] = [row[id] EXCEPT !.phase = phase]]
    BY DEF SetPhase
  <1>4. row' \in [Ids -> Row]
    BY <1>1, <1>2, <1>3
  <1>5. \A k \in Ids : row'[k] = IF k = id THEN [row[id] EXCEPT !.phase = phase] ELSE row[k]
    BY <1>1, <1>3
  <1> QED BY <1>1, <1>4, <1>5 DEF OnlyPhases, Row

\* Released leases free their rows and change nothing else.
LEMMA ReleasedFacts ==
    ASSUME TypeOK, NEW leases
    PROVE  /\ Released(leases) \in [Ids -> Row]
           /\ \A k \in Ids :
                 /\ Released(leases)[k].epoch = row[k].epoch
                 /\ Released(leases)[k].lease = row[k].lease
                 /\ Released(leases)[k].file = row[k].file
                 /\ Released(leases)[k].created = row[k].created
                 /\ Released(leases)[k].phase =
                       IF \E l \in leases : l.id = k /\ Holds(k, l)
                       THEN "reserved" ELSE row[k].phase
  <1>1. row \in [Ids -> Row]
    BY DEF TypeOK
  <1>2. \A k \in Ids : [row[k] EXCEPT !.phase = "reserved"] \in Row
    BY <1>1 DEF Row, Phase
  <1>3. \A k \in Ids : Released(leases)[k] =
           IF \E l \in leases : l.id = k /\ Holds(k, l)
           THEN [row[k] EXCEPT !.phase = "reserved"] ELSE row[k]
    BY DEF Released
  <1>4. Released(leases) \in [Ids -> Row]
    BY <1>1, <1>2 DEF Released
  <1> QED BY <1>1, <1>3, <1>4 DEF Row

\* Streams keep their leases, and none starts to write.
StreamsEase ==
    /\ stream' \in [Streams -> Upload]
    /\ \A s \in Streams :
          /\ stream'[s].id = stream[s].id
          /\ stream'[s].epoch = stream[s].epoch
          /\ stream'[s].token = stream[s].token
          /\ stream'[s].file = stream[s].file
          /\ stream'[s].state \in Writing => stream[s].state \in Writing
          /\ stream'[s].state \in Leased <=> stream[s].state \in Leased

\* Rows change their phases: none appears or disappears, none is completed
\* without its file, none is taken from the cleaner or from a writer.
PhasesChange ==
    /\ row' \in [Ids -> Row]
    /\ OnlyPhases
    /\ \A k \in Ids :
          /\ row[k].phase = "deleting" => row'[k].phase = "deleting"
          /\ row'[k].phase = "none" <=> row[k].phase = "none"
          /\ row'[k].phase \in {"ready", "pinned"} =>
                row[k].phase \in {"ready", "pinned"} \/ dir[k].file = row[k].file
          /\ row[k].phase = "receiving" =>
                \/ row'[k].phase = "receiving"
                \/ \A s \in Streams : stream'[s].state \in Writing => stream'[s].id # k

\* Such changes keep every part of the invariant that speaks of rows.
LEMMA PhasesChangeKeeps ==
    ASSUME IInv, PhasesChange, StreamsEase, UNCHANGED dir
    PROVE  /\ LeaseInv' /\ BytesInv' /\ ReadyHasFile'
           /\ \A id \in cleaner.ids : row'[id].phase = "deleting"
  <1> USE DEF PhasesChange, OnlyPhases, StreamsEase
  <1>0. TypeOK /\ StreamInv /\ LeaseInv /\ CleanInv /\ BytesInv /\ ReadyHasFile
    BY DEF IInv
  <1>1. LeaseInv'
    BY <1>0 DEF LeaseInv, Holds, StreamInv, Leased, Writing, StreamState
  <1>2. BytesInv'
    BY <1>0 DEF BytesInv
  <1>3. ReadyHasFile'
    BY <1>0 DEF ReadyHasFile
  <1>4. \A id \in cleaner.ids : row'[id].phase = "deleting"
    BY <1>0 DEF CleanInv, TypeOK
  <1> QED BY <1>1, <1>2, <1>3, <1>4

\* Streams that only ease keep what is said of tokens and leases.
LEMMA StreamsEaseKeeps ==
    ASSUME IInv, StreamsEase, UNCHANGED <<tokens, queue>>
    PROVE  StreamInv' /\ TokenInv'
  BY DEF IInv, StreamsEase, StreamInv, TokenInv

\* A stream that moves without taking a lease or a file only eases.
LEMMA EaseMove ==
    ASSUME TypeOK, NEW s \in Streams, NEW st \in StreamState, Move(s, st),
           stream[s].state \in Leased <=> st \in Leased,
           st \in Writing => stream[s].state \in Writing
    PROVE  StreamsEase
  BY MoveFacts DEF StreamsEase

\* Streams that stay do too.
LEMMA EaseStay ==
    ASSUME TypeOK, UNCHANGED stream
    PROVE  StreamsEase
  BY DEF StreamsEase, TypeOK
-----------------------------------------------------------------------------
(* The ledger's operations.                                                 *)

\* POST /v1/uploads.
LEMMA ReserveStep ==
    ASSUME IInv, NEW o \in Owners, NEW id \in Ids, NEW f \in Descriptors, Reserve(o, id, f)
    PROVE  IInv'
  <1>0. TypeOK /\ StreamInv /\ TokenInv /\ LeaseInv /\ SealInv /\ CleanInv /\ BytesInv
        /\ ReadyHasFile
    BY DEF IInv
  <1> DEFINE new == [phase |-> "reserved", owner |-> o, epoch |-> epoch, file |-> f,
                     lease |-> 0, created |-> now, request |-> NoRequest]
  <1>1. new \in Row /\ new.phase = "reserved" /\ new.file = f
    BY <1>0, UploadsAssumption DEF Row, Phase, TypeOK
  <1> HIDE DEF new
  <1>2. /\ row[id].phase = "none"
        /\ row' = [row EXCEPT ![id] = new]
        /\ UNCHANGED <<epoch, dir, stream, queue, cleaner, tokens, now, faults>>
    BY DEF Reserve, new
  <1>3. row' \in [Ids -> Row] /\ \A k \in Ids : row'[k] = IF k = id THEN new ELSE row[k]
    BY <1>0, <1>1, <1>2 DEF TypeOK
  <1>4. TypeOK'
    BY <1>0, <1>2, <1>3 DEF TypeOK
  <1>5. LeaseInv'
    BY <1>0, <1>2, <1>3 DEF LeaseInv, Holds, StreamInv, Leased, Writing, StreamState
  <1>6. CleanInv'
    BY <1>0, <1>2, <1>3 DEF CleanInv, TypeOK
  <1>7. BytesInv'
    BY <1>0, <1>1, <1>2, <1>3, UploadsAssumption DEF BytesInv, TypeOK
  <1>8. ReadyHasFile'
    BY <1>0, <1>1, <1>2, <1>3 DEF ReadyHasFile
  <1> QED BY <1>0, <1>2, <1>4, <1>5, <1>6, <1>7, <1>8
        DEF IInv, StreamInv, TokenInv, SealInv, Reaches

\* An operation that changes phases and nothing else.
LEMMA LedgerStep ==
    ASSUME IInv, PhasesChange, UNCHANGED <<epoch, dir, stream, queue, cleaner, tokens, now, faults>>
    PROVE  IInv'
  <1>0. TypeOK /\ StreamInv /\ TokenInv /\ SealInv /\ CleanInv
    BY DEF IInv
  <1>1. StreamsEase
    BY <1>0, EaseStay
  <1>2. /\ LeaseInv' /\ BytesInv' /\ ReadyHasFile'
        /\ \A k \in cleaner.ids : row'[k].phase = "deleting"
    BY <1>1, PhasesChangeKeeps
  <1>3. TypeOK'
    BY <1>0 DEF TypeOK, PhasesChange
  <1>4. CleanInv'
    BY <1>0, <1>2 DEF CleanInv
  <1> QED BY <1>0, <1>2, <1>3, <1>4 DEF IInv, StreamInv, TokenInv, SealInv, Reaches

\* DELETE of an upload.
LEMMA CancelStep ==
    ASSUME IInv, NEW o \in Owners, NEW id \in Ids, Cancel(o, id)
    PROVE  IInv'
  <1>1. TypeOK
    BY DEF IInv
  <1>2. SetPhase(id, "deleting") /\ row[id].phase \in {"reserved", "ready"}
    BY DEF Cancel, MayCancel, SetPhase
  <1>3. PhasesChange
    BY <1>1, <1>2, SetPhaseFacts DEF PhasesChange, Phase
  <1> QED BY <1>3, LedgerStep DEF Cancel

\* uploads.releasePart.
LEMMA ReleasePartStep ==
    ASSUME IInv, NEW r \in Requests, NEW id \in Ids, ReleasePart(r, id)
    PROVE  IInv'
  <1>1. TypeOK
    BY DEF IInv
  <1>2. SetPhase(id, "deleting") /\ row[id].phase = "pinned"
    BY DEF ReleasePart, SetPhase
  <1>3. PhasesChange
    BY <1>1, <1>2, SetPhaseFacts DEF PhasesChange, Phase
  <1> QED BY <1>3, LedgerStep DEF ReleasePart

\* uploads.pin.
LEMMA PinStep ==
    ASSUME IInv, NEW o \in Owners, NEW r \in Requests, NEW ids \in SUBSET Ids, Pin(o, r, ids)
    PROVE  IInv'
  <1>1. row \in [Ids -> Row]
    BY DEF IInv, TypeOK
  <1>2. \A k \in Ids : [row[k] EXCEPT !.phase = "pinned", !.request = r] \in Row
    BY <1>1 DEF Row, Phase
  <1>3. /\ \A k \in ids : row[k].phase = "ready"
        /\ row' = [k \in Ids |-> IF k \in ids
                                  THEN [row[k] EXCEPT !.phase = "pinned", !.request = r]
                                  ELSE row[k]]
    BY DEF Pin
  <1>4. row' \in [Ids -> Row]
    BY <1>1, <1>2, <1>3
  <1>5. OnlyPhases /\ \A k \in Ids : row'[k].phase = IF k \in ids THEN "pinned" ELSE row[k].phase
    BY <1>1, <1>3, <1>4 DEF OnlyPhases, Row
  <1>6. \A k \in ids : row[k].phase = "ready"
    BY <1>3
  <1>7. PhasesChange
    BY <1>4, <1>5, <1>6 DEF PhasesChange
  <1> QED BY <1>7, LedgerStep DEF Pin

\* A new epoch.
LEMMA ResetStep ==
    ASSUME IInv, Reset
    PROVE  IInv'
  <1>1. /\ epoch' \in 1..MaxEpoch
        /\ UNCHANGED <<row, dir, stream, queue, cleaner, tokens, now, faults>>
    BY UploadsAssumption DEF IInv, TypeOK, Reset
  <1> QED BY <1>1 DEF IInv, TypeOK, StreamInv, TokenInv, LeaseInv, Holds, SealInv, Reaches,
                      CleanInv, BytesInv, ReadyHasFile
-----------------------------------------------------------------------------
(* The steps of a PUT.                                                      *)

\* PUT takes the row.
LEMMA PutClaimStep ==
    ASSUME IInv, NEW s \in Streams, NEW o \in Owners, NEW id \in Ids, NEW b \in Descriptors,
           PutClaim(s, o, id, b)
    PROVE  IInv'
  <1>0. TypeOK /\ StreamInv /\ TokenInv /\ LeaseInv /\ SealInv /\ CleanInv /\ BytesInv
        /\ ReadyHasFile
    BY DEF IInv
  <1>1. /\ stream[s].state = "idle" /\ row[id].phase = "reserved" /\ row[id].epoch = epoch
        /\ tokens < MaxToken /\ tokens' = tokens + 1
        /\ UNCHANGED <<epoch, dir, queue, cleaner, now, faults>>
    BY DEF PutClaim, MayClaim, Visible
  <1>2. row[id].file \in Descriptors
    BY <1>0, <1>1 DEF BytesInv
  <1> DEFINE up == [state |-> "claimed", id |-> id, epoch |-> epoch, token |-> tokens + 1,
                    file |-> row[id].file, body |-> b]
  <1>3. stream' = [stream EXCEPT ![s] = up]
    BY DEF PutClaim
  <1>4. up \in Upload /\ tokens' \in 1..MaxToken /\ epoch \in 1..MaxEpoch
    BY <1>0, <1>1, <1>2, UploadsAssumption DEF Upload, StreamState, TypeOK
  <1>5. /\ stream' \in [Streams -> Upload]
        /\ stream'[s] = up
        /\ \A z \in Streams \ {s} : stream'[z] = stream[z]
    BY <1>0, <1>3, <1>4 DEF TypeOK
  <1>6. /\ row' \in [Ids -> Row]
        /\ row'[id].phase = "receiving" /\ row'[id].lease = tokens + 1
        /\ row'[id].epoch = epoch /\ row'[id].file = row[id].file
        /\ \A k \in Ids \ {id} : row'[k] = row[k]
    <2>1. row' = [row EXCEPT ![id].phase = "receiving", ![id].lease = tokens + 1]
      BY DEF PutClaim
    <2>2. row \in [Ids -> Row] /\ tokens + 1 \in 0..MaxToken
      BY <1>0, <1>1, UploadsAssumption DEF TypeOK
    <2> QED BY <1>1, <2>1, <2>2 DEF Row, Phase
  <1>7. TypeOK'
    BY <1>0, <1>1, <1>4, <1>5, <1>6 DEF TypeOK
  <1>8. StreamInv'
    BY <1>0, <1>1, <1>2, <1>4, <1>5 DEF StreamInv, Leased, StreamState, TypeOK
  <1>9. TokenInv'
    <2>1. \A z \in Streams : stream[z].token \in 0..tokens
      BY <1>0 DEF StreamInv, TypeOK
    <2>2. /\ tokens \in Nat /\ tokens' = tokens + 1 /\ stream'[s].token = tokens + 1
          /\ \A z \in Streams \ {s} : stream'[z].token = stream[z].token
      BY <1>0, <1>1, <1>5 DEF TypeOK
    <2>3. \A l \in queue' : l \in queue /\ l.token \in Nat
      BY <1>0, <1>1 DEF TypeOK, Release
    <2> QED BY <1>0, <2>1, <2>2, <2>3 DEF TokenInv
  <1>10. LeaseInv'
    BY <1>0, <1>1, <1>5, <1>6 DEF LeaseInv, Holds, StreamInv, Leased, Writing, StreamState
  <1>11. SealInv' /\ CleanInv'
    BY <1>0, <1>1, <1>5, <1>6 DEF SealInv, Reaches, CleanInv, TypeOK
  <1>12. BytesInv' /\ ReadyHasFile'
    BY <1>0, <1>1, <1>6 DEF BytesInv, ReadyHasFile
  <1> QED BY <1>7, <1>8, <1>9, <1>10, <1>11, <1>12 DEF IInv

\* PUT answers without taking a lease.
LEMMA PutAnswerStep ==
    ASSUME IInv, NEW s \in Streams, PutAnswer(s)
    PROVE  IInv'
  <1>0. TypeOK /\ StreamInv /\ TokenInv /\ LeaseInv /\ SealInv /\ CleanInv /\ BytesInv
        /\ ReadyHasFile
    BY DEF IInv
  <1>1. /\ Move(s, "answered") /\ stream[s].state = "idle"
        /\ UNCHANGED <<epoch, row, dir, queue, cleaner, tokens, now, faults>>
    BY DEF PutAnswer, Move
  <1>2. StreamsEase
    BY <1>0, <1>1, EaseMove DEF StreamState, Leased, Writing
  <1>3. StreamInv' /\ TokenInv'
    BY <1>1, <1>2, StreamsEaseKeeps
  <1>4. TypeOK' /\ LeaseInv' /\ SealInv'
    BY <1>0, <1>1, MoveFacts DEF TypeOK, LeaseInv, Holds, SealInv, Reaches, Writing, StreamState
  <1> QED BY <1>0, <1>1, <1>3, <1>4 DEF IInv, CleanInv, BytesInv, ReadyHasFile

\* A writer is the only writing stream of its upload.
LEMMA SoleWriter ==
    ASSUME IInv, NEW s \in Streams, NEW z \in Streams,
           stream[s].state \in Writing, stream[z].state \in Writing,
           stream[s].id = stream[z].id
    PROVE  s = z
  BY DEF IInv, LeaseInv, Holds, TokenInv, StreamInv, Leased, Writing, StreamState

\* The directory of a writer's upload changes, and its stream may be sealed,
\* with the file in place.
LEMMA DirectoryStep ==
    ASSUME IInv, NEW s \in Streams, stream[s].state \in Writing,
           StreamsEase,
           \A z \in Streams \ {s} : stream'[z] = stream[z],
           dir' \in [Ids -> Directory],
           \A k \in Ids : k # stream[s].id => dir'[k] = dir[k],
           dir'[stream[s].id].bytes <= SizeOf[stream[s].file],
           stream'[s].state = "sealed" =>
               /\ dir'[stream[s].id].by = stream[s].token
               /\ dir'[stream[s].id].file = stream[s].file,
           faults' \in 0..MaxFaults,
           UNCHANGED <<epoch, row, queue, cleaner, tokens, now>>
    PROVE  IInv'
  <1>0. TypeOK /\ StreamInv /\ TokenInv /\ LeaseInv /\ SealInv /\ CleanInv /\ BytesInv
        /\ ReadyHasFile
    BY DEF IInv
  <1>1. stream[s].id \in Ids /\ row[stream[s].id].phase = "receiving"
        /\ row[stream[s].id].file = stream[s].file
    BY <1>0 DEF StreamInv, LeaseInv, Holds, Leased, Writing, StreamState
  <1>2. StreamInv' /\ TokenInv'
    BY StreamsEaseKeeps
  <1>3. TypeOK'
    BY <1>0 DEF TypeOK, StreamsEase
  <1>4. LeaseInv'
    BY <1>0 DEF LeaseInv, Holds, StreamsEase
  <1>5. SealInv'
    <2>1. \A z \in Streams \ {s} : stream[z].state = "sealed" => stream[z].id # stream[s].id
      BY SoleWriter DEF Writing
    <2> QED BY <1>0, <1>1, <2>1 DEF SealInv, Reaches, StreamsEase, StreamInv, Leased, StreamState
  <1>6. CleanInv'
    <2>1. \A k \in cleaner.ids : k # stream[s].id /\ k \in Ids
      BY <1>0, <1>1 DEF CleanInv, TypeOK
    <2> QED BY <1>0, <2>1 DEF CleanInv
  <1>7. BytesInv'
    BY <1>0, <1>1 DEF BytesInv
  <1>8. ReadyHasFile'
    BY <1>0, <1>1 DEF ReadyHasFile
  <1> QED BY <1>2, <1>3, <1>4, <1>5, <1>6, <1>7, <1>8 DEF IInv

\* A stream changes its state, and neither becomes sealed nor touches a file.
LEMMA MoveStep ==
    ASSUME IInv, NEW s \in Streams, NEW st \in Leased \ {"claimed", "sealed"}, Move(s, st),
           stream[s].state \in Leased,
           st \in Writing => stream[s].state \in Writing,
           faults' \in 0..MaxFaults,
           UNCHANGED <<epoch, row, dir, queue, cleaner, tokens, now>>
    PROVE  IInv'
  <1>0. TypeOK /\ StreamInv /\ TokenInv /\ LeaseInv /\ SealInv /\ CleanInv /\ BytesInv
        /\ ReadyHasFile
    BY DEF IInv
  <1>1. StreamsEase /\ st \in StreamState
    BY <1>0, EaseMove DEF Leased
  <1>2. StreamInv' /\ TokenInv'
    BY <1>1, StreamsEaseKeeps
  <1>3. TypeOK' /\ LeaseInv'
    BY <1>0, <1>1 DEF TypeOK, StreamsEase, LeaseInv, Holds
  <1>4. SealInv'
    BY <1>0, <1>1, MoveFacts DEF SealInv, Reaches
  <1> QED BY <1>0, <1>2, <1>3, <1>4 DEF IInv, CleanInv, BytesInv, ReadyHasFile

\* A fault is counted, or there was none.
LEMMA FaultFacts ==
    ASSUME TypeOK
    PROVE  /\ NoFault => faults' \in 0..MaxFaults
           /\ \A kind : Fault(kind) => faults' \in 0..MaxFaults
  BY UploadsAssumption DEF TypeOK, NoFault, Fault

\* PUT opens the temporary file.
LEMMA PutOpenStep ==
    ASSUME IInv, NEW s \in Streams, PutOpen(s)
    PROVE  IInv'
  <1>0. TypeOK /\ StreamInv
    BY DEF IInv
  <1> DEFINE up == stream[s]
             opened == [by |-> up.token, temporary |-> TRUE,
                        file |-> NoDescriptor, bytes |-> SizeOf[up.file]]
             half == [by |-> up.token, temporary |-> FALSE,
                      file |-> NoDescriptor, bytes |-> SizeOf[up.file]]
  <1>1. /\ up.state = "claimed"
        /\ \/ /\ dir' = [dir EXCEPT ![up.id] = opened]
              /\ Move(s, "receiving")
              /\ NoFault
           \/ /\ Fault("io")
              /\ \E left \in {dir[up.id], NoDirectory, half} : dir' = [dir EXCEPT ![up.id] = left]
              /\ Move(s, "closing")
        /\ UNCHANGED <<epoch, row, queue, cleaner, tokens, now>>
    BY DEF PutOpen, Move
  <1>2. up.id \in Ids /\ up.file \in Descriptors /\ up.token \in 0..MaxToken
    BY <1>0, <1>1 DEF StreamInv, TypeOK, Upload, Leased, StreamState
  <1>3. /\ opened \in Directory /\ half \in Directory /\ NoDirectory \in Directory
        /\ SizeOf[up.file] \in Nat
    BY <1>2, UploadsAssumption DEF Directory, NoDirectory
  <1>4. dir[up.id] \in Directory /\ dir[up.id].bytes <= SizeOf[up.file]
    BY <1>0, <1>1, <1>2 DEF IInv, TypeOK, BytesInv, LeaseInv, Holds, Writing
  <1>5. PICK d \in Directory : dir' = [dir EXCEPT ![up.id] = d] /\ d.bytes <= SizeOf[up.file]
    BY <1>1, <1>3, <1>4 DEF NoDirectory
  <1>6. PICK st \in {"receiving", "closing"} : Move(s, st)
    BY <1>1
  <1>7. faults' \in 0..MaxFaults
    BY <1>0, <1>1, FaultFacts
  <1>8. StreamsEase /\ stream'[s].state # "sealed"
        /\ \A z \in Streams \ {s} : stream'[z] = stream[z]
    BY <1>0, <1>1, <1>6, EaseMove, MoveFacts DEF Leased, Writing, StreamState
  <1>9. /\ dir' \in [Ids -> Directory]
        /\ \A k \in Ids : k # up.id => dir'[k] = dir[k]
        /\ dir'[up.id].bytes <= SizeOf[up.file]
    BY <1>0, <1>2, <1>5 DEF TypeOK
  <1> QED BY <1>1, <1>7, <1>8, <1>9, DirectoryStep DEF Writing

\* PUT renames what it received, or fails to.
LEMMA PutSealStep ==
    ASSUME IInv, NEW s \in Streams, PutSeal(s)
    PROVE  IInv'
  <1>0. TypeOK /\ StreamInv
    BY DEF IInv
  <1> DEFINE up == stream[s]
             file == [dir[up.id] EXCEPT !.temporary = FALSE, !.file = up.body]
             installed == IF Reaches(up)
                          THEN [dir EXCEPT ![up.id].temporary = FALSE, ![up.id].file = up.body]
                          ELSE dir
  <1>1. /\ up.state = "receiving"
        /\ \/ up.body = up.file /\ Reaches(up) /\ dir' = installed /\ Move(s, "sealed") /\ NoFault
           \/ UNCHANGED dir /\ Move(s, "failed") /\ NoFault
           \/ Fault("io") /\ dir' \in {dir, installed} /\ Move(s, "failed")
        /\ UNCHANGED <<epoch, row, queue, cleaner, tokens, now>>
    BY DEF PutSeal, Verified, Move
  <1>2. up.id \in Ids /\ up.file \in Descriptors /\ up.body \in Descriptors \cup {NoDescriptor}
    BY <1>0, <1>1 DEF StreamInv, TypeOK, Upload, Leased, StreamState
  <1>3. dir[up.id] \in Directory /\ dir[up.id].bytes <= SizeOf[up.file]
    BY <1>0, <1>1, <1>2 DEF IInv, TypeOK, BytesInv, LeaseInv, Holds, Writing
  <1>4. /\ installed \in [Ids -> Directory]
        /\ \A k \in Ids : k # up.id => installed[k] = dir[k]
        /\ installed[up.id].bytes = dir[up.id].bytes
        /\ Reaches(up) => installed[up.id].by = up.token /\ installed[up.id].file = up.body
    <2>1. dir \in [Ids -> Directory]
      BY <1>0 DEF TypeOK
    <2> QED BY <1>2, <2>1 DEF Directory, Reaches
  <1> HIDE DEF installed
  <1>5. /\ dir' \in [Ids -> Directory]
        /\ \A k \in Ids : k # up.id => dir'[k] = dir[k]
        /\ dir'[up.id].bytes <= SizeOf[up.file]
    BY <1>0, <1>1, <1>3, <1>4 DEF TypeOK
  <1>6. PICK st \in {"sealed", "failed"} :
           /\ Move(s, st)
           /\ st = "sealed" => up.body = up.file /\ Reaches(up) /\ dir' = installed
    BY <1>1
  <1>7. faults' \in 0..MaxFaults
    BY <1>0, <1>1, FaultFacts
  <1>8. /\ StreamsEase /\ stream'[s].state = st
        /\ \A z \in Streams \ {s} : stream'[z] = stream[z]
    BY <1>0, <1>1, <1>6, EaseMove, MoveFacts DEF Leased, Writing, StreamState
  <1>9. stream'[s].state = "sealed" => dir'[up.id].by = up.token /\ dir'[up.id].file = up.file
    BY <1>4, <1>6, <1>8
  <1> QED BY <1>1, <1>5, <1>7, <1>8, <1>9, DirectoryStep DEF Writing

\* PUT gives up on what it received.
LEMMA PutRejectStep ==
    ASSUME IInv, NEW s \in Streams, PutReject(s)
    PROVE  IInv'
  <1>1. faults' \in 0..MaxFaults
    BY DEF IInv, TypeOK, PutReject
  <1> QED BY <1>1, MoveStep DEF PutReject, Move, Leased, Writing, StreamState

\* PUT marks the row ready.
LEMMA PutCompleteStep ==
    ASSUME IInv, NEW s \in Streams, PutComplete(s)
    PROVE  IInv'
  <1>0. TypeOK /\ StreamInv /\ LeaseInv /\ SealInv /\ CleanInv
    BY DEF IInv
  <1> DEFINE up == stream[s]
  <1>1. /\ up.state = "sealed" /\ faults' \in 0..MaxFaults
        /\ \/ SetPhase(up.id, "ready") /\ Move(s, "published")
           \/ Move(s, "failed") /\ UNCHANGED row
        /\ UNCHANGED <<epoch, dir, queue, cleaner, tokens, now>>
    BY <1>0, FaultFacts DEF PutComplete, SetPhase, Move
  <1>2. CASE Move(s, "failed") /\ UNCHANGED row
    BY <1>1, <1>2, MoveStep DEF Leased, Writing, StreamState
  <1>3. CASE SetPhase(up.id, "ready") /\ Move(s, "published")
    <2>1. up.id \in Ids /\ row[up.id].phase = "receiving" /\ dir[up.id].file = row[up.id].file
      BY <1>0, <1>1 DEF StreamInv, LeaseInv, Holds, SealInv, Leased, Writing, StreamState
    <2>2. StreamsEase /\ stream'[s].state = "published"
      BY <1>0, <1>1, <1>3, EaseMove, MoveFacts DEF Leased, Writing, StreamState
    <2>3. \A z \in Streams : stream'[z].state \in Writing => stream'[z].id # up.id
      <3>1. SUFFICES ASSUME NEW z \in Streams, stream'[z].state \in Writing,
                            stream'[z].id = up.id
                     PROVE  FALSE
        OBVIOUS
      <3>2. stream[z].state \in Writing /\ stream[z].id = up.id
        BY <2>2, <3>1 DEF StreamsEase
      <3>3. z = s
        BY <1>1, <3>2, SoleWriter DEF Writing
      <3> QED BY <2>2, <3>1, <3>3 DEF Writing
    <2>4. PhasesChange
      BY <1>0, <1>3, <2>1, <2>3, SetPhaseFacts DEF PhasesChange, Phase
    <2>5. /\ LeaseInv' /\ BytesInv' /\ ReadyHasFile'
          /\ \A k \in cleaner.ids : row'[k].phase = "deleting"
      BY <1>1, <2>2, <2>4, PhasesChangeKeeps
    <2>6. StreamInv' /\ TokenInv'
      BY <1>1, <2>2, StreamsEaseKeeps
    <2>7. TypeOK'
      BY <1>0, <1>1, <2>2, <2>4 DEF TypeOK, StreamsEase, PhasesChange
    <2>8. SealInv'
      BY <1>0, <1>1, <1>3, MoveFacts DEF SealInv, Reaches, StreamState
    <2>9. CleanInv'
      BY <1>0, <1>1, <2>5 DEF CleanInv
    <2> QED BY <2>5, <2>6, <2>7, <2>8, <2>9 DEF IInv
  <1> QED BY <1>1, <1>2, <1>3

\* PUT closes, and removes what is left of its temporary file.
LEMMA PutCloseStep ==
    ASSUME IInv, NEW s \in Streams, PutClose(s)
    PROVE  IInv'
  <1>0. TypeOK /\ StreamInv
    BY DEF IInv
  <1> DEFINE up == stream[s]
             cleared == [dir EXCEPT ![up.id].temporary = FALSE, ![up.id].file = NoDescriptor]
  <1>1. /\ up.state \in {"receiving", "sealed", "failed", "published"}
        /\ Move(s, "closing") /\ faults' \in 0..MaxFaults
        /\ UNCHANGED dir \/ (up.state # "published" /\ dir' = cleared)
        /\ UNCHANGED <<epoch, row, queue, cleaner, tokens, now>>
    BY <1>0, FaultFacts DEF PutClose, LeavesFiles, Move
  <1>2. CASE UNCHANGED dir
    BY <1>1, <1>2, MoveStep DEF Leased, Writing, StreamState
  <1>3. CASE up.state # "published" /\ dir' = cleared
    <2>1. up.id \in Ids /\ up.state \in Writing
      BY <1>0, <1>1, <1>3 DEF StreamInv, Leased, StreamState, Writing
    <2>2. dir[up.id].bytes <= SizeOf[up.file]
      BY <2>1 DEF IInv, BytesInv, LeaseInv, Holds
    <2>3. /\ cleared \in [Ids -> Directory]
          /\ \A k \in Ids : k # up.id => cleared[k] = dir[k]
          /\ cleared[up.id].bytes = dir[up.id].bytes
      <3>1. dir \in [Ids -> Directory]
        BY <1>0 DEF TypeOK
      <3> QED BY <2>1, <3>1 DEF Directory
    <2> HIDE DEF cleared
    <2>4. StreamsEase /\ stream'[s].state # "sealed"
          /\ \A z \in Streams \ {s} : stream'[z] = stream[z]
      BY <1>0, <1>1, EaseMove, MoveFacts DEF Leased, Writing, StreamState
    <2> QED BY <1>1, <1>3, <2>1, <2>2, <2>3, <2>4, DirectoryStep
  <1> QED BY <1>1, <1>2, <1>3

\* A stream becomes idle: its token is gone.
LEMMA IdleFacts ==
    ASSUME TypeOK, NEW s \in Streams, stream' = [stream EXCEPT ![s] = Idle]
    PROVE  /\ stream' \in [Streams -> Upload]
           /\ stream'[s].state = "idle" /\ stream'[s].token = 0
           /\ \A z \in Streams \ {s} : stream'[z] = stream[z]
  <1>1. Idle \in Upload
    BY UploadsAssumption DEF Idle, Upload, StreamState
  <1> QED BY <1>1 DEF TypeOK, Idle

\* PUT has answered.
LEMMA PutAnsweredStep ==
    ASSUME IInv, NEW s \in Streams, PutAnswered(s)
    PROVE  IInv'
  <1>0. TypeOK /\ StreamInv /\ TokenInv /\ LeaseInv /\ SealInv /\ CleanInv /\ BytesInv
        /\ ReadyHasFile
    BY DEF IInv
  <1>1. /\ stream' = [stream EXCEPT ![s] = Idle]
        /\ UNCHANGED <<epoch, row, dir, queue, cleaner, tokens, now, faults>>
    BY DEF PutAnswered
  <1>2. /\ stream' \in [Streams -> Upload]
        /\ stream'[s].state = "idle" /\ stream'[s].token = 0
        /\ \A z \in Streams \ {s} : stream'[z] = stream[z]
    BY <1>0, <1>1, IdleFacts
  <1>3. TypeOK' /\ StreamInv' /\ LeaseInv' /\ SealInv'
    BY <1>0, <1>1, <1>2
       DEF TypeOK, StreamInv, LeaseInv, Holds, SealInv, Reaches, Leased, Writing, StreamState
  <1>4. TokenInv'
    BY <1>0, <1>1, <1>2 DEF TokenInv, TypeOK, Release
  <1> QED BY <1>0, <1>1, <1>3, <1>4 DEF IInv, CleanInv, BytesInv, ReadyHasFile

\* PUT gives the row back.
LEMMA PutReleaseStep ==
    ASSUME IInv, NEW s \in Streams, PutRelease(s)
    PROVE  IInv'
  <1>0. TypeOK /\ StreamInv /\ TokenInv /\ LeaseInv /\ SealInv /\ CleanInv /\ BytesInv
        /\ ReadyHasFile
    BY DEF IInv
  <1> DEFINE up == stream[s]
             lease == [id |-> up.id, epoch |-> up.epoch, token |-> up.token]
  <1>1. /\ up.state = "closing" /\ stream' = [stream EXCEPT ![s] = Idle]
        /\ faults' \in 0..MaxFaults
        /\ \/ row' = Released({lease}) /\ UNCHANGED queue
           \/ queue' = queue \cup {lease} /\ UNCHANGED row
        /\ UNCHANGED <<epoch, dir, cleaner, tokens, now>>
    BY <1>0, FaultFacts DEF PutRelease
  <1>2. /\ stream' \in [Streams -> Upload]
        /\ stream'[s].state = "idle" /\ stream'[s].token = 0
        /\ \A z \in Streams \ {s} : stream'[z] = stream[z]
    BY <1>0, <1>1, IdleFacts
  <1>3. lease \in Release /\ lease.token = up.token /\ up.token \in 1..tokens /\ up.id \in Ids
    <2>1. up.id \in Ids /\ up.epoch \in 1..MaxEpoch /\ up.token \in 1..tokens
      BY <1>0, <1>1 DEF StreamInv, Leased, StreamState
    <2>2. tokens \in 0..MaxToken
      BY <1>0 DEF TypeOK
    <2>3. up.token \in 1..MaxToken
      BY <2>1, <2>2, UploadsAssumption
    <2> QED BY <2>1, <2>3 DEF Release
  <1>4. StreamInv' /\ SealInv'
    BY <1>0, <1>1, <1>2 DEF StreamInv, SealInv, Reaches, Leased, StreamState
  <1>5. CASE queue' = queue \cup {lease} /\ UNCHANGED row
    <2>1. TypeOK'
      BY <1>0, <1>1, <1>2, <1>3, <1>5 DEF TypeOK
    <2>2. TokenInv'
      <3>1. \A z \in Streams \ {s} : stream'[z].token = stream[z].token /\ stream[z].token # up.token
        BY <1>0, <1>2, <1>3 DEF TokenInv
      <3>2. \A l \in queue' : l.token # 0 /\ (l \in queue \/ l.token = up.token)
        BY <1>0, <1>3, <1>5 DEF TypeOK, Release
      <3> QED BY <1>0, <1>1, <1>2, <1>3, <3>1, <3>2 DEF TokenInv, TypeOK
    <2>3. LeaseInv'
      BY <1>0, <1>2, <1>5 DEF LeaseInv, Holds, Writing
    <2> QED BY <1>0, <1>1, <1>4, <1>5, <2>1, <2>2, <2>3 DEF IInv, CleanInv, BytesInv, ReadyHasFile
  <1>6. CASE row' = Released({lease}) /\ UNCHANGED queue
    <2>1. /\ row' \in [Ids -> Row]
          /\ OnlyPhases
          /\ \A k \in Ids : \/ row'[k].phase = row[k].phase
                             \/ /\ row[k].phase = "receiving" /\ row[k].lease = up.token
                                /\ row'[k].phase = "reserved"
      BY <1>0, <1>6, ReleasedFacts DEF OnlyPhases, Holds
    <2>2. TypeOK'
      BY <1>0, <1>1, <1>2, <1>6, <2>1 DEF TypeOK
    <2>3. TokenInv'
      BY <1>0, <1>1, <1>2, <1>6 DEF TokenInv, TypeOK, Release
    <2>4. LeaseInv'
      <3>1. \A z \in Streams : stream'[z].state \in Writing =>
               z # s /\ stream[z].state \in Writing /\ stream[z].token # up.token
                     /\ stream[z].id \in Ids /\ stream'[z] = stream[z]
        BY <1>0, <1>2, <1>3 DEF TokenInv, StreamInv, Leased, Writing, StreamState
      <3> QED BY <1>0, <2>1, <3>1 DEF LeaseInv, Holds, OnlyPhases
    <2>5. CleanInv' /\ BytesInv' /\ ReadyHasFile'
      BY <1>0, <1>1, <2>1 DEF CleanInv, BytesInv, ReadyHasFile, OnlyPhases, TypeOK
    <2> QED BY <1>4, <2>2, <2>3, <2>4, <2>5 DEF IInv
  <1> QED BY <1>1, <1>5, <1>6
-----------------------------------------------------------------------------
(* The cleanup pass, restarts and time.                                     *)

\* Expiry only retires what is reserved or ready.
LEMMA RetiredFacts ==
    ASSUME NEW table \in [Ids -> Row]
    PROVE  /\ Retired(table) \in [Ids -> Row]
           /\ \A k \in Ids :
                 /\ Retired(table)[k].epoch = table[k].epoch
                 /\ Retired(table)[k].lease = table[k].lease
                 /\ Retired(table)[k].file = table[k].file
                 /\ \/ Retired(table)[k].phase = table[k].phase
                    \/ /\ table[k].phase \in {"reserved", "ready"}
                       /\ Retired(table)[k].phase = "deleting"
  <1>1. \A k \in Ids : [table[k] EXCEPT !.phase = "deleting"] \in Row
    BY DEF Row, Phase
  <1>2. \A k \in Ids : \/ Retired(table)[k] = table[k]
                       \/ /\ table[k].phase \in {"reserved", "ready"}
                          /\ Retired(table)[k] = [table[k] EXCEPT !.phase = "deleting"]
    BY DEF Retired, Expired
  <1>3. Retired(table) \in [Ids -> Row]
    BY <1>1 DEF Retired
  <1> QED BY <1>2, <1>3 DEF Row

\* The cleanup worker picks a row.
LEMMA CleanBeginStep ==
    ASSUME IInv, CleanBegin
    PROVE  IInv'
  <1>0. TypeOK /\ StreamInv /\ TokenInv /\ LeaseInv /\ SealInv /\ CleanInv
    BY DEF IInv
  <1>1. PICK failed \in SUBSET queue :
           LET freed == Released(Retried(failed))
               table == Retired(freed)
           IN  \/ /\ faults' \in 0..MaxFaults
                  /\ queue' = failed
                  /\ row' = table
                  /\ \E ids \in Snapshots(table) : cleaner' = [ids |-> ids, purging |-> NoId]
               \/ /\ faults' \in 0..MaxFaults
                  /\ queue' = failed
                  /\ row' \in {freed, table}
                  /\ UNCHANGED cleaner
    BY <1>0, FaultFacts DEF CleanBegin
  <1>2. UNCHANGED <<epoch, dir, stream, tokens, now>> /\ cleaner.ids = {}
    BY DEF CleanBegin
  <1> DEFINE freed == Released(Retried(failed))
             table == Retired(freed)
  <1>3. /\ freed \in [Ids -> Row]
        /\ \A k \in Ids :
              /\ freed[k].epoch = row[k].epoch /\ freed[k].lease = row[k].lease
              /\ freed[k].file = row[k].file
              /\ \/ freed[k].phase = row[k].phase
                 \/ /\ row[k].phase = "receiving" /\ freed[k].phase = "reserved"
                    /\ \E l \in queue : row[k].lease = l.token
    BY <1>0, ReleasedFacts DEF Retried, Holds
  <1> HIDE DEF freed
  <1>4. /\ table \in [Ids -> Row]
        /\ \A k \in Ids :
              /\ table[k].epoch = freed[k].epoch /\ table[k].lease = freed[k].lease
              /\ table[k].file = freed[k].file
              /\ \/ table[k].phase = freed[k].phase
                 \/ /\ freed[k].phase \in {"reserved", "ready"}
                    /\ table[k].phase = "deleting"
    BY <1>3, RetiredFacts
  <1>5. row' \in {freed, table} /\ queue' = failed /\ faults' \in 0..MaxFaults
    BY <1>1 DEF freed
  <1>6. \/ UNCHANGED cleaner
        \/ \E ids \in Snapshots(table) : row' = table /\ cleaner' = [ids |-> ids, purging |-> NoId]
    BY <1>1 DEF freed
  <1> HIDE DEF table
  <1>7. ASSUME NEW z \in Streams, stream[z].state \in Writing
        PROVE  \A l \in queue : row[stream[z].id].lease # l.token
    BY <1>0, <1>7 DEF TokenInv, LeaseInv, Holds
  <1>8. PhasesChange
    <2>1. row' \in [Ids -> Row] /\ OnlyPhases
      BY <1>3, <1>4, <1>5 DEF OnlyPhases
    <2>2. ASSUME NEW k \in Ids
          PROVE  \/ row'[k].phase = row[k].phase
                 \/ /\ row[k].phase \in {"reserved", "ready"} /\ row'[k].phase = "deleting"
                 \/ /\ row[k].phase = "receiving" /\ row'[k].phase \in {"reserved", "deleting"}
                    /\ \A z \in Streams : stream[z].state \in Writing => stream[z].id # k
      BY <1>3, <1>4, <1>5, <1>7
    <2> QED BY <1>2, <2>1, <2>2 DEF PhasesChange
  <1>9. StreamsEase
    BY <1>0, <1>2, EaseStay
  <1>10. LeaseInv' /\ BytesInv' /\ ReadyHasFile'
    BY <1>2, <1>8, <1>9, PhasesChangeKeeps
  <1>11. /\ cleaner' \in [ids: SUBSET Ids, purging: Ids \cup {NoId}]
         /\ CleanInv'
    <2>1. CASE UNCHANGED cleaner
      BY <1>0, <1>2, <2>1 DEF TypeOK, CleanInv
    <2>2. ASSUME NEW ids \in Snapshots(table), row' = table, cleaner' = [ids |-> ids, purging |-> NoId]
          PROVE  /\ cleaner' \in [ids: SUBSET Ids, purging: Ids \cup {NoId}]
                 /\ CleanInv'
      <3>1. ids \subseteq {k \in Ids : table[k].phase = "deleting"}
        BY DEF Snapshots, kSubset
      <3> QED BY <2>2, <3>1 DEF CleanInv
    <2> QED BY <1>6, <2>1, <2>2
  <1>12. TypeOK'
    BY <1>0, <1>2, <1>5, <1>8, <1>11 DEF TypeOK, PhasesChange
  <1>13. StreamInv' /\ TokenInv' /\ SealInv'
    BY <1>0, <1>2, <1>5 DEF StreamInv, TokenInv, SealInv, Reaches
  <1> QED BY <1>10, <1>11, <1>12, <1>13 DEF IInv

\* ... removes its file
LEMMA CleanRemoveStep ==
    ASSUME IInv, NEW id \in Ids, CleanRemove(id)
    PROVE  IInv'
  <1>0. TypeOK /\ StreamInv /\ TokenInv /\ LeaseInv /\ SealInv /\ CleanInv /\ BytesInv
        /\ ReadyHasFile
    BY DEF IInv
  <1> DEFINE cleared == [dir EXCEPT ![id].temporary = FALSE, ![id].file = NoDescriptor]
  <1>1. /\ cleaner.purging = NoId /\ id \in cleaner.ids
        /\ faults' \in 0..MaxFaults
        /\ \/ /\ dir' = [dir EXCEPT ![id] = NoDirectory]
              /\ cleaner' = [cleaner EXCEPT !.purging = id]
           \/ /\ dir' \in {dir, cleared}
              /\ cleaner' = [cleaner EXCEPT !.ids = @ \ {id}]
        /\ UNCHANGED <<epoch, row, stream, queue, tokens, now>>
    BY <1>0, FaultFacts DEF CleanRemove, Purges
  <1>2. row[id].phase = "deleting"
    BY <1>0, <1>1 DEF CleanInv
  <1>3. /\ cleared \in [Ids -> Directory]
        /\ \A k \in Ids : k # id => cleared[k] = dir[k]
        /\ cleared[id].bytes = dir[id].bytes
    <2>1. dir \in [Ids -> Directory]
      BY <1>0 DEF TypeOK
    <2> QED BY <2>1 DEF Directory
  <1> HIDE DEF cleared
  <1>4. NoDirectory \in Directory /\ NoDirectory.bytes = 0
    BY UploadsAssumption DEF NoDirectory, Directory
  <1>5. /\ dir' \in [Ids -> Directory]
        /\ \A k \in Ids : k # id => dir'[k] = dir[k]
        /\ dir'[id].bytes = 0 \/ dir'[id].bytes = dir[id].bytes
        /\ dir' = [dir EXCEPT ![id] = NoDirectory] => dir'[id].bytes = 0
    BY <1>0, <1>1, <1>3, <1>4 DEF TypeOK
  <1>6. /\ cleaner' \in [ids: SUBSET Ids, purging: Ids \cup {NoId}]
        /\ cleaner'.ids \subseteq cleaner.ids
        /\ cleaner'.purging # NoId =>
              cleaner'.purging = id /\ id \in cleaner'.ids /\ dir'[id].bytes = 0
    BY <1>0, <1>1, <1>5 DEF TypeOK
  <1>7. TypeOK'
    BY <1>0, <1>1, <1>5, <1>6 DEF TypeOK
  <1>8. SealInv'
    BY <1>0, <1>1, <1>2, <1>5
       DEF SealInv, Reaches, StreamInv, LeaseInv, Holds, Leased, Writing, StreamState
  <1>9. CleanInv'
    BY <1>0, <1>1, <1>6 DEF CleanInv
  <1>10. BytesInv'
    <2>1. \A k \in Ids : dir[k].bytes \in Nat
      BY <1>0 DEF TypeOK, Directory
    <2>2. \A d \in Descriptors : SizeOf[d] \in Nat
      BY UploadsAssumption
    <2> QED BY <1>0, <1>1, <1>2, <1>5, <2>1, <2>2 DEF BytesInv
  <1>11. ReadyHasFile'
    BY <1>0, <1>1, <1>2, <1>5 DEF ReadyHasFile
  <1> QED BY <1>0, <1>1, <1>7, <1>8, <1>9, <1>10, <1>11
        DEF IInv, StreamInv, TokenInv, LeaseInv, Holds

\* ... and then the row.
LEMMA CleanPurgeStep ==
    ASSUME IInv, CleanPurge
    PROVE  IInv'
  <1>0. TypeOK /\ StreamInv /\ TokenInv /\ LeaseInv /\ SealInv /\ CleanInv /\ BytesInv
        /\ ReadyHasFile
    BY DEF IInv
  <1> DEFINE id == cleaner.purging
  <1>1. /\ id # NoId /\ faults' \in 0..MaxFaults
        /\ \/ /\ row' = IF row[id].phase = "deleting" THEN [row EXCEPT ![id] = NoRow] ELSE row
              /\ cleaner' = [ids |-> cleaner.ids \ {id}, purging |-> NoId]
           \/ /\ cleaner' = [ids |-> {}, purging |-> NoId]
              /\ UNCHANGED row
        /\ UNCHANGED <<epoch, dir, stream, queue, tokens, now>>
    BY <1>0, FaultFacts DEF CleanPurge
  <1>2. id \in Ids /\ id \in cleaner.ids /\ row[id].phase = "deleting" /\ dir[id].bytes = 0
    BY <1>0, <1>1 DEF CleanInv, TypeOK
  <1>3. NoRow \in Row /\ NoRow.phase = "none"
    BY UploadsAssumption DEF NoRow, Row, Phase
  <1>4. /\ row' \in [Ids -> Row]
        /\ \A k \in Ids \ {id} : row'[k] = row[k]
        /\ row'[id] \in {row[id], NoRow}
    BY <1>0, <1>1, <1>2, <1>3 DEF TypeOK
  <1>5. /\ cleaner' \in [ids: SUBSET Ids, purging: Ids \cup {NoId}]
        /\ cleaner'.ids \subseteq cleaner.ids \ {id}
        /\ cleaner'.purging = NoId
    BY <1>0, <1>1 DEF TypeOK
  <1>6. TypeOK'
    BY <1>0, <1>1, <1>4, <1>5 DEF TypeOK
  <1>7. LeaseInv'
    BY <1>0, <1>1, <1>2, <1>4 DEF LeaseInv, Holds, StreamInv, Leased, Writing, StreamState
  <1>8. CleanInv'
    BY <1>0, <1>4, <1>5 DEF CleanInv, TypeOK
  <1>9. BytesInv' /\ ReadyHasFile'
    BY <1>0, <1>1, <1>2, <1>3, <1>4 DEF BytesInv, ReadyHasFile
  <1> QED BY <1>0, <1>1, <1>6, <1>7, <1>8, <1>9
        DEF IInv, StreamInv, TokenInv, SealInv, Reaches

\* The relay dies and starts again.
LEMMA CrashStep ==
    ASSUME IInv, Crash
    PROVE  IInv'
  <1>0. TypeOK /\ StreamInv /\ BytesInv /\ ReadyHasFile
    BY DEF IInv
  <1>1. /\ stream' = [s \in Streams |-> Idle] /\ queue' = {}
        /\ cleaner' = [ids |-> {}, purging |-> NoId]
        /\ dir' = [id \in Ids |-> IF Survives(id) THEN dir[id] ELSE NoDirectory]
        /\ row' = [id \in Ids |-> IF row[id].phase = "receiving"
                                   THEN [row[id] EXCEPT !.phase = "reserved"] ELSE row[id]]
        /\ faults' \in 0..MaxFaults
        /\ UNCHANGED <<epoch, tokens, now>>
    BY <1>0, FaultFacts DEF Crash
  <1>2. Idle \in Upload /\ Idle.state = "idle" /\ Idle.token = 0
    BY UploadsAssumption DEF Idle, Upload, StreamState
  <1>3. /\ stream' \in [Streams -> Upload]
        /\ \A s \in Streams : stream'[s].state = "idle" /\ stream'[s].token = 0
    BY <1>1, <1>2
  <1>4. NoDirectory \in Directory /\ NoDirectory.bytes = 0
    BY UploadsAssumption DEF NoDirectory, Directory
  <1>5. /\ dir' \in [Ids -> Directory]
        /\ \A k \in Ids : IF Survives(k) THEN dir'[k] = dir[k] ELSE dir'[k].bytes = 0
    BY <1>0, <1>1, <1>4 DEF TypeOK
  <1>6. /\ row' \in [Ids -> Row]
        /\ \A k \in Ids : /\ row'[k].file = row[k].file
                           /\ row'[k].phase = IF row[k].phase = "receiving" THEN "reserved"
                                              ELSE row[k].phase
    <2>1. row \in [Ids -> Row]
      BY <1>0 DEF TypeOK
    <2>2. \A k \in Ids : [row[k] EXCEPT !.phase = "reserved"] \in Row
      BY <2>1 DEF Row, Phase
    <2>3. row' \in [Ids -> Row]
      BY <1>1, <2>1, <2>2
    <2> QED BY <1>1, <2>1, <2>3 DEF Row
  <1>7. TypeOK'
    BY <1>0, <1>1, <1>3, <1>5, <1>6 DEF TypeOK
  <1>8. StreamInv' /\ TokenInv' /\ LeaseInv' /\ SealInv' /\ CleanInv'
    BY <1>1, <1>3 DEF StreamInv, TokenInv, LeaseInv, SealInv, CleanInv, Leased, Writing
  <1>9. BytesInv'
    <2>1. \A d \in Descriptors : SizeOf[d] \in Nat
      BY UploadsAssumption
    <2> QED BY <1>0, <1>5, <1>6, <2>1 DEF BytesInv
  <1>10. ReadyHasFile'
    BY <1>0, <1>5, <1>6 DEF ReadyHasFile, Survives
  <1> QED BY <1>7, <1>8, <1>9, <1>10 DEF IInv

\* A step that changes nothing.
LEMMA QuietStep ==
    ASSUME IInv, now' \in 0..MaxNow,
           UNCHANGED <<epoch, row, dir, stream, queue, cleaner, tokens, faults>>
    PROVE  IInv'
  BY DEF IInv, TypeOK, StreamInv, TokenInv, LeaseInv, Holds, SealInv, Reaches, CleanInv,
         BytesInv, ReadyHasFile

\* Time passes.
LEMMA TickStep ==
    ASSUME IInv, Tick
    PROVE  IInv'
  <1>1. now' \in 0..MaxNow
    BY UploadsAssumption DEF IInv, TypeOK, Tick
  <1> QED BY <1>1, QuietStep DEF Tick
-----------------------------------------------------------------------------
(* Every step keeps the invariant.                                          *)

\* An empty directory.
LEMMA InitInv == Init => IInv
  <1> SUFFICES ASSUME Init PROVE IInv
    OBVIOUS
  <1>1. NoRow \in Row /\ NoRow.phase = "none" /\ NoDirectory \in Directory /\ NoDirectory.bytes = 0
    BY UploadsAssumption DEF NoRow, Row, Phase, NoDirectory, Directory
  <1>2. Idle \in Upload /\ Idle.state = "idle" /\ Idle.token = 0
    BY UploadsAssumption DEF Idle, Upload, StreamState
  <1>3. TypeOK
    BY <1>1, <1>2, UploadsAssumption DEF Init, TypeOK
  <1>4. StreamInv /\ TokenInv /\ LeaseInv /\ SealInv
    BY <1>2 DEF Init, StreamInv, TokenInv, LeaseInv, SealInv, Leased, Writing
  <1>5. CleanInv /\ BytesInv /\ ReadyHasFile
    BY <1>1 DEF Init, CleanInv, BytesInv, ReadyHasFile
  <1> QED BY <1>3, <1>4, <1>5 DEF IInv

\* Every step keeps the invariant.
LEMMA NextInv == IInv /\ [Next]_vars => IInv'
  <1> SUFFICES ASSUME IInv, [Next]_vars PROVE IInv'
    OBVIOUS
  <1>1. CASE Ledger
    BY <1>1, ReserveStep, CancelStep, PinStep, ReleasePartStep, ResetStep DEF Ledger
  <1>2. ASSUME NEW s \in Streams, Put(s) PROVE IInv'
    BY <1>2, PutClaimStep, PutAnswerStep, PutOpenStep, PutSealStep, PutRejectStep,
       PutCompleteStep, PutCloseStep, PutReleaseStep, PutAnsweredStep DEF Put
  <1>3. CASE CleanupUploads
    BY <1>3, CleanBeginStep, CleanRemoveStep, CleanPurgeStep DEF CleanupUploads
  <1>4. CASE UNCHANGED vars
    <2>1. now \in 0..MaxNow
      BY DEF IInv, TypeOK
    <2> QED BY <1>4, <2>1, QuietStep DEF vars
  <1> QED BY <1>1, <1>2, <1>3, <1>4, CrashStep, TickStep DEF Next
-----------------------------------------------------------------------------
(* What a step may do to the ledger, and the quota.                         *)

\* A completed row stays or is retired, no row appears, and a row keeps its
\* file as long as it is there.
RowsMove ==
    \A id \in Ids :
        /\ row[id].phase = "ready" => row'[id].phase \in {"ready", "pinned", "deleting"}
        /\ row[id].phase = "pinned" => row'[id].phase \in {"pinned", "deleting"}
        /\ row'[id].phase # "none" => row[id].phase # "none" /\ row'[id].file = row[id].file

\* A cleanup pass releases and then retires.
LEMMA CleanMoves ==
    ASSUME NEW freed \in [Ids -> Row],
           \A k \in Ids : /\ row[k].phase \in {"ready", "pinned"} => freed[k].phase = row[k].phase
                          /\ freed[k].file = row[k].file
                          /\ freed[k].phase # "none" => row[k].phase # "none",
           row' = freed \/ row' = Retired(freed)
    PROVE  RowsMove
  <1>1. \A k \in Ids : /\ row'[k].file = freed[k].file
                        /\ \/ row'[k].phase = freed[k].phase
                           \/ /\ freed[k].phase \in {"reserved", "ready"}
                              /\ row'[k].phase = "deleting"
    BY RetiredFacts
  <1> QED BY <1>1 DEF RowsMove

\* Every step but reserve moves the rows in this way.
LEMMA RowsMoveStep ==
    ASSUME IInv, Next
    PROVE  RowsMove \/ \E o \in Owners, id \in Ids, f \in Descriptors : Reserve(o, id, f)
  <1> USE DEF RowsMove
  <1>1. TypeOK /\ CleanInv
    BY DEF IInv
  <1>2. ASSUME NEW o \in Owners, NEW id \in Ids, Cancel(o, id)
        PROVE  RowsMove
    <2>1. SetPhase(id, "deleting") /\ row[id].phase \in {"reserved", "ready"}
      BY <1>2 DEF Cancel, MayCancel, SetPhase
    <2>2. "deleting" \in Phase
      BY DEF Phase
    <2> QED BY <1>1, <2>1, <2>2, SetPhaseFacts DEF OnlyPhases
  <1>3. ASSUME NEW o \in Owners, NEW r \in Requests, NEW ids \in SUBSET Ids, Pin(o, r, ids)
        PROVE  RowsMove
    <2>1. \A id \in Ids : row'[id] = IF id \in ids
                                     THEN [row[id] EXCEPT !.phase = "pinned", !.request = r]
                                     ELSE row[id]
      BY <1>3 DEF Pin
    <2>2. \A id \in Ids : /\ row'[id].phase = IF id \in ids THEN "pinned" ELSE row[id].phase
                          /\ row'[id].file = row[id].file
      BY <1>1, <2>1 DEF TypeOK, Row
    <2>3. \A id \in ids : row[id].phase = "ready"
      BY <1>3 DEF Pin
    <2> QED BY <2>2, <2>3
  <1>4. ASSUME NEW r \in Requests, NEW id \in Ids, ReleasePart(r, id)
        PROVE  RowsMove
    <2>1. SetPhase(id, "deleting") /\ row[id].phase = "pinned"
      BY <1>4 DEF ReleasePart, SetPhase
    <2>2. "deleting" \in Phase
      BY DEF Phase
    <2> QED BY <1>1, <2>1, <2>2, SetPhaseFacts DEF OnlyPhases
  <1>5. ASSUME NEW s \in Streams, NEW o \in Owners, NEW id \in Ids, NEW b \in Descriptors,
               PutClaim(s, o, id, b)
        PROVE  RowsMove
    <2>1. /\ row' = [row EXCEPT ![id].phase = "receiving", ![id].lease = tokens + 1]
          /\ row[id].phase = "reserved"
      BY <1>5 DEF PutClaim, MayClaim
    <2>2. row \in [Ids -> Row]
      BY <1>1 DEF TypeOK
    <2>3. /\ row'[id].phase = "receiving" /\ row'[id].file = row[id].file
          /\ \A k \in Ids \ {id} : row'[k] = row[k]
      BY <2>1, <2>2 DEF Row
    <2> QED BY <2>1, <2>3
  <1>6. ASSUME NEW s \in Streams, PutComplete(s)
        PROVE  RowsMove
    <2>1. \/ UNCHANGED row
          \/ SetPhase(stream[s].id, "ready") /\ row[stream[s].id].phase = "receiving"
      BY <1>6 DEF PutComplete, Holds, SetPhase
    <2>2. stream[s].id \in Ids
      BY <1>6 DEF IInv, StreamInv, Leased, StreamState, PutComplete
    <2>3. "ready" \in Phase
      BY DEF Phase
    <2> QED BY <1>1, <2>1, <2>2, <2>3, SetPhaseFacts DEF OnlyPhases
  <1>7. ASSUME NEW s \in Streams, PutRelease(s)
        PROVE  RowsMove
    <2>1. row' = row \/ \E leases : row' = Released(leases)
      BY <1>7 DEF PutRelease
    <2> QED BY <1>1, <2>1, ReleasedFacts DEF Holds
  <1>8. CASE CleanBegin
    <2>1. \E leases : row' \in {Released(leases), Retired(Released(leases))}
      BY <1>8 DEF CleanBegin
    <2>2. PICK leases : row' \in {Released(leases), Retired(Released(leases))}
      BY <2>1
    <2>3. Released(leases) \in [Ids -> Row]
      BY <1>1, ReleasedFacts
    <2>4. \A k \in Ids :
             /\ row[k].phase \in {"ready", "pinned"} => Released(leases)[k].phase = row[k].phase
             /\ Released(leases)[k].file = row[k].file
             /\ Released(leases)[k].phase # "none" => row[k].phase # "none"
      BY <1>1, ReleasedFacts DEF Holds
    <2>5. row' = Released(leases) \/ row' = Retired(Released(leases))
      BY <2>2
    <2>6. RowsMove
      <3> HIDE DEF RowsMove
      <3> QED BY <2>3, <2>4, <2>5, CleanMoves
    <2> QED BY <2>6
  <1>9. CASE CleanPurge
    <2>1. cleaner.purging \in Ids /\ row[cleaner.purging].phase = "deleting"
      BY <1>1, <1>9 DEF CleanInv, TypeOK, CleanPurge
    <2> QED BY <1>1, <1>9, <2>1 DEF CleanPurge, TypeOK, NoRow
  <1>10. CASE Crash
    <2>1. \A id \in Ids : row'[id] = IF row[id].phase = "receiving"
                                     THEN [row[id] EXCEPT !.phase = "reserved"] ELSE row[id]
      BY <1>10 DEF Crash
    <2>2. \A id \in Ids : row[id].phase = "receiving" =>
             row'[id].phase = "reserved" /\ row'[id].file = row[id].file
      BY <1>1, <2>1 DEF TypeOK, Row
    <2> QED BY <2>1, <2>2
  <1>11. CASE UNCHANGED row
    BY <1>11
  <1>12. Reset \/ Tick \/ (\E id \in Ids : CleanRemove(id))
         \/ (\E s \in Streams : PutAnswer(s) \/ PutOpen(s) \/ PutSeal(s) \/ PutReject(s)
                                 \/ PutClose(s) \/ PutAnswered(s)) => UNCHANGED row
    BY DEF Reset, Tick, CleanRemove, PutAnswer, PutOpen, PutSeal, PutReject, PutClose, PutAnswered
  <1> QED BY <1>1, <1>2, <1>3, <1>4, <1>5, <1>6, <1>7, <1>8, <1>9, <1>10, <1>11, <1>12
        DEF Next, Ledger, Put, CleanupUploads
-----------------------------------------------------------------------------
(* Sums.  SumFunctionOnSet takes the elements of a finite set in the order  *)
(* CHOOSE gives them; the lemmas show that the order does not matter.  The   *)
(* inductions are on the size of the set: a counterexample would have a     *)
(* least size.                                                              *)

\* A non-empty set of numbers has a least one.
LEMMA LeastNat ==
    ASSUME NEW T \in SUBSET Nat, T # {}
    PROVE  \E n \in T : \A m \in T : n <= m
  <1>1. IsWellFoundedOn(OpToRel(<, Nat), Nat)
    BY NatLessThanWellFounded
  <1>2. PICK n \in T : \A m \in T : ~(<<m, n>> \in OpToRel(<, Nat))
    BY <1>1, WFMin
  <1>3. \A m \in T : ~(m < n)
    BY <1>2 DEF OpToRel
  <1> QED BY <1>3

\* The element the sum takes first.
Pick(s) == CHOOSE x \in s : TRUE

\* One step of the sum of f over s, g being the sums over smaller sets.
SumStep(f, g, s) == IF s = {} THEN 0 ELSE f[Pick(s)] + g[s \ {Pick(s)}]

\* g has the sums of f over the subsets of S.
Sums(f, S, g) == g = [s \in SUBSET S |-> SumStep(f, g, s)]

\* The sum is the value at S of a function that adds element by element.
LEMMA SumUnfold ==
    ASSUME NEW f, NEW S
    PROVE  SumFunctionOnSet(f, S) = (CHOOSE g : Sums(f, S, g))[S]
  BY DEF SumFunctionOnSet, FoldFunctionOnSet, MapThenFoldSet, Sums, SumStep, Pick

\* The element taken from a set, and what remains.
LEMMA Smaller ==
    ASSUME NEW S, IsFiniteSet(S), NEW s \in SUBSET S, s # {}
    PROVE  /\ Pick(s) \in s
           /\ IsFiniteSet(s)
           /\ s \ {Pick(s)} \in SUBSET S
           /\ Cardinality(s) \in Nat \ {0}
           /\ Cardinality(s \ {Pick(s)}) = Cardinality(s) - 1
  <1>1. Pick(s) \in s
    BY DEF Pick
  <1>2. IsFiniteSet(s)
    BY FS_Subset
  <1>3. Cardinality(s \ {Pick(s)}) = Cardinality(s) - 1
    BY <1>1, <1>2, FS_RemoveElement
  <1>4. Cardinality(s) \in Nat \ {0}
    BY <1>2, FS_CardinalityType, FS_EmptySet
  <1> QED BY <1>1, <1>2, <1>3, <1>4

\* There is such a function, built up by the size of the subsets.
LEMMA SumsExist ==
    ASSUME NEW f, NEW S, IsFiniteSet(S)
    PROVE  \E g : Sums(f, S, g)
  <1> DEFINE Small(n) == {s \in SUBSET S : Cardinality(s) <= n}
             P(n) == \E g : g = [s \in Small(n) |-> SumStep(f, g, s)]
             Bad == {n \in Nat : ~P(n)}
  <1>1. ASSUME Bad # {} PROVE FALSE
    <2>1. PICK n \in Bad : \A m \in Bad : n <= m
      BY <1>1, LeastNat
    <2>2. CASE n = 0
      <3> DEFINE g == [s \in Small(0) |-> 0]
      <3>1. ASSUME NEW s \in Small(0), s # {} PROVE FALSE
        <4>1. Cardinality(s) \in Nat \ {0}
          BY <3>1, Smaller
        <4> QED BY <4>1
      <3>2. g = [s \in Small(0) |-> SumStep(f, g, s)]
        BY <3>1 DEF SumStep
      <3> HIDE DEF Small
      <3>3. P(0)
        BY <3>2
      <3> QED BY <2>1, <2>2, <3>3
    <2>3. CASE n # 0
      <3>1. n - 1 \in Nat /\ P(n - 1)
        <4> HIDE DEF P
        <4> QED BY <2>1, <2>3
      <3>2. PICK g : g = [s \in Small(n - 1) |-> SumStep(f, g, s)]
        BY <3>1
      <3> DEFINE h == [s \in Small(n) |-> SumStep(f, g, s)]
      <3>3. ASSUME NEW s \in Small(n)
            PROVE  SumStep(f, g, s) = SumStep(f, h, s)
        <4>1. CASE s = {}
          BY <4>1 DEF SumStep
        <4>2. CASE s # {}
          <5> DEFINE t == s \ {Pick(s)}
          <5>1. t \in Small(n - 1) /\ t \in Small(n)
            BY <4>2, <3>1, <2>1, Smaller
          <5> HIDE DEF Small, t
          <5>2. h[t] = SumStep(f, g, t) /\ g[t] = SumStep(f, g, t)
            BY <5>1, <3>2
          <5>3. h[t] = g[t]
            BY <5>2
          <5> HIDE DEF h
          <5> QED BY <5>3, <4>2 DEF SumStep, t
        <4> QED BY <4>1, <4>2
      <3>4. h = [s \in Small(n) |-> SumStep(f, h, s)]
        <4> HIDE DEF Small
        <4> QED BY <3>3
      <3> HIDE DEF h, Small
      <3>5. P(n)
        BY <3>4
      <3> QED BY <2>1, <3>5
    <2> QED BY <2>2, <2>3
  <1>2. Cardinality(S) \in Nat
    BY FS_CardinalityType
  <1>3. Small(Cardinality(S)) = SUBSET S
    BY FS_Subset
  <1>4. P(Cardinality(S))
    BY <1>1, <1>2
  <1> HIDE DEF Small
  <1> QED BY <1>3, <1>4 DEF Sums

\* Two such functions agree where both are defined.
LEMMA SumsAgree ==
    ASSUME NEW f, NEW S, IsFiniteSet(S), NEW T \in SUBSET S,
           NEW g, Sums(f, S, g), NEW h, Sums(f, T, h)
    PROVE  \A s \in SUBSET T : g[s] = h[s]
  <1> DEFINE Bad == {n \in Nat : \E s \in SUBSET T : Cardinality(s) = n /\ g[s] # h[s]}
  <1>1. ASSUME Bad # {} PROVE FALSE
    <2>1. PICK n \in Bad : \A m \in Bad : n <= m
      BY <1>1, LeastNat
    <2>2. PICK s \in SUBSET T : Cardinality(s) = n /\ g[s] # h[s]
      BY <2>1
    <2>3. g[s] = SumStep(f, g, s) /\ h[s] = SumStep(f, h, s)
      BY DEF Sums
    <2>4. s # {}
      BY <2>2, <2>3 DEF SumStep
    <2> DEFINE t == s \ {Pick(s)}
    <2>5. t \in SUBSET T /\ Cardinality(t) \in Nat /\ Cardinality(t) < n
      BY <2>2, <2>4, Smaller
    <2>6. g[t] = h[t]
      BY <2>1, <2>5
    <2> QED BY <2>2, <2>3, <2>4, <2>6 DEF SumStep
  <1>2. ASSUME NEW s \in SUBSET T PROVE g[s] = h[s]
    <2>1. Cardinality(s) \in Nat
      BY FS_Subset, FS_CardinalityType
    <2> QED BY <1>1, <2>1
  <1> QED BY <1>2

\* The recursion the definition of the sum intends.
LEMMA SumRecursion ==
    ASSUME NEW f, NEW S, IsFiniteSet(S)
    PROVE  /\ S = {} => SumFunctionOnSet(f, S) = 0
           /\ S # {} => SumFunctionOnSet(f, S)
                          = f[Pick(S)] + SumFunctionOnSet(f, S \ {Pick(S)})
  <1> DEFINE g == CHOOSE x : Sums(f, S, x)
             T == S \ {Pick(S)}
             h == CHOOSE x : Sums(f, T, x)
  <1>0. IsFiniteSet(T) /\ T \in SUBSET S
    BY FS_Subset
  <1>1. Sums(f, S, g)
    BY SumsExist
  <1>2. Sums(f, T, h)
    BY <1>0, SumsExist
  <1>3. SumFunctionOnSet(f, S) = g[S] /\ SumFunctionOnSet(f, T) = h[T]
    BY SumUnfold
  <1> HIDE DEF g, h
  <1>4. g[S] = SumStep(f, g, S)
    BY <1>1 DEF Sums
  <1> HIDE DEF T
  <1>5. g[T] = h[T]
    BY <1>0, <1>1, <1>2, SumsAgree
  <1> QED BY <1>3, <1>4, <1>5 DEF SumStep, T

\* A sum of natural numbers is one.
LEMMA SumNat ==
    ASSUME NEW S, IsFiniteSet(S), NEW f, \A x \in S : f[x] \in Nat
    PROVE  \A s \in SUBSET S : SumFunctionOnSet(f, s) \in Nat
  <1> DEFINE Bad == {n \in Nat : \E s \in SUBSET S : Cardinality(s) = n
                                     /\ SumFunctionOnSet(f, s) \notin Nat}
  <1>1. ASSUME Bad # {} PROVE FALSE
    <2>1. PICK n \in Bad : \A m \in Bad : n <= m
      BY <1>1, LeastNat
    <2>2. PICK s \in SUBSET S : Cardinality(s) = n /\ SumFunctionOnSet(f, s) \notin Nat
      BY <2>1
    <2>3. IsFiniteSet(s)
      BY FS_Subset
    <2>4. s # {}
      <3>1. s = {} => SumFunctionOnSet(f, s) = 0
        BY <2>3, SumRecursion
      <3> QED BY <2>2, <3>1
    <2> DEFINE t == s \ {Pick(s)}
    <2>5. t \in SUBSET S /\ Cardinality(t) \in Nat /\ Cardinality(t) < n /\ Pick(s) \in S
      BY <2>2, <2>4, Smaller
    <2>6. SumFunctionOnSet(f, t) \in Nat
      BY <2>1, <2>5
    <2>7. SumFunctionOnSet(f, s) = f[Pick(s)] + SumFunctionOnSet(f, t)
      BY <2>3, <2>4, SumRecursion
    <2> QED BY <2>2, <2>5, <2>6, <2>7
  <1>2. ASSUME NEW s \in SUBSET S PROVE SumFunctionOnSet(f, s) \in Nat
    <2>1. Cardinality(s) \in Nat
      BY FS_Subset, FS_CardinalityType
    <2> QED BY <1>1, <2>1
  <1> QED BY <1>2

\* Any element may be taken out first.
LEMMA SumRemove ==
    ASSUME NEW S, IsFiniteSet(S), NEW f, \A x \in S : f[x] \in Nat
    PROVE  \A s \in SUBSET S : \A x \in s :
              SumFunctionOnSet(f, s) = f[x] + SumFunctionOnSet(f, s \ {x})
  <1> DEFINE Sum(s) == SumFunctionOnSet(f, s)
             Bad == {n \in Nat : \E s \in SUBSET S : Cardinality(s) = n
                                     /\ \E x \in s : Sum(s) # f[x] + Sum(s \ {x})}
  <1>1. ASSUME Bad # {} PROVE FALSE
    <2>1. PICK n \in Bad : \A m \in Bad : n <= m
      BY <1>1, LeastNat
    <2>2. PICK s \in SUBSET S : Cardinality(s) = n /\ \E x \in s : Sum(s) # f[x] + Sum(s \ {x})
      BY <2>1
    <2>3. PICK x \in s : Sum(s) # f[x] + Sum(s \ {x})
      BY <2>2
    <2> DEFINE y == Pick(s)
    <2>4. y \in s /\ IsFiniteSet(s)
      BY Smaller
    <2>5. Sum(s) = f[y] + Sum(s \ {y})
      BY <2>4, SumRecursion
    <2>6. x # y
      BY <2>3, <2>5
    <2> HIDE DEF y
    <2>7. /\ Cardinality(s \ {x}) = n - 1 /\ Cardinality(s \ {y}) = n - 1
          /\ n - 1 \in Nat
      <3>1. Cardinality(s \ {x}) = n - 1 /\ Cardinality(s \ {y}) = n - 1
        BY <2>2, <2>4, FS_RemoveElement
      <3>2. IsFiniteSet(s \ {x})
        BY <2>4, FS_Subset
      <3> QED BY <3>1, <3>2, FS_CardinalityType
    <2>8. n - 1 \notin Bad
      <3>1. n \in Nat
        OBVIOUS
      <3> HIDE DEF Bad
      <3> QED BY <2>1, <2>7, <3>1
    <2>9. Sum(s \ {y}) = f[x] + Sum((s \ {y}) \ {x})
      BY <2>7, <2>8, <2>6
    <2>10. Sum(s \ {x}) = f[y] + Sum((s \ {x}) \ {y})
      BY <2>7, <2>8, <2>6, <2>4
    <2>11. (s \ {x}) \ {y} = (s \ {y}) \ {x}
      OBVIOUS
    <2>12. Sum((s \ {x}) \ {y}) \in Nat /\ f[x] \in Nat /\ f[y] \in Nat
      BY <2>4, SumNat
    <2> HIDE DEF Sum
    <2> QED BY <2>3, <2>5, <2>9, <2>10, <2>11, <2>12
  <1>2. ASSUME NEW s \in SUBSET S, NEW x \in s
        PROVE  Sum(s) = f[x] + Sum(s \ {x})
    <2>1. Cardinality(s) \in Nat
      BY FS_Subset, FS_CardinalityType
    <2> HIDE DEF Sum
    <2> QED BY <1>1, <2>1
  <1> QED BY <1>2

\* A sum over fewer elements is not larger.
LEMMA SumSubset ==
    ASSUME NEW T, IsFiniteSet(T), NEW h, \A x \in T : h[x] \in Nat, NEW t \in SUBSET T
    PROVE  SumFunctionOnSet(h, t) <= SumFunctionOnSet(h, T)
  <1> DEFINE H(u) == SumFunctionOnSet(h, u)
             Bad == {n \in Nat : \E u \in SUBSET T : Cardinality(u) = n
                                     /\ ~(H(u \cap t) <= H(u))}
  <1>0. \A u \in SUBSET T : H(u) \in Nat
    BY SumNat
  <1>1. ASSUME Bad # {} PROVE FALSE
    <2>1. PICK n \in Bad : \A m \in Bad : n <= m
      BY <1>1, LeastNat
    <2>2. PICK u \in SUBSET T : Cardinality(u) = n /\ ~(H(u \cap t) <= H(u))
      BY <2>1
    <2>3. u # {}
      <3>1. u = {} => u \cap t = u
        OBVIOUS
      <3>2. H(u) \in Nat
        BY <1>0
      <3> HIDE DEF H
      <3> QED BY <2>2, <3>1, <3>2
    <2> DEFINE y == Pick(u)
    <2>4. y \in u
      BY <2>3, Smaller
    <2>5. Cardinality(u \ {y}) \in Nat /\ Cardinality(u \ {y}) < n
      BY <2>2, <2>3, Smaller
    <2> HIDE DEF y
    <2>6. H((u \ {y}) \cap t) <= H(u \ {y})
      <3>1. u \ {y} \in SUBSET T
        OBVIOUS
      <3>2. Cardinality(u \ {y}) \notin Bad
        <4>1. n \in Nat
          OBVIOUS
        <4> HIDE DEF Bad
        <4> QED BY <2>1, <2>5, <4>1
      <3> HIDE DEF H
      <3> QED BY <2>5, <3>1, <3>2
    <2>7. H(u) = h[y] + H(u \ {y})
      BY <2>4, SumRemove
    <2>8. H(u \ {y}) \in Nat /\ h[y] \in Nat /\ H(u \cap t) \in Nat
          /\ H((u \ {y}) \cap t) \in Nat
      BY <1>0, <2>4
    <2>9. CASE y \in t
      <3>1. H(u \cap t) = h[y] + H((u \cap t) \ {y})
        BY <2>4, <2>9, SumRemove
      <3>2. H((u \cap t) \ {y}) = H((u \ {y}) \cap t)
        <4>1. (u \cap t) \ {y} = (u \ {y}) \cap t
          OBVIOUS
        <4> QED BY <4>1
      <3> HIDE DEF H
      <3> QED BY <2>2, <2>6, <2>7, <2>8, <3>1, <3>2
    <2>10. CASE y \notin t
      <3>1. H((u \ {y}) \cap t) = H(u \cap t)
        <4>1. (u \ {y}) \cap t = u \cap t
          BY <2>10
        <4> QED BY <4>1
      <3> HIDE DEF H
      <3> QED BY <2>2, <2>6, <2>7, <2>8, <3>1
    <2> QED BY <2>9, <2>10
  <1>2. H(T \cap t) <= H(T)
    <2>1. Cardinality(T) \in Nat
      BY FS_CardinalityType
    <2> HIDE DEF H
    <2> QED BY <1>1, <2>1
  <1>3. T \cap t = t
    OBVIOUS
  <1> QED BY <1>2, <1>3

\* f over S sums to at most h over T if f is 0 outside T and at most h inside.
LEMMA SumAtMost ==
    ASSUME NEW S, IsFiniteSet(S), NEW T, IsFiniteSet(T), NEW f, NEW h,
           \A x \in S : f[x] \in Nat, \A x \in T : h[x] \in Nat,
           \A x \in S : IF x \in T THEN f[x] <= h[x] ELSE f[x] = 0
    PROVE  SumFunctionOnSet(f, S) <= SumFunctionOnSet(h, T)
  <1> DEFINE F(s) == SumFunctionOnSet(f, s)
             H(t) == SumFunctionOnSet(h, t)
             Bad == {n \in Nat : \E s \in SUBSET S : Cardinality(s) = n
                                     /\ ~(F(s) <= H(s \cap T))}
  <1>0. \A s \in SUBSET S : F(s) \in Nat
    BY SumNat
  <1>00. \A t \in SUBSET T : H(t) \in Nat
    BY SumNat
  <1>1. ASSUME Bad # {} PROVE FALSE
    <2>1. PICK n \in Bad : \A m \in Bad : n <= m
      BY <1>1, LeastNat
    <2>2. PICK s \in SUBSET S : Cardinality(s) = n /\ ~(F(s) <= H(s \cap T))
      BY <2>1
    <2>3. s # {}
      <3>1. SUFFICES ASSUME s = {} PROVE FALSE
        OBVIOUS
      <3>2. F(s) = 0
        BY <3>1, FS_EmptySet, SumRecursion
      <3>3. H(s \cap T) \in Nat
        BY <1>00
      <3> HIDE DEF F, H
      <3> QED BY <2>2, <3>2, <3>3
    <2> DEFINE y == Pick(s)
    <2>4. y \in s
      BY <2>3, Smaller
    <2>5. Cardinality(s \ {y}) \in Nat /\ Cardinality(s \ {y}) < n
      BY <2>2, <2>3, Smaller
    <2> HIDE DEF y
    <2>6. F(s \ {y}) <= H((s \ {y}) \cap T)
      <3>1. s \ {y} \in SUBSET S
        OBVIOUS
      <3>2. Cardinality(s \ {y}) \notin Bad
        <4>1. n \in Nat
          OBVIOUS
        <4> HIDE DEF Bad
        <4> QED BY <2>1, <2>5, <4>1
      <3> HIDE DEF F, H
      <3> QED BY <2>5, <3>1, <3>2
    <2>7. F(s) = f[y] + F(s \ {y})
      BY <2>4, SumRemove
    <2>8. F(s \ {y}) \in Nat /\ f[y] \in Nat /\ H(s \cap T) \in Nat
          /\ H((s \ {y}) \cap T) \in Nat
      BY <1>0, <1>00, <2>4
    <2>9. CASE y \in T
      <3>1. H(s \cap T) = h[y] + H((s \cap T) \ {y})
        BY <2>4, <2>9, SumRemove
      <3>2. H((s \cap T) \ {y}) = H((s \ {y}) \cap T)
        <4>1. (s \cap T) \ {y} = (s \ {y}) \cap T
          OBVIOUS
        <4> QED BY <4>1
      <3>3. f[y] <= h[y] /\ h[y] \in Nat
        BY <2>4, <2>9
      <3> HIDE DEF F, H
      <3> QED BY <2>2, <2>6, <2>7, <2>8, <3>1, <3>2, <3>3
    <2>10. CASE y \notin T
      <3>1. H((s \ {y}) \cap T) = H(s \cap T)
        <4>1. (s \ {y}) \cap T = s \cap T
          BY <2>10
        <4> QED BY <4>1
      <3>2. f[y] = 0
        BY <2>4, <2>10
      <3> HIDE DEF F, H
      <3> QED BY <2>2, <2>6, <2>7, <2>8, <3>1, <3>2
    <2> QED BY <2>9, <2>10
  <1>2. F(S) <= H(S \cap T)
    <2>1. Cardinality(S) \in Nat
      BY FS_CardinalityType
    <2> HIDE DEF F, H
    <2> QED BY <1>1, <2>1
  <1>3. H(S \cap T) <= H(T)
    BY SumSubset
  <1>4. F(S) \in Nat /\ H(S \cap T) \in Nat /\ H(T) \in Nat
    BY <1>0, <1>00
  <1> HIDE DEF F, H
  <1>5. F(S) <= H(T)
    BY <1>2, <1>3, <1>4
  <1> QED BY <1>5 DEF F, H
-----------------------------------------------------------------------------
(* The quota.                                                               *)

Claims == [id \in Rows |-> SizeOf[row[id].file]]

\* The bytes of all rows add up to UsedBytes.
LEMMA ClaimsFacts ==
    ASSUME TypeOK, BytesInv
    PROVE  /\ IsFiniteSet(Rows)
           /\ \A id \in Rows : Claims[id] \in Nat
           /\ UsedBytes = SumFunctionOnSet(Claims, Rows)
           /\ UsedBytes \in Nat
  <1>1. Rows \in SUBSET Ids /\ IsFiniteSet(Rows)
    BY UploadsAssumption, FS_Subset DEF Rows
  <1>2. \A id \in Rows : Claims[id] \in Nat
    BY UploadsAssumption DEF Claims, Rows, BytesInv
  <1>3. UsedBytes = SumFunctionOnSet(Claims, Rows)
    BY DEF UsedBytes, Claims
  <1> QED BY <1>1, <1>2, <1>3, SumNat

\* reserve keeps within the quota, and nothing else adds to it.
LEMMA QuotaStep ==
    ASSUME IInv, IInv', QuotaInv, [Next]_vars
    PROVE  QuotaInv'
  <1>1. /\ IsFiniteSet(Rows) /\ IsFiniteSet(Rows')
        /\ \A id \in Rows : Claims[id] \in Nat
        /\ \A id \in Rows' : Claims'[id] \in Nat
        /\ UsedBytes = SumFunctionOnSet(Claims, Rows)
        /\ UsedBytes' = SumFunctionOnSet(Claims', Rows')
        /\ UsedBytes \in Nat /\ UsedBytes' \in Nat /\ MaxBytes \in Nat
    <2>1. BytesInv'
      BY DEF IInv
    <2>2. Rows' \in SUBSET Ids /\ IsFiniteSet(Rows')
      BY UploadsAssumption, FS_Subset DEF Rows
    <2>3. \A id \in Rows' : Claims'[id] \in Nat
      BY <2>1, UploadsAssumption DEF Claims, Rows, BytesInv
    <2>4. UsedBytes' = SumFunctionOnSet(Claims', Rows')
      BY DEF UsedBytes, Claims
    <2>5. SumFunctionOnSet(Claims', Rows') \in Nat
      BY <2>2, <2>3, SumNat
    <2> QED BY <2>2, <2>3, <2>4, <2>5, ClaimsFacts, UploadsAssumption DEF IInv
  <1>2. CASE RowsMove \/ UNCHANGED vars
    <2>1. \A id \in Rows' : id \in Rows /\ Claims'[id] = Claims[id]
      BY <1>2 DEF RowsMove, Rows, Claims, vars
    <2>2. \A id \in Rows' : IF id \in Rows THEN Claims'[id] <= Claims[id] ELSE Claims'[id] = 0
      BY <1>1, <2>1
    <2>3. UsedBytes' <= UsedBytes
      BY <1>1, <2>2, SumAtMost
    <2> QED BY <1>1, <2>3 DEF QuotaInv
  <1>3. ASSUME NEW o \in Owners, NEW id \in Ids, NEW f \in Descriptors, Reserve(o, id, f)
        PROVE  QuotaInv'
    <2>1. /\ row[id].phase = "none" /\ UsedBytes + SizeOf[f] <= MaxBytes
          /\ row'[id].phase = "reserved" /\ row'[id].file = f
          /\ \A k \in Ids \ {id} : row'[k] = row[k]
      BY <1>3 DEF Reserve, HasQuota, IInv, TypeOK
    <2>2. /\ id \in Rows' /\ Rows' \ {id} = Rows
          /\ Claims'[id] = SizeOf[f]
          /\ \A k \in Rows : Claims'[k] = Claims[k]
      BY <2>1 DEF Rows, Claims
    <2>3. UsedBytes' = SizeOf[f] + SumFunctionOnSet(Claims', Rows)
      BY <1>1, <2>2, SumRemove
    <2>4. SumFunctionOnSet(Claims', Rows) <= UsedBytes
      <3>1. \A k \in Rows : Claims'[k] \in Nat /\ Claims'[k] <= Claims[k]
        BY <1>1, <2>2
      <3> QED BY <1>1, <3>1, SumAtMost
    <2>5. SumFunctionOnSet(Claims', Rows) \in Nat /\ SizeOf[f] \in Nat
      BY <1>1, <2>2, SumNat, UploadsAssumption
    <2> QED BY <1>1, <2>1, <2>3, <2>4, <2>5 DEF QuotaInv
  <1> QED BY <1>2, <1>3, RowsMoveStep

\* What lies on disk is at most what the rows claim.
LEMMA DiskAtMostClaims ==
    ASSUME IInv
    PROVE  SumFunctionOnSet([id \in Ids |-> dir[id].bytes], Ids) <= UsedBytes
  <1> DEFINE bytes == [id \in Ids |-> dir[id].bytes]
  <1>1. /\ IsFiniteSet(Rows) /\ \A id \in Rows : Claims[id] \in Nat
        /\ UsedBytes = SumFunctionOnSet(Claims, Rows)
    BY ClaimsFacts DEF IInv
  <1>2. \A id \in Ids : bytes[id] \in Nat
    BY DEF IInv, TypeOK, Directory
  <1>3. \A id \in Ids : IF id \in Rows THEN bytes[id] <= Claims[id] ELSE bytes[id] = 0
    BY DEF IInv, BytesInv, Rows, Claims
  <1> HIDE DEF bytes
  <1>4. SumFunctionOnSet(bytes, Ids) <= SumFunctionOnSet(Claims, Rows)
    BY <1>1, <1>2, <1>3, UploadsAssumption, SumAtMost
  <1> QED BY <1>1, <1>4 DEF bytes
-----------------------------------------------------------------------------
(* The theorems.                                                            *)

\* The inductive invariant holds in every reachable state.
THEOREM Invariance == Spec => []IInv
  BY InitInv, NextInv, PTL DEF Spec

\* An upload that is complete or pinned has its verified bytes on disk
\* (complete, pin and cleanupUploads against each other and against crashes).
THEOREM CompletedHasFile == Spec => []ReadyHasFile
  <1>1. IInv => ReadyHasFile
    BY DEF IInv
  <1> QED BY <1>1, Invariance, PTL

\* No two streams write the directory of one upload (uploads.begin's lease).
THEOREM SingleWriter == Spec => []OneWriter
  <1>1. IInv => OneWriter
    BY SoleWriter DEF OneWriter, Writing
  <1> QED BY <1>1, Invariance, PTL

\* A completed upload is not reopened, and a pinned one can only be retired
\* (Release.apply, claim, expire and purge against stale leases).
THEOREM CompletedIsFinal == Spec => CompletedStays
  <1> DEFINE A == \A id \in Ids :
                    /\ row[id].phase = "ready" => row'[id].phase \in {"ready", "pinned", "deleting"}
                    /\ row[id].phase = "pinned" => row'[id].phase \in {"pinned", "deleting"}
  <1>1. IInv /\ [Next]_vars => [A]_vars
    <2> SUFFICES ASSUME IInv, Next PROVE A
      OBVIOUS
    <2>1. ASSUME NEW o \in Owners, NEW id \in Ids, NEW f \in Descriptors, Reserve(o, id, f)
          PROVE  A
      BY <2>1 DEF Reserve, IInv, TypeOK
    <2> QED BY <2>1, RowsMoveStep DEF RowsMove
  <1> QED BY <1>1, Invariance, PTL DEF Spec, CompletedStays

\* The files on disk, leftovers of failed transfers included, never exceed the
\* quota (reserve's sum over the table, Files.begin, purge after remove).
THEOREM QuotaHolds == Spec => []DiskWithinQuota
  <1>1. Init => QuotaInv
    <2> SUFFICES ASSUME Init PROVE QuotaInv
      OBVIOUS
    <2>1. Rows = {}
      BY DEF Init, Rows, NoRow
    <2>2. UsedBytes = 0
      BY <2>1, FS_EmptySet, SumRecursion DEF UsedBytes
    <2> QED BY <2>2, UploadsAssumption DEF QuotaInv
  <1>2. IInv /\ IInv' /\ QuotaInv /\ [Next]_vars => QuotaInv'
    BY QuotaStep
  <1>3. IInv /\ QuotaInv => DiskWithinQuota
    <2> SUFFICES ASSUME IInv, QuotaInv PROVE DiskWithinQuota
      OBVIOUS
    <2> DEFINE disk == SumFunctionOnSet([id \in Ids |-> dir[id].bytes], Ids)
    <2>1. disk <= UsedBytes /\ UsedBytes <= MaxBytes
      BY DiskAtMostClaims DEF QuotaInv
    <2>2. UsedBytes \in Nat /\ MaxBytes \in Nat
      BY ClaimsFacts, UploadsAssumption DEF IInv
    <2>3. disk \in Nat
      <3> DEFINE bytes == [id \in Ids |-> dir[id].bytes]
      <3>1. \A id \in Ids : bytes[id] \in Nat
        BY DEF IInv, TypeOK, Directory
      <3> HIDE DEF bytes
      <3>2. SumFunctionOnSet(bytes, Ids) \in Nat
        BY <3>1, SumNat, UploadsAssumption
      <3> QED BY <3>2 DEF bytes
    <2> HIDE DEF disk
    <2>4. disk <= MaxBytes
      BY <2>1, <2>2, <2>3
    <2> QED BY <2>4 DEF DiskWithinQuota, disk
  <1> QED BY <1>1, <1>2, <1>3, Invariance, PTL DEF Spec
=============================================================================
