------------------------ MODULE FormResponses_proofs ------------------------
(***************************************************************************)
(* Proofs about FormResponses: its types, that a person has one response,  *)
(* that what was answered is stored, and that a promotion has one record.  *)
(***************************************************************************)
EXTENDS FormResponses, FiniteSetTheorems, TLAPS

USE FormAssumption

\* A response that counts, and the limit of one of them per person.
Counts(d, c) ==
  d.response[c] # Missing /\ d.response[c].status \notin {"withdrawn", "quarantined"}
OneCounts(d) ==
  \A b, c \in Ids :
    Counts(d, b) /\ Counts(d, c) /\ d.response[b].user = d.response[c].user => b = c

\* Nothing that d holds is missing in e.
Keeps(d, e) == \A c \in Ids : d.response[c] # Missing => e.response[c] # Missing

\* A draft is what its operation makes of the document it was read from, and
\* until another put succeeds that is the stored one.
Due(r) ==
  r.stage # "idle" =>
    /\ r.op \in Operation
    /\ r.draft \in Document
    /\ OneCounts(r.draft)
    /\ r.op.kind = "submit" => r.draft.response[r.op.id] # Missing
    /\ r.fresh => Keeps(blob, r.draft)
    /\ r.stage = "adapter" =>
         /\ r.op.kind = "promote"
         /\ Is(r.draft, r.op.id, "accepted")
         /\ r.copy \in Snapshot \cup {Missing}
DraftIsDue == \A i \in Instances : Due(run[i])

\* Every copy of the snapshot holds a record at most once.
CopyIsSound(r) ==
  r.stage = "adapter" /\ r.copy # Missing => \A c \in Ids : r.copy[c] <= 1
RecordedOnce ==
  /\ \A c \in Ids : platform[c] <= 1
  /\ \A i \in Instances : CopyIsSound(run[i])

\* A promotion that succeeded in d has its record.
RecordsOf(d) == \A c \in Ids : d.promotion[c] = "succeeded" => platform[c] = 1
SuccessIsRecorded ==
  ~overwritten =>
    /\ RecordsOf(blob)
    /\ \A i \in Instances : run[i].stage # "idle" => RecordsOf(run[i].draft)

FormIInv ==
  /\ FormTypeOK
  /\ OneCounts(blob)
  /\ AnsweredIsStored
  /\ DraftIsDue
  /\ RecordedOnce
  /\ SuccessIsRecorded

-----------------------------------------------------------------------------
(* Operations on a document *)

LEMMA OperationHasId ==
  ASSUME NEW op \in Operation
  PROVE  /\ op.id \in Ids
         /\ op.kind \in {"submit", "sync", "sync_late", "withdraw", "promote",
                         "under_review", "accepted", "rejected"}
         /\ op.kind \in {"submit", "sync", "sync_late", "withdraw"} =>
              op.user \in Respondents
BY DEF Operation

\* A response that did not count before may be the only one that does now.
LEMMA OneMore ==
  ASSUME NEW d \in Document, NEW e \in Document, NEW c \in Ids, OneCounts(d),
         \A b \in Ids \ {c} : e.response[b] = d.response[b],
         \A b \in Ids \ {c} : Counts(d, b) /\ Counts(e, c) =>
           d.response[b].user # e.response[c].user
  PROVE  OneCounts(e)
BY DEF OneCounts, Counts

\* Changing the status of a response that counts keeps the limit.
LEMMA AdvanceKeeps ==
  ASSUME NEW d \in Document, NEW c \in Ids, NEW status \in Statuses,
         OneCounts(d), Counts(d, c)
  PROVE  /\ Advance(d, c, status) \in Document
         /\ OneCounts(Advance(d, c, status))
         /\ Keeps(d, Advance(d, c, status))
         /\ Advance(d, c, status).promotion = d.promotion
<1> DEFINE e == Advance(d, c, status)
<1>1. d.response[c] \in ResponseRow
  BY DEF Document, Counts
<1>2. /\ e \in Document
      /\ e.promotion = d.promotion
      /\ \A b \in Ids \ {c} : e.response[b] = d.response[b]
      /\ e.response[c] \in ResponseRow
      /\ e.response[c].user = d.response[c].user
  BY <1>1 DEF Advance, Document, ResponseRow
<1> HIDE DEF e
<1>3. Keeps(d, e)
  BY <1>2 DEF Keeps
<1>4. OneCounts(e)
  BY <1>2, OneMore DEF OneCounts
<1> QED
  BY <1>2, <1>3, <1>4 DEF e

Added(d, c, u, status) == [d EXCEPT !.response[c] = NewResponse(u, status)]

\* A response is added for a person who has none, or into quarantine.
LEMMA AddKeeps ==
  ASSUME NEW d \in Document, NEW c \in Ids, NEW u \in Respondents,
         NEW status \in {"submitted", "quarantined"}, OneCounts(d),
         status = "quarantined" \/ ~HasResponded(d, u)
  PROVE  /\ Added(d, c, u, status) \in Document
         /\ OneCounts(Added(d, c, u, status))
         /\ Keeps(d, Added(d, c, u, status))
         /\ Added(d, c, u, status).response[c] # Missing
         /\ Added(d, c, u, status).promotion = d.promotion
<1> DEFINE e == Added(d, c, u, status)
<1>1. /\ NewResponse(u, status) \in ResponseRow
      /\ NewResponse(u, status).user = u
      /\ NewResponse(u, status).status = status
  BY DEF NewResponse, ResponseRow, Statuses
<1> HIDE DEF NewResponse
<1>2. /\ e \in Document
      /\ e.promotion = d.promotion
      /\ \A b \in Ids \ {c} : e.response[b] = d.response[b]
      /\ e.response[c] = NewResponse(u, status)
  BY <1>1 DEF Document, Added
<1> HIDE DEF e
<1>3. e.response[c] # Missing
  BY <1>1, <1>2
<1>4. Keeps(d, e)
  BY <1>2, <1>3 DEF Keeps
<1>5. OneCounts(e)
  <2>1. ASSUME NEW b \in Ids \ {c}, Counts(d, b), Counts(e, c)
        PROVE  d.response[b].user # e.response[c].user
    BY <1>1, <1>2, <2>1 DEF Counts, HasResponded, Occupies
  <2> QED
    BY <1>2, <2>1, OneMore
<1> QED
  BY <1>2, <1>3, <1>4, <1>5 DEF e

\* Every operation keeps the limit and what the document holds.
LEMMA AppliedKeeps ==
  ASSUME NEW d \in Document, NEW op \in Operation, OneCounts(d), Allowed(d, op)
  PROVE  /\ Applied(d, op) \in Document
         /\ OneCounts(Applied(d, op))
         /\ Keeps(d, Applied(d, op))
         /\ op.kind = "submit" => Applied(d, op).response[op.id] # Missing
         /\ op.kind = "promote" => Is(Applied(d, op), op.id, "accepted")
         /\ Applied(d, op).promotion = d.promotion
<1>1. Keeps(d, d)
  BY DEF Keeps
<1>2. CASE op.kind = "submit"
  <2>1. MaySubmit(d, op) /\ Applied(d, op) = Submitted(d, op)
    BY <1>2 DEF Allowed, Applied
  <2>2. CASE d.response[op.id] # Missing
    BY <1>1, <1>2, <2>1, <2>2 DEF Submitted
  <2>3. CASE d.response[op.id] = Missing
    <3>1. ~HasResponded(d, op.user)
      BY <2>1, <2>3 DEF MaySubmit
    <3>2. Applied(d, op) = Added(d, op.id, op.user, "submitted")
      BY <2>1, <2>3 DEF Submitted, Added
    <3>3. op.id \in Ids /\ op.user \in Respondents
      BY <1>2, OperationHasId
    <3> QED
      BY <1>2, <3>1, <3>2, <3>3, AddKeeps
  <2> QED
    BY <2>2, <2>3
<1>3. CASE op.kind \in {"sync", "sync_late"}
  <2>0. op.id \in Ids /\ op.user \in Respondents
    BY <1>3, OperationHasId
  <2>1. Applied(d, op) = Synced(d, op)
    BY <1>3 DEF Applied
  <2>2. CASE d.response[op.id] # Missing
    BY <1>1, <1>3, <2>1, <2>2 DEF Synced
  <2>3. CASE d.response[op.id] = Missing /\ op.kind = "sync" /\ MaySubmit(d, op)
    <3>1. ~HasResponded(d, op.user)
      BY <2>3 DEF MaySubmit
    <3>2. Applied(d, op) = Added(d, op.id, op.user, "submitted")
      BY <2>1, <2>3 DEF Synced, Added
    <3> QED
      BY <1>3, <2>0, <3>1, <3>2, AddKeeps
  <2>4. CASE d.response[op.id] = Missing /\ ~(op.kind = "sync" /\ MaySubmit(d, op))
    <3>1. Applied(d, op) = Added(d, op.id, op.user, "quarantined")
      BY <2>1, <2>4 DEF Synced, Added
    <3> QED
      BY <1>3, <2>0, <3>1, AddKeeps
  <2> QED
    BY <2>2, <2>3, <2>4
<1>4. CASE op.kind = "withdraw"
  <2>1. Applied(d, op) = Advance(d, op.id, "withdrawn")
    BY <1>4 DEF Applied
  <2>2. Counts(d, op.id)
    BY <1>4 DEF Allowed, MayWithdraw, Is, Counts
  <2> QED
    BY <1>4, <2>1, <2>2, OperationHasId, AdvanceKeeps DEF Statuses
<1>5. CASE op.kind = "promote"
  BY <1>1, <1>5 DEF Applied, Allowed, MayPromote
<1>6. CASE op.kind \in {"under_review", "accepted", "rejected"}
  <2>1. Applied(d, op) = Advance(d, op.id, op.kind)
    BY <1>6 DEF Applied
  <2>2. Counts(d, op.id)
    BY <1>6 DEF Allowed, MayReview, Is, Counts
  <2> QED
    BY <1>6, <2>1, <2>2, OperationHasId, AdvanceKeeps DEF Statuses
<1> QED
  BY <1>2, <1>3, <1>4, <1>5, <1>6, OperationHasId

LEMMA PromotionKeeps ==
  ASSUME NEW d \in Document, NEW c \in Ids, OneCounts(d), Is(d, c, "accepted"),
         NEW e \in {Promoted(d, c), PromotionFailed(d, c)}
  PROVE  /\ e \in Document
         /\ OneCounts(e)
         /\ Keeps(d, e)
         /\ \A b \in Ids \ {c} : e.promotion[b] = d.promotion[b]
<1>1. CASE e = Promoted(d, c)
  <2> DEFINE f == Advance(d, c, "promoted")
  <2>1. Counts(d, c)
    BY DEF Is, Counts
  <2>2. f \in Document /\ OneCounts(f) /\ Keeps(d, f) /\ f.promotion = d.promotion
    BY <2>1, AdvanceKeeps DEF Statuses
  <2>3. e = [f EXCEPT !.promotion[c] = "succeeded"]
    BY <1>1 DEF Promoted
  <2> HIDE DEF f
  <2>4. e \in Document /\ e.response = f.response
        /\ \A b \in Ids \ {c} : e.promotion[b] = f.promotion[b]
    BY <2>2, <2>3 DEF Document
  <2> QED
    BY <2>2, <2>4 DEF OneCounts, Counts, Keeps
<1>2. CASE e = PromotionFailed(d, c)
  <2>1. e \in Document /\ e.response = d.response
        /\ \A b \in Ids \ {c} : e.promotion[b] = d.promotion[b]
    BY <1>2 DEF PromotionFailed, Document
  <2> QED
    BY <2>1 DEF OneCounts, Counts, Keeps
<1> QED
  BY <1>1, <1>2

\* What the adapter writes contains the copy and the record, once each.
LEMMA RecordedIsSound ==
  ASSUME NEW copy \in Snapshot, NEW c \in Ids, \A b \in Ids : copy[b] <= 1
  PROVE  /\ Recorded(copy, c) \in Snapshot
         /\ \A b \in Ids : Recorded(copy, c)[b] <= 1
         /\ Recorded(copy, c)[c] = 1
         /\ \A b \in Ids : copy[b] = 1 => Recorded(copy, c)[b] = 1
BY DEF Recorded, Snapshot

LEMMA AttemptedIsDue ==
  ASSUME FormIInv, NEW op \in Operation, NEW n \in 1..Attempts
  PROVE  /\ Attempted(op, n) \in RunRow
         /\ Due(Attempted(op, n))
         /\ CopyIsSound(Attempted(op, n))
         /\ ~overwritten /\ Attempted(op, n).stage # "idle" =>
              RecordsOf(Attempted(op, n).draft)
<1> USE DEF FormIInv
<1>1. blob \in Document /\ platform \in Snapshot
  BY DEF FormTypeOK
<1>2. CASE ~Allowed(blob, op)
  BY <1>2 DEF Attempted, NoRun, RunRow, Due, CopyIsSound
<1>3. CASE Allowed(blob, op)
  <2> DEFINE d == Applied(blob, op)
  <2>1. /\ d \in Document
        /\ OneCounts(d)
        /\ Keeps(blob, d)
        /\ op.kind = "submit" => d.response[op.id] # Missing
        /\ op.kind = "promote" => Is(d, op.id, "accepted")
        /\ d.promotion = blob.promotion
    BY <1>1, <1>3, AppliedKeeps
  <2>2. Attempted(op, n) =
          [stage |-> IF op.kind = "promote" THEN "adapter" ELSE "put",
           op |-> op, draft |-> d, fresh |-> TRUE, attempt |-> n,
           copy |-> Missing]
    BY <1>3 DEF Attempted
  <2> HIDE DEF d
  <2>3. Attempted(op, n) \in RunRow
    BY <1>1, <2>1, <2>2 DEF RunRow
  <2>4. Due(Attempted(op, n))
    BY <1>1, <2>1, <2>2 DEF Due
  <2>5. CopyIsSound(Attempted(op, n))
    BY <2>2 DEF CopyIsSound, RecordedOnce
  <2>6. ~overwritten => RecordsOf(d)
    BY <2>1 DEF SuccessIsRecorded, RecordsOf
  <2> QED
    BY <2>2, <2>3, <2>4, <2>5, <2>6
<1> QED
  BY <1>2, <1>3

-----------------------------------------------------------------------------
(* The invariant, action by action *)

LEMMA FormInitIInv == FormInit => FormIInv
<1> SUFFICES ASSUME FormInit PROVE FormIInv
  OBVIOUS
<1>1. FormTypeOK
  <2>1. blob \in Document
    BY DEF FormInit, Document
  <2>2. platform \in Snapshot
    BY DEF FormInit, Snapshot
  <2>3. NoRun \in RunRow
    BY DEF NoRun, RunRow
  <2> QED
    BY <2>1, <2>2, <2>3 DEF FormInit, FormTypeOK
<1>2. OneCounts(blob) /\ AnsweredIsStored
  BY DEF FormInit, OneCounts, Counts, AnsweredIsStored
<1>3. DraftIsDue /\ RecordedOnce
  BY DEF FormInit, DraftIsDue, Due, RecordedOnce, CopyIsSound, NoRun
<1>4. SuccessIsRecorded
  BY DEF FormInit, SuccessIsRecorded, RecordsOf, NoRun
<1> QED
  BY <1>1, <1>2, <1>3, <1>4 DEF FormIInv

\* A step that changes nothing but the run of one instance.
LEMMA RunStep ==
  ASSUME FormIInv, NEW i \in Instances, NEW r \in RunRow,
         run' = [run EXCEPT ![i] = r],
         UNCHANGED <<blob, platform, answered, overwritten>>,
         Due(r), CopyIsSound(r),
         ~overwritten /\ r.stage # "idle" => RecordsOf(r.draft)
  PROVE  FormIInv'
<1> USE DEF FormIInv
<1>1. FormTypeOK'
  BY DEF FormTypeOK
<1>2. \A j \in Instances : run'[j] = IF j = i THEN r ELSE run[j]
  BY DEF FormTypeOK
<1>3. OneCounts(blob)' /\ AnsweredIsStored'
  BY DEF OneCounts, Counts, AnsweredIsStored
<1>4. DraftIsDue'
  BY <1>2 DEF DraftIsDue, Due
<1>5. RecordedOnce'
  BY <1>2 DEF RecordedOnce, CopyIsSound
<1>6. SuccessIsRecorded'
  BY <1>2 DEF SuccessIsRecorded, RecordsOf
<1> QED
  BY <1>1, <1>3, <1>4, <1>5, <1>6

LEMMA TryStep ==
  ASSUME FormIInv, NEW i \in Instances,
         \/ \E op \in Operation : Begin(i, op)
         \/ PutLost(i)
         \/ Conflict(i)
  PROVE  FormIInv'
<1>1. NoRun \in RunRow /\ NoRun.stage = "idle"
  BY DEF NoRun, RunRow
<1>2. CASE run' = [run EXCEPT ![i] = NoRun]
           /\ UNCHANGED <<blob, platform, answered, overwritten>>
  BY <1>1, <1>2, RunStep DEF Due, CopyIsSound
<1>3. ASSUME NEW op \in Operation, NEW n \in 1..Attempts,
             run' = [run EXCEPT ![i] = Attempted(op, n)],
             UNCHANGED <<blob, platform, answered, overwritten>>
      PROVE  FormIInv'
  BY <1>3, AttemptedIsDue, RunStep
<1>4. ASSUME NEW op \in Operation, Begin(i, op)
      PROVE  FormIInv'
  <2>1. 1 \in 1..Attempts
    OBVIOUS
  <2> QED
    BY <1>3, <1>4, <2>1 DEF Begin
<1>5. CASE PutLost(i)
  BY <1>2, <1>5 DEF PutLost
<1>6. CASE Conflict(i)
  <2>1. run[i].op \in Operation
    BY <1>6 DEF Conflict, FormIInv, DraftIsDue, Due
  <2>2. run[i].attempt \in 0..Attempts
    BY DEF FormIInv, FormTypeOK, RunRow
  <2>3. CASE AttemptsLeft(i)
    <3>1. run[i].attempt + 1 \in 1..Attempts
      BY <2>2, <2>3, FormAssumption DEF AttemptsLeft
    <3>2. run' = [run EXCEPT ![i] = Attempted(run[i].op, run[i].attempt + 1)]
      BY <1>6, <2>3 DEF Conflict
    <3> QED
      BY <1>3, <1>6, <2>1, <3>1, <3>2 DEF Conflict
  <2>4. CASE ~AttemptsLeft(i)
    BY <1>2, <1>6, <2>4 DEF Conflict
  <2> QED
    BY <2>3, <2>4
<1> QED
  BY <1>4, <1>5, <1>6

LEMMA AdapterReadStep ==
  ASSUME FormIInv, NEW i \in Instances, AdapterReads(i)
  PROVE  FormIInv'
<1> DEFINE r == [run[i] EXCEPT !.copy = platform]
<1> USE DEF FormIInv
<1>1. /\ run[i] \in RunRow /\ run[i].stage = "adapter"
      /\ platform \in Snapshot /\ \A c \in Ids : platform[c] <= 1
      /\ Due(run[i])
  BY DEF AdapterReads, FormTypeOK, RecordedOnce, DraftIsDue
<1>2. /\ r \in RunRow
      /\ r.stage = "adapter" /\ r.op = run[i].op /\ r.draft = run[i].draft
      /\ r.fresh = run[i].fresh /\ r.copy = platform
  BY <1>1 DEF RunRow
<1>3. run' = [run EXCEPT ![i] = r]
  BY DEF AdapterReads
<1>4. ~overwritten => RecordsOf(run[i].draft)
  BY <1>1 DEF SuccessIsRecorded
<1> HIDE DEF r
<1>5. Due(r) /\ CopyIsSound(r)
  BY <1>1, <1>2 DEF Due, CopyIsSound
<1> QED
  BY <1>2, <1>3, <1>4, <1>5, RunStep DEF AdapterReads

LEMMA AdapterStep ==
  ASSUME FormIInv, NEW i \in Instances, AdapterWrites(i) \/ AdapterFails(i)
  PROVE  FormIInv'
<1> DEFINE c == run[i].op.id
<1> DEFINE d == run[i].draft
<1> USE DEF FormIInv
<1>1. /\ run[i] \in RunRow
      /\ run[i].stage = "adapter"
      /\ run[i].op \in Operation
      /\ run[i].copy # Missing =>
           /\ run[i].copy \in Snapshot
           /\ \A b \in Ids : run[i].copy[b] <= 1
      /\ d \in Document
      /\ c \in Ids
      /\ Due(run[i])
      /\ OneCounts(d)
      /\ Is(d, c, "accepted")
  BY OperationHasId DEF AdapterWrites, AdapterFails, DraftIsDue, Due,
     RecordedOnce, CopyIsSound, FormTypeOK
<1>2. PICK e \in {Promoted(d, c), PromotionFailed(d, c)} :
        /\ run' = [run EXCEPT ![i] =
             [run[i] EXCEPT !.stage = "put", !.copy = Missing, !.draft = e]]
        /\ \/ UNCHANGED <<platform, overwritten>> /\ e = PromotionFailed(d, c)
           \/ /\ run[i].copy # Missing
              /\ platform' = Recorded(run[i].copy, c)
              /\ overwritten' = (overwritten \/ platform # run[i].copy)
        /\ UNCHANGED <<blob, answered>>
  BY DEF AdapterWrites, AdapterFails
<1> DEFINE r == [run[i] EXCEPT !.stage = "put", !.copy = Missing, !.draft = e]
<1>3. /\ e \in Document
      /\ OneCounts(e)
      /\ Keeps(d, e)
      /\ \A b \in Ids \ {c} : e.promotion[b] = d.promotion[b]
  BY <1>1, PromotionKeeps
<1>4. /\ r \in RunRow
      /\ r.stage = "put" /\ r.op = run[i].op /\ r.draft = e
      /\ r.fresh = run[i].fresh
  BY <1>1, <1>3 DEF RunRow
<1>5. run' = [run EXCEPT ![i] = r]
  BY <1>2
<1> HIDE DEF c, d, r
<1>6. Due(r) /\ CopyIsSound(r)
  <2>1. run[i].op.kind = "submit" => e.response[run[i].op.id] # Missing
    BY <1>1 DEF Due
  <2>2. run[i].fresh => Keeps(blob, e)
    BY <1>1, <1>3 DEF Due, Keeps, d
  <2> QED
    BY <1>1, <1>3, <1>4, <2>1, <2>2 DEF Due, CopyIsSound
<1>7. ~overwritten => RecordsOf(d)
  BY <1>1 DEF SuccessIsRecorded, d
<1>8. CASE UNCHANGED <<platform, overwritten>> /\ e = PromotionFailed(d, c)
  <2>1. e.promotion[c] = "failed"
    BY <1>1, <1>8 DEF PromotionFailed, Document
  <2>2. ~overwritten => RecordsOf(e)
    BY <1>3, <1>7, <2>1 DEF RecordsOf
  <2> QED
    BY <1>2, <1>4, <1>5, <1>6, <1>8, <2>2, RunStep
<1>9. CASE run[i].copy # Missing
           /\ platform' = Recorded(run[i].copy, c)
           /\ overwritten' = (overwritten \/ platform # run[i].copy)
  <2>1. /\ platform' \in Snapshot
        /\ \A b \in Ids : platform'[b] <= 1
        /\ platform'[c] = 1
        /\ \A b \in Ids : run[i].copy[b] = 1 => platform'[b] = 1
    BY <1>1, <1>9, RecordedIsSound
  <2>2. \A j \in Instances : run'[j] = IF j = i THEN r ELSE run[j]
    BY <1>5 DEF FormTypeOK
  <2>3. FormTypeOK'
    BY <1>2, <1>4, <1>5, <1>9, <2>1 DEF FormTypeOK
  <2>4. OneCounts(blob)' /\ AnsweredIsStored'
    BY <1>2 DEF OneCounts, Counts, AnsweredIsStored
  <2>5. DraftIsDue'
    BY <1>2, <1>6, <2>2 DEF DraftIsDue, Due
  <2>6. RecordedOnce'
    BY <1>6, <2>1, <2>2 DEF RecordedOnce, CopyIsSound
  <2>7. SuccessIsRecorded'
    <3> SUFFICES ASSUME ~overwritten' PROVE SuccessIsRecorded'
      BY DEF SuccessIsRecorded
    <3>1. ~overwritten /\ \A b \in Ids : platform[b] = 1 => platform'[b] = 1
      BY <1>9, <2>1
    <3>2. \A b \in Ids : e.promotion[b] = "succeeded" => platform'[b] = 1
      BY <1>3, <1>7, <2>1, <3>1 DEF RecordsOf
    <3> QED
      BY <1>2, <1>4, <2>2, <3>1, <3>2 DEF SuccessIsRecorded, RecordsOf
  <2> QED
    BY <2>3, <2>4, <2>5, <2>6, <2>7
<1> QED
  BY <1>2, <1>8, <1>9 DEF c, d

LEMMA FormCommitStep ==
  ASSUME FormIInv, NEW i \in Instances, Commit(i) \/ CommitUnheard(i)
  PROVE  FormIInv'
<1> DEFINE d == run[i].draft
<1> USE DEF FormIInv
<1>1. /\ run[i].stage = "put" /\ run[i].fresh
      /\ blob' = d
      /\ run' = [j \in Instances |->
           IF j = i THEN NoRun ELSE [run[j] EXCEPT !.fresh = FALSE]]
      /\ answered \subseteq answered'
      /\ \A c \in answered' \ answered : c = run[i].op.id /\ run[i].op.kind = "submit"
      /\ UNCHANGED <<platform, overwritten>>
  BY DEF Commit, CommitUnheard, PutMatches, Stored
<1>2. /\ run[i].op \in Operation
      /\ d \in Document
      /\ OneCounts(d)
      /\ Keeps(blob, d)
      /\ run[i].op.kind = "submit" => d.response[run[i].op.id] # Missing
      /\ run[i].op.id \in Ids
  BY <1>1, OperationHasId DEF DraftIsDue, Due
<1>3. NoRun \in RunRow /\ NoRun.stage = "idle"
  BY DEF NoRun, RunRow
<1>4. ASSUME NEW j \in Instances, j # i
      PROVE  /\ run'[j] \in RunRow
             /\ run'[j].stage = run[j].stage
             /\ run'[j].op = run[j].op
             /\ run'[j].draft = run[j].draft
             /\ run'[j].copy = run[j].copy
             /\ ~run'[j].fresh
  <2>1. run[j] \in RunRow
    BY DEF FormTypeOK
  <2>2. run'[j] = [run[j] EXCEPT !.fresh = FALSE]
    BY <1>1, <1>4
  <2> QED
    BY <2>1, <2>2 DEF RunRow
<1>5. run'[i] = NoRun
  BY <1>1
<1> HIDE DEF d
<1>6. FormTypeOK'
  <2>1. answered' \subseteq Ids
    BY <1>1, <1>2 DEF FormTypeOK
  <2>2. run' \in [Instances -> RunRow]
    BY <1>1, <1>3, <1>4, <1>5
  <2> QED
    BY <1>1, <1>2, <2>1, <2>2 DEF FormTypeOK
<1>7. OneCounts(blob)'
  BY <1>1, <1>2 DEF OneCounts, Counts
<1>8. AnsweredIsStored'
  BY <1>1, <1>2 DEF AnsweredIsStored, Keeps, FormTypeOK
<1>9. DraftIsDue'
  BY <1>3, <1>4, <1>5 DEF DraftIsDue, Due
<1>10. RecordedOnce'
  BY <1>1, <1>3, <1>4, <1>5 DEF RecordedOnce, CopyIsSound
<1>11. SuccessIsRecorded'
  BY <1>1, <1>3, <1>4, <1>5 DEF SuccessIsRecorded, RecordsOf, d
<1> QED
  BY <1>6, <1>7, <1>8, <1>9, <1>10, <1>11

-----------------------------------------------------------------------------
(* Theorems *)

\* The inductive invariant of FormResponses holds in every state.
THEOREM FormIInvHolds == FormSpec => []FormIInv
<1>1. FormIInv /\ [FormNext]_formVars => FormIInv'
  <2> SUFFICES ASSUME FormIInv, [FormNext]_formVars PROVE FormIInv'
    OBVIOUS
  <2>1. ASSUME NEW i \in Instances,
               \/ \E op \in Operation : Begin(i, op)
               \/ PutLost(i)
               \/ Conflict(i)
        PROVE  FormIInv'
    BY <2>1, TryStep
  <2>2. ASSUME NEW i \in Instances,
               AdapterReads(i) \/ AdapterWrites(i) \/ AdapterFails(i)
        PROVE  FormIInv'
    BY <2>2, AdapterReadStep, AdapterStep
  <2>3. ASSUME NEW i \in Instances, Commit(i) \/ CommitUnheard(i)
        PROVE  FormIInv'
    BY <2>3, FormCommitStep
  <2>4. CASE UNCHANGED formVars
    BY <2>4 DEF formVars, FormIInv, FormTypeOK, OneCounts, Counts,
       AnsweredIsStored, DraftIsDue, Due, RecordedOnce, CopyIsSound,
       SuccessIsRecorded, RecordsOf
  <2> QED
    BY <2>1, <2>2, <2>3, <2>4 DEF FormNext
<1> QED
  BY <1>1, FormInitIInv, PTL DEF FormSpec

\* Documents, copies and runs keep their types.
THEOREM FormTypes == FormSpec => []FormTypeOK
BY FormIInvHolds, PTL DEF FormIInv

\* A person never has two responses that count.
THEOREM OneResponsePerPerson == FormSpec => []OneResponseEach
<1>1. ASSUME FormIInv, NEW u \in Respondents
      PROVE  Cardinality({c \in Ids :
               /\ blob.response[c] # Missing
               /\ blob.response[c].user = u
               /\ blob.response[c].status \notin {"withdrawn", "quarantined"}}) <= 1
  <2> DEFINE S == {c \in Ids :
                     /\ blob.response[c] # Missing
                     /\ blob.response[c].user = u
                     /\ blob.response[c].status \notin {"withdrawn", "quarantined"}}
  <2>1. \A b, c \in S : b = c
    BY <1>1 DEF FormIInv, OneCounts, Counts
  <2> HIDE DEF S
  <2>2. CASE S = {}
    BY <2>2, FS_EmptySet DEF S
  <2>3. ASSUME NEW c \in S
        PROVE  Cardinality(S) = 1
    BY <2>1, <2>3, S = {c}, FS_Singleton
  <2>4. Cardinality(S) <= 1
    BY <2>2, <2>3, FS_EmptySet
  <2> QED
    BY <2>4 DEF S
<1>2. FormIInv => OneResponseEach
  BY <1>1 DEF OneResponseEach
<1> QED
  BY <1>2, FormIInvHolds, PTL

\* What a respondent was told is submitted stays stored.
THEOREM AnswersStay == FormSpec => []AnsweredIsStored
BY FormIInvHolds, PTL DEF FormIInv

\* A promotion has one record at most, and one if it succeeded and no stale
\* copy was written over the snapshot.
THEOREM PromotedOnce == FormSpec => []PromotionHasOneRecord
<1>1. FormIInv => PromotionHasOneRecord
  BY DEF FormIInv, RecordedOnce, SuccessIsRecorded, RecordsOf, PromotionHasOneRecord
<1> QED
  BY <1>1, FormIInvHolds, PTL
=============================================================================
