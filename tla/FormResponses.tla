--------------------------- MODULE FormResponses ---------------------------
(***************************************************************************)
(* Responses to one publication of Nile Forms that allows one response per *)
(* person: the operations of nileFormsService.ts on them, run by the blob  *)
(* repository (a transaction reads the whole document, works on a copy and *)
(* puts it back on condition that nobody else did), and the promotion of a *)
(* response, which in the middle of its transaction reads and overwrites   *)
(* the platform snapshot, where no such condition guards the write.        *)
(*                                                                         *)
(* An instance of the server runs one transaction at a time; instances     *)
(* overlap.  A response is found by the id its client gave it.             *)
(***************************************************************************)
EXTENDS Naturals, FiniteSets

CONSTANTS
  Respondents,
  Ids,        \* client submission ids
  Instances,  \* instances of the server
  Attempts,   \* MAX_COMMIT_ATTEMPTS
  Missing     \* no response, no user

VARIABLES
  blob,       \* the document as it is stored
  platform,   \* per response, its records in the platform snapshot
  run,        \* the transaction of an instance
  answered,   \* responses whose respondent was told they are submitted
  overwritten \* a copy of the snapshot replaced a snapshot newer than it

formVars == <<blob, platform, run, answered, overwritten>>

Statuses ==
  {"submitted", "under_review", "accepted", "rejected", "withdrawn",
   "quarantined", "promoted"}
ResponseRow == [user : Respondents, status : Statuses]
ASSUME FormAssumption ==
  /\ Attempts \in Nat \ {0}
  /\ Missing \notin ResponseRow \cup [Ids -> Nat]

Document ==
  [response : [Ids -> ResponseRow \cup {Missing}],
   promotion : [Ids -> {"none", "failed", "succeeded"}]]
Snapshot == [Ids -> Nat]
Operation ==
  [kind : {"submit", "sync", "sync_late", "withdraw"}, id : Ids, user : Respondents]
    \cup [kind : {"promote"}, id : Ids]
    \cup [kind : {"under_review", "accepted", "rejected"}, id : Ids]
RunRow ==
  [stage : {"idle", "put", "adapter"}, op : Operation \cup {Missing},
   draft : Document \cup {Missing}, fresh : BOOLEAN, attempt : 0..Attempts,
   copy : Snapshot \cup {Missing}]
NoRun ==
  [stage |-> "idle", op |-> Missing, draft |-> Missing, fresh |-> FALSE,
   attempt |-> 0, copy |-> Missing]

FormTypeOK ==
  /\ blob \in Document
  /\ platform \in Snapshot
  /\ run \in [Instances -> RunRow]
  /\ answered \in SUBSET Ids
  /\ overwritten \in BOOLEAN

FormInit ==
  /\ blob = [response |-> [c \in Ids |-> Missing],
             promotion |-> [c \in Ids |-> "none"]]
  /\ platform = [c \in Ids |-> 0]
  /\ run = [i \in Instances |-> NoRun]
  /\ answered = {}
  /\ overwritten = FALSE

-----------------------------------------------------------------------------
(* What an operation makes of a document *)

\* Variant with a bug: only a response nobody has reviewed yet counts.
OccupiesUntilReview(row) == row.status = "submitted"
Occupies(row) == row.status # "withdrawn"

HasResponded(d, u) ==
  \E c \in Ids :
    d.response[c] # Missing /\ d.response[c].user = u /\ Occupies(d.response[c])

NewResponse(u, status) == [user |-> u, status |-> status]
Advance(d, c, status) == [d EXCEPT !.response[c].status = status]

\* A response with the id is replayed to the same respondent and refused to
\* another one.  That the publication is open and assigned to him is checked
\* in the same transaction and only narrows what may happen.
MaySubmit(d, op) ==
  IF d.response[op.id] # Missing
    THEN d.response[op.id].user = op.user
    ELSE ~HasResponded(d, op.user)
Submitted(d, op) ==
  IF d.response[op.id] # Missing
    THEN d
    ELSE [d EXCEPT !.response[op.id] = NewResponse(op.user, "submitted")]

\* A batch from an offline device is never refused for its items: what may
\* not be submitted any more is kept in quarantine, as is what comes late: the
\* version, the assignment or the respondent has changed.
Synced(d, op) ==
  IF d.response[op.id] # Missing
    THEN d
    ELSE [d EXCEPT !.response[op.id] = NewResponse(op.user,
            IF op.kind = "sync" /\ MaySubmit(d, op)
              THEN "submitted" ELSE "quarantined")]

Is(d, c, status) ==
  d.response[c] # Missing /\ d.response[c].status = status
MayWithdraw(d, op) ==
  Is(d, op.id, "submitted") /\ d.response[op.id].user = op.user
MayReview(d, op) ==
  Is(d, op.id, IF op.kind = "under_review" THEN "submitted" ELSE "under_review")
MayPromote(d, op) == Is(d, op.id, "accepted")

Promoted(d, c) ==
  [Advance(d, c, "promoted") EXCEPT !.promotion[c] = "succeeded"]
PromotionFailed(d, c) == [d EXCEPT !.promotion[c] = "failed"]

Allowed(d, op) ==
  CASE op.kind = "submit" -> MaySubmit(d, op)
    [] op.kind \in {"sync", "sync_late"} -> TRUE
    [] op.kind = "withdraw" -> MayWithdraw(d, op)
    [] op.kind = "promote" -> MayPromote(d, op)
    [] OTHER -> MayReview(d, op)
Applied(d, op) ==
  CASE op.kind = "submit" -> Submitted(d, op)
    [] op.kind \in {"sync", "sync_late"} -> Synced(d, op)
    [] op.kind = "withdraw" -> Advance(d, op.id, "withdrawn")
    [] op.kind = "promote" -> d
    [] OTHER -> Advance(d, op.id, op.kind)

-----------------------------------------------------------------------------
(* Transactions *)

\* The operation runs on a copy of the document it read.  Refusals are
\* thrown without a put; a promotion first calls its adapter.
Attempted(op, n) ==
  IF ~Allowed(blob, op)
    THEN NoRun
    ELSE [stage |-> IF op.kind = "promote" THEN "adapter" ELSE "put",
          op |-> op, draft |-> Applied(blob, op), fresh |-> TRUE,
          attempt |-> n, copy |-> Missing]

Begin(i, op) ==
  /\ run[i].stage = "idle"
  /\ Allowed(blob, op)
  /\ run' = [run EXCEPT ![i] = Attempted(op, 1)]
  /\ UNCHANGED <<blob, platform, answered, overwritten>>

\* Variant with a bug: the record is made without looking for its source key.
RecordedAgain(copy, c) == [copy EXCEPT ![c] = @ + 1]
Recorded(copy, c) == [copy EXCEPT ![c] = IF @ = 0 THEN 1 ELSE @]

\* applyPlatformWorkflowAction or applyInternalCompatibilityCommand reads the
\* snapshot, later than the document was read.
AdapterReads(i) ==
  /\ run[i].stage = "adapter"
  /\ run[i].copy = Missing
  /\ run' = [run EXCEPT ![i].copy = platform]
  /\ UNCHANGED <<blob, platform, answered, overwritten>>

\* The record is added to the copy, unless one has its source key, and the
\* copy is written over the snapshot.
AdapterWrites(i) ==
  LET c == run[i].op.id IN
  /\ run[i].stage = "adapter"
  /\ run[i].copy # Missing
  /\ platform' = Recorded(run[i].copy, c)
  /\ overwritten' = (overwritten \/ platform # run[i].copy)
  /\ run' = [run EXCEPT ![i].stage = "put", ![i].copy = Missing,
                        ![i].draft = Promoted(@, c)]
  /\ UNCHANGED <<blob, answered>>

\* The adapter fails, before the write or after it.
AdapterFails(i) ==
  LET c == run[i].op.id IN
  /\ run[i].stage = "adapter"
  /\ \/ UNCHANGED <<platform, overwritten>>
     \/ /\ run[i].copy # Missing
        /\ platform' = Recorded(run[i].copy, c)
        /\ overwritten' = (overwritten \/ platform # run[i].copy)
  /\ run' = [run EXCEPT ![i].stage = "put", ![i].copy = Missing,
                        ![i].draft = PromotionFailed(@, c)]
  /\ UNCHANGED <<blob, answered>>

\* Variant with a bug: the put has no condition.
PutAlways(i) == TRUE
PutMatches(i) == run[i].fresh

\* Whatever another instance has read is not what is stored any more.
Stored(i, next) ==
  /\ blob' = run[i].draft
  /\ run' = [j \in Instances |->
       IF j = i THEN next ELSE [run[j] EXCEPT !.fresh = FALSE]]

Commit(i) ==
  /\ run[i].stage = "put"
  /\ PutMatches(i)
  /\ Stored(i, NoRun)
  /\ answered' = IF run[i].op.kind = "submit" THEN answered \cup {run[i].op.id}
                                              ELSE answered
  /\ UNCHANGED <<platform, overwritten>>

\* The put arrives and its answer does not: the caller gets an error.
CommitUnheard(i) ==
  /\ run[i].stage = "put"
  /\ PutMatches(i)
  /\ Stored(i, NoRun)
  /\ UNCHANGED <<platform, answered, overwritten>>

\* The put is lost, or the instance dies.
PutLost(i) ==
  /\ run[i].stage \in {"put", "adapter"}
  /\ run' = [run EXCEPT ![i] = NoRun]
  /\ UNCHANGED <<blob, platform, answered, overwritten>>

\* Variant with a bug: one attempt more than the limit.
AttemptsLeftAndOne(i) == run[i].attempt <= Attempts
AttemptsLeft(i) == run[i].attempt < Attempts

\* The put conflicts with one that came before it, or with one under way even
\* if that one is then refused: the operation runs again on what is stored
\* now, or the transaction gives up.
Conflict(i) ==
  /\ run[i].stage = "put"
  /\ \/ ~run[i].fresh
     \/ \E j \in Instances \ {i} : run[j].stage = "put"
  /\ run' = [run EXCEPT
       ![i] = IF AttemptsLeft(i)
                THEN Attempted(run[i].op, run[i].attempt + 1)
                ELSE NoRun]
  /\ UNCHANGED <<blob, platform, answered, overwritten>>

FormNext ==
  \E i \in Instances :
    \/ \E op \in Operation : Begin(i, op)
    \/ AdapterReads(i)
    \/ AdapterWrites(i)
    \/ AdapterFails(i)
    \/ Commit(i)
    \/ CommitUnheard(i)
    \/ PutLost(i)
    \/ Conflict(i)

FormSpec == FormInit /\ [][FormNext]_formVars

-----------------------------------------------------------------------------
(* Safety *)

\* A person has at most one response that is neither withdrawn nor in
\* quarantine, however many instances take his responses at the same time,
\* from the web or from a device that was offline.
OneResponseEach ==
  \A u \in Respondents :
    Cardinality({c \in Ids :
      /\ blob.response[c] # Missing
      /\ blob.response[c].user = u
      /\ blob.response[c].status \notin {"withdrawn", "quarantined"}}) <= 1

\* A response whose web submission was answered with success is stored, and
\* no transaction that read the document before it takes it away.
AnsweredIsStored == \A c \in answered : blob.response[c] # Missing

\* A promotion has at most one record in the platform snapshot although its
\* adapter may run once per attempt and on several instances, and a promotion
\* that succeeded has one unless a stale copy was written over the snapshot.
PromotionHasOneRecord ==
  \A c \in Ids :
    /\ platform[c] <= 1
    /\ blob.promotion[c] = "succeeded" /\ ~overwritten => platform[c] = 1
=============================================================================
