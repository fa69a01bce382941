---------------------- MODULE MoodleCommandStore_proofs ----------------------
(***************************************************************************)
(* Theorems about MoodleCommandStore, for every number of keys, sessions,  *)
(* workers and attempts.                                                   *)
(***************************************************************************)
EXTENDS MoodleCommandStore, FiniteSetTheorems, TLAPS

\* The statuses the functions compute are statuses the columns admit.
LEMMA StatusRange ==
  /\ \A o \in Outcomes : Settled(o) \in Statuses
  /\ \A r \in Resolutions : Resolved(r) \in Statuses
  /\ \A st \in Statuses : OutboxFor(st) \in OutboxStatuses
BY DEF Outcomes, Resolutions, Statuses, OutboxStatuses, Settled, Resolved,
       OutboxFor

\* Every column keeps its type under every function of the store.
LEMMA StoreTypeStep ==
  ASSUME StoreTypeOK, [StoreNext]_storeVars
  PROVE  StoreTypeOK'
<1>1. ASSUME NEW k \in Keys, NEW s \in Sessions, NEW h \in Hashes,
             Enqueue(k, s, h)
      PROVE  StoreTypeOK'
  BY <1>1
  DEF StoreTypeOK, Enqueue, Receipt, OwnerRow, Statuses, OutboxStatuses
<1>2. ASSUME NEW k \in Keys, NEW s \in Sessions, NEW h \in Hashes,
             Replay(k, s, h)
      PROVE  StoreTypeOK'
  BY <1>2 DEF StoreTypeOK, Replay, Receipt
<1>3. ASSUME NEW k \in Keys, NEW w \in Workers, Claim(k, w)
      PROVE  StoreTypeOK'
  <2>1. attemptCount[k] + 1 \in 0..MaxAttempts
    BY <1>3, StoreAssumption DEF StoreTypeOK, Claim
  <2> QED
    BY <1>3, <2>1 DEF StoreTypeOK, Claim, Statuses, OutboxStatuses, Leases
<1>4. ASSUME NEW k \in Keys, NEW w \in Workers, NEW n \in 1..MaxAttempts,
             NEW o \in Outcomes, NEW hashed \in BOOLEAN,
             NEW coded \in BOOLEAN, Complete(k, w, n, o, hashed, coded)
      PROVE  StoreTypeOK'
  <2>1. Settled(o) \in Statuses /\ OutboxFor(Settled(o)) \in OutboxStatuses
    BY StatusRange
  <2>2. cases' \subseteq CaseRow
    BY <1>4 DEF StoreTypeOK, Complete, CasesAfter, CaseRow
  <2>3. attempts' \subseteq AttemptRow
    BY <1>4 DEF StoreTypeOK, Complete, AttemptRow
  <2> QED
    BY <1>4, <2>1, <2>2, <2>3 DEF StoreTypeOK, Complete, Leases
<1>5. ASSUME NEW k \in Keys, NEW r \in Resolutions, Reconcile(k, r)
      PROVE  StoreTypeOK'
  <2>1. Resolved(r) \in Statuses /\ OutboxFor(Resolved(r)) \in OutboxStatuses
    BY StatusRange
  <2>2. cases' \subseteq CaseRow
    BY <1>5 DEF StoreTypeOK, Reconcile, OpenCases, CaseRow
  <2> QED
    BY <1>5, <2>1, <2>2 DEF StoreTypeOK, Reconcile
<1>6. ASSUME NEW k \in Keys, LeaseExpires(k)
      PROVE  StoreTypeOK'
  BY <1>6 DEF StoreTypeOK, LeaseExpires, Leases
<1>7. ASSUME NEW s \in Sessions, ChangeAuthority(s)
      PROVE  StoreTypeOK'
  BY <1>7 DEF StoreTypeOK, ChangeAuthority
<1>8. CASE UNCHANGED storeVars
  BY <1>8 DEF StoreTypeOK, storeVars
<1> QED
  BY <1>1, <1>2, <1>3, <1>4, <1>5, <1>6, <1>7, <1>8 DEF StoreNext, Create

\* At all times every column has its type.
THEOREM StoreTypeCorrect == StoreSpec => []StoreTypeOK
<1>1. StoreInit => StoreTypeOK
  BY StoreAssumption DEF StoreInit, StoreTypeOK, Statuses, Leases, OutboxStatuses
<1> QED
  BY <1>1, StoreTypeStep, PTL DEF StoreSpec

-----------------------------------------------------------------------------
(* The inductive invariant: what ties the five tables together. *)

\* Exactly a command in progress is leased.
LeasedIsProcessing ==
  \A k \in Keys : status[k] = "processing" <=> lease[k] # "none"

\* A command that was never stored was never claimed.
AbsentIsUnclaimed ==
  \A k \in Keys : status[k] = "absent" => attemptCount[k] = 0

\* A row answers a claim that was made, and the claim in progress has none.
RowsAnswerClaims ==
  \A a \in attempts :
    /\ a.n <= attemptCount[a.key]
    /\ status[a.key] = "processing" => a.n # attemptCount[a.key]

\* An open case is about the last claim of a command under review.
OpenIsCurrent ==
  \A c \in cases :
    c.state = "open" => /\ status[c.key] = "reconciliation_required"
                        /\ c.attempt = attemptCount[c.key]

\* An unknown answer is still the last word about its command, or was
\* reconciled as "not applied".
UnknownIsSettled ==
  \A a \in attempts :
    a.outcome = "unknown" =>
      \/ /\ a.n = attemptCount[a.key]
         /\ status[a.key] \in {"reconciliation_required", "applied",
                               "cancelled"}
      \/ \E c \in cases : /\ c.key = a.key
                          /\ c.attempt = a.n
                          /\ c.state = "confirmed_not_applied"

\* A receipt tells what is stored.
ReceiptsAreTrue ==
  \A r \in receipts :
    Exists(r.key) /\ owner[r.key] = [session |-> r.session, hash |-> r.hash]

StoreInv ==
  /\ StoreTypeOK
  /\ LeasedIsProcessing
  /\ AbsentIsUnclaimed
  /\ RowsAnswerClaims
  /\ OpenIsCurrent
  /\ UnknownIsSettled
  /\ VerdictFromLastAttempt
  /\ AppliedEndsTheCommand
  /\ OutboxAgrees
  /\ ReceiptsAreTrue

\* Everything the invariant relates, opened at once.
LEMMA StoreInvInit == StoreInit => StoreInv
  BY StoreAssumption
  DEF StoreInit, StoreInv, StoreTypeOK, Statuses, Leases, OutboxStatuses,
      LeasedIsProcessing, AbsentIsUnclaimed, RowsAnswerClaims, OpenIsCurrent,
      UnknownIsSettled, VerdictFromLastAttempt, VerdictIsGrounded,
      AppliedEndsTheCommand, OutboxAgrees, ReceiptsAreTrue

\* Storing a command.
LEMMA EnqueueKeeps ==
  ASSUME StoreInv, StoreTypeOK', NEW k \in Keys, NEW s \in Sessions,
         NEW h \in Hashes, Enqueue(k, s, h)
  PROVE  StoreInv'
<1> USE DEF StoreInv, StoreTypeOK, Enqueue, Exists
<1>1. LeasedIsProcessing' /\ AbsentIsUnclaimed' /\ OutboxAgrees'
  BY DEF LeasedIsProcessing, AbsentIsUnclaimed, OutboxAgrees
<1>2. RowsAnswerClaims' /\ OpenIsCurrent'
  BY DEF RowsAnswerClaims, OpenIsCurrent, AttemptRow, CaseRow
<1>3. UnknownIsSettled'
  BY DEF UnknownIsSettled, AttemptRow
<1>4. VerdictFromLastAttempt'
  BY DEF VerdictFromLastAttempt, VerdictIsGrounded, LastAnswer, LastCase
<1>5. AppliedEndsTheCommand'
  BY DEF AppliedEndsTheCommand, AttemptRow
<1>6. ReceiptsAreTrue'
  <2> SUFFICES ASSUME NEW r \in receipts'
               PROVE  /\ status'[r.key] # "absent"
                      /\ owner'[r.key] = [session |-> r.session, hash |-> r.hash]
    BY DEF ReceiptsAreTrue
  <2>1. CASE r \in receipts
    BY <2>1 DEF ReceiptsAreTrue, Receipt
  <2>2. CASE r = [key |-> k, session |-> s, hash |-> h]
    BY <2>2
  <2> QED
    BY <2>1, <2>2
<1> QED
  BY <1>1, <1>2, <1>3, <1>4, <1>5, <1>6

\* Answering a repeated call from the stored row.
LEMMA ReplayKeeps ==
  ASSUME StoreInv, StoreTypeOK', NEW k \in Keys, NEW s \in Sessions,
         NEW h \in Hashes, Replay(k, s, h)
  PROVE  StoreInv'
<1> USE DEF StoreInv, Replay
<1>1. ReceiptsAreTrue'
  <2> SUFFICES ASSUME NEW r \in receipts'
               PROVE  Exists(r.key)' /\ owner'[r.key] =
                        [session |-> r.session, hash |-> r.hash]
    BY DEF ReceiptsAreTrue
  <2>1. CASE r \in receipts
    BY <2>1 DEF ReceiptsAreTrue, Exists
  <2>2. CASE r = [key |-> k, session |-> s, hash |-> h]
    BY <2>2 DEF SameRequest, Exists
  <2> QED
    BY <2>1, <2>2
<1> QED
  BY <1>1
  DEF LeasedIsProcessing, AbsentIsUnclaimed, RowsAnswerClaims, OpenIsCurrent,
      UnknownIsSettled, VerdictFromLastAttempt, VerdictIsGrounded, LastAnswer,
      LastCase,
      AppliedEndsTheCommand, OutboxAgrees

\* Handing a command to a worker.
LEMMA ClaimKeeps ==
  ASSUME StoreInv, StoreTypeOK', NEW k \in Keys, NEW w \in Workers, Claim(k, w)
  PROVE  StoreInv'
<1> USE DEF StoreInv, StoreTypeOK, Claim
<1>1. status[k] \in {"queued", "processing"}
  BY DEF Claimable
<1>2. LeasedIsProcessing' /\ AbsentIsUnclaimed' /\ OutboxAgrees'
  BY DEF LeasedIsProcessing, AbsentIsUnclaimed, OutboxAgrees
<1>3. RowsAnswerClaims'
  BY DEF RowsAnswerClaims, AttemptRow
<1>4. OpenIsCurrent'
  BY <1>1 DEF OpenIsCurrent, CaseRow
<1>5. UnknownIsSettled'
  BY <1>1 DEF UnknownIsSettled, AttemptRow
<1>6. VerdictFromLastAttempt'
  BY DEF VerdictFromLastAttempt, VerdictIsGrounded, LastAnswer, LastCase
<1>7. AppliedEndsTheCommand'
  BY <1>1 DEF AppliedEndsTheCommand, AttemptRow
<1>8. ReceiptsAreTrue'
  BY DEF ReceiptsAreTrue, Receipt, Exists
<1> QED
  BY <1>2, <1>3, <1>4, <1>5, <1>6, <1>7, <1>8

\* The answer of a worker.
LEMMA CompleteKeeps ==
  ASSUME StoreInv, StoreTypeOK', NEW k \in Keys, NEW w \in Workers,
         NEW n \in 1..MaxAttempts, NEW o \in Outcomes,
         NEW hashed \in BOOLEAN, NEW coded \in BOOLEAN,
         Complete(k, w, n, o, hashed, coded)
  PROVE  StoreInv'
<1> DEFINE row == [key |-> k, n |-> n, worker |-> w, outcome |-> o]
<1> USE DEF StoreInv, StoreTypeOK, Complete
<1>1. status[k] = "processing" /\ attemptCount[k] = n
  BY DEF HoldsLease
<1>2. attempts' = attempts \cup {row}
  OBVIOUS
<1>3. LeasedIsProcessing' /\ AbsentIsUnclaimed' /\ OutboxAgrees'
  BY <1>1 DEF LeasedIsProcessing, AbsentIsUnclaimed, OutboxAgrees, Settled,
              OutboxFor, Outcomes
<1>4. RowsAnswerClaims'
  <2> SUFFICES ASSUME NEW a \in attempts'
               PROVE  /\ a.n <= attemptCount'[a.key]
                      /\ status'[a.key] = "processing" =>
                           a.n # attemptCount'[a.key]
    BY DEF RowsAnswerClaims
  <2>1. status'[k] # "processing"
    BY DEF Settled, Outcomes
  <2>2. CASE a \in attempts
    BY <2>1, <2>2 DEF RowsAnswerClaims, AttemptRow
  <2>3. CASE a = row
    BY <1>1, <2>1, <2>3
  <2> QED
    BY <1>2, <2>2, <2>3
<1>5. OpenCases(k) = {}
  BY <1>1 DEF OpenCases, OpenIsCurrent
<1>6. cases' = IF o = "unknown"
               THEN cases \cup {[key |-> k, attempt |-> n, state |-> "open"]}
               ELSE cases
  BY <1>5 DEF CasesAfter
<1>7. OpenIsCurrent'
  BY <1>1, <1>6 DEF OpenIsCurrent, CaseRow, Settled
<1>8. UnknownIsSettled'
  BY <1>1, <1>2, <1>6 DEF UnknownIsSettled, AttemptRow, Settled
<1>9. VerdictFromLastAttempt'
  <2> SUFFICES ASSUME NEW j \in Keys
               PROVE  VerdictIsGrounded(j)'
    BY DEF VerdictFromLastAttempt
  <2> USE DEF VerdictIsGrounded, LastAnswer, LastCase
  <2>1. CASE j = k
    <3>1. row.key = j /\ row.n = attemptCount[j] /\ row.outcome = o
      BY <1>1, <2>1
    <3>2. status'[j] = Settled(o) /\ evidence'[j] = hashed
      BY <2>1
    <3>3. hashed <=> o = "applied"
      BY DEF AttemptAdmitted
    <3>4. ASSUME NEW outcomes, o \in outcomes
          PROVE  LastAnswer(k, outcomes)'
      <4>1. row \in attempts' /\ attemptCount' = attemptCount
        BY <1>2
      <4> HIDE DEF StoreInv, StoreTypeOK, Complete, row
      <4> QED
        BY <2>1, <3>1, <3>4, <4>1
    <3>5. CASE o = "unknown"
      <4>1. LastCase(k, "open")'
        <5> DEFINE case == [key |-> k, attempt |-> n, state |-> "open"]
        <5>1. case \in cases' /\ attemptCount' = attemptCount
          BY <1>6, <3>5
        <5>2. case.key = k /\ case.attempt = n /\ case.state = "open"
          OBVIOUS
        <5> HIDE DEF StoreInv, StoreTypeOK, Complete, case
        <5> QED
          BY <1>1, <5>1, <5>2
      <4> QED
        BY <2>1, <3>2, <3>4, <3>5, <4>1 DEF Settled
    <3>6. CASE o = "applied"
      BY <2>1, <3>2, <3>3, <3>4, <3>6 DEF Settled
    <3>7. CASE o \in {"failed", "denied"}
      BY <2>1, <3>2, <3>4, <3>7 DEF Settled
    <3> QED
      BY <3>5, <3>6, <3>7 DEF Outcomes
  <2>2. CASE j # k
    <3>1. status'[j] = status[j] /\ evidence'[j] = evidence[j]
      BY <2>2
    <3>2. attempts \subseteq attempts' /\ cases \subseteq cases'
      BY <1>2, <1>6
    <3> QED
      BY <3>1, <3>2 DEF VerdictFromLastAttempt
  <2> QED
    BY <2>1, <2>2
<1>10. AppliedEndsTheCommand'
  BY <1>1, <1>2 DEF AppliedEndsTheCommand, AttemptRow, Settled
<1>11. ReceiptsAreTrue'
  BY <1>1 DEF ReceiptsAreTrue, Receipt, Exists, Settled, Outcomes
<1> QED
  BY <1>3, <1>4, <1>7, <1>8, <1>9, <1>10, <1>11

\* The decision of a superadmin: the open case takes the resolution, and no
\* case of another command or attempt is touched.
LEMMA ReconcileKeeps ==
  ASSUME StoreInv, StoreTypeOK', NEW k \in Keys, NEW r \in Resolutions,
         Reconcile(k, r)
  PROVE  StoreInv'
<1> USE DEF StoreInv, StoreTypeOK, Reconcile
<1>1. status[k] = "reconciliation_required" /\ status'[k] = Resolved(r)
  OBVIOUS
<1>2. Resolved(r) \in {"applied", "queued", "cancelled"} /\ r # "open"
  BY DEF Resolved, Resolutions
<1>3. /\ attempts' = attempts /\ attemptCount' = attemptCount
      /\ \A j \in Keys \ {k} : /\ status'[j] = status[j]
                               /\ evidence'[j] = evidence[j]
  OBVIOUS
<1>4. \A c \in cases : c.state # "open" \/ c.key # k => c \in cases'
  BY DEF OpenCases
<1>5. \A c \in cases' : /\ c.state = "open" => c \in cases /\ c.key # k
                        /\ c \notin cases => c.key = k
  BY <1>2 DEF OpenCases, CaseRow
<1>6. LastAnswer(k, {"unknown"}) /\ LastCase(k, "open")
  BY <1>1 DEF VerdictFromLastAttempt, VerdictIsGrounded
<1>7. LastCase(k, r)'
  <2>1. PICK c \in cases : /\ c.key = k /\ c.attempt = attemptCount[k]
                           /\ c.state = "open"
    BY <1>6 DEF LastCase
  <2>2. [c EXCEPT !.state = r] \in cases'
    BY <2>1 DEF OpenCases
  <2>3. /\ [c EXCEPT !.state = r].key = k
        /\ [c EXCEPT !.state = r].attempt = attemptCount'[k]
        /\ [c EXCEPT !.state = r].state = r
    BY <1>3, <2>1 DEF CaseRow
  <2> QED
    BY <2>2, <2>3 DEF LastCase
<1>8. LeasedIsProcessing' /\ AbsentIsUnclaimed' /\ OutboxAgrees'
  BY <1>1, <1>2 DEF LeasedIsProcessing, AbsentIsUnclaimed, OutboxAgrees,
                    Resolved, Resolutions, OutboxFor
<1>9. RowsAnswerClaims'
  BY <1>1, <1>2, <1>3 DEF RowsAnswerClaims, AttemptRow
<1>10. OpenIsCurrent'
  <2> HIDE DEF Reconcile
  <2> QED
    BY <1>3, <1>5 DEF OpenIsCurrent, CaseRow
<1>11. UnknownIsSettled'
  <2> SUFFICES ASSUME NEW a \in attempts, a.outcome = "unknown"
               PROVE  \/ /\ a.n = attemptCount[a.key]
                         /\ status'[a.key] \in {"reconciliation_required",
                                                "applied", "cancelled"}
                      \/ \E c \in cases' : /\ c.key = a.key
                                           /\ c.attempt = a.n
                                           /\ c.state = "confirmed_not_applied"
    BY <1>3 DEF UnknownIsSettled
  <2>1. CASE \E c \in cases : /\ c.key = a.key
                              /\ c.attempt = a.n
                              /\ c.state = "confirmed_not_applied"
    BY <1>4, <2>1
  <2>2. CASE /\ a.n = attemptCount[a.key]
             /\ status[a.key] \in {"reconciliation_required", "applied",
                                   "cancelled"}
    <3>1. CASE a.key # k
      BY <1>3, <2>2, <3>1 DEF AttemptRow
    <3>2. CASE a.key = k /\ r = "confirmed_not_applied"
      BY <1>3, <1>7, <2>2, <3>2 DEF LastCase
    <3>3. CASE a.key = k /\ r # "confirmed_not_applied"
      BY <1>1, <2>2, <3>3 DEF Resolved, Resolutions
    <3> QED
      BY <3>1, <3>2, <3>3
  <2> QED
    BY <2>1, <2>2 DEF UnknownIsSettled
<1>12. VerdictFromLastAttempt'
  <2> SUFFICES ASSUME NEW j \in Keys
               PROVE  VerdictIsGrounded(j)'
    BY DEF VerdictFromLastAttempt
  <2>1. CASE j = k
    <3>1. LastAnswer(k, {"unknown"})'
      BY <1>3, <1>6 DEF LastAnswer
    <3>2. evidence'[k] = (r = "confirmed_applied")
      OBVIOUS
    <3> QED
      BY <1>1, <1>2, <1>7, <2>1, <3>1, <3>2
      DEF VerdictIsGrounded, Resolved, Resolutions
  <2>2. CASE j # k
    <3>1. VerdictIsGrounded(j)
      BY DEF VerdictFromLastAttempt
    <3>2. \A outcomes : LastAnswer(j, outcomes) => LastAnswer(j, outcomes)'
      BY <1>3 DEF LastAnswer
    <3>3. \A state : LastCase(j, state) => LastCase(j, state)'
      BY <1>3, <1>4, <2>2 DEF LastCase
    <3> HIDE DEF StoreInv, StoreTypeOK, Reconcile
    <3> QED
      BY <1>3, <2>2, <3>1, <3>2, <3>3 DEF VerdictIsGrounded
  <2> QED
    BY <2>1, <2>2
<1>13. AppliedEndsTheCommand'
  BY <1>1, <1>3 DEF AppliedEndsTheCommand, AttemptRow
<1>14. ReceiptsAreTrue'
  BY <1>1, <1>2 DEF ReceiptsAreTrue, Receipt, Exists
<1> QED
  BY <1>8, <1>9, <1>10, <1>11, <1>12, <1>13, <1>14

\* Time, the sessions and steps outside the store.
LEMMA EnvironmentKeeps ==
  ASSUME StoreInv, StoreTypeOK',
         \/ \E k \in Keys : LeaseExpires(k)
         \/ \E s \in Sessions : ChangeAuthority(s)
         \/ UNCHANGED storeVars
  PROVE  StoreInv'
<1>1. /\ UNCHANGED <<owner, status, attemptCount, evidence, outbox, attempts,
                     cases, receipts>>
      /\ \A k \in Keys : lease'[k] = "none" <=> lease[k] = "none"
  BY DEF StoreInv, StoreTypeOK, LeaseExpires, ChangeAuthority, storeVars
<1> QED
  BY <1>1
  DEF StoreInv, LeasedIsProcessing, AbsentIsUnclaimed, RowsAnswerClaims,
      OpenIsCurrent, UnknownIsSettled, VerdictFromLastAttempt,
      VerdictIsGrounded, LastAnswer, LastCase, AppliedEndsTheCommand,
      OutboxAgrees, ReceiptsAreTrue, Exists

\* The invariant is inductive.
LEMMA StoreInvStep ==
  ASSUME StoreInv, [StoreNext]_storeVars
  PROVE  StoreInv'
<1>1. StoreTypeOK'
  BY StoreTypeStep DEF StoreInv
<1> QED
  BY <1>1, EnqueueKeeps, ReplayKeeps, ClaimKeeps, CompleteKeeps,
     ReconcileKeeps, EnvironmentKeeps
  DEF StoreNext, Create

THEOREM StoreInvariant == StoreSpec => []StoreInv
<1> QED
  BY StoreInvInit, StoreInvStep, PTL DEF StoreSpec

-----------------------------------------------------------------------------
(* What the invariant implies. *)

\* Two callers who hold a receipt for a key submitted the same command: each
\* receipt tells what is stored, and one thing is stored.
THEOREM OneRequest == StoreSpec => []OneRequestPerKey
<1>1. StoreInv => OneRequestPerKey
  <2> SUFFICES ASSUME StoreInv, NEW r1 \in receipts, NEW r2 \in receipts,
                      r1.key = r2.key
               PROVE  r1.session = r2.session /\ r1.hash = r2.hash
    BY DEF OneRequestPerKey
  <2>1. [session |-> r1.session, hash |-> r1.hash] =
        [session |-> r2.session, hash |-> r2.hash]
    BY DEF StoreInv, ReceiptsAreTrue
  <2> QED
    BY <2>1
<1> QED
  BY <1>1, StoreInvariant, PTL

\* The outbox never disagrees with the request row.
THEOREM OutboxAlwaysAgrees == StoreSpec => []OutboxAgrees
<1>1. StoreInv => OutboxAgrees
  BY DEF StoreInv
<1> QED
  BY <1>1, StoreInvariant, PTL

\* No unknown outcome that was recorded is retried without a reconciliation.
THEOREM UnknownIsReconciled == StoreSpec => []UnknownIsReconciledBeforeRetry
<1>1. StoreInv => UnknownIsReconciledBeforeRetry
  <2> SUFFICES ASSUME StoreInv, NEW a \in attempts, a.outcome = "unknown",
                      attemptCount[a.key] > a.n
               PROVE  \E c \in cases : /\ c.key = a.key
                                       /\ c.attempt = a.n
                                       /\ c.state = "confirmed_not_applied"
    BY DEF UnknownIsReconciledBeforeRetry
  <2>1. a.n # attemptCount[a.key]
    BY DEF StoreInv, StoreTypeOK, AttemptRow
  <2> QED
    BY <2>1 DEF StoreInv, UnknownIsSettled
<1> QED
  BY <1>1, StoreInvariant, PTL

\* Every verdict rests on the answer to the last claim.
THEOREM VerdictsAreGrounded == StoreSpec => []VerdictFromLastAttempt
<1>1. StoreInv => VerdictFromLastAttempt
  BY DEF StoreInv
<1> QED
  BY <1>1, StoreInvariant, PTL

\* No command is handed out again once an attempt of it was applied.
THEOREM AppliedIsTheEnd == StoreSpec => []AppliedEndsTheCommand
<1>1. StoreInv => AppliedEndsTheCommand
  BY DEF StoreInv
<1> QED
  BY <1>1, StoreInvariant, PTL

\* No step leaves a final status, and only the holder of a live lease ends
\* the attempt it holds.
THEOREM FinalStatusIsForever == StoreSpec => FinalIsForever
<1>1. ASSUME StoreTypeOK, [StoreNext]_storeVars, NEW j \in Keys
      PROVE  /\ status[j] \in Final => /\ status'[j] = status[j]
                                       /\ attemptCount'[j] = attemptCount[j]
             /\ (status[j] = "processing" /\ status'[j] # "processing") =>
                  EndedByHolder(j)
  <2> USE DEF StoreTypeOK, Final
  <2>1. ASSUME NEW k \in Keys, NEW s \in Sessions, NEW h \in Hashes,
               Create(k, s, h)
        PROVE  \/ status'[j] = status[j] /\ attemptCount'[j] = attemptCount[j]
               \/ status[j] = "absent"
    BY <1>1, <2>1 DEF Create, Enqueue, Replay, Exists
  <2>2. ASSUME NEW k \in Keys, NEW w \in Workers, Claim(k, w)
        PROVE  \/ status'[j] = status[j] /\ attemptCount'[j] = attemptCount[j]
               \/ status'[j] = "processing"
                  /\ status[j] \in {"queued", "processing"}
    BY <1>1, <2>2 DEF Claim, Claimable
  <2>3. ASSUME NEW k \in Keys, NEW w \in Workers, NEW n \in 1..MaxAttempts,
               NEW o \in Outcomes, NEW hashed \in BOOLEAN,
               NEW coded \in BOOLEAN, Complete(k, w, n, o, hashed, coded)
        PROVE  \/ status'[j] = status[j] /\ attemptCount'[j] = attemptCount[j]
               \/ status[j] = "processing" /\ EndedByHolder(j)
    <3>1. CASE j = k
      <4>1. status[k] = "processing" /\ lease[k] = "live"
            /\ leasedBy[k] = w /\ attemptCount[k] = n
        BY <2>3 DEF Complete, HoldsLease
      <4> DEFINE row == [key |-> k, n |-> n, worker |-> w, outcome |-> o]
      <4>2. row \in attempts' /\ row \notin attempts
        BY <2>3 DEF Complete
      <4> QED
        BY <3>1, <4>1, <4>2 DEF EndedByHolder
    <3>2. CASE j # k
      BY <1>1, <2>3, <3>2 DEF Complete
    <3> QED
      BY <3>1, <3>2
  <2>4. ASSUME NEW k \in Keys, NEW r \in Resolutions, Reconcile(k, r)
        PROVE  \/ status'[j] = status[j] /\ attemptCount'[j] = attemptCount[j]
               \/ status[j] = "reconciliation_required"
    BY <1>1, <2>4 DEF Reconcile
  <2>5. ASSUME \/ \E k \in Keys : LeaseExpires(k)
               \/ \E s \in Sessions : ChangeAuthority(s)
               \/ UNCHANGED storeVars
        PROVE  status'[j] = status[j] /\ attemptCount'[j] = attemptCount[j]
    BY <1>1, <2>5 DEF LeaseExpires, ChangeAuthority, storeVars
  <2> QED
    BY <1>1, <2>1, <2>2, <2>3, <2>4, <2>5 DEF StoreNext
<1>2. StoreTypeOK /\ [StoreNext]_storeVars =>
        [\A k \in Keys :
           /\ status[k] \in Final => status'[k] = status[k]
                                     /\ attemptCount'[k] = attemptCount[k]
           /\ (status[k] = "processing" /\ status'[k] # "processing") =>
                EndedByHolder(k)]_storeVars
  BY <1>1
<1> QED
  BY <1>2, StoreTypeCorrect, PTL DEF StoreSpec, FinalIsForever
=============================================================================
