------------------------ MODULE MoodleProvider_proofs ------------------------
(***************************************************************************)
(* Theorems about MoodleProvider, for every number of keys, web service    *)
(* calls and payloads.                                                     *)
(***************************************************************************)
EXTENDS MoodleProvider, TLAPS

\* A call that has been received names a key and a payload, and has no
\* answer before it returns.
CallsAreWhole ==
  \A r \in Requests :
    /\ stage[r] # "none" => sentKey[r] \in Keys /\ sentPayload[r] \in Payloads
    /\ stage[r] # "returned" => answer[r] = "none"

\* The ledger has a row for a key exactly when the operation of the key has
\* been committed, and then it was committed once.
LedgerIsExact ==
  \A k \in Keys : effects[k] = IF ledger[k] = NoPayload THEN 0 ELSE 1

\* An execution past its commit, or answered "applied", finds its payload in
\* the ledger.
AppliedIsRecorded ==
  \A r \in Requests :
    (stage[r] = "committed" \/ answer[r] = "applied") =>
      ledger[sentKey[r]] = sentPayload[r]

ProviderInv ==
  /\ ProviderTypeOK
  /\ CallsAreWhole
  /\ LedgerIsExact
  /\ AppliedIsRecorded
  /\ OneExecutionPerKey

LEMMA ProviderInvInit == ProviderInit => ProviderInv
  BY ProviderAssumption
  DEF ProviderInit, ProviderInv, ProviderTypeOK, Stages, Answers,
      CallsAreWhole, LedgerIsExact, AppliedIsRecorded, OneExecutionPerKey,
      Holds

\* A new call.
LEMMA ReceiveKeeps ==
  ASSUME ProviderInv, NEW r \in Requests, NEW k \in Keys, NEW p \in Payloads,
         Receive(r, k, p)
  PROVE  ProviderInv'
<1> USE DEF ProviderInv, ProviderTypeOK, Receive
<1>1. ProviderTypeOK'
  BY DEF Stages
<1>2. CallsAreWhole' /\ LedgerIsExact'
  BY DEF CallsAreWhole, LedgerIsExact
<1>3. AppliedIsRecorded'
  BY DEF AppliedIsRecorded, CallsAreWhole
<1>4. OneExecutionPerKey'
  BY DEF OneExecutionPerKey, Holds
<1> QED
  BY <1>1, <1>2, <1>3, <1>4

\* A call that returns without having changed ledger or Moodle.
LEMMA ReturnKeeps ==
  ASSUME ProviderInv, NEW r \in Requests, NEW a \in Answers, Return(r, a),
         UNCHANGED <<ledger, effects>>,
         stage[r] # "none",
         a = "applied" => ledger[sentKey[r]] = sentPayload[r]
  PROVE  ProviderInv'
<1> USE DEF ProviderInv, ProviderTypeOK, Return
<1>1. ProviderTypeOK'
  BY DEF Stages
<1>2. CallsAreWhole' /\ LedgerIsExact'
  BY DEF CallsAreWhole, LedgerIsExact
<1>3. AppliedIsRecorded'
  BY DEF AppliedIsRecorded
<1>4. OneExecutionPerKey'
  BY DEF OneExecutionPerKey, Holds
<1> QED
  BY <1>1, <1>2, <1>3, <1>4

\* A call that moves on without an answer: it takes the free lock, or dies.
LEMMA MoveKeeps ==
  ASSUME ProviderInv, NEW r \in Requests, Lock(r) \/ Vanish(r)
  PROVE  ProviderInv'
<1> USE DEF ProviderInv, ProviderTypeOK, Lock, Vanish
<1>1. ProviderTypeOK'
  BY DEF Stages
<1>2. CallsAreWhole' /\ LedgerIsExact'
  BY DEF CallsAreWhole, LedgerIsExact
<1>3. AppliedIsRecorded'
  BY DEF AppliedIsRecorded
<1>4. OneExecutionPerKey'
  BY DEF OneExecutionPerKey, Holds, LockFree
<1> QED
  BY <1>1, <1>2, <1>3, <1>4

\* The transaction of the operation.
LEMMA CommitKeeps ==
  ASSUME ProviderInv, NEW r \in Requests, Commit(r)
  PROVE  ProviderInv'
<1> USE DEF ProviderInv, ProviderTypeOK, Commit, RecordCommand
<1>1. sentKey[r] \in Keys /\ sentPayload[r] \in Payloads
  BY DEF CallsAreWhole
<1>2. sentPayload[r] # NoPayload
  BY <1>1, ProviderAssumption
<1>3. ProviderTypeOK'
  BY <1>1 DEF Stages
<1>4. CallsAreWhole'
  BY DEF CallsAreWhole
<1>5. LedgerIsExact'
  BY <1>1, <1>2 DEF LedgerIsExact
<1>6. AppliedIsRecorded'
  <2> SUFFICES ASSUME NEW q \in Requests,
                      stage'[q] = "committed" \/ answer[q] = "applied"
               PROVE  ledger'[sentKey[q]] = sentPayload[q]
    BY DEF AppliedIsRecorded
  <2>1. CASE q = r
    BY <1>1, <2>1
  <2>2. CASE q # r
    <3>1. stage[q] = "committed" \/ answer[q] = "applied"
      BY <2>2
    <3>2. stage[q] # "none" /\ sentKey[q] \in Keys /\ sentPayload[q] # NoPayload
      BY <3>1, ProviderAssumption DEF CallsAreWhole
    <3>3. ledger[sentKey[q]] = sentPayload[q]
      BY <3>1 DEF AppliedIsRecorded
    <3> QED
      BY <1>1, <3>2, <3>3
  <2> QED
    BY <2>1, <2>2
<1>7. OneExecutionPerKey'
  BY DEF OneExecutionPerKey, Holds
<1> QED
  BY <1>3, <1>4, <1>5, <1>6, <1>7

\* The invariant is inductive.
LEMMA ProviderInvStep ==
  ASSUME ProviderInv, [ProviderNext]_providerVars
  PROVE  ProviderInv'
<1>1. ASSUME NEW r \in Requests, Proceed(r)
      PROVE  ProviderInv'
  <2> USE DEF Answers
  <2>1. CASE Refuse(r)
    BY <2>1, ReturnKeeps DEF Refuse
  <2>2. CASE LockTimeout(r)
    BY <2>2, ReturnKeeps DEF LockTimeout
  <2>3. CASE AnswerFromLedger(r)
    BY <2>3, ReturnKeeps DEF AnswerFromLedger, LedgerAnswer
  <2>4. CASE ReturnApplied(r)
    BY <2>4, ReturnKeeps DEF ReturnApplied, ProviderInv, AppliedIsRecorded
  <2>5. CASE Throw(r)
    BY <2>5, ReturnKeeps DEF Throw
  <2>6. CASE Lock(r)
    BY <2>6, MoveKeeps
  <2>7. CASE Commit(r)
    BY <2>7, CommitKeeps
  <2> QED
    BY <1>1, <2>1, <2>2, <2>3, <2>4, <2>5, <2>6, <2>7 DEF Proceed
<1>2. CASE UNCHANGED providerVars
  BY <1>2
  DEF providerVars, ProviderInv, ProviderTypeOK, CallsAreWhole,
      LedgerIsExact, AppliedIsRecorded, OneExecutionPerKey, Holds
<1> QED
  BY <1>1, <1>2, ReceiveKeeps, MoveKeeps DEF ProviderNext

\* The ledger, the locks and the calls fit together always.
THEOREM ProviderInvariant == ProviderSpec => []ProviderInv
<1> QED
  BY ProviderInvInit, ProviderInvStep, PTL DEF ProviderSpec

\* Every variable of the plugin keeps its type.
THEOREM ProviderTypeCorrect == ProviderSpec => []ProviderTypeOK
<1>1. ProviderInv => ProviderTypeOK
  BY DEF ProviderInv
<1> QED
  BY <1>1, ProviderInvariant, PTL

\* Whatever calls are repeated, overlap or die, the operation of a key is
\* committed at most once.
THEOREM EffectsAreOnce == ProviderSpec => []AtMostOneEffect
<1>1. ProviderInv => AtMostOneEffect
  <2> SUFFICES ASSUME ProviderInv, NEW k \in Keys
               PROVE  effects[k] <= 1
    BY DEF AtMostOneEffect
  <2>1. effects[k] = 0 \/ effects[k] = 1
    BY DEF ProviderInv, LedgerIsExact
  <2> QED
    BY <2>1
<1> QED
  BY <1>1, ProviderInvariant, PTL

\* "applied" is answered only to the payload that was committed.
THEOREM AppliedIsCommitted == ProviderSpec => []AppliedMeansCommitted
<1>1. ProviderInv => AppliedMeansCommitted
  <2> SUFFICES ASSUME ProviderInv, NEW r \in Requests, answer[r] = "applied"
               PROVE  ledger[sentKey[r]] = sentPayload[r]
                      /\ effects[sentKey[r]] = 1
    BY DEF AppliedMeansCommitted
  <2>1. sentKey[r] \in Keys /\ sentPayload[r] # NoPayload
    BY ProviderAssumption DEF ProviderInv, CallsAreWhole
  <2> QED
    BY <2>1 DEF ProviderInv, LedgerIsExact, AppliedIsRecorded
<1> QED
  BY <1>1, ProviderInvariant, PTL

\* The lock admits one execution of a key at a time.
THEOREM ExecutionsAreExclusive == ProviderSpec => []OneExecutionPerKey
<1>1. ProviderInv => OneExecutionPerKey
  BY DEF ProviderInv
<1> QED
  BY <1>1, ProviderInvariant, PTL
=============================================================================
