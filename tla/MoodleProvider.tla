--------------------------- MODULE MoodleProvider ---------------------------
(***************************************************************************)
(* The provider side of a Moodle command: command_service::execute of the  *)
(* local_nilelearn plugin, with its per-key lock, its ledger of executed   *)
(* commands and the delegated database transaction in which the operation  *)
(* runs.  A request is one web service call; PHP keeps executing a call    *)
(* whose client has hung up, so nothing here depends on the caller.        *)
(*                                                                         *)
(* The operation itself (course, section, activity, question, outcome) is  *)
(* abstracted to "it changes Moodle once" or "it throws".  The command     *)
(* uuid and the operation sent with a key are always the same, so a ledger *)
(* row is compared by its payload hash alone.                              *)
(***************************************************************************)
EXTENDS Naturals

CONSTANTS
  Keys,      \* idempotency keys
  Requests,  \* web service calls
  Payloads,  \* payload hashes
  NoPayload  \* no ledger row, no request

ASSUME ProviderAssumption == NoPayload \notin Payloads \cup Keys

VARIABLES
  sentKey,     \* idempotencykey of the request
  sentPayload, \* payloadhash of the request
  stage,       \* where its PHP execution is
  answer,      \* what it returned
  ledger,      \* local_nilelearn_command: payload hash recorded for a key
  effects      \* how often the operation of a key has been committed

providerVars == <<sentKey, sentPayload, stage, answer, ledger, effects>>

Stages  == {"none", "waiting", "locked", "committed", "returned", "lost"}
Answers == {"none", "applied", "rejected", "denied"}

ProviderTypeOK ==
  /\ sentKey \in [Requests -> Keys \cup {NoPayload}]
  /\ sentPayload \in [Requests -> Payloads \cup {NoPayload}]
  /\ stage \in [Requests -> Stages]
  /\ answer \in [Requests -> Answers]
  /\ ledger \in [Keys -> Payloads \cup {NoPayload}]
  /\ effects \in [Keys -> Nat]

ProviderInit ==
  /\ sentKey = [r \in Requests |-> NoPayload]
  /\ sentPayload = [r \in Requests |-> NoPayload]
  /\ stage = [r \in Requests |-> "none"]
  /\ answer = [r \in Requests |-> "none"]
  /\ ledger = [k \in Keys |-> NoPayload]
  /\ effects = [k \in Keys |-> 0]

\* The request goes out with the idempotency key and the payload hash.
Receive(r, k, p) ==
  /\ stage[r] = "none"
  /\ stage' = [stage EXCEPT ![r] = "waiting"]
  /\ sentKey' = [sentKey EXCEPT ![r] = k]
  /\ sentPayload' = [sentPayload EXCEPT ![r] = p]
  /\ UNCHANGED <<answer, ledger, effects>>

Return(r, a) ==
  /\ stage' = [stage EXCEPT ![r] = "returned"]
  /\ answer' = [answer EXCEPT ![r] = a]
  /\ UNCHANGED <<sentKey, sentPayload>>

\* Validation, transport capability, actor and operation capability: checked
\* before the lock is asked for.
Refuse(r) ==
  /\ stage[r] = "waiting"
  /\ \E a \in {"rejected", "denied"} : Return(r, a)
  /\ UNCHANGED <<ledger, effects>>

Holds(r, k) == sentKey[r] = k /\ stage[r] \in {"locked", "committed"}

\* Variant with a bug: the lock name does not depend on the key alone.
LockAlwaysFree(r) == TRUE
LockFree(r) == \A q \in Requests : ~Holds(q, sentKey[r])

Lock(r) ==
  /\ stage[r] = "waiting"
  /\ LockFree(r)
  /\ stage' = [stage EXCEPT ![r] = "locked"]
  /\ UNCHANGED <<sentKey, sentPayload, answer, ledger, effects>>

\* get_lock gave up after ten seconds: an exception like any other.
LockTimeout(r) ==
  /\ stage[r] = "waiting"
  /\ \E q \in Requests : Holds(q, sentKey[r])
  /\ Return(r, "rejected")
  /\ UNCHANGED <<ledger, effects>>

\* Variants with a bug: the stored payload hash is not compared; the status
\* a row has before its transaction commits is given out.
LedgerAnswerByKey(r) == "applied"
LedgerAnswerEarly(r) == "processing"
LedgerAnswer(r) ==
  IF ledger[sentKey[r]] = sentPayload[r] THEN "applied" ELSE "rejected"

\* A ledger row of this key exists: the stored result if the data agree, an
\* exception if they do not.  The lock is released on the way out.
AnswerFromLedger(r) ==
  /\ stage[r] = "locked"
  /\ ledger[sentKey[r]] # NoPayload
  /\ Return(r, LedgerAnswer(r))
  /\ UNCHANGED <<ledger, effects>>

\* Variant with a bug: the ledger row is not part of the transaction.
RecordNothing(r) == UNCHANGED ledger
RecordCommand(r) == ledger' = [ledger EXCEPT ![sentKey[r]] = sentPayload[r]]

\* Ledger row and change of Moodle commit together; the lock is still held.
Commit(r) ==
  /\ stage[r] = "locked"
  /\ ledger[sentKey[r]] = NoPayload
  /\ RecordCommand(r)
  /\ effects' = [effects EXCEPT ![sentKey[r]] = @ + 1]
  /\ stage' = [stage EXCEPT ![r] = "committed"]
  /\ UNCHANGED <<sentKey, sentPayload, answer>>

ReturnApplied(r) ==
  /\ stage[r] = "committed"
  /\ Return(r, "applied")
  /\ UNCHANGED <<ledger, effects>>

\* The operation throws (wrong expected version, missing target, missing
\* capability): the transaction rolls back and the lock is released.
Throw(r) ==
  /\ stage[r] = "locked"
  /\ ledger[sentKey[r]] = NoPayload
  /\ \E a \in {"rejected", "denied"} : Return(r, a)
  /\ UNCHANGED <<ledger, effects>>

\* The PHP process dies: an open transaction is rolled back, a committed one
\* stays, the lock goes with the connection, nobody is answered.  The same
\* step is a request that never reaches Moodle.
Vanish(r) ==
  /\ stage[r] \in {"waiting", "locked", "committed"}
  /\ stage' = [stage EXCEPT ![r] = "lost"]
  /\ UNCHANGED <<sentKey, sentPayload, answer, ledger, effects>>

\* What PHP does with an accepted request, without the process dying.
Proceed(r) ==
  \/ Refuse(r)
  \/ Lock(r)
  \/ LockTimeout(r)
  \/ AnswerFromLedger(r)
  \/ Commit(r)
  \/ ReturnApplied(r)
  \/ Throw(r)

ProviderNext ==
  \E r \in Requests :
    \/ \E k \in Keys, p \in Payloads : Receive(r, k, p)
    \/ Proceed(r)
    \/ Vanish(r)

ProviderSpec == ProviderInit /\ [][ProviderNext]_providerVars

-----------------------------------------------------------------------------
(* Safety *)

\* Whatever requests are retried, overlap, are cut off or die, the operation
\* of a key is committed at most once.
AtMostOneEffect == \A k \in Keys : effects[k] <= 1

\* A caller who is told "applied" asked for the payload that was committed:
\* a replayed answer is never the answer to different data.
AppliedMeansCommitted ==
  \A r \in Requests :
    answer[r] = "applied" =>
      ledger[sentKey[r]] = sentPayload[r] /\ effects[sentKey[r]] = 1

\* At most one execution of a key is between taking and releasing the lock.
OneExecutionPerKey ==
  \A k \in Keys, q, r \in Requests : Holds(q, k) /\ Holds(r, k) => q = r
=============================================================================
