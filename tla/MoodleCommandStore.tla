------------------------- MODULE MoodleCommandStore -------------------------
(***************************************************************************)
(* The durable side of the Moodle command runtime: the rows of             *)
(* moodle_command_requests, moodle_command_attempts, reconciliation_cases  *)
(* and outbox_events that one Moodle command owns, and the four            *)
(* service-role functions of supabase/manual/028 that change them.  Each   *)
(* function is one database transaction that locks the request row, so it  *)
(* is one action; a call that raises, or that a constraint of 027 or 028   *)
(* rolls back, leaves every row as it was and is not a step.               *)
(*                                                                         *)
(* Callers are arbitrary here: any worker may claim, may answer with any   *)
(* outcome and may keep answering after its lease is gone.  The worker of  *)
(* server/moodleCommandService.ts is one such caller (MoodleCommandSystem).*)
(*                                                                         *)
(* Time appears only as the state of a lease: the claim tests              *)
(* lease_until <= now() and the completion lease_until > now(), so at any  *)
(* instant a lease is either live or expired and never both.               *)
(***************************************************************************)
EXTENDS Naturals

CONSTANTS
  Keys,         \* idempotency keys: the identity of a command
  Sessions,     \* signed-in sessions that submit commands
  Hashes,       \* request hashes: what the payload of a command is
  Workers,      \* worker ids: one per call of processOne
  Nobody,       \* no worker, no owner (SQL null)
  MaxAttempts   \* bound: how often a command is claimed in this model

ASSUME StoreAssumption ==
  /\ Nobody \notin Workers
  /\ MaxAttempts \in Nat

Outcomes    == {"applied", "failed", "denied", "unknown"}
Resolutions == {"confirmed_applied", "confirmed_not_applied", "cancelled"}
Statuses    == {"absent", "queued", "processing", "applied", "failed",
                "reconciliation_required", "cancelled"}
OutboxStatuses == {"absent", "pending", "processing", "succeeded",
                   "failed", "dead_letter"}
Leases      == {"none", "live", "expired"}
Authorities == {"none", "session", "write"}

AttemptRow == [key : Keys, n : 1..MaxAttempts, worker : Workers,
               outcome : Outcomes]
CaseRow    == [key : Keys, attempt : 1..MaxAttempts,
               state : {"open"} \cup Resolutions]
OwnerRow   == [session : Sessions, hash : Hashes]
Receipt    == [key : Keys, session : Sessions, hash : Hashes]

VARIABLES
  authority,    \* what the database lets a session do right now
  owner,        \* command_executions: who enqueued the key, with which hash
  status,       \* moodle_command_requests.status
  lease,        \* lease_until, seen from now()
  leasedBy,     \* leased_by
  attemptCount, \* attempt_count
  evidence,     \* provider_result_hash and provider_version are present
  outbox,       \* outbox_events.status
  attempts,     \* rows of moodle_command_attempts
  cases,        \* rows of reconciliation_cases
  receipts      \* successful answers of create that callers have received

storeVars == <<authority, owner, status, lease, leasedBy,
               attemptCount, evidence, outbox, attempts, cases, receipts>>

StoreTypeOK ==
  /\ authority \in [Sessions -> Authorities]
  /\ owner \in [Keys -> OwnerRow \cup {Nobody}]
  /\ status \in [Keys -> Statuses]
  /\ lease \in [Keys -> Leases]
  /\ leasedBy \in [Keys -> Workers \cup {Nobody}]
  /\ attemptCount \in [Keys -> 0..MaxAttempts]
  /\ evidence \in [Keys -> BOOLEAN]
  /\ outbox \in [Keys -> OutboxStatuses]
  /\ attempts \subseteq AttemptRow
  /\ cases \subseteq CaseRow
  /\ receipts \subseteq Receipt

StoreInit ==
  /\ authority \in [Sessions -> Authorities]
  /\ owner = [k \in Keys |-> Nobody]
  /\ status = [k \in Keys |-> "absent"]
  /\ lease = [k \in Keys |-> "none"]
  /\ leasedBy = [k \in Keys |-> Nobody]
  /\ attemptCount = [k \in Keys |-> 0]
  /\ evidence = [k \in Keys |-> FALSE]
  /\ outbox = [k \in Keys |-> "absent"]
  /\ attempts = {}
  /\ cases = {}
  /\ receipts = {}

-----------------------------------------------------------------------------
(* nile_create_moodle_command *)

Exists(k) == status[k] # "absent"

\* The first use of a key: the command, its outbox event, its audit row and
\* its request row are inserted together.
Enqueue(k, s, h) ==
  /\ ~Exists(k)
  /\ authority[s] = "write"
  /\ owner' = [owner EXCEPT ![k] = [session |-> s, hash |-> h]]
  /\ status' = [status EXCEPT ![k] = "queued"]
  /\ outbox' = [outbox EXCEPT ![k] = "pending"]
  /\ receipts' = receipts \cup {[key |-> k, session |-> s, hash |-> h]}
  /\ UNCHANGED <<authority, lease, leasedBy, attemptCount, evidence,
                 attempts, cases>>

\* Variant with a bug (see PROJECT.json, "mutants"): the hash is not compared.
SameSessionOnly(k, s, h) == owner[k] # Nobody /\ owner[k].session = s

\* A key that is already known: answered from the stored row when the caller
\* is the session that enqueued it and asks for the same thing, a conflict
\* (no change) otherwise.  The connection and the scope are not looked at.
SameRequest(k, s, h) == owner[k] = [session |-> s, hash |-> h]

Replay(k, s, h) ==
  /\ Exists(k)
  /\ authority[s] # "none"
  /\ SameRequest(k, s, h)
  /\ receipts' = receipts \cup {[key |-> k, session |-> s, hash |-> h]}
  /\ UNCHANGED <<authority, owner, status, lease, leasedBy,
                 attemptCount, evidence, outbox, attempts, cases>>

Create(k, s, h) == Enqueue(k, s, h) \/ Replay(k, s, h)

-----------------------------------------------------------------------------
(* nile_claim_moodle_command *)

\* Variants with a bug: the status is forgotten; a lease that ran out is
\* forgotten.
QueuedOnly(k) == status[k] = "queued"
NotUnderLease(k) == Exists(k) /\ lease[k] # "live" /\ status[k] # "cancelled"

Claimable(k) ==
  \/ status[k] = "queued"
  \/ status[k] = "processing" /\ lease[k] = "expired"

\* Any claimable command, although the select is ordered by created_at: it
\* skips the rows another call has locked, and created_at is the time at
\* which the creating transaction began, not the one at which it committed.
Claim(k, w) ==
  /\ Claimable(k)
  /\ attemptCount[k] < MaxAttempts
  /\ status' = [status EXCEPT ![k] = "processing"]
  /\ lease' = [lease EXCEPT ![k] = "live"]
  /\ leasedBy' = [leasedBy EXCEPT ![k] = w]
  /\ attemptCount' = [attemptCount EXCEPT ![k] = @ + 1]
  /\ outbox' = [outbox EXCEPT ![k] = "processing"]
  /\ UNCHANGED <<authority, owner, evidence, attempts, cases,
                 receipts>>

-----------------------------------------------------------------------------
(* nile_complete_moodle_command_attempt *)

\* What the worker sends along with the outcome: is there a response hash
\* with a provider version, is there an error code.  The checks of
\* moodle_command_attempts admit a hash exactly for "applied" and an error
\* code exactly for "failed" and "denied"; any other combination aborts the
\* transaction.
AttemptAdmitted(outcome, hashed, coded) ==
  /\ hashed <=> (outcome = "applied")
  /\ coded <=> (outcome \in {"failed", "denied"})

\* Variants with a bug: the caller is not compared with leased_by; the
\* attempt number is not compared.
HoldsLeaseAnyWorker(k, w, n) ==
  status[k] = "processing" /\ lease[k] = "live" /\ attemptCount[k] = n
HoldsLeaseAnyAttempt(k, w, n) ==
  status[k] = "processing" /\ leasedBy[k] = w /\ lease[k] = "live"

\* The lease the caller must still hold, under the attempt number it claimed.
HoldsLease(k, w, n) ==
  /\ status[k] = "processing"
  /\ leasedBy[k] = w
  /\ lease[k] = "live"
  /\ attemptCount[k] = n

\* Variant with a bug: an unknown outcome goes straight back to the queue.
SettledForRetry(outcome) ==
  CASE outcome = "unknown" -> "queued"
    [] outcome = "applied" -> "applied"
    [] OTHER               -> "failed"

Settled(outcome) ==
  CASE outcome = "unknown" -> "reconciliation_required"
    [] outcome = "applied" -> "applied"
    [] OTHER               -> "failed"

\* Variant with a bug: a command put back in the queue keeps a dead event.
OutboxForVerdict(st) ==
  CASE st = "applied" -> "succeeded"
    [] st = "failed"  -> "failed"
    [] OTHER          -> "dead_letter"

OutboxFor(st) ==
  CASE st = "applied" -> "succeeded"
    [] st = "failed"  -> "failed"
    [] st = "queued"  -> "pending"
    [] OTHER          -> "dead_letter"

OpenCases(k) == {c \in cases : c.key = k /\ c.state = "open"}

\* "on conflict do nothing" keeps an open case that names the same provider
\* request; beside one that names another the strict select that follows
\* would find two and abort.  Neither happens: a command in progress has no
\* open case (OpenIsCurrent in MoodleCommandStore_proofs).
CasesAfter(k, n, outcome) ==
  IF outcome = "unknown" /\ OpenCases(k) = {}
  THEN cases \cup {[key |-> k, attempt |-> n, state |-> "open"]}
  ELSE cases

Complete(k, w, n, outcome, hashed, coded) ==
  /\ HoldsLease(k, w, n)
  /\ AttemptAdmitted(outcome, hashed, coded)
  /\ \A a \in attempts : ~(a.key = k /\ a.n = n)
  /\ attempts' = attempts \cup
       {[key |-> k, n |-> n, worker |-> w, outcome |-> outcome]}
  /\ cases' = CasesAfter(k, n, outcome)
  /\ status' = [status EXCEPT ![k] = Settled(outcome)]
  /\ lease' = [lease EXCEPT ![k] = "none"]
  /\ leasedBy' = [leasedBy EXCEPT ![k] = Nobody]
  /\ evidence' = [evidence EXCEPT ![k] = hashed]
  /\ outbox' = [outbox EXCEPT ![k] = OutboxFor(Settled(outcome))]
  /\ UNCHANGED <<authority, owner, attemptCount, receipts>>

-----------------------------------------------------------------------------
(* nile_reconcile_moodle_command, called by a superadmin: its authority is  *)
(* an input, and a denied call changes nothing.                             *)

\* Variant with a bug: the resolution is stored where the status belongs.
ResolvedVerbatim(resolution) == resolution

Resolved(resolution) ==
  CASE resolution = "confirmed_applied"     -> "applied"
    [] resolution = "confirmed_not_applied" -> "queued"
    [] resolution = "cancelled"             -> "cancelled"

Reconcile(k, resolution) ==
  /\ status[k] = "reconciliation_required"
  /\ cases' = (cases \ OpenCases(k)) \cup
       {[c EXCEPT !.state = resolution] : c \in OpenCases(k)}
  /\ status' = [status EXCEPT ![k] = Resolved(resolution)]
  /\ evidence' = [evidence EXCEPT ![k] = resolution = "confirmed_applied"]
  /\ outbox' = [outbox EXCEPT ![k] = OutboxFor(Resolved(resolution))]
  /\ UNCHANGED <<authority, owner, lease, leasedBy, attemptCount,
                 attempts, receipts>>

-----------------------------------------------------------------------------
(* The environment: time passes, sessions gain and lose authority. *)

LeaseExpires(k) ==
  /\ lease[k] = "live"
  /\ lease' = [lease EXCEPT ![k] = "expired"]
  /\ UNCHANGED <<authority, owner, status, leasedBy, attemptCount,
                 evidence, outbox, attempts, cases, receipts>>

ChangeAuthority(s) ==
  /\ \E a \in Authorities \ {authority[s]} :
       authority' = [authority EXCEPT ![s] = a]
  /\ UNCHANGED <<owner, status, lease, leasedBy, attemptCount,
                 evidence, outbox, attempts, cases, receipts>>

StoreNext ==
  \/ \E k \in Keys, s \in Sessions, h \in Hashes : Create(k, s, h)
  \/ \E k \in Keys, w \in Workers : Claim(k, w)
  \/ \E k \in Keys, w \in Workers, n \in 1..MaxAttempts, o \in Outcomes,
        hashed, coded \in BOOLEAN : Complete(k, w, n, o, hashed, coded)
  \/ \E k \in Keys, r \in Resolutions : Reconcile(k, r)
  \/ \E k \in Keys : LeaseExpires(k)
  \/ \E s \in Sessions : ChangeAuthority(s)

StoreSpec == StoreInit /\ [][StoreNext]_storeVars

-----------------------------------------------------------------------------
(* Safety *)

Final == {"applied", "failed", "cancelled"}

\* Two callers who were both told that their command is stored under a key
\* were the same session asking for the same payload: a reused idempotency
\* key is never answered with somebody else's command, whatever the order of
\* the calls and however the authority of the sessions changed in between.
OneRequestPerKey ==
  \A r1, r2 \in receipts :
    r1.key = r2.key => r1.session = r2.session /\ r1.hash = r2.hash

\* The outbox event and the request row are two rows of two tables that each
\* of the four functions updates separately; they never disagree.
OutboxAgrees ==
  \A k \in Keys :
    /\ outbox[k] = "absent"     <=> status[k] = "absent"
    /\ outbox[k] = "pending"    <=> status[k] = "queued"
    /\ outbox[k] = "processing" <=> status[k] = "processing"
    /\ outbox[k] = "succeeded"  <=> status[k] = "applied"
    /\ outbox[k] = "failed"     <=> status[k] = "failed"

\* An attempt that ended "unknown" is followed by another attempt only after
\* a reconciliation of that very attempt said "not applied": no completed
\* unknown attempt is retried blindly by the database functions.
UnknownIsReconciledBeforeRetry ==
  \A a \in attempts :
    (a.outcome = "unknown" /\ attemptCount[a.key] > a.n) =>
      \E c \in cases : /\ c.key = a.key
                       /\ c.attempt = a.n
                       /\ c.state = "confirmed_not_applied"

LastAnswer(k, outcomes) ==
  \E a \in attempts :
    a.key = k /\ a.n = attemptCount[k] /\ a.outcome \in outcomes

LastCase(k, state) ==
  \E c \in cases : c.key = k /\ c.attempt = attemptCount[k] /\ c.state = state

VerdictIsGrounded(k) ==
  /\ status[k] = "failed" => LastAnswer(k, {"failed", "denied"})
  /\ status[k] = "applied" =>
       /\ evidence[k]
       /\ \/ LastAnswer(k, {"applied"})
          \/ LastAnswer(k, {"unknown"}) /\ LastCase(k, "confirmed_applied")
  /\ status[k] = "reconciliation_required" =>
       LastAnswer(k, {"unknown"}) /\ LastCase(k, "open")
  /\ status[k] = "cancelled" =>
       LastAnswer(k, {"unknown"}) /\ LastCase(k, "cancelled")

\* A verdict rests on the attempt that was current when it was given:
\* "failed" on a failed or denied answer to the last claim, "applied" on an
\* applied answer to it or on a reconciliation of it, review on its unknown
\* answer with its case still open.  Nothing recorded for an earlier attempt
\* decides a command that was claimed again.
VerdictFromLastAttempt == \A k \in Keys : VerdictIsGrounded(k)

\* An applied attempt is the last one of its command: a command whose change
\* is recorded as made is never handed to a worker again.
AppliedEndsTheCommand ==
  \A a \in attempts :
    a.outcome = "applied" =>
      status[a.key] = "applied" /\ attemptCount[a.key] = a.n

\* Who ends an attempt: the worker whose lease on the command is live, with
\* an answer recorded for the attempt it claimed last.
EndedByHolder(k) ==
  /\ lease[k] = "live"
  /\ \E a \in attempts' \ attempts :
       a.key = k /\ a.worker = leasedBy[k] /\ a.n = attemptCount[k]

\* No step takes a command out of a final state, and a command in progress is
\* decided or sent to review only by the worker that holds its live lease,
\* never by one that claimed it earlier, nor by its last worker once the
\* lease has run out, nor by a reconciliation.
FinalIsForever ==
  [][\A k \in Keys :
       /\ status[k] \in Final => status'[k] = status[k]
                                 /\ attemptCount'[k] = attemptCount[k]
       /\ (status[k] = "processing" /\ status'[k] # "processing") =>
            EndedByHolder(k)]_storeVars
=============================================================================
