------------------------ MODULE MoodleCommandSystem ------------------------
(***************************************************************************)
(* The Moodle command runtime end to end: sessions that enqueue commands,  *)
(* the workers of server/moodleCommandService.ts, the database functions   *)
(* of MoodleCommandStore and the plugin of MoodleProvider.                 *)
(*                                                                         *)
(* A worker is one call of processOne, under a worker id made for that     *)
(* call: the immediate call after a POST, or one iteration of the worker   *)
(* route.  It claims a claimable command, which need not be the one just   *)
(* created, resolves the external ids in its payload, sends it, waits at   *)
(* most twelve seconds, and reports what it heard.                         *)
(***************************************************************************)
EXTENDS MoodleCommandStore

CONSTANTS
  Payloads,   \* provider payload hashes: the payload with external ids in it
  NoPayload,  \* a reference that cannot be resolved
  MaxFaults   \* bound: deaths, lost calls, early lease expiries, bad lookups

ASSUME SystemAssumption ==
  NoPayload \notin Payloads \cup Keys /\ MaxFaults \in Nat

VARIABLES
  mapping,      \* what external_records resolves the payload to right now
  phase,        \* where worker w is in processOne
  job,          \* the key and attempt number worker w claimed
  verdict,      \* the outcome worker w is about to report or has reported
  faults,       \* faults so far
  sentKey, sentPayload, stage, answer, ledger, effects \* the provider's

Moodle == INSTANCE MoodleProvider WITH Requests <- Workers

workerVars == <<mapping, phase, job, verdict, faults>>
provVars   == <<sentKey, sentPayload, stage, answer, ledger, effects>>
sysVars    == <<storeVars, workerVars, provVars>>

\* "refused": the report was turned down by the checks on the attempt row
\* although the worker still held its lease.
Phases == {"idle", "claimed", "sent", "reporting", "done", "refused"}
NoJob  == [key |-> Nobody, n |-> 0]

SystemTypeOK ==
  /\ StoreTypeOK
  /\ Moodle!ProviderTypeOK
  /\ mapping \in Payloads \cup {NoPayload}
  /\ phase \in [Workers -> Phases]
  /\ job \in [Workers -> [key : Keys, n : 1..MaxAttempts] \cup {NoJob}]
  /\ verdict \in [Workers -> Outcomes \cup {"none"}]
  /\ faults \in 0..MaxFaults

SystemInit ==
  /\ StoreInit
  /\ Moodle!ProviderInit
  /\ mapping \in Payloads
  /\ phase = [w \in Workers |-> "idle"]
  /\ job = [w \in Workers |-> NoJob]
  /\ verdict = [w \in Workers |-> "none"]
  /\ faults = 0

Fault == faults < MaxFaults /\ faults' = faults + 1

-----------------------------------------------------------------------------
(* One call of processOne *)

\* repository.claim: the claim transaction commits and its answer arrives.
Take(w) ==
  /\ phase[w] = "idle"
  /\ \E k \in Keys :
       /\ Claim(k, w)
       /\ job' = [job EXCEPT ![w] = [key |-> k, n |-> attemptCount[k] + 1]]
  /\ phase' = [phase EXCEPT ![w] = "claimed"]
  /\ UNCHANGED <<mapping, verdict, faults, provVars>>

\* providerPayload, still inside repository.claim, turns internal ids into
\* the external ids of this moment; provider.execute sends the result.
Send(w) ==
  /\ phase[w] = "claimed"
  /\ mapping # NoPayload
  /\ Moodle!Receive(w, job[w].key, mapping)
  /\ phase' = [phase EXCEPT ![w] = "sent"]
  /\ UNCHANGED <<storeVars, mapping, job, verdict, faults>>

\* The lookup finds no or several synced records: repository.claim throws
\* and the row stays as the claim left it.
LookupFails(w) ==
  /\ phase[w] = "claimed"
  /\ mapping = NoPayload
  /\ Fault
  /\ phase' = [phase EXCEPT ![w] = "done"]
  /\ UNCHANGED <<storeVars, mapping, job, verdict, provVars>>

\* The lookup succeeded; validateConfig throws before anything is sent: an
\* error of its own, or a TypeError of new URL, which counts as unknown.
NotConfigured(w) ==
  /\ phase[w] = "claimed"
  /\ mapping # NoPayload
  /\ Fault
  /\ \E o \in {"failed", "unknown"} : verdict' = [verdict EXCEPT ![w] = o]
  /\ phase' = [phase EXCEPT ![w] = "reporting"]
  /\ UNCHANGED <<storeVars, mapping, job, provVars>>

\* Variants with a bug: the provider's word is taken as it is; any answer
\* counts as success; a good answer is thrown away as incomplete.
ClassifiedVerbatim(a) == a
ClassifiedAnyReply(a) == "applied"
ClassifiedIncomplete(a) == IF a = "denied" THEN "denied" ELSE "failed"

\* How provider.execute classifies what Moodle answered.
Classified(a) ==
  CASE a = "applied"  -> "applied"
    [] a = "rejected" -> "failed"
    [] a = "denied"   -> "denied"

Hear(w) ==
  /\ phase[w] = "sent"
  /\ stage[w] = "returned"
  /\ verdict' = [verdict EXCEPT ![w] = Classified(answer[w])]
  /\ phase' = [phase EXCEPT ![w] = "reporting"]
  /\ UNCHANGED <<storeVars, mapping, job, faults, provVars>>

\* The abort timer, a transport error, a response that is not readable: the
\* outcome is unknown, and the request may still be executing.
GiveUp(w) ==
  /\ phase[w] = "sent"
  /\ IF stage[w] = "lost" THEN UNCHANGED faults ELSE Fault
  /\ verdict' = [verdict EXCEPT ![w] = "unknown"]
  /\ phase' = [phase EXCEPT ![w] = "reporting"]
  /\ UNCHANGED <<storeVars, mapping, job, provVars>>

\* repository.complete: executeClaimed sends a response hash with "applied"
\* and the error code of the provider error with everything else.
Report(w) ==
  /\ phase[w] = "reporting"
  /\ Complete(job[w].key, w, job[w].n, verdict[w],
              verdict[w] = "applied", verdict[w] # "applied")
  /\ phase' = [phase EXCEPT ![w] = "done"]
  /\ UNCHANGED <<mapping, job, verdict, faults, provVars>>

\* The completion is turned down: the lease is gone, or a check aborts it.
ReportTurnedDown(w) ==
  /\ phase[w] = "reporting"
  /\ IF HoldsLease(job[w].key, w, job[w].n)
     THEN /\ ~AttemptAdmitted(verdict[w], verdict[w] = "applied",
                              verdict[w] # "applied")
          /\ phase' = [phase EXCEPT ![w] = "refused"]
     ELSE phase' = [phase EXCEPT ![w] = "done"]
  /\ UNCHANGED <<storeVars, mapping, job, verdict, faults, provVars>>

\* The process dies, or the completion is lost on its way.
WorkerDies(w) ==
  /\ phase[w] \in {"claimed", "sent", "reporting"}
  /\ Fault
  /\ phase' = [phase EXCEPT ![w] = "done"]
  /\ UNCHANGED <<storeVars, mapping, job, verdict, provVars>>

-----------------------------------------------------------------------------
(* Everything else *)

\* Callers of the other functions.  The authority of a session stays what it
\* was at the start: create is the only function here that looks at it, and
\* when, how often or whether a session calls it is open anyway.
StoreStep ==
  /\ \/ \E k \in Keys, s \in Sessions, h \in Hashes : Create(k, s, h)
     \/ \E k \in Keys, r \in Resolutions : Reconcile(k, r)
  /\ UNCHANGED <<workerVars, provVars>>

Working(w) == phase[w] \in {"claimed", "sent", "reporting"}

\* The lease of a worker that is still running runs out only as a fault (60
\* seconds against an abort timer of 12).
LeaseRunsOut(k) ==
  /\ LeaseExpires(k)
  /\ IF Working(leasedBy[k]) THEN Fault ELSE UNCHANGED faults
  /\ UNCHANGED <<mapping, phase, job, verdict, provVars>>

\* The synced rows of external_records change.  Nothing under server/ writes
\* them: operators and migrations do.
Remap ==
  /\ mapping' \in (Payloads \cup {NoPayload}) \ {mapping}
  /\ UNCHANGED <<storeVars, phase, job, verdict, faults, provVars>>

MoodleStep(w) ==
  /\ Moodle!Proceed(w)
  /\ UNCHANGED <<storeVars, workerVars>>

MoodleDies(w) ==
  /\ Moodle!Vanish(w)
  /\ Fault
  /\ UNCHANGED <<storeVars, mapping, phase, job, verdict>>

WorkerStep(w) ==
  \/ Send(w)
  \/ Hear(w)
  \/ Report(w)
  \/ ReportTurnedDown(w)

SystemNext ==
  \/ StoreStep
  \/ \E w \in Workers :
       \/ Take(w)
       \/ WorkerStep(w)
       \/ LookupFails(w)
       \/ NotConfigured(w)
       \/ GiveUp(w)
       \/ WorkerDies(w)
       \/ MoodleStep(w)
       \/ MoodleDies(w)
  \/ \E k \in Keys : LeaseRunsOut(k)
  \/ Remap

SystemSpec == SystemInit /\ [][SystemNext]_sysVars

\* A running call takes its next step, Moodle executes what it received, the
\* abort timer ends a wait nobody answers and leases run out by the clock:
\* that is the code's own progress.  Take is the operator's part: processOne
\* keeps being called, by later POSTs or by a scheduler on the worker route
\* (the repository configures none).
SystemFairness ==
  /\ \A w \in Workers :
       /\ WF_sysVars(Take(w))
       /\ WF_sysVars(WorkerStep(w))
       /\ WF_sysVars(MoodleStep(w))
       /\ WF_sysVars(GiveUp(w))
  /\ \A k \in Keys : WF_sysVars(LeaseRunsOut(k))

FairSystemSpec == SystemSpec /\ SystemFairness

-----------------------------------------------------------------------------
(* Safety *)

\* A command is shown as applied only if Moodle committed it, or a superadmin
\* said so in a reconciliation.
AppliedIsTrue ==
  \A k \in Keys :
    status[k] = "applied" =>
      \/ effects[k] = 1
      \/ \E c \in cases : c.key = k /\ c.state = "confirmed_applied"

\* "failed" is shown for a command that Moodle did apply only when an answer
\* of Moodle to an earlier or overlapping attempt never reached the store:
\* the very first attempt, alone, is never misreported.
FailedAfterLostAnswerOnly ==
  \A k \in Keys :
    (status[k] = "failed" /\ effects[k] = 1) =>
      \E w \in Workers :
        /\ job[w].key = k
        /\ job[w].n < attemptCount[k]
        /\ ~\E a \in attempts : a.key = k /\ a.n = job[w].n

\* ADR-010 and the service's test "records unknown outcomes for
\* reconciliation instead of retrying blindly": when a worker that still
\* holds its lease reports "unknown", the command is not attempted again
\* before a reconciliation of that attempt.
ReportedUnknownIsReconciled ==
  \A w \in Workers :
    (/\ phase[w] \in {"done", "refused"} /\ verdict[w] = "unknown"
     /\ phase[w] = "refused" \/ \E a \in attempts : a.key = job[w].key
                                                    /\ a.n = job[w].n)
      => \/ attemptCount[job[w].key] = job[w].n
         \/ \E c \in cases : /\ c.key = job[w].key
                             /\ c.attempt = job[w].n
                             /\ c.state = "confirmed_not_applied"

-----------------------------------------------------------------------------
(* The contract: what a command looks like from outside. *)

VerdictOf(st) ==
  CASE st = "absent"                  -> "none"
    [] st \in {"queued", "processing"} -> "open"
    [] st = "reconciliation_required"  -> "review"
    [] OTHER                           -> st

Promise == INSTANCE MoodleCommandContract WITH
             verdict <- [k \in Keys |-> VerdictOf(status[k])],
             changes <- effects

\* The runtime keeps the contract: every step of a session, a worker, the
\* database or Moodle is a step of the contract or changes nothing in it.
KeepsContract == Promise!Contract

-----------------------------------------------------------------------------
(* Liveness *)

Decided(k) == status[k] \in Final \cup {"reconciliation_required"}

\* A stored command is decided, provided its references resolve from some
\* time on and faults are finitely many.
EveryCommandIsDecided ==
  <>[](mapping # NoPayload) =>
    \A k \in Keys : status[k] = "queued" ~> Decided(k)
=============================================================================
