--------------------- MODULE MoodleCommandSystem_proofs ---------------------
(***************************************************************************)
(* Proofs about MoodleCommandSystem.  The store keeps the invariant of     *)
(* MoodleCommandStore_proofs and the plugin that of MoodleProvider_proofs, *)
(* whatever calls them; what is added here ties a worker's job to the      *)
(* claim it holds, to the call it made and to what it reports.  From that: *)
(* one change per command, truthful verdicts, and the contract.            *)
(***************************************************************************)
EXTENDS MoodleCommandSystem, MoodleCommandStore_proofs

Plugin == INSTANCE MoodleProvider_proofs WITH Requests <- Workers

USE SystemAssumption, StoreAssumption

JobRow == [key : Keys, n : 1..MaxAttempts]

\* A worker that has begun holds the claim of its job, or held it, alone.
JobsMatchClaims ==
  /\ \A w \in Workers :
       phase[w] # "idle" => job[w] \in JobRow
                            /\ job[w].n <= attemptCount[job[w].key]
  /\ \A v, w \in Workers :
       phase[v] # "idle" /\ phase[w] # "idle" /\ job[v] = job[w] => v = w
  /\ \A k \in Keys, w \in Workers :
       leasedBy[k] = w => /\ phase[w] # "idle"
                          /\ job[w] = [key |-> k, n |-> attemptCount[k]]

\* A worker's call to Moodle is about its job, and its verdict is what it
\* heard, except that nothing heard is "unknown" and nothing sent "failed".
CallsMatchJobs ==
  \A w \in Workers :
    /\ phase[w] \in {"idle", "claimed"} => stage[w] = "none"
    /\ phase[w] \in {"idle", "claimed", "sent"} => verdict[w] = "none"
    /\ phase[w] = "sent" => stage[w] # "none"
    /\ phase[w] = "reporting" => verdict[w] # "none"
    /\ stage[w] # "none" => sentKey[w] = job[w].key
    /\ stage[w] = "returned" => answer[w] # "none"
    /\ verdict[w] = "applied" => answer[w] = "applied"
    /\ verdict[w] \in {"failed", "denied"} =>
         stage[w] = "none" \/ answer[w] \in {"rejected", "denied"}

\* An attempt row is the report of the worker whose job it is; none of them
\* says "unknown".
AttemptsAreReports ==
  \A a \in attempts :
    /\ a.outcome # "unknown"
    /\ phase[a.worker] = "done"
    /\ job[a.worker] = [key |-> a.key, n |-> a.n]
    /\ verdict[a.worker] = a.outcome

\* A worker whose call committed the change of key k.
Committed(w, k) ==
  /\ sentKey[w] = k
  /\ stage[w] \in {"committed", "lost"} \/ answer[w] = "applied"

LedgerHasCommitter ==
  \A k \in Keys : ledger[k] # NoPayload => \E w \in Workers : Committed(w, k)

WorkersTypeOK ==
  /\ mapping \in Payloads \cup {NoPayload}
  /\ phase \in [Workers -> Phases]
  /\ job \in [Workers -> JobRow \cup {NoJob}]
  /\ verdict \in [Workers -> Outcomes \cup {"none"}]
  /\ faults \in 0..MaxFaults

SystemIInv ==
  /\ StoreInv
  /\ Plugin!ProviderInv
  /\ WorkersTypeOK
  /\ JobsMatchClaims
  /\ CallsMatchJobs
  /\ AttemptsAreReports
  /\ LedgerHasCommitter

-----------------------------------------------------------------------------
(* The plugin's proofs, for the calls of workers *)

LEMMA ProviderTypes == Plugin!ProviderInv => Moodle!ProviderTypeOK
BY DEF Plugin!ProviderInv, Plugin!ProviderTypeOK, Moodle!ProviderTypeOK,
       Plugin!Stages, Moodle!Stages, Plugin!Answers, Moodle!Answers

LEMMA ProceedIsPlugin ==
  ASSUME NEW w \in Workers, Moodle!Proceed(w)
  PROVE  Plugin!Proceed(w)
BY DEF Moodle!Proceed, Plugin!Proceed, Moodle!Refuse, Plugin!Refuse,
       Moodle!Lock, Plugin!Lock, Moodle!LockTimeout, Plugin!LockTimeout,
       Moodle!AnswerFromLedger, Plugin!AnswerFromLedger, Moodle!Commit,
       Plugin!Commit, Moodle!ReturnApplied, Plugin!ReturnApplied,
       Moodle!Throw, Plugin!Throw, Moodle!Return, Plugin!Return,
       Moodle!LockFree, Plugin!LockFree, Moodle!Holds, Plugin!Holds,
       Moodle!RecordCommand, Plugin!RecordCommand, Moodle!LedgerAnswer,
       Plugin!LedgerAnswer

LEMMA PluginKeeps ==
  ASSUME Plugin!ProviderInv, NEW w \in Workers,
         \/ \E k \in Keys, p \in Payloads : Moodle!Receive(w, k, p)
         \/ Moodle!Proceed(w)
         \/ Moodle!Vanish(w)
         \/ UNCHANGED provVars
  PROVE  Plugin!ProviderInv'
<1>1. ASSUME NEW k \in Keys, NEW p \in Payloads, Moodle!Receive(w, k, p)
      PROVE  Plugin!ProviderNext
  BY <1>1 DEF Moodle!Receive, Plugin!Receive, Plugin!ProviderNext
<1>2. ASSUME Moodle!Proceed(w) PROVE Plugin!ProviderNext
  BY <1>2, ProceedIsPlugin DEF Plugin!ProviderNext
<1>3. ASSUME Moodle!Vanish(w) PROVE Plugin!ProviderNext
  BY <1>3 DEF Moodle!Vanish, Plugin!Vanish, Plugin!ProviderNext
<1>4. ASSUME UNCHANGED provVars PROVE UNCHANGED Plugin!providerVars
  BY <1>4 DEF provVars, Plugin!providerVars
<1> QED
  BY <1>1, <1>2, <1>3, <1>4, Plugin!ProviderInvStep

\* The ledger counts the changes of a key: none or one.
LEMMA LedgerCounts ==
  ASSUME Plugin!ProviderInv, NEW k \in Keys
  PROVE  effects[k] = IF ledger[k] = NoPayload THEN 0 ELSE 1
BY DEF Plugin!ProviderInv, Plugin!LedgerIsExact

\* A worker told "applied" made the one call that changed Moodle, or another
\* call with the same data did.
LEMMA ToldAppliedIsDone ==
  ASSUME SystemIInv, NEW w \in Workers, answer[w] = "applied"
  PROVE  /\ job[w].key \in Keys
         /\ sentKey[w] = job[w].key
         /\ effects[job[w].key] = 1
<1> USE DEF SystemIInv, Plugin!ProviderInv, Plugin!CallsAreWhole
<1>1. stage[w] = "returned"
  OBVIOUS
<1>2. /\ sentKey[w] \in Keys /\ sentPayload[w] \in Payloads
      /\ sentKey[w] = job[w].key
  BY <1>1 DEF CallsMatchJobs
<1>3. ledger[sentKey[w]] = sentPayload[w]
  BY DEF Plugin!AppliedIsRecorded
<1> QED
  BY <1>2, <1>3, LedgerCounts

\* What PHP does with a call, seen from the system.
LEMMA MoodleStepEffect ==
  ASSUME Plugin!ProviderInv, NEW w \in Workers,
         Moodle!Proceed(w) \/ Moodle!Vanish(w)
  PROVE  /\ UNCHANGED <<sentKey, sentPayload>>
         /\ stage[w] \in {"waiting", "locked", "committed"}
         /\ \A v \in Workers \ {w} :
              stage'[v] = stage[v] /\ answer'[v] = answer[v]
         /\ \/ stage'[w] \in {"locked", "committed", "lost"}
               /\ answer'[w] = answer[w]
            \/ /\ stage'[w] = "returned"
               /\ answer'[w] \in {"applied", "rejected", "denied"}
         /\ stage[w] = "committed" =>
              stage'[w] = "lost" \/ answer'[w] = "applied"
         /\ \/ UNCHANGED <<ledger, effects>>
            \/ /\ stage'[w] = "committed"
               /\ ledger[sentKey[w]] = NoPayload
               /\ ledger' = [ledger EXCEPT ![sentKey[w]] = sentPayload[w]]
               /\ effects' = [effects EXCEPT ![sentKey[w]] = @ + 1]
<1>1. Moodle!ProviderTypeOK
  BY ProviderTypes
<1> USE <1>1 DEF Moodle!ProviderTypeOK
<1>2. ASSUME NEW a \in {"applied", "rejected", "denied"}, Moodle!Return(w, a)
      PROVE  /\ UNCHANGED <<sentKey, sentPayload>>
             /\ stage'[w] = "returned" /\ answer'[w] = a
             /\ \A v \in Workers \ {w} :
                  stage'[v] = stage[v] /\ answer'[v] = answer[v]
  BY <1>2 DEF Moodle!Return
<1>3. CASE Moodle!Refuse(w)
  BY <1>2, <1>3 DEF Moodle!Refuse
<1>4. CASE Moodle!LockTimeout(w)
  BY <1>2, <1>4 DEF Moodle!LockTimeout
<1>5. CASE Moodle!AnswerFromLedger(w)
  BY <1>2, <1>5 DEF Moodle!AnswerFromLedger, Moodle!LedgerAnswer
<1>6. CASE Moodle!ReturnApplied(w)
  BY <1>2, <1>6 DEF Moodle!ReturnApplied
<1>7. CASE Moodle!Throw(w)
  BY <1>2, <1>7 DEF Moodle!Throw
<1>8. CASE Moodle!Lock(w)
  BY <1>8 DEF Moodle!Lock
<1>9. CASE Moodle!Commit(w)
  BY <1>9 DEF Moodle!Commit, Moodle!RecordCommand
<1>10. CASE Moodle!Vanish(w)
  BY <1>10 DEF Moodle!Vanish
<1> QED
  BY <1>3, <1>4, <1>5, <1>6, <1>7, <1>8, <1>9, <1>10 DEF Moodle!Proceed

-----------------------------------------------------------------------------
(* Initial states; store and plugin keep their invariants *)

LEMMA SystemInitIInv == SystemInit => SystemIInv
<1> SUFFICES ASSUME SystemInit PROVE SystemIInv
  OBVIOUS
<1>1. StoreInv
  BY StoreInvInit DEF SystemInit
<1>2. Plugin!ProviderInv
  <2>1. Plugin!ProviderInit
    BY DEF SystemInit, Moodle!ProviderInit, Plugin!ProviderInit
  <2> QED
    BY <2>1, Plugin!ProviderInvInit
<1>3. WorkersTypeOK
  BY DEF SystemInit, WorkersTypeOK, Phases
<1>4. JobsMatchClaims /\ AttemptsAreReports
  BY DEF SystemInit, StoreInit, JobsMatchClaims, AttemptsAreReports
<1>5. CallsMatchJobs /\ LedgerHasCommitter
  BY DEF SystemInit, Moodle!ProviderInit, CallsMatchJobs, LedgerHasCommitter
<1> QED
  BY <1>1, <1>2, <1>3, <1>4, <1>5 DEF SystemIInv

\* What a worker reports about its job.
LEMMA ReportIsCompletion ==
  ASSUME SystemIInv, NEW w \in Workers, Report(w)
  PROVE  /\ job[w] \in JobRow
         /\ verdict[w] \in {"applied", "failed", "denied"}
         /\ Complete(job[w].key, w, job[w].n, verdict[w],
                     verdict[w] = "applied", verdict[w] # "applied")
<1>1. phase[w] = "reporting"
  BY DEF Report
<1>2. job[w] \in JobRow /\ verdict[w] \in Outcomes
  BY <1>1 DEF SystemIInv, JobsMatchClaims, CallsMatchJobs, WorkersTypeOK
<1>3. Complete(job[w].key, w, job[w].n, verdict[w],
               verdict[w] = "applied", verdict[w] # "applied")
  BY DEF Report
<1>4. verdict[w] # "unknown"
  BY <1>3 DEF Complete, AttemptAdmitted
<1> QED
  BY <1>2, <1>3, <1>4 DEF Outcomes

LEMMA StoreKeeps ==
  ASSUME SystemIInv, [SystemNext]_sysVars
  PROVE  StoreInv' /\ [StoreNext]_storeVars
<1>1. ASSUME NEW w \in Workers, Take(w)
      PROVE  StoreNext
  BY <1>1 DEF Take, StoreNext
<1>2. ASSUME NEW w \in Workers, Report(w)
      PROVE  StoreNext
  <2>1. job[w].key \in Keys /\ job[w].n \in 1..MaxAttempts
        /\ verdict[w] \in Outcomes
    BY <1>2, ReportIsCompletion DEF JobRow, Outcomes
  <2>2. (verdict[w] = "applied") \in BOOLEAN /\ (verdict[w] # "applied") \in BOOLEAN
    OBVIOUS
  <2>3. Complete(job[w].key, w, job[w].n, verdict[w],
                 verdict[w] = "applied", verdict[w] # "applied")
    BY <1>2 DEF Report
  <2>4. \E k \in Keys, v \in Workers, n \in 1..MaxAttempts, o \in Outcomes,
           hashed, coded \in BOOLEAN : Complete(k, v, n, o, hashed, coded)
    BY <2>1, <2>2, <2>3
  <2> QED
    BY <2>4 DEF StoreNext
<1>3. ASSUME StoreStep PROVE StoreNext
  <2>1. \/ \E k \in Keys, s \in Sessions, h \in Hashes : Create(k, s, h)
        \/ \E k \in Keys, r \in Resolutions : Reconcile(k, r)
    BY <1>3 DEF StoreStep
  <2> QED
    BY <2>1 DEF StoreNext
<1>4. ASSUME NEW k \in Keys, LeaseRunsOut(k)
      PROVE  StoreNext
  BY <1>4 DEF LeaseRunsOut, StoreNext
<1>5. [StoreNext]_storeVars
  BY <1>1, <1>2, <1>3, <1>4
     DEF SystemNext, WorkerStep, Send, Hear, ReportTurnedDown, LookupFails,
         NotConfigured, GiveUp, WorkerDies, MoodleStep, MoodleDies, Remap,
         sysVars
<1> QED
  BY <1>5, StoreInvStep DEF SystemIInv

LEMMA PluginStep ==
  ASSUME SystemIInv, [SystemNext]_sysVars
  PROVE  Plugin!ProviderInv'
<1>1. ASSUME NEW w \in Workers, Send(w)
      PROVE  Plugin!ProviderInv'
  <2>1. job[w].key \in Keys /\ mapping \in Payloads
    BY <1>1 DEF Send, SystemIInv, JobsMatchClaims, JobRow, WorkersTypeOK
  <2> QED
    BY <1>1, <2>1, PluginKeeps DEF Send, SystemIInv
<1>2. ASSUME NEW w \in Workers, MoodleStep(w) \/ MoodleDies(w)
      PROVE  Plugin!ProviderInv'
  BY <1>2, PluginKeeps DEF MoodleStep, MoodleDies, SystemIInv
<1>3. CASE UNCHANGED provVars
  <2>1. UNCHANGED Plugin!providerVars
    BY <1>3 DEF provVars, Plugin!providerVars
  <2> QED
    BY <2>1, Plugin!ProviderInvStep DEF SystemIInv
<1> QED
  BY <1>1, <1>2, <1>3
     DEF SystemNext, StoreStep, WorkerStep, Take, Hear, Report,
         ReportTurnedDown, LookupFails, NotConfigured, GiveUp, WorkerDies,
         LeaseRunsOut, Remap, sysVars

-----------------------------------------------------------------------------
(* What ties them together *)

LEMMA WorkersTypeStep ==
  ASSUME SystemIInv, [SystemNext]_sysVars
  PROVE  WorkersTypeOK'
<1> USE DEF WorkersTypeOK, Phases
<1>0. WorkersTypeOK /\ StoreTypeOK
  BY DEF SystemIInv, StoreInv
<1>1. ASSUME NEW w \in Workers, Take(w)
      PROVE  WorkersTypeOK'
  <2>1. PICK k \in Keys :
          /\ Claim(k, w)
          /\ job' = [job EXCEPT ![w] = [key |-> k, n |-> attemptCount[k] + 1]]
    BY <1>1 DEF Take
  <2>2. attemptCount[k] + 1 \in 1..MaxAttempts
    BY <1>0, <2>1 DEF Claim, StoreTypeOK
  <2> QED
    BY <1>0, <1>1, <2>1, <2>2 DEF Take, JobRow
<1>2. ASSUME NEW w \in Workers,
             Send(w) \/ LookupFails(w) \/ NotConfigured(w) \/ GiveUp(w)
               \/ WorkerDies(w)
      PROVE  WorkersTypeOK'
  BY <1>0, <1>2 DEF Send, LookupFails, NotConfigured, GiveUp, WorkerDies,
     Fault, Outcomes
<1>3. ASSUME NEW w \in Workers, Hear(w)
      PROVE  WorkersTypeOK'
  <2>1. answer[w] \in {"applied", "rejected", "denied"}
    BY <1>3, ProviderTypes
       DEF Hear, SystemIInv, CallsMatchJobs, Moodle!ProviderTypeOK,
           Moodle!Answers
  <2>2. Classified(answer[w]) \in Outcomes
    BY <2>1 DEF Classified, Outcomes
  <2> QED
    BY <1>0, <1>3, <2>2 DEF Hear
<1>4. ASSUME NEW w \in Workers, Report(w) \/ ReportTurnedDown(w)
      PROVE  WorkersTypeOK'
  BY <1>0, <1>4 DEF Report, ReportTurnedDown
<1>5. CASE StoreStep
  BY <1>0, <1>5 DEF StoreStep, workerVars
<1>6. ASSUME NEW w \in Workers, MoodleStep(w) \/ MoodleDies(w)
      PROVE  WorkersTypeOK'
  BY <1>0, <1>6 DEF MoodleStep, MoodleDies, workerVars, Fault
<1>7. ASSUME NEW k \in Keys, LeaseRunsOut(k)
      PROVE  WorkersTypeOK'
  BY <1>0, <1>7 DEF LeaseRunsOut, Fault
<1>8. CASE Remap
  BY <1>0, <1>8 DEF Remap
<1>9. CASE UNCHANGED sysVars
  BY <1>0, <1>9 DEF sysVars, workerVars
<1> QED
  BY <1>1, <1>2, <1>3, <1>4, <1>5, <1>6, <1>7, <1>8, <1>9
     DEF SystemNext, WorkerStep

\* Phases move on and jobs stay, but for the worker that claims.
LEMMA JobsStay ==
  ASSUME SystemIInv, [SystemNext]_sysVars, \A w \in Workers : ~Take(w)
  PROVE  /\ job' = job
         /\ \A w \in Workers : phase[w] = "idle" <=> phase'[w] = "idle"
         /\ UNCHANGED attemptCount
         /\ \A k \in Keys : leasedBy'[k] = leasedBy[k] \/ leasedBy'[k] = Nobody
<1> USE DEF SystemIInv
<1>1. ASSUME NEW w \in Workers, Report(w)
      PROVE  /\ job' = job
             /\ \A v \in Workers : phase[v] = "idle" <=> phase'[v] = "idle"
             /\ UNCHANGED attemptCount
             /\ \A k \in Keys : leasedBy'[k] = leasedBy[k] \/ leasedBy'[k] = Nobody
  BY <1>1, ReportIsCompletion
     DEF Report, Complete, WorkersTypeOK, StoreInv, StoreTypeOK
<1>2. CASE StoreStep
  BY <1>2 DEF StoreStep, Create, Enqueue, Replay, Reconcile, workerVars
<1>3. ASSUME NEW k \in Keys, LeaseRunsOut(k)
      PROVE  UNCHANGED <<job, phase, attemptCount, leasedBy>>
  BY <1>3 DEF LeaseRunsOut, LeaseExpires
<1>4. ASSUME NEW w \in Workers,
             Send(w) \/ LookupFails(w) \/ NotConfigured(w) \/ GiveUp(w)
               \/ WorkerDies(w) \/ Hear(w) \/ ReportTurnedDown(w)
      PROVE  /\ UNCHANGED <<job, attemptCount, leasedBy>>
             /\ \A v \in Workers : phase[v] = "idle" <=> phase'[v] = "idle"
  BY <1>4 DEF Send, LookupFails, NotConfigured, GiveUp, WorkerDies, Hear,
     ReportTurnedDown, storeVars, WorkersTypeOK
<1>5. ASSUME NEW w \in Workers, MoodleStep(w) \/ MoodleDies(w)
      PROVE  UNCHANGED <<job, phase, attemptCount, leasedBy>>
  BY <1>5 DEF MoodleStep, MoodleDies, workerVars, storeVars
<1>6. CASE Remap \/ UNCHANGED sysVars
  BY <1>6 DEF Remap, sysVars, workerVars, storeVars
<1> QED
  BY <1>1, <1>2, <1>3, <1>4, <1>5, <1>6 DEF SystemNext, WorkerStep

LEMMA JobsStep ==
  ASSUME SystemIInv, [SystemNext]_sysVars
  PROVE  JobsMatchClaims'
<1> USE DEF SystemIInv
<1>1. ASSUME NEW w \in Workers, Take(w)
      PROVE  JobsMatchClaims'
  <2>1. PICK k \in Keys :
          /\ Claim(k, w)
          /\ job' = [job EXCEPT ![w] = [key |-> k, n |-> attemptCount[k] + 1]]
    BY <1>1 DEF Take
  <2>2. phase[w] = "idle" /\ phase' = [phase EXCEPT ![w] = "claimed"]
    BY <1>1 DEF Take
  <2>3. /\ attemptCount[k] \in Nat /\ attemptCount[k] + 1 \in 1..MaxAttempts
        /\ attemptCount' = [attemptCount EXCEPT ![k] = attemptCount[k] + 1]
        /\ leasedBy' = [leasedBy EXCEPT ![k] = w]
        /\ \A j \in Keys : attemptCount[j] \in Nat
    BY <2>1 DEF Claim, StoreInv, StoreTypeOK
  <2>4. /\ phase'[w] # "idle"
        /\ job'[w] = [key |-> k, n |-> attemptCount[k] + 1]
        /\ job'[w] \in JobRow
        /\ attemptCount'[k] = attemptCount[k] + 1
        /\ \A j \in Keys \ {k} : attemptCount'[j] = attemptCount[j]
        /\ \A v \in Workers \ {w} : phase'[v] = phase[v] /\ job'[v] = job[v]
    BY <2>1, <2>2, <2>3 DEF WorkersTypeOK, StoreInv, StoreTypeOK, JobRow
  <2>5. ASSUME NEW v \in Workers, phase'[v] # "idle"
        PROVE  /\ job'[v] \in JobRow
               /\ job'[v].n <= attemptCount'[job'[v].key]
               /\ v # w => job'[v] # job'[w]
    <3>1. CASE v = w
      BY <2>3, <2>4, <3>1
    <3>2. CASE v # w
      <4>1. job'[v] = job[v] /\ job[v] \in JobRow
            /\ job[v].n <= attemptCount[job[v].key]
        BY <2>4, <2>5, <3>2 DEF JobsMatchClaims
      <4> QED
        BY <2>3, <2>4, <4>1 DEF JobRow
    <3> QED
      BY <3>1, <3>2
  <2>6. ASSUME NEW j \in Keys, NEW v \in Workers, leasedBy'[j] = v
        PROVE  /\ phase'[v] # "idle"
               /\ job'[v] = [key |-> j, n |-> attemptCount'[j]]
    <3>1. CASE j = k
      BY <2>3, <2>4, <2>6, <3>1 DEF StoreInv, StoreTypeOK
    <3>2. CASE j # k
      <4>1. leasedBy[j] = v
        BY <2>3, <2>6, <3>2 DEF StoreInv, StoreTypeOK
      <4>2. phase[v] # "idle" /\ job[v] = [key |-> j, n |-> attemptCount[j]]
        BY <4>1 DEF JobsMatchClaims
      <4> QED
        BY <2>2, <2>4, <3>2, <4>2
    <3> QED
      BY <3>1, <3>2
  <2>7. \A u, v \in Workers :
          phase'[u] # "idle" /\ phase'[v] # "idle" /\ job'[u] = job'[v] => u = v
    BY <2>4, <2>5 DEF JobsMatchClaims
  <2> QED
    BY <2>5, <2>6, <2>7 DEF JobsMatchClaims
<1>2. CASE \A w \in Workers : ~Take(w)
  <2>1. /\ job' = job
        /\ \A w \in Workers : phase[w] = "idle" <=> phase'[w] = "idle"
        /\ UNCHANGED attemptCount
        /\ \A k \in Keys : leasedBy'[k] = leasedBy[k] \/ leasedBy'[k] = Nobody
    BY <1>2, JobsStay
  <2> QED
    BY <2>1 DEF JobsMatchClaims
<1> QED
  BY <1>1, <1>2

\* Everything a worker knows about its call, under steps of the system.
LEMMA CallsStep ==
  ASSUME SystemIInv, [SystemNext]_sysVars
  PROVE  CallsMatchJobs'
<1> USE DEF SystemIInv
<1>0. /\ WorkersTypeOK /\ CallsMatchJobs /\ Moodle!ProviderTypeOK
      /\ \A w \in Workers : stage[w] # "returned" => answer[w] = "none"
  BY ProviderTypes DEF Plugin!ProviderInv, Plugin!CallsAreWhole
<1>1. ASSUME NEW w \in Workers, Take(w)
      PROVE  CallsMatchJobs'
  <2>1. /\ phase[w] = "idle" /\ phase' = [phase EXCEPT ![w] = "claimed"]
        /\ UNCHANGED <<verdict, sentKey, stage, answer>>
        /\ \A v \in Workers \ {w} : job'[v] = job[v]
    BY <1>0, <1>1 DEF Take, provVars, WorkersTypeOK
  <2> QED
    BY <1>0, <2>1 DEF CallsMatchJobs, WorkersTypeOK
<1>2. ASSUME NEW w \in Workers, Send(w)
      PROVE  CallsMatchJobs'
  <2>1. /\ phase[w] = "claimed" /\ phase' = [phase EXCEPT ![w] = "sent"]
        /\ stage[w] = "none" /\ stage' = [stage EXCEPT ![w] = "waiting"]
        /\ sentKey' = [sentKey EXCEPT ![w] = job[w].key]
        /\ UNCHANGED <<verdict, job, answer>>
    BY <1>2 DEF Send, Moodle!Receive
  <2> QED
    BY <1>0, <2>1 DEF CallsMatchJobs, WorkersTypeOK, Moodle!ProviderTypeOK
<1>3. ASSUME NEW w \in Workers, Hear(w)
      PROVE  CallsMatchJobs'
  <2>1. /\ phase[w] = "sent" /\ phase' = [phase EXCEPT ![w] = "reporting"]
        /\ stage[w] = "returned"
        /\ verdict' = [verdict EXCEPT ![w] = Classified(answer[w])]
        /\ UNCHANGED <<job, sentKey, stage, answer>>
    BY <1>3 DEF Hear, provVars
  <2>2. answer[w] \in {"applied", "rejected", "denied"}
    BY <1>0, <2>1 DEF CallsMatchJobs, Moodle!ProviderTypeOK, Moodle!Answers
  <2>3. /\ Classified(answer[w]) # "none"
        /\ Classified(answer[w]) = "applied" => answer[w] = "applied"
        /\ Classified(answer[w]) \in {"failed", "denied"} =>
             answer[w] \in {"rejected", "denied"}
    BY <2>2 DEF Classified
  <2> QED
    BY <1>0, <2>1, <2>3 DEF CallsMatchJobs, WorkersTypeOK
<1>4. ASSUME NEW w \in Workers, NotConfigured(w) \/ GiveUp(w)
      PROVE  CallsMatchJobs'
  <2>1. /\ phase' = [phase EXCEPT ![w] = "reporting"]
        /\ \/ phase[w] = "claimed" /\ verdict' = [verdict EXCEPT ![w] = "failed"]
           \/ phase[w] \in {"claimed", "sent"}
              /\ verdict' = [verdict EXCEPT ![w] = "unknown"]
        /\ UNCHANGED <<job, sentKey, stage, answer>>
    BY <1>4 DEF NotConfigured, GiveUp, provVars
  <2> QED
    BY <1>0, <2>1 DEF CallsMatchJobs, WorkersTypeOK
<1>5. ASSUME NEW w \in Workers,
             LookupFails(w) \/ Report(w) \/ ReportTurnedDown(w) \/ WorkerDies(w)
      PROVE  CallsMatchJobs'
  <2>1. /\ \E p \in {"done", "refused"} : phase' = [phase EXCEPT ![w] = p]
        /\ UNCHANGED <<job, verdict, sentKey, stage, answer>>
    BY <1>5 DEF LookupFails, Report, ReportTurnedDown, WorkerDies, provVars
  <2> QED
    BY <1>0, <2>1 DEF CallsMatchJobs, WorkersTypeOK
<1>6. ASSUME NEW w \in Workers, MoodleStep(w) \/ MoodleDies(w)
      PROVE  CallsMatchJobs'
  <2>1. Moodle!Proceed(w) \/ Moodle!Vanish(w)
    BY <1>6 DEF MoodleStep, MoodleDies
  <2>2. UNCHANGED <<phase, job, verdict>>
    BY <1>6 DEF MoodleStep, MoodleDies, workerVars
  <2>3. /\ UNCHANGED sentKey
        /\ stage[w] \in {"waiting", "locked", "committed"}
        /\ \A v \in Workers \ {w} :
             stage'[v] = stage[v] /\ answer'[v] = answer[v]
        /\ \/ stage'[w] \in {"locked", "committed", "lost"}
              /\ answer'[w] = answer[w]
           \/ /\ stage'[w] = "returned"
              /\ answer'[w] \in {"applied", "rejected", "denied"}
    BY <2>1, MoodleStepEffect
  <2>4. answer[w] = "none"
    BY <1>0, <2>3
  <2>5. ASSUME NEW v \in Workers
        PROVE  /\ phase[v] \in {"idle", "claimed"} => stage'[v] = "none"
               /\ phase[v] = "sent" => stage'[v] # "none"
               /\ stage'[v] # "none" => sentKey[v] = job[v].key
               /\ stage'[v] = "returned" => answer'[v] # "none"
               /\ verdict[v] = "applied" => answer'[v] = "applied"
               /\ verdict[v] \in {"failed", "denied"} =>
                    \/ stage'[v] = "none"
                    \/ answer'[v] \in {"rejected", "denied"}
    <3>1. CASE v = w
      BY <1>0, <2>3, <2>4, <3>1 DEF CallsMatchJobs
    <3>2. CASE v # w
      BY <1>0, <2>3, <3>2 DEF CallsMatchJobs
    <3> QED
      BY <3>1, <3>2
  <2> QED
    BY <1>0, <2>2, <2>3, <2>5 DEF CallsMatchJobs
<1>7. ASSUME UNCHANGED <<phase, job, verdict, sentKey, stage, answer>>
      PROVE  CallsMatchJobs'
  BY <1>0, <1>7 DEF CallsMatchJobs
<1>8. CASE \/ StoreStep \/ Remap \/ UNCHANGED sysVars
           \/ \E k \in Keys : LeaseRunsOut(k)
  BY <1>7, <1>8 DEF StoreStep, Remap, LeaseRunsOut, sysVars, workerVars, provVars
<1> QED
  BY <1>1, <1>2, <1>3, <1>4, <1>5, <1>6, <1>8 DEF SystemNext, WorkerStep

\* A row appears with the report it records, and its worker is at its end.
LEMMA AttemptsStep ==
  ASSUME SystemIInv, [SystemNext]_sysVars
  PROVE  AttemptsAreReports'
<1> USE DEF SystemIInv
<1>0. WorkersTypeOK /\ AttemptsAreReports /\ attempts \subseteq AttemptRow
  BY DEF StoreInv, StoreTypeOK
<1>1. ASSUME NEW w \in Workers, Report(w)
      PROVE  AttemptsAreReports'
  <2>1. /\ job[w] \in JobRow /\ verdict[w] \in {"applied", "failed", "denied"}
        /\ attempts' = attempts \cup
             {[key |-> job[w].key, n |-> job[w].n, worker |-> w,
               outcome |-> verdict[w]]}
    BY <1>1, ReportIsCompletion DEF Complete
  <2>2. /\ phase[w] = "reporting" /\ phase' = [phase EXCEPT ![w] = "done"]
        /\ UNCHANGED <<job, verdict>>
    BY <1>1 DEF Report
  <2>3. /\ phase'[w] = "done" /\ job'[w] = job[w] /\ verdict'[w] = verdict[w]
        /\ \A v \in Workers : phase[v] = "done" => phase'[v] = "done"
        /\ job[w] = [key |-> job[w].key, n |-> job[w].n]
    BY <1>0, <2>1, <2>2 DEF WorkersTypeOK, JobRow
  <2> SUFFICES ASSUME NEW a \in attempts'
               PROVE  /\ a.outcome # "unknown"
                      /\ phase'[a.worker] = "done"
                      /\ job'[a.worker] = [key |-> a.key, n |-> a.n]
                      /\ verdict'[a.worker] = a.outcome
    BY DEF AttemptsAreReports
  <2>4. CASE a \in attempts
    BY <1>0, <2>2, <2>3, <2>4 DEF AttemptsAreReports, AttemptRow
  <2>5. CASE a = [key |-> job[w].key, n |-> job[w].n, worker |-> w,
                  outcome |-> verdict[w]]
    BY <2>1, <2>3, <2>5
  <2> QED
    BY <2>1, <2>4, <2>5
<1>2. ASSUME UNCHANGED attempts,
             \A v \in Workers : phase[v] = "done" =>
               /\ phase'[v] = "done"
               /\ job'[v] = job[v]
               /\ verdict'[v] = verdict[v]
      PROVE  AttemptsAreReports'
  BY <1>0, <1>2 DEF AttemptsAreReports, AttemptRow
<1>3. ASSUME NEW w \in Workers,
             \/ Take(w) \/ Send(w) \/ Hear(w) \/ ReportTurnedDown(w)
             \/ LookupFails(w) \/ NotConfigured(w) \/ GiveUp(w)
             \/ WorkerDies(w)
      PROVE  AttemptsAreReports'
  <2>1. UNCHANGED attempts
    BY <1>3 DEF Take, Claim, Send, Hear, ReportTurnedDown, LookupFails,
       NotConfigured, GiveUp, WorkerDies, storeVars
  <2>2. /\ phase[w] # "done"
        /\ \A v \in Workers \ {w} :
             phase'[v] = phase[v] /\ job'[v] = job[v] /\ verdict'[v] = verdict[v]
    BY <1>0, <1>3 DEF Take, Send, Hear, ReportTurnedDown, LookupFails,
       NotConfigured, GiveUp, WorkerDies, WorkersTypeOK
  <2> QED
    BY <1>2, <2>1, <2>2
<1>4. CASE \/ StoreStep \/ Remap \/ UNCHANGED sysVars
           \/ \E k \in Keys : LeaseRunsOut(k)
           \/ \E w \in Workers : MoodleStep(w) \/ MoodleDies(w)
  <2>1. UNCHANGED <<attempts, phase, job, verdict>>
    BY <1>4 DEF StoreStep, Create, Enqueue, Replay, Reconcile, Remap,
       LeaseRunsOut, LeaseExpires, MoodleStep, MoodleDies, sysVars,
       workerVars, storeVars
  <2> QED
    BY <1>2, <2>1
<1> QED
  BY <1>1, <1>3, <1>4 DEF SystemNext, WorkerStep

\* A change in the ledger keeps the call that made it.
LEMMA CommitterStep ==
  ASSUME SystemIInv, [SystemNext]_sysVars
  PROVE  LedgerHasCommitter'
<1> USE DEF SystemIInv
<1>0. /\ Moodle!ProviderTypeOK /\ LedgerHasCommitter
      /\ \A w \in Workers : stage[w] # "returned" => answer[w] = "none"
  BY ProviderTypes DEF Plugin!ProviderInv, Plugin!CallsAreWhole
<1>1. ASSUME NEW w \in Workers, Send(w)
      PROVE  LedgerHasCommitter'
  <2>1. /\ stage[w] = "none" /\ stage' = [stage EXCEPT ![w] = "waiting"]
        /\ sentKey' = [sentKey EXCEPT ![w] = job[w].key]
        /\ UNCHANGED <<answer, ledger>>
    BY <1>1 DEF Send, Moodle!Receive
  <2>2. ASSUME NEW k \in Keys, NEW v \in Workers, Committed(v, k)
        PROVE  Committed(v, k)'
    BY <1>0, <2>1, <2>2 DEF Committed, Moodle!ProviderTypeOK
  <2> QED
    BY <1>0, <2>1, <2>2 DEF LedgerHasCommitter
<1>2. ASSUME NEW w \in Workers, MoodleStep(w) \/ MoodleDies(w)
      PROVE  LedgerHasCommitter'
  <2>1. Moodle!Proceed(w) \/ Moodle!Vanish(w)
    BY <1>2 DEF MoodleStep, MoodleDies
  <2>2. /\ UNCHANGED <<sentKey, sentPayload>>
        /\ stage[w] \in {"waiting", "locked", "committed"}
        /\ \A v \in Workers \ {w} :
             stage'[v] = stage[v] /\ answer'[v] = answer[v]
        /\ stage[w] = "committed" => stage'[w] = "lost" \/ answer'[w] = "applied"
        /\ \/ UNCHANGED <<ledger, effects>>
           \/ /\ stage'[w] = "committed"
              /\ ledger' = [ledger EXCEPT ![sentKey[w]] = sentPayload[w]]
    BY <2>1, MoodleStepEffect
  <2>3. ASSUME NEW k \in Keys, NEW v \in Workers, Committed(v, k)
        PROVE  Committed(v, k)'
    <3>1. CASE v = w
      BY <1>0, <2>2, <2>3, <3>1 DEF Committed
    <3>2. CASE v # w
      BY <2>2, <2>3, <3>2 DEF Committed
    <3> QED
      BY <3>1, <3>2
  <2>4. ASSUME NEW k \in Keys, ledger'[k] # NoPayload, ledger'[k] # ledger[k]
        PROVE  Committed(w, k)'
    BY <1>0, <2>2, <2>4 DEF Committed, Moodle!ProviderTypeOK
  <2> QED
    BY <1>0, <2>3, <2>4 DEF LedgerHasCommitter
<1>3. CASE UNCHANGED provVars
  BY <1>0, <1>3 DEF provVars, LedgerHasCommitter, Committed
<1> QED
  BY <1>1, <1>2, <1>3
     DEF SystemNext, StoreStep, WorkerStep, Take, Hear, Report,
         ReportTurnedDown, LookupFails, NotConfigured, GiveUp, WorkerDies,
         LeaseRunsOut, Remap, sysVars


LEMMA SystemIInvStep == SystemIInv /\ [SystemNext]_sysVars => SystemIInv'
BY StoreKeeps, PluginStep, WorkersTypeStep, JobsStep, CallsStep, AttemptsStep,
   CommitterStep DEF SystemIInv

\* The store, the plugin and what ties the workers to both, always.
THEOREM SystemInvariant == SystemSpec => []SystemIInv
BY SystemInitIInv, SystemIInvStep, PTL DEF SystemSpec

-----------------------------------------------------------------------------
(* What the invariant implies *)

\* Every variable of the runtime keeps its type.
THEOREM SystemTypes == SystemSpec => []SystemTypeOK
<1>1. SystemIInv => SystemTypeOK
  BY ProviderTypes DEF SystemIInv, StoreInv, WorkersTypeOK, SystemTypeOK, JobRow
<1> QED
  BY <1>1, SystemInvariant, PTL

\* An "applied" in the database rests on a change in Moodle, or on the word
\* of a superadmin.
THEOREM AppliedIsAlwaysTrue == SystemSpec => []AppliedIsTrue
<1>1. SystemIInv => AppliedIsTrue
  <2> SUFFICES ASSUME SystemIInv, NEW k \in Keys, status[k] = "applied"
               PROVE  \/ effects[k] = 1
                      \/ \E c \in cases : c.key = k /\ c.state = "confirmed_applied"
    BY DEF AppliedIsTrue
  <2>1. \/ LastAnswer(k, {"applied"})
        \/ LastCase(k, "confirmed_applied")
    BY DEF SystemIInv, StoreInv, VerdictFromLastAttempt, VerdictIsGrounded
  <2>2. CASE LastAnswer(k, {"applied"})
    <3>1. PICK a \in attempts : a.key = k /\ a.outcome = "applied"
      BY <2>2 DEF LastAnswer
    <3>2. /\ a.worker \in Workers /\ verdict[a.worker] = "applied"
          /\ job[a.worker] = [key |-> k, n |-> a.n]
      BY <3>1 DEF SystemIInv, AttemptsAreReports, StoreInv, StoreTypeOK,
         AttemptRow
    <3>3. answer[a.worker] = "applied"
      BY <3>2 DEF SystemIInv, CallsMatchJobs
    <3> QED
      BY <3>2, <3>3, ToldAppliedIsDone
  <2>3. CASE LastCase(k, "confirmed_applied")
    BY <2>3 DEF LastCase
  <2> QED
    BY <2>1, <2>2, <2>3
<1> QED
  BY <1>1, SystemInvariant, PTL

\* "failed" over a change that was made means that another attempt's answer
\* was lost: the worker whose call committed the change has no attempt row
\* and is not the one that failed the command.
THEOREM FailedAfterLostAnswer == SystemSpec => []FailedAfterLostAnswerOnly
<1>1. SystemIInv => FailedAfterLostAnswerOnly
  <2> SUFFICES ASSUME SystemIInv, NEW k \in Keys, status[k] = "failed",
                      effects[k] = 1
               PROVE  \E w \in Workers :
                        /\ job[w].key = k
                        /\ job[w].n < attemptCount[k]
                        /\ ~\E a \in attempts : a.key = k /\ a.n = job[w].n
    BY DEF FailedAfterLostAnswerOnly
  <2> USE DEF SystemIInv
  <2>1. PICK w \in Workers : Committed(w, k)
    <3>1. ledger[k] # NoPayload
      BY LedgerCounts
    <3> QED
      BY <3>1 DEF LedgerHasCommitter
  <2>2. /\ stage[w] # "none" /\ answer[w] \notin {"rejected", "denied"}
        /\ sentKey[w] = k
    BY <2>1 DEF Committed, Plugin!ProviderInv, Plugin!CallsAreWhole
  <2>3. /\ job[w] \in JobRow /\ job[w].key = k /\ job[w].n <= attemptCount[k]
        /\ verdict[w] \notin {"failed", "denied"}
    BY <2>2 DEF CallsMatchJobs, JobsMatchClaims
  <2>4. ASSUME NEW a \in attempts, a.key = k, a.n = job[w].n
        PROVE  FALSE
    <3>1. /\ a \in AttemptRow /\ phase[a.worker] = "done"
          /\ job[a.worker] = [key |-> k, n |-> job[w].n]
          /\ verdict[a.worker] = a.outcome /\ a.outcome # "unknown"
      BY <2>4 DEF AttemptsAreReports, StoreInv, StoreTypeOK
    <3>2. /\ a.worker \in Workers
          /\ a.outcome \in {"applied", "failed", "denied"}
          /\ job[a.worker] = job[w]
      BY <2>3, <3>1 DEF AttemptRow, JobRow, Outcomes
    <3>3. phase[w] # "idle"
      BY <2>2 DEF CallsMatchJobs
    <3>4. a.worker = w
      BY <3>1, <3>2, <3>3 DEF JobsMatchClaims
    <3>5. a.outcome = "applied"
      BY <2>3, <3>1, <3>2, <3>4
    <3> QED
      BY <2>4, <3>5 DEF StoreInv, AppliedEndsTheCommand
  <2>5. PICK a \in attempts : a.key = k /\ a.n = attemptCount[k]
    BY DEF StoreInv, VerdictFromLastAttempt, VerdictIsGrounded, LastAnswer
  <2>6. job[w].n # attemptCount[k]
    BY <2>4, <2>5
  <2>7. job[w].n \in Nat /\ attemptCount[k] \in Nat
    BY <2>3 DEF JobRow, StoreInv, StoreTypeOK
  <2>8. job[w].n < attemptCount[k]
    BY <2>3, <2>6, <2>7
  <2> QED
    BY <2>3, <2>4, <2>8
<1> QED
  BY <1>1, SystemInvariant, PTL

\* No attempt waits for a superadmin.
NothingIsReviewed ==
  cases = {} /\ \A k \in Keys : status[k] # "reconciliation_required"

LEMMA NotUnderReview ==
  ASSUME SystemIInv, NEW k \in Keys
  PROVE  status[k] # "reconciliation_required"
<1> SUFFICES ASSUME LastAnswer(k, {"unknown"}) PROVE FALSE
  BY DEF SystemIInv, StoreInv, VerdictFromLastAttempt, VerdictIsGrounded
<1> QED
  BY DEF LastAnswer, SystemIInv, AttemptsAreReports

\* Although workers report what they could not hear as "unknown", nothing is
\* ever put before a superadmin: processOne sends an error code with it, which
\* the check on the attempt row does not admit for "unknown".
THEOREM NothingIsEverReviewed == SystemSpec => []NothingIsReviewed
<1>1. SystemIInv /\ SystemIInv' /\ [SystemNext]_sysVars /\ cases = {} =>
        (cases = {})'
  <2> SUFFICES ASSUME SystemIInv, SystemIInv', [SystemNext]_sysVars, cases = {}
               PROVE  cases' = {}
    OBVIOUS
  <2>1. [StoreNext]_storeVars
    BY StoreKeeps
  <2>2. ASSUME NEW k \in Keys, NEW w \in Workers, NEW n \in 1..MaxAttempts,
               NEW o \in Outcomes, NEW hashed \in BOOLEAN,
               NEW coded \in BOOLEAN, Complete(k, w, n, o, hashed, coded)
        PROVE  cases' = {}
    <3>1. [key |-> k, n |-> n, worker |-> w, outcome |-> o] \in attempts'
      BY <2>2 DEF Complete
    <3>2. o # "unknown"
      BY <3>1 DEF SystemIInv, AttemptsAreReports
    <3> QED
      BY <2>2, <3>2 DEF Complete, CasesAfter
  <2>3. ASSUME NEW k \in Keys, NEW r \in Resolutions, Reconcile(k, r)
        PROVE  FALSE
    BY <2>3, NotUnderReview DEF Reconcile
  <2>4. ASSUME UNCHANGED storeVars PROVE cases' = {}
    BY <2>4 DEF storeVars
  <2> QED
    BY <2>1, <2>2, <2>3, <2>4 DEF StoreNext, Create, Enqueue, Replay, Claim,
       LeaseExpires, ChangeAuthority
<1>2. SystemInit => cases = {}
  BY DEF SystemInit, StoreInit
<1>3. SystemIInv /\ cases = {} => NothingIsReviewed
  BY NotUnderReview DEF NothingIsReviewed
<1> QED
  BY <1>1, <1>2, <1>3, SystemInvariant, PTL DEF SystemSpec

\* An applied command has changed Moodle, exactly once.
AppliedHappenedOnce ==
  \A k \in Keys : status[k] = "applied" => effects[k] = 1

\* Nobody confirms anything by hand, so that the change itself is behind
\* every "applied": AppliedIsTrue without its second disjunct.
THEOREM AppliedIsExact == SystemSpec => []AppliedHappenedOnce
<1>1. AppliedIsTrue /\ NothingIsReviewed => AppliedHappenedOnce
  BY DEF AppliedIsTrue, NothingIsReviewed, AppliedHappenedOnce
<1> QED
  BY <1>1, AppliedIsAlwaysTrue, NothingIsEverReviewed, PTL

-----------------------------------------------------------------------------
(* The contract *)

\* What the outside sees of command k when its status becomes st.
LEMMA StatusBecomes ==
  ASSUME NEW k \in Keys, NEW st, StoreTypeOK,
         status' = [status EXCEPT ![k] = st], UNCHANGED effects
  PROVE  Promise!Become(k, VerdictOf(st))
<1> DEFINE seen == [j \in Keys |-> VerdictOf(status[j])]
<1>1. \A j \in Keys : status'[j] = IF j = k THEN st ELSE status[j]
  BY DEF StoreTypeOK
<1>2. [j \in Keys |-> VerdictOf(status'[j])]
        = [seen EXCEPT ![k] = VerdictOf(st)]
  <2>1. \A j \in Keys : VerdictOf(status'[j])
                          = IF j = k THEN VerdictOf(st) ELSE VerdictOf(status[j])
    BY <1>1
  <2> HIDE DEF VerdictOf
  <2> QED
    BY <2>1
<1> QED
  BY <1>2 DEF Promise!Become

\* Each step of the runtime is a step of the contract or none.
LEMMA ContractStep ==
  ASSUME SystemIInv, SystemIInv', [SystemNext]_sysVars
  PROVE  [Promise!ContractNext]_<<[k \in Keys |-> VerdictOf(status[k])], effects>>
<1> DEFINE seen == [k \in Keys |-> VerdictOf(status[k])]
<1> USE DEF SystemIInv
<1>0. StoreTypeOK /\ Moodle!ProviderTypeOK
  BY ProviderTypes DEF StoreInv
<1>1. ASSUME UNCHANGED <<status, effects>>
      PROVE  UNCHANGED <<seen, effects>>
  BY <1>1
<1>2. ASSUME NEW k \in Keys, NEW s \in Sessions, NEW h \in Hashes,
             Create(k, s, h), UNCHANGED provVars
      PROVE  [Promise!ContractNext]_<<seen, effects>>
  <2>1. CASE Enqueue(k, s, h)
    <3>1. seen[k] = "none"
      BY <2>1 DEF Enqueue, Exists, VerdictOf
    <3>2. Promise!Become(k, VerdictOf("queued"))
      BY <1>0, <1>2, <2>1, StatusBecomes DEF Enqueue, provVars
    <3>3. VerdictOf("queued") = "open"
      BY DEF VerdictOf
    <3>4. Promise!Accept(k)
      BY <3>1, <3>2, <3>3 DEF Promise!Accept
    <3> QED
      BY <3>4 DEF Promise!ContractNext
  <2>2. CASE Replay(k, s, h)
    BY <1>1, <1>2, <2>2 DEF Replay, provVars
  <2> QED
    BY <1>2, <2>1, <2>2 DEF Create
<1>3. ASSUME NEW k \in Keys, NEW r \in Resolutions, Reconcile(k, r),
             UNCHANGED provVars
      PROVE  [Promise!ContractNext]_<<seen, effects>>
  <2>1. seen[k] = "review"
    BY <1>3 DEF Reconcile, VerdictOf
  <2>2. Promise!Become(k, VerdictOf(Resolved(r)))
    BY <1>0, <1>3, StatusBecomes DEF Reconcile, provVars
  <2>3. VerdictOf(Resolved(r)) \in {"open", "applied", "cancelled"}
    BY DEF VerdictOf, Resolved, Resolutions
  <2>4. Promise!Review(k)
    BY <2>1, <2>2, <2>3 DEF Promise!Review
  <2> QED
    BY <2>4 DEF Promise!ContractNext
<1>4. ASSUME NEW w \in Workers, Take(w)
      PROVE  [Promise!ContractNext]_<<seen, effects>>
  <2>1. PICK k \in Keys : Claim(k, w)
    BY <1>4 DEF Take
  <2>2. /\ status[k] \in {"queued", "processing"}
        /\ status' = [status EXCEPT ![k] = "processing"]
        /\ UNCHANGED effects
    BY <1>4, <2>1 DEF Claim, Claimable, Take, provVars
  <2>3. \A j \in Keys : VerdictOf(status'[j]) = VerdictOf(status[j])
    <3>1. \A j \in Keys : j # k => status'[j] = status[j]
      BY <1>0, <2>2 DEF StoreTypeOK
    <3>2. VerdictOf(status'[k]) = "open" /\ VerdictOf(status[k]) = "open"
      BY <1>0, <2>2 DEF StoreTypeOK, VerdictOf
    <3> QED
      BY <3>1, <3>2
  <2>4. seen' = seen
    BY <2>3
  <2> QED
    BY <2>2, <2>4
<1>5. ASSUME NEW w \in Workers, Report(w)
      PROVE  [Promise!ContractNext]_<<seen, effects>>
  <2> DEFINE k == job[w].key
  <2>1. /\ k \in Keys /\ verdict[w] \in {"applied", "failed", "denied"}
        /\ status[k] = "processing"
        /\ status' = [status EXCEPT ![k] = Settled(verdict[w])]
        /\ UNCHANGED effects
    BY <1>5, ReportIsCompletion DEF Complete, HoldsLease, JobRow, Report, provVars
  <2>2. seen[k] = "open"
    BY <2>1 DEF VerdictOf
  <2>3. Promise!Become(k, VerdictOf(Settled(verdict[w])))
    BY <1>0, <2>1, StatusBecomes
  <2>4. VerdictOf(Settled(verdict[w])) =
          IF verdict[w] = "applied" THEN "applied" ELSE "failed"
    BY <2>1 DEF VerdictOf, Settled
  <2>5. verdict[w] = "applied" => effects[k] = 1
    <3>1. verdict[w] = "applied" => answer[w] = "applied"
      BY DEF CallsMatchJobs
    <3> QED
      BY <3>1, ToldAppliedIsDone
  <2>6. Promise!Decide(k)
    BY <2>2, <2>3, <2>4, <2>5 DEF Promise!Decide
  <2> QED
    BY <2>1, <2>6 DEF Promise!ContractNext
<1>6. ASSUME NEW w \in Workers, MoodleStep(w) \/ MoodleDies(w)
      PROVE  [Promise!ContractNext]_<<seen, effects>>
  <2>1. Moodle!Proceed(w) \/ Moodle!Vanish(w)
    BY <1>6 DEF MoodleStep, MoodleDies
  <2>2. UNCHANGED status
    BY <1>6 DEF MoodleStep, MoodleDies, storeVars
  <2>3. CASE UNCHANGED effects
    BY <1>1, <2>2, <2>3
  <2>4. CASE effects' # effects
    <3> DEFINE k == sentKey[w]
    <3>1. /\ ledger[k] = NoPayload
          /\ effects' = [effects EXCEPT ![k] = @ + 1]
          /\ stage[w] # "none"
      BY <2>1, <2>4, MoodleStepEffect
    <3>2. /\ k \in Keys /\ k = job[w].key /\ phase[w] # "idle"
      BY <3>1 DEF CallsMatchJobs, Plugin!ProviderInv, Plugin!CallsAreWhole
    <3>3. effects[k] = 0
      BY <3>1, <3>2, LedgerCounts
    <3>4. effects' = [effects EXCEPT ![k] = 1]
      BY <1>0, <3>1, <3>2, <3>3 DEF Moodle!ProviderTypeOK
    <3>5. attemptCount[k] # 0
      BY <1>0, <3>2 DEF JobsMatchClaims, JobRow, StoreTypeOK
    <3>6. status[k] # "absent"
      BY <3>2, <3>5 DEF StoreInv, AbsentIsUnclaimed
    <3>7. seen[k] # "none"
      BY <1>0, <3>2, <3>6 DEF VerdictOf, StoreTypeOK, Statuses
    <3>8. Promise!Change(k)
      BY <1>1, <2>2, <3>3, <3>4, <3>7 DEF Promise!Change
    <3> QED
      BY <3>2, <3>8 DEF Promise!ContractNext
  <2> QED
    BY <2>3, <2>4
<1>7. ASSUME NEW w \in Workers,
             \/ Send(w) \/ Hear(w) \/ ReportTurnedDown(w) \/ LookupFails(w)
             \/ NotConfigured(w) \/ GiveUp(w) \/ WorkerDies(w)
      PROVE  UNCHANGED <<status, effects>>
  BY <1>7 DEF Send, Moodle!Receive, Hear, ReportTurnedDown, LookupFails,
     NotConfigured, GiveUp, WorkerDies, storeVars, provVars
<1>8. CASE \/ Remap \/ UNCHANGED sysVars
           \/ \E k \in Keys : LeaseRunsOut(k)
  <2>1. UNCHANGED <<status, effects>>
    BY <1>8 DEF Remap, LeaseRunsOut, LeaseExpires, sysVars, storeVars, provVars
  <2> QED
    BY <1>1, <2>1
<1>9. CASE StoreStep
  BY <1>2, <1>3, <1>9 DEF StoreStep
<1> QED
  BY <1>1, <1>4, <1>5, <1>6, <1>7, <1>8, <1>9 DEF SystemNext, WorkerStep

\* The whole runtime keeps the contract of MoodleCommandContract.
THEOREM SystemKeepsContract == SystemSpec => KeepsContract
<1>1. SystemInit => Promise!ContractInit
  BY DEF SystemInit, StoreInit, Moodle!ProviderInit, Promise!ContractInit,
     VerdictOf
<1>2. SystemIInv /\ SystemIInv' /\ [SystemNext]_sysVars =>
        [Promise!ContractNext]_<<[k \in Keys |-> VerdictOf(status[k])], effects>>
  BY ContractStep
<1> QED
  BY <1>1, <1>2, SystemInvariant, PTL
     DEF SystemSpec, KeepsContract, Promise!Contract

=============================================================================
