---------------------------- MODULE EmailDelivery ----------------------------
(***************************************************************************)
(* Transactional email: the outbox events of type email.delivery.requested *)
(* with their email_deliveries rows, the database functions of             *)
(* supabase/manual/016 and 017 (claim_v2), the workers of                  *)
(* server/emailDeliveryService.ts and the webhooks of the mail provider.   *)
(*                                                                         *)
(* A worker of the model is one call of processOne.  A batch makes such    *)
(* calls one after the other and stops at the first that throws, so none   *)
(* of its rows is still locked when it claims again: a model worker that   *)
(* is idle and locks nothing stands for a new call, whatever its id.       *)
(*                                                                         *)
(* Abstracted: which due event a claim takes first (any may be), template  *)
(* contents, and payloads that are not safe (they take the branch of an    *)
(* unavailable recipient).  Resend is external: it is modelled as the code *)
(* uses it, a mail per idempotency key and signed webhooks about it.       *)
(***************************************************************************)
EXTENDS Naturals, FiniteSets

CONSTANTS
  Events,       \* outbox events, each with an idempotency key of its own
  Users,        \* recipients
  Workers,      \* calls of processOne
  None,         \* no event, no worker, no recipient (SQL null)
  NoticeTypes,  \* the webhook types Resend sends in this instance
  MaxAttempts,  \* attempts are capped here (5 in the code)
  MaxNotices,   \* bound: webhooks Resend creates
  MaxFaults     \* bound: deaths, lost calls, lost answers, slow sends

Suppressing == {"complained", "bounced", "suppressed"}

ASSUME EmailAssumption ==
  /\ None \notin Events \cup Users \cup Workers
  /\ NoticeTypes \subseteq Suppressing \cup
                   {"delivered", "delayed", "failed", "scheduled"}
  /\ MaxAttempts \in Nat \ {0}
  /\ MaxNotices \in Nat
  /\ MaxFaults \in Nat

VARIABLES
  recipient,  \* payload recipientUserId of an event; None: not requested yet
  event,      \* outbox_events.status
  due,        \* available_at <= now()
  attempts,   \* attempts of the event and of its delivery
  delivery,   \* email_deliveries.status; "none" is no row
  lockedBy,   \* email_deliveries.locked_by
  lease,      \* email_deliveries.lease_until, seen from now()
  messageId,  \* provider_message_id has been stored
  lastAt,     \* last_provider_event_at; 0 is null
  active,     \* users with status active (or invited, for an invitation)
  suppressed, \* users with an active row in email_suppressions
  recorded,   \* email_webhook_events: notice and whether it found a delivery
  phase, job, reply, \* where a worker is, what it claimed, what it heard
  wire,       \* send calls on their way to Resend
  accepted,   \* idempotency keys Resend has accepted a mail for
  notices,    \* webhooks Resend has created
  faults

rows    == <<event, due, attempts, delivery, lockedBy, lease>>
hooks   == <<messageId, lastAt, suppressed, recorded>>
calls   == <<phase, job, reply>>
outside == <<wire, accepted, notices>>
vars    == <<recipient, rows, hooks, active, calls, outside, faults>>

EventStatuses    == {"pending", "processing", "succeeded", "failed",
                     "dead_letter"}
SentStatuses     == {"sent", "delivered", "delayed", "bounced", "complained"}
DeliveryStatuses == SentStatuses \cup
  {"none", "processing", "retry", "failed", "suppressed", "dead_letter"}
Phases  == {"idle", "claimed", "sending", "answered", "failing"}
Replies == {"none", "accepted", "retryable", "terminal"}
Job     == [event : Events, n : 1..MaxAttempts]
NoJob   == [event |-> None, n |-> 0]
Key     == Events \X (0..MaxAttempts)
Notice  == [event : Events, type : NoticeTypes, at : 1..MaxNotices]

\* The types, with the two checks of email_deliveries: exactly a row in
\* "processing" is locked, and a row that counts as sent has a message id.
EmailTypeOK ==
  /\ recipient \in [Events -> Users \cup {None}]
  /\ event \in [Events -> EventStatuses]
  /\ due \in [Events -> BOOLEAN]
  /\ attempts \in [Events -> 0..MaxAttempts]
  /\ delivery \in [Events -> DeliveryStatuses]
  /\ lockedBy \in [Events -> Workers \cup {None}]
  /\ lease \in [Events -> {"none", "live", "expired"}]
  /\ messageId \in [Events -> BOOLEAN]
  /\ lastAt \in [Events -> 0..MaxNotices]
  /\ active \subseteq Users
  /\ suppressed \subseteq Users
  /\ recorded \subseteq [notice : Notice, matched : BOOLEAN]
  /\ phase \in [Workers -> Phases]
  /\ job \in [Workers -> Job \cup {NoJob}]
  /\ reply \in [Workers -> Replies]
  /\ wire \subseteq [from : Workers, key : Key]
  /\ accepted \subseteq Key
  /\ notices \subseteq Notice
  /\ faults \in 0..MaxFaults
  /\ \A e \in Events :
       /\ delivery[e] = "processing" <=> lockedBy[e] # None
       /\ delivery[e] = "processing" <=> lease[e] # "none"
       /\ delivery[e] \in SentStatuses => messageId[e]

Init ==
  /\ recipient = [e \in Events |-> None]
  /\ event = [e \in Events |-> "pending"]
  /\ due = [e \in Events |-> TRUE]
  /\ attempts = [e \in Events |-> 0]
  /\ delivery = [e \in Events |-> "none"]
  /\ lockedBy = [e \in Events |-> None]
  /\ lease = [e \in Events |-> "none"]
  /\ messageId = [e \in Events |-> FALSE]
  /\ lastAt = [e \in Events |-> 0]
  /\ active \in SUBSET Users
  /\ suppressed = {}
  /\ recorded = {}
  /\ phase = [w \in Workers |-> "idle"]
  /\ job = [w \in Workers |-> NoJob]
  /\ reply = [w \in Workers |-> "none"]
  /\ wire = {}
  /\ accepted = {}
  /\ notices = {}
  /\ faults = 0

Fault == faults < MaxFaults /\ faults' = faults + 1

\* A producer's transaction inserts the event (the invitation functions).
Request(e, u) ==
  /\ recipient[e] = None
  /\ recipient' = [recipient EXCEPT ![e] = u]
  /\ UNCHANGED <<rows, hooks, active, calls, outside, faults>>

-----------------------------------------------------------------------------
(* nile_claim_email_delivery_v2 *)

\* Variants with a bug: an event whose worker is gone is forgotten; only the
\* lease is looked at.
WaitingOnly(e) ==
  recipient[e] # None /\ event[e] \in {"pending", "failed"} /\ due[e]
NotLeased(e) ==
  recipient[e] # None /\ event[e] # "dead_letter" /\ due[e] /\ lease[e] # "live"

Claimable(e) ==
  /\ recipient[e] # None
  /\ \/ event[e] \in {"pending", "failed"} /\ due[e]
     \/ event[e] = "processing" /\ lease[e] = "expired"

\* Events of a user who is not active become dead letters; their delivery
\* row, if there is one, is left as it is.
Unavailable == {e \in Events : Claimable(e) /\ recipient[e] \notin active}

Suppressed == {e \in Events : /\ Claimable(e)
                              /\ recipient[e] \in active \cap suppressed}

Sendable == {e \in Events : /\ Claimable(e)
                            /\ recipient[e] \in active \ suppressed}

NextAttempt(e) == IF attempts[e] < MaxAttempts THEN attempts[e] + 1
                  ELSE MaxAttempts

\* One call: events that must not be sent are settled on the way (the set
\* skip) until one is found that may be sent, or until none is left.  take
\* is the event handed out, or empty.
ClaimEffect(w, skip, take) ==
  LET gone == skip \cap Unavailable
      stop == skip \cap Suppressed
  IN /\ event' = [e \in Events |->
          IF e \in gone THEN "dead_letter"
          ELSE IF e \in stop THEN "succeeded"
          ELSE IF e \in take THEN "processing" ELSE event[e]]
     /\ attempts' = [e \in Events |->
          IF e \in skip \cup take THEN NextAttempt(e) ELSE attempts[e]]
     /\ delivery' = [e \in Events |->
          IF e \in stop THEN "suppressed"
          ELSE IF e \in take THEN "processing" ELSE delivery[e]]
     /\ lockedBy' = [e \in Events |->
          IF e \in stop THEN None
          ELSE IF e \in take THEN w ELSE lockedBy[e]]
     /\ lease' = [e \in Events |->
          IF e \in stop THEN "none"
          ELSE IF e \in take THEN "live" ELSE lease[e]]
     /\ job' = [job EXCEPT ![w] =
          IF take = {} THEN NoJob
          ELSE LET e == CHOOSE x \in take : TRUE
               IN [event |-> e, n |-> NextAttempt(e)]]
     /\ phase' = [phase EXCEPT ![w] = IF take = {} THEN "idle" ELSE "claimed"]
     /\ reply' = [reply EXCEPT ![w] = "none"]

Claim(w) ==
  /\ phase[w] = "idle"
  /\ \A e \in Events : lockedBy[e] # w
  /\ \A r \in wire : r.from # w
  /\ \/ \E e \in Sendable, skip \in SUBSET (Unavailable \cup Suppressed) :
          ClaimEffect(w, skip, {e})
     \/ /\ Sendable = {}
        /\ Unavailable \cup Suppressed # {}
        /\ ClaimEffect(w, Unavailable \cup Suppressed, {})
  /\ UNCHANGED <<recipient, due, hooks, active, outside, faults>>

-----------------------------------------------------------------------------
(* EmailDeliveryService.processOne, between claim and completion *)

\* The activation envelope cannot be opened or the template is not rendered:
\* an error that is not a send error.
RenderFails(w) ==
  /\ phase[w] = "claimed"
  /\ Fault
  /\ phase' = [phase EXCEPT ![w] = "failing"]
  /\ UNCHANGED <<recipient, rows, hooks, active, job, reply, outside>>

\* Variant with a bug: the key names the attempt instead of the event.
KeyOfAttempt(e, n) == <<e, n>>
KeyOf(e, n) == <<e, 0>>

Send(w) ==
  /\ phase[w] = "claimed"
  /\ wire' = wire \cup {[from |-> w, key |-> KeyOf(job[w].event, job[w].n)]}
  /\ phase' = [phase EXCEPT ![w] = "sending"]
  /\ UNCHANGED <<recipient, rows, hooks, active, job, reply, accepted,
                 notices, faults>>

Hear(w, a) ==
  /\ reply' = [reply EXCEPT ![w] = a]
  /\ phase' = [phase EXCEPT ![w] = "answered"]

\* Resend takes the mail, or recognises the key of a mail it took before and
\* answers with the same message id.  Its caller may be gone by then.
Accept(r) ==
  /\ r \in wire
  /\ wire' = wire \ {r}
  /\ accepted' = accepted \cup {r.key}
  /\ IF phase[r.from] = "sending" THEN Hear(r.from, "accepted")
     ELSE UNCHANGED <<phase, reply>>
  /\ UNCHANGED <<recipient, rows, hooks, active, job, notices, faults>>

\* An error answer: status 408, 409, 429 or 5xx may be retried, others not.
Refuse(r) ==
  /\ r \in wire
  /\ wire' = wire \ {r}
  /\ IF phase[r.from] = "sending"
     THEN \E a \in {"retryable", "terminal"} : Hear(r.from, a)
     ELSE UNCHANGED <<phase, reply>>
  /\ UNCHANGED <<recipient, rows, hooks, active, job, accepted, notices,
                 faults>>

\* The connection breaks before an answer arrives.  There is no status code
\* then, so the error is not retryable; the mail may be accepted later.
AnswerLost(w) ==
  /\ phase[w] = "sending"
  /\ Fault
  /\ Hear(w, "terminal")
  /\ UNCHANGED <<recipient, rows, hooks, active, job, outside>>

-----------------------------------------------------------------------------
(* nile_complete_email_delivery, and what processOne makes of its result *)

\* Variant with a bug: the lock is not compared with the caller.
AnyHolder(w) == delivery[job[w].event] = "processing"

HoldsLease(w) ==
  /\ delivery[job[w].event] = "processing"
  /\ lockedBy[job[w].event] = w
  /\ lease[job[w].event] = "live"

\* Variant with a bug: a retried event looks like one never tried.
OutboxAsNew(outcome) ==
  CASE outcome = "sent"  -> "succeeded"
    [] outcome = "retry" -> "pending"
    [] OTHER             -> "dead_letter"

OutboxAfter(outcome) ==
  CASE outcome = "sent"  -> "succeeded"
    [] outcome = "retry" -> "failed"
    [] OTHER             -> "dead_letter"

\* The transaction of one outcome.
Complete(w, outcome) ==
  LET e == job[w].event
  IN /\ HoldsLease(w)
     /\ delivery' = [delivery EXCEPT ![e] = outcome]
     /\ event' = [event EXCEPT ![e] = OutboxAfter(outcome)]
     /\ due' = [due EXCEPT ![e] = outcome # "retry"]
     /\ lockedBy' = [lockedBy EXCEPT ![e] = None]
     /\ lease' = [lease EXCEPT ![e] = "none"]
     /\ messageId' = [messageId EXCEPT ![e] = @ \/ outcome = "sent"]
     /\ UNCHANGED <<attempts, lastAt, suppressed, recorded>>

Finish(w) ==
  /\ phase' = [phase EXCEPT ![w] = "idle"]
  /\ job' = [job EXCEPT ![w] = NoJob]
  /\ reply' = [reply EXCEPT ![w] = "none"]

\* Variant with a bug: an error answer is not looked at.
AnyAnswer(w) == phase[w] = "answered"
MailTaken(w) == phase[w] = "answered" /\ reply[w] = "accepted"

\* The completion of a sent mail stands inside the try block: when it throws,
\* because the lease is gone or the call or its answer got lost, the catch
\* block goes on to complete the delivery as a dead letter.
CompleteSent(w) ==
  /\ MailTaken(w)
  /\ \/ Complete(w, "sent") /\ Finish(w) /\ UNCHANGED faults
     \/ /\ Complete(w, "sent")
        /\ Fault
        /\ phase' = [phase EXCEPT ![w] = "failing"]
        /\ UNCHANGED <<job, reply>>
     \/ /\ IF HoldsLease(w) THEN Fault ELSE UNCHANGED faults
        /\ phase' = [phase EXCEPT ![w] = "failing"]
        /\ UNCHANGED <<rows, hooks, job, reply>>
  /\ UNCHANGED <<recipient, active, outside>>

Retries(w) ==
  /\ phase[w] = "answered"
  /\ reply[w] = "retryable"
  /\ job[w].n < MaxAttempts

GivesUp(w) ==
  \/ phase[w] = "failing"
  \/ phase[w] = "answered" /\ reply[w] \in {"retryable", "terminal"}
                           /\ ~Retries(w)

\* A completion in the catch block: when it throws, so does processOne.
CompleteFailure(w) ==
  /\ \/ Retries(w) /\ Complete(w, "retry")
     \/ GivesUp(w) /\ Complete(w, "dead_letter")
     \/ /\ Retries(w) \/ GivesUp(w)
        /\ ~HoldsLease(w)
        /\ UNCHANGED <<rows, hooks>>
  /\ Finish(w)
  /\ UNCHANGED <<recipient, active, outside, faults>>

\* The function instance is killed, or a failure completion is lost.
WorkerDies(w) ==
  /\ phase[w] # "idle"
  /\ Fault
  /\ Finish(w)
  /\ UNCHANGED <<recipient, rows, hooks, active, outside>>

-----------------------------------------------------------------------------
(* Webhooks: nile_record_email_webhook *)

\* Variant with a bug: the provider's word becomes the status.
StatusVerbatim(type, st) == type

StatusAfter(type, st) == IF type = "scheduled" THEN st ELSE type

\* Variant with a bug: the order of the events is not looked at.
AlwaysApplies(n) == TRUE

Applies(n) == n.at > lastAt[n.event] \/ n.type \in Suppressing

\* Variant with a bug: only what changes the delivery suppresses.
SuppressesIfNewer(n) == n.type \in Suppressing /\ n.at > lastAt[n.event]
Suppresses(n) == n.type \in Suppressing

\* The first arrival of a webhook; a later one of the same id changes
\* nothing.  A message id no delivery has stored is recorded and forgotten.
RecordWebhook(n) ==
  LET e == n.event
  IN /\ n \in notices
     /\ \A r \in recorded : r.notice # n
     /\ recorded' = recorded \cup {[notice |-> n, matched |-> messageId[e]]}
     /\ IF messageId[e] /\ Suppresses(n)
        THEN suppressed' = suppressed \cup {recipient[e]}
        ELSE UNCHANGED suppressed
     /\ IF messageId[e] /\ Applies(n)
        THEN /\ delivery' = [delivery EXCEPT ![e] = StatusAfter(n.type, @)]
             /\ lastAt' = [lastAt EXCEPT ![e] = IF @ < n.at THEN n.at ELSE @]
        ELSE UNCHANGED <<delivery, lastAt>>
     /\ UNCHANGED <<recipient, event, due, attempts, lockedBy, lease,
                    messageId, active, calls, outside, faults>>

-----------------------------------------------------------------------------
(* The environment *)

\* Something happens to an accepted mail and Resend makes a webhook of it;
\* webhooks arrive in any order.  A mail is scheduled, or sent (both leave the
\* status alone and are "scheduled" here), before anything else happens to it.
Report(e, type) ==
  /\ \E k \in accepted : k[1] = e
  /\ type = "scheduled" =>
       \A n \in notices : n.event = e => n.type = "scheduled"
  /\ Cardinality(notices) < MaxNotices
  /\ notices' = notices \cup
       {[event |-> e, type |-> type, at |-> Cardinality(notices) + 1]}
  /\ UNCHANGED <<recipient, rows, hooks, active, calls, wire, accepted,
                 faults>>

\* retry_after has passed.
BecomesDue(e) ==
  /\ ~due[e]
  /\ due' = [due EXCEPT ![e] = TRUE]
  /\ UNCHANGED <<recipient, event, attempts, delivery, lockedBy, lease,
                 hooks, active, calls, outside, faults>>

Working(w) == phase[w] # "idle"

\* The 90 seconds of a lease pass; while the worker still works that takes
\* an answer slower than any the service waits for, counted as a fault.
LeaseExpires(e) ==
  /\ lease[e] = "live"
  /\ lease' = [lease EXCEPT ![e] = "expired"]
  /\ IF Working(lockedBy[e]) /\ job[lockedBy[e]].event = e
     THEN Fault ELSE UNCHANGED faults
  /\ UNCHANGED <<recipient, event, due, attempts, delivery, lockedBy, hooks,
                 active, calls, outside>>

\* An account is suspended or reactivated.
ChangeAccount(u) ==
  /\ active' = (active \ {u}) \cup ({u} \ active)
  /\ UNCHANGED <<recipient, rows, hooks, calls, outside, faults>>

WorkerStep(w) == Send(w) \/ CompleteSent(w) \/ CompleteFailure(w)

ResendAnswers == \E r \in wire : Accept(r) \/ Refuse(r)

Next ==
  \/ \E e \in Events, u \in Users : Request(e, u)
  \/ \E w \in Workers : \/ Claim(w)
                        \/ WorkerStep(w)
                        \/ RenderFails(w)
                        \/ AnswerLost(w)
                        \/ WorkerDies(w)
  \/ ResendAnswers
  \/ \E n \in notices : RecordWebhook(n)
  \/ \E e \in Events, type \in NoticeTypes : Report(e, type)
  \/ \E e \in Events : BecomesDue(e) \/ LeaseExpires(e)
  \/ \E u \in Users : ChangeAccount(u)

Spec == Init /\ [][Next]_vars

\* A running call takes its next step, Resend answers and the clock moves on;
\* processBatch keeps being called, by the scheduler the documentation asks
\* for.
Fairness ==
  /\ \A w \in Workers : WF_vars(Claim(w)) /\ WF_vars(WorkerStep(w))
  /\ WF_vars(ResendAnswers)
  /\ \A e \in Events : WF_vars(BecomesDue(e)) /\ WF_vars(LeaseExpires(e))

FairSpec == Spec /\ Fairness

-----------------------------------------------------------------------------
(* Safety *)

MailsOf(e) == {k \in accepted : k[1] = e}

\* However often an event is claimed, by workers that die, answer late or
\* lose their answers, Resend accepts one mail for it: the key it is sent
\* under is the event's, not the attempt's.
OneMailPerEvent == \A e \in Events : Cardinality(MailsOf(e)) <= 1

\* A delivery is shown as sent, or as anything that comes after sent, only
\* for a mail that Resend accepted.
SentIsAccepted == \A e \in Events : messageId[e] => MailsOf(e) # {}

\* The outbox row and the delivery row are updated separately and agree,
\* except that the event of an account that went inactive is a dead letter
\* whatever its delivery row says.
OutboxMatchesDelivery ==
  \A e \in Events :
    /\ event[e] = "pending" => delivery[e] = "none"
    /\ event[e] = "processing" => delivery[e] = "processing"
    /\ event[e] = "failed" => delivery[e] = "retry"
    /\ event[e] = "succeeded" <=> messageId[e] \/ delivery[e] = "suppressed"
    /\ delivery[e] = "dead_letter" => event[e] = "dead_letter"

\* A bounce or complaint that reached its delivery keeps its recipient
\* suppressed, in whatever order the webhooks of the delivery arrive.
SuppressionIsKept ==
  \A r \in recorded :
    (r.matched /\ r.notice.type \in Suppressing) =>
      recipient[r.notice.event] \in suppressed

\* The status of a mail under way is the newest evidence about it: no
\* webhook that arrived late put the delivery back.
StatusIsNewest ==
  \A e \in Events :
    delivery[e] \in {"delivered", "delayed"} =>
      \E r \in recorded :
        /\ r.matched /\ r.notice.event = e /\ r.notice.type = delivery[e]
        /\ \A q \in recorded :
             (/\ q.matched /\ q.notice.event = e
              /\ q.notice.type # "scheduled") => q.notice.at <= r.notice.at

\* A worker whose lease was taken over settles nothing any more: an event in
\* progress leaves that state only through a completion by the worker that
\* holds its live lease, or in a claim, on whose way it is suppressed.
OnlyTheHolderSettles ==
  [][\A e \in Events :
       (delivery[e] = "processing" /\ delivery'[e] # "processing") =>
         \/ delivery'[e] = "suppressed"
         \/ lease[e] = "live" /\ phase'[lockedBy[e]] # phase[lockedBy[e]]]_vars

-----------------------------------------------------------------------------
(* The contract: what a mail looks like from outside. *)

VerdictOf(e) ==
  IF recipient[e] = None           THEN "none"
  ELSE IF event[e] = "dead_letter" THEN "dead"
  ELSE IF event[e] # "succeeded"   THEN "open"
  ELSE IF messageId[e]             THEN "sent" ELSE "suppressed"

Promise == INSTANCE MailContract WITH
             to <- recipient,
             verdict <- [e \in Events |-> VerdictOf(e)],
             mails <- [e \in Events |-> Cardinality(MailsOf(e))],
             blocked <- suppressed

\* Mail keeps the contract: every step of a producer, a worker, the database,
\* Resend or a webhook is a step of the contract or changes nothing in it.
\* A verdict, a dead letter included, is final.
KeepsMailContract == Promise!Contract

-----------------------------------------------------------------------------
(* Liveness *)

\* A requested mail is settled: sent, suppressed or a dead letter.
EveryRequestIsSettled ==
  \A e \in Events :
    recipient[e] # None ~> event[e] \in {"succeeded", "dead_letter"}

-----------------------------------------------------------------------------
(* What the documents say and the code does not do *)

\* docs/RESEND_TRANSACTIONAL_EMAIL.md: "terminal failures become dead
\* letters".  A dead letter of an event whose mail Resend has accepted is no
\* terminal failure.
DeadLetterWasNotSent ==
  \A e \in Events : delivery[e] = "dead_letter" => MailsOf(e) = {}

\* docs/RESEND_TRANSACTIONAL_EMAIL.md: "bounced or complained recipients are
\* suppressed from later sends".  Once the bounce of a mail is recorded, no
\* event of its recipient is claimed for sending.
BouncedAreSuppressed ==
  [][\A r \in recorded, e \in Events :
       (/\ r.notice.type \in {"bounced", "complained"}
        /\ recipient[e] = recipient[r.notice.event])
         => ~(lease[e] # "live" /\ lease'[e] = "live")]_vars

\* ADR-005: workers "move exhausted work to a dead-letter state".  An event
\* on its last attempt is not handed out once more.
ExhaustedIsNotRetried ==
  [][\A e \in Events :
       attempts[e] = MaxAttempts => ~(lease[e] = "expired" /\
                                      lease'[e] = "live")]_vars
=============================================================================
