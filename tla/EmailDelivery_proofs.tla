------------------------ MODULE EmailDelivery_proofs ------------------------
(***************************************************************************)
(* Proofs about EmailDelivery: its types, that Resend takes one mail for   *)
(* an event, that what the two rows of an event and the suppressions say   *)
(* agrees with what happened, and that no worker settles another's mail.   *)
(***************************************************************************)
EXTENDS EmailDelivery, FiniteSetTheorems, TLAPS

USE EmailAssumption

Outcomes == {"sent", "retry", "dead_letter"}

\* A delivery whose message id is stored is not being sent any more.
SentIsSettled ==
  \A e \in Events :
    messageId[e] => delivery[e] \in SentStatuses \cup {"failed", "suppressed"}

\* Nothing happens to an event before it is requested.
RequestedFirst == \A e \in Events : event[e] # "pending" => recipient[e] # None

\* A delivery under a live lease is that of an event in progress: one that
\* became a dead letter was claimable, its lease had run out.
LiveIsOpen == \A e \in Events : lease[e] = "live" => event[e] = "processing"

\* Mails are sent under the key of their event.
KeysAreEvents ==
  /\ \A r \in wire : r.key[2] = 0
  /\ \A k \in accepted : k[2] = 0

\* A worker that is not idle has an event; the call it waits for is about it,
\* and an acceptance it heard of is one of its mail.
WorkersKnow ==
  /\ \A w \in Workers :
       /\ phase[w] # "idle" => job[w] \in Job
       /\ phase[w] = "claimed" => \A r \in wire : r.from # w
       /\ reply[w] = "accepted" =>
            phase[w] # "idle" /\ <<job[w].event, 0>> \in accepted
  /\ \A r \in wire : phase[r.from] = "sending" => r.key[1] = job[r.from].event

\* What is stored as sent was accepted.
SentIsTaken == \A e \in Events : messageId[e] => <<e, 0>> \in accepted

\* A webhook that found its delivery found it by its message id.
MatchedIsSent ==
  \A r \in recorded : r.matched => messageId[r.notice.event]

\* Webhooks are numbered, and one that a mail is scheduled is its first.
NoticesInOrder ==
  /\ IsFiniteSet(notices)
  /\ \A n \in notices : n.at <= Cardinality(notices)
  /\ \A r \in recorded : r.notice \in notices
  /\ \A n, m \in notices :
       n.event = m.event /\ n.type = "scheduled" /\ m.type # "scheduled" =>
         n.at < m.at

\* last_provider_event_at is the newest webhook, and a mail under way has the
\* status of that one.
LastIsNewest ==
  /\ \A r \in recorded : r.matched => r.notice.at <= lastAt[r.notice.event]
  /\ \A e \in Events :
       delivery[e] \in {"delivered", "delayed"} =>
         \E r \in recorded :
           /\ r.matched /\ r.notice.event = e /\ r.notice.type = delivery[e]
           /\ r.notice.at = lastAt[e]

RowsInv ==
  OutboxMatchesDelivery /\ SentIsSettled /\ RequestedFirst /\ LiveIsOpen
CallsInv == KeysAreEvents /\ WorkersKnow /\ SentIsTaken
HooksInv ==
  MatchedIsSent /\ SuppressionIsKept /\ NoticesInOrder /\ LastIsNewest

\* What a worker claimed, and what is on its way to Resend, was requested.
CallsAreAsked ==
  /\ \A w \in Workers : phase[w] # "idle" => recipient[job[w].event] # None
  /\ \A r \in wire : recipient[r.key[1]] # None

EmailIInv == EmailTypeOK /\ RowsInv /\ CallsInv /\ HooksInv /\ CallsAreAsked

LEMMA EmailInitIInv == Init => EmailIInv
<1> SUFFICES ASSUME Init PROVE EmailIInv
  OBVIOUS
<1>1. EmailTypeOK
  BY DEF Init, EmailTypeOK, EventStatuses, DeliveryStatuses, SentStatuses,
         Phases, Replies, NoJob
<1>2. RowsInv
  BY DEF Init, RowsInv, OutboxMatchesDelivery, SentIsSettled, RequestedFirst,
     LiveIsOpen
<1>3. CallsInv
  BY DEF Init, CallsInv, KeysAreEvents, WorkersKnow, SentIsTaken
<1>4. NoticesInOrder
  BY FS_EmptySet DEF Init, NoticesInOrder
<1>5. HooksInv
  BY <1>4 DEF Init, HooksInv, MatchedIsSent, SuppressionIsKept, LastIsNewest
<1>6. CallsAreAsked
  BY DEF Init, CallsAreAsked
<1> QED
  BY <1>1, <1>2, <1>3, <1>5, <1>6 DEF EmailIInv

-----------------------------------------------------------------------------
(* What a claim and a completion do *)

\* A claim settles events, and hands out one or none.
LEMMA ClaimIsEffect ==
  ASSUME NEW w \in Workers, Claim(w)
  PROVE  \E skip \in SUBSET (Unavailable \cup Suppressed), take \in SUBSET Sendable :
           /\ take = {} \/ \E e \in Sendable : take = {e}
           /\ ClaimEffect(w, skip, take)
BY DEF Claim

LEMMA NextAttemptType ==
  ASSUME EmailTypeOK, NEW e \in Events
  PROVE  NextAttempt(e) \in 1..MaxAttempts
BY DEF EmailTypeOK, NextAttempt

LEMMA ClaimedJob ==
  ASSUME EmailTypeOK, NEW w \in Workers, NEW skip, NEW take \in SUBSET Sendable,
         take = {} \/ \E e \in Sendable : take = {e},
         ClaimEffect(w, skip, take)
  PROVE  /\ job' \in [Workers -> Job \cup {NoJob}]
         /\ phase' \in [Workers -> Phases]
         /\ phase'[w] # "idle" => job'[w] \in Job
         /\ reply' = [reply EXCEPT ![w] = "none"]
         /\ phase'[w] \in {"idle", "claimed"}
         /\ \A v \in Workers \ {w} : phase'[v] = phase[v] /\ job'[v] = job[v]
<1>1. ASSUME NEW e \in Sendable, take = {e}
      PROVE  /\ job' = [job EXCEPT ![w] = [event |-> e, n |-> NextAttempt(e)]]
             /\ [event |-> e, n |-> NextAttempt(e)] \in Job
  <2>1. (CHOOSE x \in take : TRUE) = e
    BY <1>1
  <2>2. e \in Events
    BY DEF Sendable
  <2>3. [event |-> e, n |-> NextAttempt(e)] \in Job
    BY <2>2, NextAttemptType DEF Job
  <2>4. take # {}
    BY <1>1
  <2> QED
    BY <2>1, <2>3, <2>4 DEF ClaimEffect
<1>2. CASE take = {}
  BY <1>2 DEF ClaimEffect, EmailTypeOK, Phases
<1>3. CASE \E e \in Sendable : take = {e}
  BY <1>1, <1>3 DEF ClaimEffect, EmailTypeOK, Phases
<1> QED
  BY <1>2, <1>3

\* The rows of an event after a claim: untouched, or claimable before.
LEMMA ClaimRows ==
  ASSUME EmailTypeOK, NEW w \in Workers, Claim(w), NEW e \in Events
  PROVE  \/ /\ event'[e] = event[e] /\ attempts'[e] = attempts[e]
            /\ delivery'[e] = delivery[e] /\ lockedBy'[e] = lockedBy[e]
            /\ lease'[e] = lease[e]
         \/ /\ Claimable(e)
            /\ attempts'[e] = NextAttempt(e)
            /\ \/ /\ event'[e] = "dead_letter"
                  /\ delivery'[e] = delivery[e] /\ lockedBy'[e] = lockedBy[e]
                  /\ lease'[e] = lease[e]
               \/ /\ event'[e] = "succeeded" /\ delivery'[e] = "suppressed"
                  /\ lockedBy'[e] = None /\ lease'[e] = "none"
               \/ /\ event'[e] = "processing" /\ delivery'[e] = "processing"
                  /\ lockedBy'[e] = w /\ lease'[e] = "live"
<1>1. PICK skip \in SUBSET (Unavailable \cup Suppressed),
           take \in SUBSET Sendable : ClaimEffect(w, skip, take)
  BY ClaimIsEffect
<1>2. /\ e \in Unavailable => Claimable(e)
      /\ e \in Suppressed => Claimable(e)
      /\ e \in Sendable => Claimable(e) /\ e \notin Unavailable \cup Suppressed
  BY DEF Unavailable, Suppressed, Sendable
<1>3. e \in Unavailable => e \notin Suppressed
  BY DEF Unavailable, Suppressed
<1>4. CASE e \in skip /\ e \in Unavailable
  BY <1>1, <1>2, <1>3, <1>4 DEF ClaimEffect
<1>5. CASE e \in skip /\ e \in Suppressed
  BY <1>1, <1>2, <1>3, <1>5 DEF ClaimEffect
<1>6. CASE e \in take
  BY <1>1, <1>2, <1>3, <1>6 DEF ClaimEffect
<1>7. CASE e \notin skip \cup take
  BY <1>1, <1>7 DEF ClaimEffect
<1> QED
  BY <1>1, <1>4, <1>5, <1>6, <1>7

\* All that a worker's step after Send can do to the rows is one completion.
LEMMA CompletionIsOne ==
  ASSUME NEW w \in Workers, CompleteSent(w) \/ CompleteFailure(w)
  PROVE  /\ \/ UNCHANGED <<rows, hooks>>
            \/ Complete(w, "sent") /\ MailTaken(w)
            \/ Complete(w, "retry")
            \/ Complete(w, "dead_letter")
         /\ UNCHANGED <<recipient, active, outside>>
         /\ phase[w] \in {"answered", "failing"}
         /\ Finish(w) \/ /\ phase' = [phase EXCEPT ![w] = "failing"]
                         /\ phase[w] = "answered"
                         /\ UNCHANGED <<job, reply>>
         /\ UNCHANGED faults \/ Fault
BY DEF CompleteSent, CompleteFailure, Retries, GivesUp, MailTaken

-----------------------------------------------------------------------------
(* Types *)

\* The columns of an event, and the checks that tie them.
RowTypes(e) ==
  /\ event[e] \in EventStatuses
  /\ due[e] \in BOOLEAN
  /\ attempts[e] \in 0..MaxAttempts
  /\ delivery[e] \in DeliveryStatuses
  /\ lockedBy[e] \in Workers \cup {None}
  /\ lease[e] \in {"none", "live", "expired"}
  /\ messageId[e] \in BOOLEAN
  /\ lastAt[e] \in 0..MaxNotices
  /\ delivery[e] = "processing" <=> lockedBy[e] # None
  /\ delivery[e] = "processing" <=> lease[e] # "none"
  /\ delivery[e] \in SentStatuses => messageId[e]

LEMMA RowTypesHold ==
  ASSUME EmailTypeOK, NEW e \in Events
  PROVE  RowTypes(e)
BY DEF EmailTypeOK, RowTypes

\* A completion keeps the types of the rows.
LEMMA CompleteTypes ==
  ASSUME EmailTypeOK, NEW w \in Workers, NEW o \in Outcomes,
         job[w].event \in Events, Complete(w, o)
  PROVE  /\ event' \in [Events -> EventStatuses]
         /\ due' \in [Events -> BOOLEAN]
         /\ attempts' \in [Events -> 0..MaxAttempts]
         /\ delivery' \in [Events -> DeliveryStatuses]
         /\ lockedBy' \in [Events -> Workers \cup {None}]
         /\ lease' \in [Events -> {"none", "live", "expired"}]
         /\ messageId' \in [Events -> BOOLEAN]
         /\ lastAt' = lastAt /\ suppressed' = suppressed /\ recorded' = recorded
         /\ \A e \in Events : RowTypes(e)'
<1>1. OutboxAfter(o) \in EventStatuses /\ o \in DeliveryStatuses
  BY DEF Outcomes, OutboxAfter, EventStatuses, DeliveryStatuses, SentStatuses
<1>2. /\ event' \in [Events -> EventStatuses]
      /\ due' \in [Events -> BOOLEAN]
      /\ attempts' \in [Events -> 0..MaxAttempts]
      /\ delivery' \in [Events -> DeliveryStatuses]
      /\ lockedBy' \in [Events -> Workers \cup {None}]
      /\ lease' \in [Events -> {"none", "live", "expired"}]
      /\ messageId' \in [Events -> BOOLEAN]
      /\ lastAt' = lastAt /\ suppressed' = suppressed /\ recorded' = recorded
  BY <1>1 DEF Complete, EmailTypeOK
<1>3. ASSUME NEW e \in Events PROVE RowTypes(e)'
  <2>1. CASE e = job[w].event
    <3>1. /\ delivery'[e] = o /\ lockedBy'[e] = None /\ lease'[e] = "none"
          /\ o = "sent" => messageId'[e]
      BY <2>1 DEF Complete, EmailTypeOK
    <3>2. /\ o # "processing"
          /\ o \in SentStatuses => o = "sent"
      BY DEF Outcomes, SentStatuses
    <3>3. lastAt'[e] \in 0..MaxNotices
      BY <1>2 DEF EmailTypeOK
    <3> QED
      BY <1>2, <3>1, <3>2, <3>3 DEF RowTypes
  <2>2. CASE e # job[w].event
    BY <1>2, <2>2, RowTypesHold DEF Complete, RowTypes, EmailTypeOK
  <2> QED
    BY <2>1, <2>2
<1> QED
  BY <1>2, <1>3

LEMMA EmailTypesStep ==
  ASSUME EmailIInv, [Next]_vars
  PROVE  EmailTypeOK'
<1> USE DEF EmailIInv
<1> USE DEF rows, hooks, calls, outside
<1>1. ASSUME NEW e \in Events, NEW u \in Users, Request(e, u)
      PROVE  EmailTypeOK'
  BY <1>1 DEF Request, EmailTypeOK
<1>2. ASSUME NEW w \in Workers, Claim(w)
      PROVE  EmailTypeOK'
  <2>1. PICK skip \in SUBSET (Unavailable \cup Suppressed),
             take \in SUBSET Sendable :
               /\ take = {} \/ \E e \in Sendable : take = {e}
               /\ ClaimEffect(w, skip, take)
    BY <1>2, ClaimIsEffect
  <2>2. /\ job' \in [Workers -> Job \cup {NoJob}]
        /\ phase' \in [Workers -> Phases]
        /\ reply' \in [Workers -> Replies]
    BY <2>1, ClaimedJob DEF EmailTypeOK, Replies
  <2>3. /\ event' \in [Events -> EventStatuses]
        /\ attempts' \in [Events -> 0..MaxAttempts]
        /\ delivery' \in [Events -> DeliveryStatuses]
        /\ lockedBy' \in [Events -> Workers \cup {None}]
        /\ lease' \in [Events -> {"none", "live", "expired"}]
    BY <2>1, NextAttemptType
       DEF ClaimEffect, EmailTypeOK, EventStatuses, DeliveryStatuses
  <2>4. ASSUME NEW e \in Events PROVE RowTypes(e)'
    <3>1. UNCHANGED <<due, messageId, lastAt>>
      BY <1>2 DEF Claim
    <3> QED
      BY <1>2, <2>3, <3>1, ClaimRows, RowTypesHold DEF RowTypes, SentStatuses
  <2> QED
    BY <1>2, <2>2, <2>3, <2>4 DEF Claim, EmailTypeOK, RowTypes
<1>3. ASSUME NEW w \in Workers,
             Send(w) \/ RenderFails(w) \/ AnswerLost(w) \/ WorkerDies(w)
      PROVE  EmailTypeOK'
  <2>1. phase[w] # "idle" => job[w] \in Job
    BY DEF CallsInv, WorkersKnow
  <2>2. job[w] \in Job => KeyOf(job[w].event, job[w].n) \in Key
    BY DEF Job, Key, KeyOf
  <2> QED
    BY <1>3, <2>1, <2>2
       DEF Send, RenderFails, AnswerLost, WorkerDies, Finish, Hear, Fault,
           EmailTypeOK, Phases, Replies
<1>4. ASSUME NEW w \in Workers, CompleteSent(w) \/ CompleteFailure(w)
      PROVE  EmailTypeOK'
  <2>1. job[w].event \in Events
    BY <1>4, CompletionIsOne DEF CallsInv, WorkersKnow, Job
  <2>2. /\ job' \in [Workers -> Job \cup {NoJob}]
        /\ phase' \in [Workers -> Phases]
        /\ reply' \in [Workers -> Replies]
        /\ faults' \in 0..MaxFaults
        /\ UNCHANGED <<recipient, active, outside>>
    BY <1>4, CompletionIsOne DEF Finish, Fault, EmailTypeOK, Phases, Replies
  <2>3. CASE UNCHANGED <<rows, hooks>>
    BY <2>2, <2>3 DEF EmailTypeOK
  <2>4. ASSUME NEW o \in Outcomes, Complete(w, o)
        PROVE  EmailTypeOK'
    <3> HIDE DEF rows, hooks, outside
    <3>1. wire' = wire /\ accepted' = accepted /\ notices' = notices
      BY <2>2 DEF outside
    <3> QED
      BY <2>1, <2>2, <2>4, <3>1, CompleteTypes DEF EmailTypeOK, RowTypes
  <2> QED
    BY <1>4, <2>3, <2>4, CompletionIsOne DEF Outcomes
<1>5. ASSUME NEW r \in wire, Accept(r) \/ Refuse(r)
      PROVE  EmailTypeOK'
  BY <1>5 DEF Accept, Refuse, Hear, EmailTypeOK, Phases, Replies
<1>6. ASSUME NEW n \in notices, RecordWebhook(n)
      PROVE  EmailTypeOK'
  <2> DEFINE e == n.event
  <2>1. n \in Notice /\ e \in Events /\ n.at \in 1..MaxNotices
        /\ n.type \in NoticeTypes
    BY DEF EmailTypeOK, Notice
  <2>2. messageId[e] => /\ event[e] = "succeeded"
                        /\ recipient[e] \in Users
                        /\ delivery[e] # "processing"
    BY <2>1 DEF RowsInv, OutboxMatchesDelivery, RequestedFirst, SentIsSettled,
       SentStatuses, EmailTypeOK
  <2>3. StatusAfter(n.type, delivery[e]) \in DeliveryStatuses
    BY <2>1 DEF StatusAfter, EmailTypeOK, DeliveryStatuses, SentStatuses,
       Suppressing
  <2>4. delivery[e] # "processing" =>
          StatusAfter(n.type, delivery[e]) # "processing"
    BY <2>1 DEF StatusAfter, Suppressing
  <2>5. /\ recorded' \subseteq [notice : Notice, matched : BOOLEAN]
        /\ suppressed' \subseteq Users
    BY <1>6, <2>1, <2>2 DEF RecordWebhook, EmailTypeOK
  <2>6. /\ delivery' \in [Events -> DeliveryStatuses]
        /\ lastAt' \in [Events -> 0..MaxNotices]
    BY <1>6, <2>1, <2>3 DEF RecordWebhook, EmailTypeOK
  <2>7. /\ UNCHANGED <<recipient, event, due, attempts, lockedBy, lease,
                       messageId, active, calls, outside, faults>>
        /\ \A d \in Events \ {e} : delivery'[d] = delivery[d]
        /\ \/ delivery'[e] = delivery[e]
           \/ /\ messageId[e]
              /\ delivery'[e] = StatusAfter(n.type, delivery[e])
    BY <1>6, <2>1 DEF RecordWebhook, EmailTypeOK
  <2>8. ASSUME NEW d \in Events
        PROVE  /\ delivery'[d] = "processing" <=> lockedBy'[d] # None
               /\ delivery'[d] = "processing" <=> lease'[d] # "none"
               /\ delivery'[d] \in SentStatuses => messageId'[d]
    BY <2>2, <2>4, <2>7, RowTypesHold DEF RowTypes
  <2> HIDE DEF e
  <2> QED
    BY <2>5, <2>6, <2>7, <2>8 DEF EmailTypeOK
<1>7. ASSUME NEW e \in Events, NEW type \in NoticeTypes, Report(e, type)
      PROVE  EmailTypeOK'
  <2>1. Cardinality(notices) \in Nat
    BY FS_CardinalityType DEF HooksInv, NoticesInOrder
  <2>2. [event |-> e, type |-> type, at |-> Cardinality(notices) + 1] \in Notice
    BY <1>7, <2>1 DEF Report, Notice
  <2> QED
    BY <1>7, <2>2 DEF Report, EmailTypeOK
<1>8. ASSUME NEW e \in Events, BecomesDue(e) \/ LeaseExpires(e)
      PROVE  EmailTypeOK'
  <2>1. CASE BecomesDue(e)
    BY <2>1 DEF BecomesDue, EmailTypeOK
  <2>2. CASE LeaseExpires(e)
    <3>1. faults' \in 0..MaxFaults
      BY <2>2 DEF LeaseExpires, Fault, EmailTypeOK
    <3>2. /\ lease' \in [Events -> {"none", "live", "expired"}]
          /\ \A d \in Events : lease'[d] = "none" <=> lease[d] = "none"
      BY <2>2 DEF LeaseExpires, EmailTypeOK
    <3>3. UNCHANGED <<recipient, event, due, attempts, delivery, lockedBy, hooks,
                      active, calls, outside>>
      BY <2>2 DEF LeaseExpires
    <3> QED
      BY <3>1, <3>2, <3>3 DEF EmailTypeOK
  <2> QED
    BY <1>8, <2>1, <2>2
<1>9. ASSUME NEW u \in Users, ChangeAccount(u)
      PROVE  EmailTypeOK'
  BY <1>9 DEF ChangeAccount, EmailTypeOK
<1>10. CASE UNCHANGED vars
  BY <1>10 DEF vars, EmailTypeOK
<1> QED
  BY <1>1, <1>2, <1>3, <1>4, <1>5, <1>6, <1>7, <1>8, <1>9, <1>10
     DEF Next, WorkerStep, ResendAnswers

-----------------------------------------------------------------------------
(* The two rows of an event *)

\* RowsInv, event by event.
RowInv(e) ==
  /\ event[e] = "pending" => delivery[e] = "none"
  /\ event[e] = "processing" => delivery[e] = "processing"
  /\ event[e] = "failed" => delivery[e] = "retry"
  /\ event[e] = "succeeded" <=> messageId[e] \/ delivery[e] = "suppressed"
  /\ delivery[e] = "dead_letter" => event[e] = "dead_letter"
  /\ messageId[e] => delivery[e] \in SentStatuses \cup {"failed", "suppressed"}
  /\ event[e] # "pending" => recipient[e] # None
  /\ lease[e] = "live" => event[e] = "processing"

LEMMA RowsAreEach == RowsInv <=> \A e \in Events : RowInv(e)
BY DEF RowsInv, RowInv, OutboxMatchesDelivery, SentIsSettled, RequestedFirst,
       LiveIsOpen

LEMMA CompleteKeepsRow ==
  ASSUME EmailIInv, NEW w \in Workers, phase[w] # "idle",
         NEW o \in Outcomes, Complete(w, o), recipient' = recipient,
         NEW e \in Events
  PROVE  RowInv(e)'
<1>1. RowInv(e)
  BY RowsAreEach DEF EmailIInv
<1>2. job[w].event \in Events
  BY DEF EmailIInv, CallsInv, WorkersKnow, Job
<1>3. CASE e = job[w].event
  <2>1. delivery[e] = "processing"
    BY <1>3 DEF Complete, HoldsLease
  <2>2. ~messageId[e]
    BY <1>1, <2>1 DEF RowInv, SentStatuses
  <2>3. /\ delivery'[e] = o /\ event'[e] = OutboxAfter(o)
        /\ lease'[e] = "none"
        /\ messageId'[e] <=> o = "sent"
    BY <1>3, <2>2 DEF Complete, EmailIInv, EmailTypeOK
  <2>4. recipient[e] # None
    BY <1>1, <2>1 DEF RowInv
  <2> QED
    BY <2>3, <2>4 DEF RowInv, Outcomes, OutboxAfter, SentStatuses
<1>4. CASE e # job[w].event
  <2>1. /\ delivery'[e] = delivery[e] /\ event'[e] = event[e]
        /\ messageId'[e] = messageId[e] /\ lease'[e] = lease[e]
    BY <1>2, <1>4 DEF Complete, EmailIInv, EmailTypeOK
  <2> QED
    BY <1>1, <2>1 DEF RowInv
<1> QED
  BY <1>3, <1>4

LEMMA RowsStep ==
  ASSUME EmailIInv, [Next]_vars
  PROVE  RowsInv'
<1> SUFFICES ASSUME NEW e \in Events PROVE RowInv(e)'
  BY RowsAreEach DEF RowsInv, RowInv, OutboxMatchesDelivery, SentIsSettled,
     RequestedFirst, LiveIsOpen
<1>0. RowInv(e) /\ RowTypes(e)
  BY RowsAreEach, RowTypesHold DEF EmailIInv
<1>1. ASSUME NEW d \in Events, NEW u \in Users, Request(d, u)
      PROVE  RowInv(e)'
  BY <1>0, <1>1 DEF Request, RowInv, rows, hooks, EmailIInv, EmailTypeOK
<1>2. ASSUME NEW w \in Workers, Claim(w)
      PROVE  RowInv(e)'
  <2>1. UNCHANGED <<recipient, messageId>>
    BY <1>2 DEF Claim, hooks
  <2>2. Claimable(e) => /\ recipient[e] # None
                        /\ ~messageId[e] /\ delivery[e] # "suppressed"
    BY <1>0 DEF Claimable, RowInv
  <2>3. Claimable(e) => lease[e] # "live"
    BY <1>0 DEF Claimable, RowInv
  <2>4. CASE /\ event'[e] = event[e] /\ delivery'[e] = delivery[e]
             /\ lease'[e] = lease[e]
    BY <1>0, <2>1, <2>4 DEF RowInv
  <2>5. CASE ~(/\ event'[e] = event[e] /\ delivery'[e] = delivery[e]
               /\ lease'[e] = lease[e])
    BY <1>0, <1>2, <2>1, <2>2, <2>3, <2>5, ClaimRows DEF RowInv, EmailIInv
  <2> QED
    BY <2>4, <2>5
<1>3. ASSUME NEW w \in Workers, CompleteSent(w) \/ CompleteFailure(w)
      PROVE  RowInv(e)'
  <2>1. CASE UNCHANGED <<rows, hooks>>
    BY <1>0, <1>3, <2>1, CompletionIsOne DEF RowInv, rows, hooks
  <2>2. ASSUME NEW o \in Outcomes, Complete(w, o)
        PROVE  RowInv(e)'
    BY <1>3, <2>2, CompletionIsOne, CompleteKeepsRow
  <2> QED
    BY <1>3, <2>1, <2>2, CompletionIsOne DEF Outcomes
<1>4. ASSUME NEW n \in notices, RecordWebhook(n)
      PROVE  RowInv(e)'
  <2>1. UNCHANGED <<recipient, event, messageId, lease>>
    BY <1>4 DEF RecordWebhook
  <2>2. n.event \in Events /\ n.type \in NoticeTypes
    BY DEF EmailIInv, EmailTypeOK, Notice
  <2>3. \/ delivery'[e] = delivery[e]
        \/ messageId[e] /\ delivery'[e] = StatusAfter(n.type, delivery[e])
    BY <1>4, <2>2 DEF RecordWebhook, EmailIInv, EmailTypeOK
  <2>4. CASE messageId[e] /\ delivery'[e] = StatusAfter(n.type, delivery[e])
    <3>1. delivery'[e] \in SentStatuses \cup {"failed", "suppressed"}
      BY <1>0, <2>2, <2>4 DEF StatusAfter, RowInv, SentStatuses, Suppressing
    <3> QED
      BY <1>0, <2>1, <2>4, <3>1 DEF RowInv, SentStatuses
  <2> QED
    BY <1>0, <2>1, <2>3, <2>4 DEF RowInv
<1>5. CASE UNCHANGED <<recipient, event, delivery, messageId, lease>>
  BY <1>0, <1>5 DEF RowInv
<1>6. ASSUME NEW d \in Events, LeaseExpires(d)
      PROVE  RowInv(e)'
  BY <1>0, <1>6 DEF LeaseExpires, RowInv, hooks, EmailIInv, EmailTypeOK
<1> QED
  BY <1>1, <1>2, <1>3, <1>4, <1>5, <1>6
     DEF Next, WorkerStep, ResendAnswers, Send, RenderFails, AnswerLost,
         WorkerDies, Accept, Refuse, Report, BecomesDue, ChangeAccount,
         rows, hooks, vars

-----------------------------------------------------------------------------
(* The calls to Resend *)

LEMMA CallsStep ==
  ASSUME EmailIInv, [Next]_vars
  PROVE  CallsInv'
<1> USE DEF EmailIInv, CallsInv, KeysAreEvents, WorkersKnow, SentIsTaken
<1>0. wire \subseteq [from : Workers, key : Key] /\ accepted \subseteq Key
  BY DEF EmailTypeOK
<1>1. ASSUME NEW w \in Workers, Claim(w)
      PROVE  CallsInv'
  <2>1. PICK skip \in SUBSET (Unavailable \cup Suppressed),
             take \in SUBSET Sendable :
               /\ take = {} \/ \E e \in Sendable : take = {e}
               /\ ClaimEffect(w, skip, take)
    BY <1>1, ClaimIsEffect
  <2>2. /\ phase'[w] # "idle" => job'[w] \in Job
        /\ phase'[w] \in {"idle", "claimed"}
        /\ reply'[w] = "none"
        /\ \A v \in Workers \ {w} : /\ phase'[v] = phase[v]
                                    /\ job'[v] = job[v]
                                    /\ reply'[v] = reply[v]
    BY <2>1, ClaimedJob DEF EmailTypeOK
  <2>3. /\ UNCHANGED <<messageId, wire, accepted>>
        /\ \A r \in wire : r.from # w
    BY <1>1 DEF Claim, hooks, outside
  <2> QED
    BY <1>0, <2>2, <2>3
<1>2. ASSUME NEW w \in Workers, Send(w)
      PROVE  CallsInv'
  <2>1. /\ job[w] \in Job
        /\ KeyOf(job[w].event, job[w].n) = <<job[w].event, 0>>
        /\ UNCHANGED <<job, reply, accepted, messageId>>
        /\ wire' = wire \cup {[from |-> w, key |-> <<job[w].event, 0>>]}
        /\ phase' = [phase EXCEPT ![w] = "sending"]
        /\ phase[w] = "claimed"
    BY <1>2 DEF Send, KeyOf, hooks
  <2> QED
    BY <1>0, <2>1 DEF EmailTypeOK
<1>3. ASSUME NEW w \in Workers, RenderFails(w) \/ AnswerLost(w)
      PROVE  CallsInv'
  BY <1>0, <1>3
     DEF RenderFails, AnswerLost, Hear, hooks, outside, EmailTypeOK
<1>4. ASSUME NEW w \in Workers, WorkerDies(w)
      PROVE  CallsInv'
  BY <1>0, <1>4 DEF WorkerDies, Finish, hooks, outside, EmailTypeOK
<1>5. ASSUME NEW w \in Workers, CompleteSent(w) \/ CompleteFailure(w)
      PROVE  CallsInv'
  <2>1. UNCHANGED <<wire, accepted>> /\ phase[w] \in {"answered", "failing"}
    BY <1>5, CompletionIsOne DEF outside
  <2>2. KeysAreEvents' /\ WorkersKnow'
    <3>1. CASE Finish(w)
      BY <1>0, <2>1, <3>1 DEF Finish, EmailTypeOK
    <3>2. CASE /\ phase' = [phase EXCEPT ![w] = "failing"]
               /\ UNCHANGED <<job, reply>>
      BY <1>0, <2>1, <3>2 DEF EmailTypeOK
    <3> QED
      BY <1>5, <3>1, <3>2, CompletionIsOne
  <2>3. \A e \in Events :
          messageId'[e] => messageId[e] \/ (e = job[w].event /\ MailTaken(w))
    <3>1. CASE UNCHANGED messageId
      BY <3>1
    <3>2. ASSUME NEW o \in Outcomes, Complete(w, o), o = "sent" => MailTaken(w)
          PROVE  \A e \in Events :
                   messageId'[e] =>
                     messageId[e] \/ (e = job[w].event /\ MailTaken(w))
      BY <3>2 DEF Complete, EmailTypeOK
    <3> QED
      BY <1>5, <3>1, <3>2, CompletionIsOne DEF Outcomes, hooks
  <2> QED
    BY <2>1, <2>2, <2>3 DEF MailTaken
<1>6. ASSUME NEW r \in wire, Accept(r)
      PROVE  CallsInv'
  <2>1. r.from \in Workers /\ r.key \in Key /\ r.key[2] = 0
        /\ r.key = <<r.key[1], 0>>
    BY <1>0 DEF Key
  <2>2. /\ accepted' = accepted \cup {r.key} /\ wire' \subseteq wire
        /\ UNCHANGED <<job, messageId>>
    BY <1>6 DEF Accept, hooks
  <2>3. CASE phase[r.from] = "sending"
    <3>1. /\ reply' = [reply EXCEPT ![r.from] = "accepted"]
          /\ phase' = [phase EXCEPT ![r.from] = "answered"]
      BY <1>6, <2>3 DEF Accept, Hear
    <3>2. r.key = <<job[r.from].event, 0>>
      BY <2>1, <2>3
    <3> QED
      BY <1>0, <2>1, <2>2, <2>3, <3>1, <3>2 DEF EmailTypeOK
  <2>4. CASE phase[r.from] # "sending"
    BY <1>0, <1>6, <2>1, <2>2, <2>4 DEF Accept
  <2> QED
    BY <2>3, <2>4
<1>7. ASSUME NEW r \in wire, Refuse(r)
      PROVE  CallsInv'
  <2>1. /\ r.from \in Workers /\ wire' \subseteq wire
        /\ UNCHANGED <<job, messageId, accepted>>
    BY <1>0, <1>7 DEF Refuse, hooks
  <2>2. \/ UNCHANGED <<phase, reply>>
        \/ /\ phase[r.from] = "sending"
           /\ phase' = [phase EXCEPT ![r.from] = "answered"]
           /\ \E a \in {"retryable", "terminal"} :
                reply' = [reply EXCEPT ![r.from] = a]
    BY <1>7 DEF Refuse, Hear
  <2> QED
    BY <1>0, <2>1, <2>2 DEF EmailTypeOK
<1>8. CASE UNCHANGED <<phase, job, reply, wire, accepted, messageId>>
  BY <1>8
<1> QED
  BY <1>1, <1>2, <1>3, <1>4, <1>5, <1>6, <1>7, <1>8
     DEF Next, WorkerStep, ResendAnswers, Request, RecordWebhook, Report,
         BecomesDue, LeaseExpires, ChangeAccount, hooks, calls, outside, vars

-----------------------------------------------------------------------------
(* Webhooks *)

\* Only a webhook changes what is known about a mail after it was sent.
LEMMA DeliveredIsLeftAlone ==
  ASSUME EmailIInv, [Next]_vars, UNCHANGED recorded,
         NEW e \in Events, delivery'[e] \in {"delivered", "delayed"}
  PROVE  delivery'[e] = delivery[e] /\ lastAt'[e] = lastAt[e]
<1>0. RowTypes(e)
  BY RowTypesHold DEF EmailIInv
<1>1. ASSUME NEW w \in Workers, Claim(w)
      PROVE  delivery'[e] = delivery[e] /\ lastAt'[e] = lastAt[e]
  BY <1>1, ClaimRows DEF Claim, hooks, EmailIInv
<1>2. ASSUME NEW w \in Workers, CompleteSent(w) \/ CompleteFailure(w)
      PROVE  delivery'[e] = delivery[e] /\ lastAt'[e] = lastAt[e]
  <2>1. CASE UNCHANGED <<rows, hooks>>
    BY <2>1 DEF rows, hooks
  <2>2. ASSUME NEW o \in Outcomes, Complete(w, o)
        PROVE  delivery'[e] = delivery[e] /\ lastAt'[e] = lastAt[e]
    BY <2>2 DEF Complete, Outcomes, EmailIInv, EmailTypeOK
  <2> QED
    BY <1>2, <2>1, <2>2, CompletionIsOne DEF Outcomes
<1>3. ASSUME NEW n \in notices, RecordWebhook(n)
      PROVE  FALSE
  <2> DEFINE row == [notice |-> n, matched |-> messageId[n.event]]
  <2>1. row \in recorded
    BY <1>3 DEF RecordWebhook
  <2>2. row.notice = n
    OBVIOUS
  <2>3. \A r \in recorded : r.notice # n
    BY <1>3 DEF RecordWebhook
  <2> QED
    BY <2>1, <2>2, <2>3
<1> QED
  BY <1>1, <1>2, <1>3
     DEF Next, WorkerStep, ResendAnswers, Request, Send, RenderFails,
         AnswerLost, WorkerDies, Accept, Refuse, Report, BecomesDue,
         LeaseExpires, ChangeAccount, rows, hooks, vars

LEMMA RecordedStep ==
  ASSUME EmailIInv, NEW n \in notices, RecordWebhook(n)
  PROVE  HooksInv'
<1> USE DEF EmailIInv, HooksInv
<1> DEFINE e == n.event
           row == [notice |-> n, matched |-> messageId[e]]
<1>1. /\ n \in Notice /\ e \in Events /\ n.at \in 1..MaxNotices
      /\ n.type \in NoticeTypes
  BY DEF EmailTypeOK, Notice
<1>2. /\ recorded' = recorded \cup {row}
      /\ row.notice = n
      /\ row.matched <=> messageId[e]
      /\ UNCHANGED <<recipient, messageId, notices>>
  BY <1>1 DEF RecordWebhook, outside, EmailTypeOK
<1>3. MatchedIsSent'
  BY <1>2 DEF MatchedIsSent
<1>4. SuppressionIsKept'
  BY <1>2 DEF SuppressionIsKept, RecordWebhook, Suppresses
<1>5. NoticesInOrder'
  BY <1>2 DEF NoticesInOrder
<1>6. LastIsNewest'
  <2>1. CASE ~messageId[e]
    BY <1>2, <2>1 DEF RecordWebhook, LastIsNewest
  <2>2. CASE messageId[e] /\ ~Applies(n)
    <3>1. n.at <= lastAt[e]
      BY <1>1, <2>2 DEF Applies, EmailTypeOK
    <3> QED
      BY <1>2, <2>2, <3>1 DEF RecordWebhook, LastIsNewest
  <2>3. CASE messageId[e] /\ Applies(n)
    <3>1. /\ lastAt' = [lastAt EXCEPT
               ![e] = IF lastAt[e] < n.at THEN n.at ELSE lastAt[e]]
          /\ delivery' = [delivery EXCEPT
               ![e] = StatusAfter(n.type, delivery[e])]
      BY <2>3 DEF RecordWebhook
    <3>2. /\ lastAt'[e] \in Nat /\ lastAt[e] \in Nat
          /\ lastAt[e] <= lastAt'[e] /\ n.at <= lastAt'[e]
      BY <1>1, <3>1 DEF EmailTypeOK
    <3>3. \A r \in recorded' : r.matched => r.notice.at <= lastAt'[r.notice.event]
      <4> TAKE r \in recorded'
      <4>1. CASE r = row
        BY <1>2, <3>2, <4>1
      <4>2. CASE r \in recorded
        <5>1. /\ r.notice.event \in Events /\ r.notice.at \in Nat
              /\ r.matched => r.notice.at <= lastAt[r.notice.event]
          BY <4>2 DEF LastIsNewest, EmailTypeOK, Notice
        <5>2. r.notice.event # e => lastAt'[r.notice.event] = lastAt[r.notice.event]
          BY <3>1, <5>1 DEF EmailTypeOK
        <5> QED
          BY <3>2, <5>1, <5>2
      <4> QED
        BY <1>2, <4>1, <4>2
    <3>4. ASSUME NEW d \in Events, delivery'[d] \in {"delivered", "delayed"}
          PROVE  \E r \in recorded' :
                   /\ r.matched /\ r.notice.event = d
                   /\ r.notice.type = delivery'[d] /\ r.notice.at = lastAt'[d]
      <4>1. CASE d # e
        BY <1>2, <3>1, <3>4, <4>1 DEF LastIsNewest, EmailTypeOK
      <4>2. CASE d = e /\ n.type # "scheduled"
        <5>1. delivery'[e] = n.type
          BY <1>1, <3>1, <4>2 DEF StatusAfter, EmailTypeOK
        <5>2. n.at > lastAt[e]
          BY <2>3, <3>4, <4>2, <5>1 DEF Applies, Suppressing
        <5>3. lastAt'[e] = n.at
          BY <1>1, <3>1, <5>2 DEF EmailTypeOK
        <5> QED
          BY <1>2, <2>3, <4>2, <5>1, <5>3
      <4>3. CASE d = e /\ n.type = "scheduled"
        <5>1. delivery'[e] = delivery[e]
          BY <1>1, <3>1, <4>3 DEF StatusAfter, EmailTypeOK
        <5>2. PICK r \in recorded :
                /\ r.matched /\ r.notice.event = e
                /\ r.notice.type = delivery[e] /\ r.notice.at = lastAt[e]
          BY <1>1, <3>4, <4>3, <5>1 DEF LastIsNewest
        <5>3. n.at < r.notice.at
          BY <3>4, <4>3, <5>1, <5>2 DEF NoticesInOrder
        <5>4. n.at > lastAt[e]
          BY <2>3, <4>3 DEF Applies, Suppressing
        <5> QED
          BY <1>1, <3>2, <5>2, <5>3, <5>4
      <4> QED
        BY <4>1, <4>2, <4>3
    <3> QED
      BY <3>3, <3>4 DEF LastIsNewest
  <2> QED
    BY <2>1, <2>2, <2>3
<1> QED
  BY <1>3, <1>4, <1>5, <1>6

LEMMA ReportedStep ==
  ASSUME EmailIInv, NEW e \in Events, NEW type \in NoticeTypes, Report(e, type)
  PROVE  NoticesInOrder'
<1> USE DEF EmailIInv, HooksInv, NoticesInOrder
<1> DEFINE N == Cardinality(notices)
           new == [event |-> e, type |-> type, at |-> N + 1]
<1>1. /\ N \in Nat
      /\ \A n \in notices : n.at \in Nat /\ n.at <= N
  BY FS_CardinalityType DEF EmailTypeOK, Notice
<1>2. notices' = notices \cup {new} /\ new \notin notices
  BY <1>1 DEF Report
<1>3. IsFiniteSet(notices') /\ Cardinality(notices') = N + 1
  BY <1>2, FS_AddElement
<1>4. type = "scheduled" =>
        \A n \in notices : n.event = e => n.type = "scheduled"
  BY DEF Report
<1>5. recorded' = recorded
  BY DEF Report, hooks
<1> HIDE DEF N
<1>6. \A n \in notices' : n.at <= N + 1
  BY <1>1, <1>2
<1>7. \A n, m \in notices' :
        n.event = m.event /\ n.type = "scheduled" /\ m.type # "scheduled" =>
          n.at < m.at
  BY <1>1, <1>2, <1>4
<1> QED
  BY <1>2, <1>3, <1>5, <1>6, <1>7

\* A step that is no webhook keeps what webhooks and sends have left.
LEMMA HooksAreKept ==
  ASSUME EmailIInv, [Next]_vars, UNCHANGED recorded
  PROVE  /\ \A e \in Events : messageId[e] => messageId'[e]
         /\ \A e \in Events : recipient[e] # None => recipient'[e] = recipient[e]
         /\ UNCHANGED <<suppressed, lastAt>>
<1> DEFINE Kept ==
      /\ \A e \in Events : messageId[e] => messageId'[e]
      /\ \A e \in Events : recipient[e] # None => recipient'[e] = recipient[e]
      /\ UNCHANGED <<suppressed, lastAt>>
<1>1. ASSUME NEW w \in Workers, CompleteSent(w) \/ CompleteFailure(w)
      PROVE  Kept
  <2>1. CASE UNCHANGED <<rows, hooks>>
    BY <1>1, <2>1, CompletionIsOne DEF hooks
  <2>2. ASSUME NEW o \in Outcomes, Complete(w, o)
        PROVE  Kept
    <3>1. UNCHANGED recipient
      BY <1>1, CompletionIsOne
    <3>2. ASSUME NEW e \in Events, messageId[e]
          PROVE  messageId'[e]
      BY <2>2, <3>2 DEF Complete, EmailIInv, EmailTypeOK
    <3>3. UNCHANGED <<suppressed, lastAt>>
      BY <2>2 DEF Complete
    <3> QED
      BY <3>1, <3>2, <3>3
  <2> QED
    BY <1>1, <2>1, <2>2, CompletionIsOne DEF Outcomes
<1>2. ASSUME NEW n \in notices, RecordWebhook(n)
      PROVE  FALSE
  <2> DEFINE row == [notice |-> n, matched |-> messageId[n.event]]
  <2>1. row \in recorded
    BY <1>2 DEF RecordWebhook
  <2>2. row.notice = n
    OBVIOUS
  <2>3. \A r \in recorded : r.notice # n
    BY <1>2 DEF RecordWebhook
  <2> QED
    BY <2>1, <2>2, <2>3
<1>3. ASSUME NEW e \in Events, NEW u \in Users, Request(e, u)
      PROVE  Kept
  BY <1>3 DEF Request, hooks, EmailIInv, EmailTypeOK
<1> QED
  BY <1>1, <1>2, <1>3
     DEF Next, WorkerStep, ResendAnswers, Claim, Send, RenderFails, AnswerLost,
         WorkerDies, Accept, Refuse, Report, BecomesDue, LeaseExpires,
         ChangeAccount, hooks, vars

\* Requests are never withdrawn, and what is claimed was requested.
LEMMA AskedStep ==
  ASSUME EmailIInv, [Next]_vars
  PROVE  CallsAreAsked'
<1> USE DEF CallsAreAsked, EmailIInv
<1>0. /\ wire \subseteq [from : Workers, key : Key]
      /\ phase \in [Workers -> Phases]
      /\ job \in [Workers -> Job \cup {NoJob}]
      /\ \A w \in Workers : phase[w] # "idle" => job[w].event \in Events
      /\ \A r \in wire : r.key[1] \in Events
  BY DEF EmailTypeOK, CallsInv, WorkersKnow, Job, Key
<1>1. \A e \in Events : recipient[e] # None => recipient'[e] # None
  <2>1. ASSUME NEW e \in Events, NEW u \in Users, Request(e, u)
        PROVE  \A d \in Events : recipient[d] # None => recipient'[d] # None
    BY <2>1 DEF Request, EmailTypeOK
  <2>2. CASE UNCHANGED recipient
    BY <2>2
  <2> QED
    BY <2>1, <2>2, CompletionIsOne
       DEF Next, WorkerStep, ResendAnswers, Claim, Send, RenderFails,
           AnswerLost, WorkerDies, Accept, Refuse, RecordWebhook, Report,
           BecomesDue, LeaseExpires, ChangeAccount, vars
<1>2. ASSUME NEW w \in Workers, Claim(w)
      PROVE  CallsAreAsked'
  <2>1. PICK skip \in SUBSET (Unavailable \cup Suppressed),
             take \in SUBSET Sendable :
               /\ take = {} \/ \E e \in Sendable : take = {e}
               /\ ClaimEffect(w, skip, take)
    BY <1>2, ClaimIsEffect
  <2>2. UNCHANGED <<recipient, wire>>
    BY <1>2 DEF Claim, outside
  <2>3. \A v \in Workers \ {w} : phase'[v] = phase[v] /\ job'[v] = job[v]
    BY <2>1, ClaimedJob
  <2>4. ASSUME phase'[w] # "idle"
        PROVE  recipient[job'[w].event] # None
    <3>1. PICK e \in Sendable : take = {e}
      BY <1>0, <2>1, <2>4 DEF ClaimEffect
    <3>2. (CHOOSE x \in take : TRUE) = e /\ take # {}
      BY <3>1
    <3>3. job'[w].event = e
      BY <1>0, <2>1, <3>2 DEF ClaimEffect
    <3> QED
      BY <3>3 DEF Sendable, Claimable
  <2> QED
    BY <2>2, <2>3, <2>4
<1>3. ASSUME NEW w \in Workers, Send(w)
      PROVE  CallsAreAsked'
  BY <1>0, <1>1, <1>3 DEF Send, KeyOf
<1>4. ASSUME NEW w \in Workers, CompleteSent(w) \/ CompleteFailure(w)
      PROVE  CallsAreAsked'
  BY <1>0, <1>4, CompletionIsOne DEF Finish, outside
<1>5. ASSUME NEW w \in Workers,
             RenderFails(w) \/ AnswerLost(w) \/ WorkerDies(w)
      PROVE  CallsAreAsked'
  BY <1>0, <1>5 DEF RenderFails, AnswerLost, Hear, WorkerDies, Finish, outside
<1>6. ASSUME NEW r \in wire, Accept(r) \/ Refuse(r)
      PROVE  CallsAreAsked'
  BY <1>0, <1>6 DEF Accept, Refuse, Hear
<1>7. CASE UNCHANGED <<phase, job, wire>>
  BY <1>0, <1>1, <1>7
<1> QED
  BY <1>2, <1>3, <1>4, <1>5, <1>6, <1>7
     DEF Next, WorkerStep, ResendAnswers, Request, RecordWebhook, Report,
         BecomesDue, LeaseExpires, ChangeAccount, calls, outside, vars

LEMMA HooksStep ==
  ASSUME EmailIInv, [Next]_vars
  PROVE  HooksInv'
<1>1. ASSUME NEW n \in notices, RecordWebhook(n)
      PROVE  HooksInv'
  BY <1>1, RecordedStep
<1>2. CASE UNCHANGED recorded
  <2> USE DEF EmailIInv, HooksInv
  <2>1. /\ \A e \in Events : messageId[e] => messageId'[e]
        /\ \A e \in Events : recipient[e] # None => recipient'[e] = recipient[e]
        /\ UNCHANGED <<suppressed, lastAt>>
    BY <1>2, HooksAreKept
  <2>2. ASSUME NEW r \in recorded, r.matched
        PROVE  /\ r.notice.event \in Events
               /\ messageId[r.notice.event]
               /\ recipient[r.notice.event] # None
    BY <2>2
       DEF MatchedIsSent, EmailTypeOK, Notice, RowsInv, OutboxMatchesDelivery,
           RequestedFirst
  <2>3. MatchedIsSent' /\ SuppressionIsKept'
    BY <1>2, <2>1, <2>2 DEF MatchedIsSent, SuppressionIsKept
  <2>4. NoticesInOrder'
    <3>1. CASE UNCHANGED notices
      BY <1>2, <3>1 DEF NoticesInOrder
    <3> QED
      BY <3>1, ReportedStep
         DEF Next, WorkerStep, ResendAnswers, Request, Claim, Send, RenderFails,
             AnswerLost, CompleteSent, CompleteFailure, WorkerDies, Accept,
             Refuse, RecordWebhook, BecomesDue, LeaseExpires, ChangeAccount,
             outside, vars
  <2>5. LastIsNewest'
    <3>1. \A r \in recorded' : r.matched => r.notice.at <= lastAt'[r.notice.event]
      BY <1>2, <2>1 DEF LastIsNewest
    <3>2. ASSUME NEW e \in Events, delivery'[e] \in {"delivered", "delayed"}
          PROVE  delivery'[e] = delivery[e] /\ lastAt'[e] = lastAt[e]
      BY <1>2, <3>2, DeliveredIsLeftAlone
    <3> QED
      BY <1>2, <3>1, <3>2 DEF LastIsNewest
  <2> QED
    BY <2>3, <2>4, <2>5
<1> QED
  BY <1>1, <1>2
     DEF Next, WorkerStep, ResendAnswers, Request, Claim, Send, RenderFails,
         AnswerLost, CompleteSent, CompleteFailure, Complete, WorkerDies,
         Accept, Refuse, Report, BecomesDue, LeaseExpires, ChangeAccount,
         hooks, vars

-----------------------------------------------------------------------------
(* Theorems *)

\* The inductive invariant holds always.
THEOREM EmailInvariant == Spec => []EmailIInv
<1>1. EmailIInv /\ [Next]_vars => EmailIInv'
  BY EmailTypesStep, RowsStep, CallsStep, HooksStep, AskedStep DEF EmailIInv
<1> QED
  BY EmailInitIInv, <1>1, PTL DEF Spec

\* Every column of the mail tables keeps its type, with their checks.
THEOREM EmailTypes == Spec => []EmailTypeOK
BY EmailInvariant, PTL DEF EmailIInv

\* Resend takes at most one mail for an event, because every call of every
\* worker carries the key of the event.
THEOREM MailsAreSentOnce == Spec => []OneMailPerEvent
<1>1. ASSUME EmailIInv PROVE OneMailPerEvent
  <2> SUFFICES ASSUME NEW e \in Events PROVE Cardinality(MailsOf(e)) <= 1
    BY DEF OneMailPerEvent
  <2>1. MailsOf(e) \subseteq {<<e, 0>>}
    BY <1>1
       DEF MailsOf, EmailIInv, EmailTypeOK, Key, CallsInv, KeysAreEvents
  <2>2. IsFiniteSet({<<e, 0>>}) /\ Cardinality({<<e, 0>>}) = 1
    BY FS_Singleton
  <2> QED
    BY <2>1, <2>2, FS_Subset
<1> QED
  BY EmailInvariant, <1>1, PTL

\* A delivery has a message id only if Resend accepted its mail.
THEOREM SentWasAccepted == Spec => []SentIsAccepted
<1>1. ASSUME EmailIInv PROVE SentIsAccepted
  <2>1. ASSUME NEW e \in Events, messageId[e]
        PROVE  <<e, 0>> \in MailsOf(e)
    <3>1. <<e, 0>>[1] = e
      OBVIOUS
    <3> QED
      BY <1>1, <2>1, <3>1 DEF EmailIInv, CallsInv, SentIsTaken, MailsOf
  <2> QED
    BY <2>1 DEF SentIsAccepted
<1> QED
  BY EmailInvariant, <1>1, PTL

\* Outbox row and delivery row agree after every claim, completion and webhook.
THEOREM OutboxAndDeliveryAgree == Spec => []OutboxMatchesDelivery
BY EmailInvariant, PTL DEF EmailIInv, RowsInv

\* A bounce or complaint that reached its delivery suppresses for good.
THEOREM SuppressionsStay == Spec => []SuppressionIsKept
BY EmailInvariant, PTL DEF EmailIInv, HooksInv

\* The status of a mail under way is that of the newest webhook, in whatever
\* order they arrived.
THEOREM StatusesAreNewest == Spec => []StatusIsNewest
<1>1. ASSUME EmailIInv PROVE StatusIsNewest
  <2> SUFFICES ASSUME NEW e \in Events, delivery[e] \in {"delivered", "delayed"}
               PROVE  \E r \in recorded :
                 /\ r.matched /\ r.notice.event = e /\ r.notice.type = delivery[e]
                 /\ \A q \in recorded :
                      (/\ q.matched /\ q.notice.event = e
                       /\ q.notice.type # "scheduled") => q.notice.at <= r.notice.at
    BY DEF StatusIsNewest
  <2> QED
    BY <1>1 DEF EmailIInv, HooksInv, LastIsNewest
<1> QED
  BY EmailInvariant, <1>1, PTL

\* A delivery being sent is settled by the worker that holds it, before its
\* lease runs out, or by a claim that finds its recipient suppressed.
THEOREM HoldersSettle == Spec => OnlyTheHolderSettles
<1> DEFINE Settled(e) ==
      (delivery[e] = "processing" /\ delivery'[e] # "processing") =>
        \/ delivery'[e] = "suppressed"
        \/ lease[e] = "live" /\ phase'[lockedBy[e]] # phase[lockedBy[e]]
<1>1. ASSUME EmailIInv, Next, NEW e \in Events
      PROVE  Settled(e)
  <2>1. ASSUME NEW w \in Workers, Claim(w)
        PROVE  Settled(e)
    BY <1>1, <2>1, ClaimRows DEF EmailIInv
  <2>2. ASSUME NEW w \in Workers, CompleteSent(w) \/ CompleteFailure(w)
        PROVE  Settled(e)
    <3>1. CASE UNCHANGED <<rows, hooks>>
      BY <3>1 DEF rows
    <3>2. ASSUME NEW o \in Outcomes, Complete(w, o), delivery'[e] # delivery[e]
          PROVE  lease[e] = "live" /\ lockedBy[e] = w
      BY <1>1, <3>2 DEF Complete, HoldsLease, EmailIInv, EmailTypeOK
    <3>3. phase'[w] # phase[w]
      BY <1>1, <2>2, CompletionIsOne DEF Finish, EmailIInv, EmailTypeOK
    <3> QED
      BY <2>2, <3>1, <3>2, <3>3, CompletionIsOne DEF Outcomes
  <2>3. ASSUME NEW n \in notices, RecordWebhook(n)
        PROVE  Settled(e)
    <3>1. ASSUME delivery'[e] # delivery[e] PROVE messageId[e]
      BY <1>1, <2>3, <3>1 DEF RecordWebhook, EmailIInv, EmailTypeOK
    <3>2. messageId[e] => delivery[e] # "processing"
      BY <1>1 DEF EmailIInv, RowsInv, SentIsSettled, SentStatuses
    <3> QED
      BY <3>1, <3>2
  <2> QED
    BY <1>1, <2>1, <2>2, <2>3
       DEF Next, WorkerStep, ResendAnswers, Request, Send, RenderFails,
           AnswerLost, WorkerDies, Accept, Refuse, Report, BecomesDue,
           LeaseExpires, ChangeAccount, rows
<1>2. EmailIInv /\ [Next]_vars => [\A e \in Events : Settled(e)]_vars
  BY <1>1
<1> QED
  BY EmailInvariant, <1>2, PTL DEF Spec, OnlyTheHolderSettles

-----------------------------------------------------------------------------
(* The contract *)

LEMMA MailsAreCounted ==
  ASSUME EmailIInv, NEW e \in Events
  PROVE  Cardinality(MailsOf(e)) = IF <<e, 0>> \in accepted THEN 1 ELSE 0
<1>1. MailsOf(e) = IF <<e, 0>> \in accepted THEN {<<e, 0>>} ELSE {}
  BY DEF MailsOf, EmailIInv, EmailTypeOK, Key, CallsInv, KeysAreEvents
<1>2. Cardinality({<<e, 0>>}) = 1 /\ Cardinality({}) = 0
  BY FS_Singleton, FS_EmptySet
<1> QED
  BY <1>1, <1>2

\* The same count after a step.
LEMMA MailsAreCountedNext ==
  ASSUME EmailIInv', NEW e \in Events
  PROVE  Cardinality(MailsOf(e))' = IF <<e, 0>> \in accepted' THEN 1 ELSE 0
<1>1. MailsOf(e)' = IF <<e, 0>> \in accepted' THEN {<<e, 0>>} ELSE {}
  BY DEF MailsOf, EmailIInv, EmailTypeOK, Key, CallsInv, KeysAreEvents
<1>2. Cardinality({<<e, 0>>}) = 1 /\ Cardinality({}) = 0
  BY FS_Singleton, FS_EmptySet
<1> QED
  BY <1>1, <1>2

\* What the contract sees of the state.
Seen == [e \in Events |-> VerdictOf(e)]
Mails == [e \in Events |-> Cardinality(MailsOf(e))]

\* An event under a live lease, or one that may be claimed, is undecided.
LEMMA UndecidedIsOpen ==
  ASSUME EmailIInv, NEW e \in Events, lease[e] = "live" \/ Claimable(e)
  PROVE  VerdictOf(e) = "open" /\ ~messageId[e]
<1>1. RowInv(e)
  BY RowsAreEach DEF EmailIInv
<1>2. recipient[e] # None /\ event[e] \in {"pending", "failed", "processing"}
  BY <1>1 DEF RowInv, Claimable
<1> QED
  BY <1>1, <1>2 DEF RowInv, VerdictOf

LEMMA AskIsContract ==
  ASSUME EmailIInv, NEW d \in Events, NEW u \in Users, Request(d, u)
  PROVE  Promise!Ask(d, u)
<1>1. /\ recipient[d] = None /\ recipient' = [recipient EXCEPT ![d] = u]
      /\ UNCHANGED <<event, messageId, accepted, suppressed>>
  BY DEF Request, rows, hooks, outside
<1>2. event[d] = "pending"
  BY <1>1 DEF EmailIInv, RowsInv, RequestedFirst
<1>3. \A e \in Events :
        VerdictOf(e)' = IF e = d THEN "open" ELSE VerdictOf(e)
  <2>1. recipient'[d] # None /\ event'[d] = "pending"
    BY <1>1, <1>2 DEF EmailIInv, EmailTypeOK
  <2>2. VerdictOf(d)' = "open"
    BY <2>1 DEF VerdictOf
  <2>3. ASSUME NEW e \in Events \ {d} PROVE VerdictOf(e)' = VerdictOf(e)
    <3>1. recipient'[e] = recipient[e] /\ event' = event /\ messageId' = messageId
      BY <1>1 DEF EmailIInv, EmailTypeOK
    <3> QED
      BY <3>1 DEF VerdictOf
  <2> QED
    BY <2>2, <2>3
<1>4. VerdictOf(d) = "none"
  BY <1>1, <1>2 DEF VerdictOf
<1>5. Seen' = [Seen EXCEPT ![d] = "open"] /\ Seen[d] = "none"
  BY <1>3, <1>4 DEF Seen
<1>6. Mails' = Mails
  BY <1>1 DEF Mails, MailsOf
<1> QED
  BY <1>1, <1>5, <1>6 DEF Promise!Ask, Seen, Mails

\* A claim decides what it does not hand out: a dead letter for an account
\* that is not active, nothing more for a recipient who is suppressed.
LEMMA ClaimIsContract ==
  ASSUME EmailIInv, NEW w \in Workers, Claim(w)
  PROVE  \E dead, stopped \in SUBSET Events : Promise!Drop(dead, stopped)
<1> DEFINE dead == {e \in Events : /\ Claimable(e)
                                   /\ event'[e] = "dead_letter"}
<1> DEFINE stopped == {e \in Events : /\ Claimable(e)
                                      /\ event'[e] = "succeeded"}
<1>1. UNCHANGED <<recipient, messageId, accepted, suppressed>>
  BY DEF Claim, hooks, outside
<1>2. ASSUME NEW e \in stopped PROVE recipient[e] \in suppressed
  <2>1. PICK skip \in SUBSET (Unavailable \cup Suppressed),
             take \in SUBSET Sendable : ClaimEffect(w, skip, take)
    BY ClaimIsEffect
  <2>2. event[e] # "succeeded"
    BY DEF Claimable
  <2>3. event'[e] = "succeeded" => e \in Suppressed
    BY <2>1, <2>2 DEF ClaimEffect
  <2> QED
    BY <2>3 DEF Suppressed
<1>3. ASSUME NEW e \in Events
      PROVE  VerdictOf(e)' = IF e \in dead THEN "dead"
                             ELSE IF e \in stopped THEN "suppressed"
                             ELSE VerdictOf(e)
  <2>1. CASE Claimable(e)
    <3>1. VerdictOf(e) = "open" /\ ~messageId[e] /\ recipient[e] # None
      BY <2>1, UndecidedIsOpen DEF Claimable
    <3>2. event'[e] \in {event[e], "dead_letter", "succeeded", "processing"}
      BY ClaimRows DEF EmailIInv
    <3>3. event[e] \in {"pending", "failed", "processing"}
      BY <2>1 DEF Claimable
    <3> QED
      BY <1>1, <2>1, <3>1, <3>2, <3>3 DEF VerdictOf
  <2>2. CASE ~Claimable(e)
    <3>1. event'[e] = event[e]
      BY <2>2, ClaimRows DEF EmailIInv
    <3> QED
      BY <1>1, <2>2, <3>1 DEF VerdictOf
  <2> QED
    BY <2>1, <2>2
<1>4. \A e \in dead \cup stopped : Seen[e] = "open"
  BY UndecidedIsOpen DEF Seen
<1>5. Mails' = Mails
  BY <1>1 DEF Mails, MailsOf
<1>6. dead \in SUBSET Events /\ stopped \in SUBSET Events
  OBVIOUS
<1> HIDE DEF dead, stopped
<1>7. Seen' = [e \in Events |-> IF e \in dead THEN "dead"
                                ELSE IF e \in stopped THEN "suppressed"
                                ELSE Seen[e]]
  BY <1>3 DEF Seen
<1>8. Promise!Drop(dead, stopped)
  BY <1>1, <1>2, <1>4, <1>5, <1>7 DEF Promise!Drop, Seen, Mails
<1> QED
  BY <1>6, <1>8

\* A completion decides the mail its worker holds the lease of: sent if the
\* worker heard that it went out, dead, or still open when it is to be retried.
LEMMA CompletionIsContract ==
  ASSUME EmailIInv, NEW w \in Workers, CompleteSent(w) \/ CompleteFailure(w)
  PROVE  [Promise!ContractNext]_<<recipient, Seen, Mails, suppressed>>
<1>1. UNCHANGED <<recipient, accepted>>
  BY CompletionIsOne DEF outside
<1>2. Mails' = Mails
  BY <1>1 DEF Mails, MailsOf
<1>3. PICK d \in Events : d = job[w].event
  BY CompletionIsOne DEF EmailIInv, CallsInv, WorkersKnow, Job
<1> DEFINE Decided(v) == \A e \in Events :
             VerdictOf(e)' = IF e = d THEN v ELSE VerdictOf(e)
<1>4. ASSUME NEW o \in Outcomes, Complete(w, o)
      PROVE  /\ VerdictOf(d) = "open" /\ UNCHANGED suppressed
             /\ o = "sent" => Decided("sent")
             /\ o = "retry" => Decided("open")
             /\ o = "dead_letter" => Decided("dead")
  <2>1. VerdictOf(d) = "open" /\ ~messageId[d] /\ recipient[d] # None
    <3>1. lease[d] = "live"
      BY <1>3, <1>4 DEF Complete, HoldsLease
    <3>2. event[d] = "processing"
      BY <1>3, <3>1 DEF EmailIInv, RowsInv, LiveIsOpen
    <3> QED
      BY <1>3, <3>1, <3>2, UndecidedIsOpen DEF EmailIInv, RowsInv, RequestedFirst
  <2>2. /\ event' = [event EXCEPT ![d] = OutboxAfter(o)]
        /\ messageId' = [messageId EXCEPT ![d] = @ \/ o = "sent"]
        /\ UNCHANGED suppressed
    BY <1>3, <1>4 DEF Complete
  <2>3. event \in [Events -> EventStatuses] /\ messageId \in [Events -> BOOLEAN]
    BY DEF EmailIInv, EmailTypeOK
  <2>4. ASSUME NEW e \in Events \ {d} PROVE VerdictOf(e)' = VerdictOf(e)
    <3>1. event'[e] = event[e] /\ messageId'[e] = messageId[e]
      BY <2>2, <2>3
    <3> QED
      BY <1>1, <3>1 DEF VerdictOf
  <2>5. event'[d] = OutboxAfter(o) /\ messageId'[d] = (o = "sent")
    BY <1>3, <2>1, <2>2, <2>3
  <2>6. CASE o = "sent"
    <3>1. event'[d] = "succeeded"
      BY <2>5, <2>6 DEF OutboxAfter
    <3>2. VerdictOf(d)' = "sent"
      BY <1>1, <2>1, <2>5, <2>6, <3>1 DEF VerdictOf
    <3> QED
      BY <2>1, <2>2, <2>4, <2>6, <3>2
  <2>7. CASE o = "retry"
    <3>1. event'[d] = "failed"
      BY <2>5, <2>7 DEF OutboxAfter
    <3>2. VerdictOf(d)' = "open"
      BY <1>1, <2>1, <3>1 DEF VerdictOf
    <3> QED
      BY <2>1, <2>2, <2>4, <2>7, <3>2
  <2>8. CASE o = "dead_letter"
    <3>1. event'[d] = "dead_letter"
      BY <2>5, <2>8 DEF OutboxAfter
    <3>2. VerdictOf(d)' = "dead"
      BY <1>1, <2>1, <3>1 DEF VerdictOf
    <3> QED
      BY <2>1, <2>2, <2>4, <2>8, <3>2
  <2> QED
    BY <2>6, <2>7, <2>8 DEF Outcomes
<1>5. CASE UNCHANGED <<rows, hooks>>
  <2>1. UNCHANGED <<event, messageId, suppressed>>
    BY <1>5 DEF rows, hooks
  <2>2. Seen' = Seen
    BY <1>1, <2>1 DEF Seen, VerdictOf
  <2> QED
    BY <1>1, <1>2, <2>1, <2>2
<1>6. CASE Complete(w, "sent") /\ MailTaken(w)
  <2>1. VerdictOf(d) = "open" /\ UNCHANGED suppressed /\ Decided("sent")
    BY <1>4, <1>6 DEF Outcomes
  <2>2. Mails[d] = 1
    BY <1>3, <1>6, MailsAreCounted
       DEF Mails, MailTaken, EmailIInv, CallsInv, WorkersKnow
  <2>3. Seen[d] = "open" /\ Seen' = [Seen EXCEPT ![d] = "sent"]
    BY <1>3, <2>1 DEF Seen
  <2>4. Promise!Confirm(d)
    BY <1>1, <1>2, <2>1, <2>2, <2>3 DEF Promise!Confirm, Seen, Mails
  <2> QED
    BY <1>3, <2>4 DEF Promise!ContractNext
<1>7. CASE Complete(w, "retry")
  <2>1. VerdictOf(d) = "open" /\ UNCHANGED suppressed /\ Decided("open")
    BY <1>4, <1>7 DEF Outcomes
  <2>2. Seen' = Seen
    BY <1>3, <2>1 DEF Seen
  <2> QED
    BY <1>1, <1>2, <2>1, <2>2
<1>8. CASE Complete(w, "dead_letter")
  <2>1. VerdictOf(d) = "open" /\ UNCHANGED suppressed /\ Decided("dead")
    BY <1>4, <1>8 DEF Outcomes
  <2>2. /\ Seen[d] = "open"
        /\ Seen' = [e \in Events |-> IF e \in {d} THEN "dead"
                                     ELSE IF e \in {} THEN "suppressed"
                                     ELSE Seen[e]]
    BY <1>3, <2>1 DEF Seen
  <2>3. Promise!Drop({d}, {})
    BY <1>1, <1>2, <2>1, <2>2 DEF Promise!Drop, Seen, Mails
  <2> QED
    BY <1>3, <2>3 DEF Promise!ContractNext
<1> QED
  BY <1>5, <1>6, <1>7, <1>8, CompletionIsOne

\* Resend takes a mail that was asked for and that it has not taken before.
LEMMA AcceptIsContract ==
  ASSUME EmailIInv, EmailIInv', NEW r \in wire, Accept(r)
  PROVE  [Promise!ContractNext]_<<recipient, Seen, Mails, suppressed>>
<1> DEFINE d == r.key[1]
<1>1. UNCHANGED <<recipient, event, messageId, suppressed>>
  BY DEF Accept, rows, hooks
<1>2. Seen' = Seen
  BY <1>1 DEF Seen, VerdictOf
<1>3. d \in Events /\ r.key = <<d, 0>>
  BY DEF EmailIInv, EmailTypeOK, Key, CallsInv, KeysAreEvents
<1>4. accepted' = accepted \cup {<<d, 0>>}
  BY <1>3 DEF Accept
<1>5. \A e \in Events :
        Mails'[e] = IF e = d THEN 1 ELSE Mails[e]
  <2>1. \A e \in Events : /\ Mails[e] = IF <<e, 0>> \in accepted THEN 1 ELSE 0
                          /\ Mails'[e] = IF <<e, 0>> \in accepted' THEN 1 ELSE 0
    BY MailsAreCounted, MailsAreCountedNext DEF Mails
  <2>2. \A e \in Events : <<e, 0>> = <<d, 0>> <=> e = d
    OBVIOUS
  <2> QED
    BY <1>4, <2>1, <2>2
<1>6. CASE <<d, 0>> \in accepted
  <2>1. accepted' = accepted
    BY <1>4, <1>6
  <2>2. Mails' = Mails
    BY <2>1 DEF Mails, MailsOf
  <2> QED
    BY <1>1, <1>2, <2>2
<1>7. CASE <<d, 0>> \notin accepted
  <2>1. Mails[d] = 0
    BY <1>3, <1>7, MailsAreCounted DEF Mails
  <2>2. Mails' = [Mails EXCEPT ![d] = 1]
    BY <1>3, <1>5 DEF Mails
  <2>3. Seen[d] # "none"
    <3>1. recipient[d] # None
      BY DEF EmailIInv, CallsAreAsked
    <3> QED
      BY <1>3, <3>1 DEF Seen, VerdictOf
  <2>4. Promise!GoOut(d)
    BY <1>1, <1>2, <2>1, <2>2, <2>3 DEF Promise!GoOut, Seen, Mails
  <2> QED
    BY <1>3, <2>4 DEF Promise!ContractNext
<1> QED
  BY <1>6, <1>7

\* A webhook blocks the recipient of a mail that is known to be sent.
LEMMA WebhookIsContract ==
  ASSUME EmailIInv, NEW n \in notices, RecordWebhook(n)
  PROVE  [Promise!ContractNext]_<<recipient, Seen, Mails, suppressed>>
<1> DEFINE d == n.event
<1>1. UNCHANGED <<recipient, event, messageId, accepted>>
  BY DEF RecordWebhook, outside
<1>2. Seen' = Seen /\ Mails' = Mails
  BY <1>1 DEF Seen, VerdictOf, Mails, MailsOf
<1>3. d \in Events
  BY DEF EmailIInv, EmailTypeOK, Notice
<1>4. CASE messageId[d] /\ Suppresses(n)
  <2>1. event[d] = "succeeded" /\ recipient[d] # None
    BY <1>3, <1>4 DEF EmailIInv, RowsInv, OutboxMatchesDelivery, RequestedFirst
  <2>2. Seen[d] = "sent"
    BY <1>3, <1>4, <2>1 DEF Seen, VerdictOf
  <2>3. suppressed' = suppressed \cup {recipient[d]}
    BY <1>4 DEF RecordWebhook
  <2>4. Promise!Block(d)
    BY <1>1, <1>2, <2>2, <2>3 DEF Promise!Block, Seen, Mails
  <2> QED
    BY <1>3, <2>4 DEF Promise!ContractNext
<1>5. CASE ~(messageId[d] /\ Suppresses(n))
  <2>1. UNCHANGED suppressed
    BY <1>5 DEF RecordWebhook
  <2> QED
    BY <1>1, <1>2, <2>1
<1> QED
  BY <1>4, <1>5

LEMMA MailContractStep ==
  ASSUME EmailIInv, EmailIInv', [Next]_vars
  PROVE  [Promise!ContractNext]_<<recipient, Seen, Mails, suppressed>>
<1>1. ASSUME NEW e \in Events, NEW u \in Users, Request(e, u)
      PROVE  Promise!ContractNext
  BY <1>1, AskIsContract DEF Promise!ContractNext
<1>2. ASSUME NEW w \in Workers, Claim(w)
      PROVE  Promise!ContractNext
  BY <1>2, ClaimIsContract DEF Promise!ContractNext
<1>3. CASE UNCHANGED <<recipient, event, messageId, accepted, suppressed>>
  BY <1>3 DEF Seen, VerdictOf, Mails, MailsOf
<1> QED
  BY <1>1, <1>2, <1>3, CompletionIsContract, AcceptIsContract,
     WebhookIsContract
     DEF Next, WorkerStep, ResendAnswers, Send, RenderFails, AnswerLost,
         WorkerDies, Refuse, Report, BecomesDue, LeaseExpires, ChangeAccount,
         rows, hooks, outside, vars

\* Transactional mail keeps its contract: seen from outside, whatever workers,
\* calls and webhooks do, a request leads to one mail at most and to one
\* verdict, and "sent" is said only of a mail that went out.
THEOREM MailKeepsContract == Spec => KeepsMailContract
<1>1. Init => Promise!ContractInit
  <2> SUFFICES ASSUME Init PROVE Promise!ContractInit
    OBVIOUS
  <2>1. /\ recipient = [e \in Events |-> None] /\ suppressed = {}
        /\ accepted = {}
    BY DEF Init
  <2>2. \A e \in Events : VerdictOf(e) = "none"
    <3>1. \A e \in Events : event[e] = "pending" /\ recipient[e] = None
      BY DEF Init
    <3> QED
      BY <3>1 DEF VerdictOf
  <2>3. \A e \in Events : Cardinality(MailsOf(e)) = 0
    <3>1. \A e \in Events : MailsOf(e) = {}
      BY <2>1 DEF MailsOf
    <3> QED
      BY <3>1, FS_EmptySet
  <2> QED
    BY <2>1, <2>2, <2>3 DEF Promise!ContractInit
<1>2. EmailIInv /\ EmailIInv' /\ [Next]_vars =>
        [Promise!ContractNext]_<<recipient, Seen, Mails, suppressed>>
  BY MailContractStep
<1> QED
  BY EmailInvariant, <1>1, <1>2, PTL
     DEF Spec, KeepsMailContract, Promise!Contract, Seen, Mails
=============================================================================
