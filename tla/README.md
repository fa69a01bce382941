# TLA+ verification of the Nile Center platform

This directory holds TLA+ models of the parts of the platform in which several
actors change durable state at the same time, TLC configurations that check
them on small instances, and theorems about them that TLAPS proves for every
instance. Paths such as `server/…` and `supabase/manual/…` are those of the
repository; `028` is short for
`supabase/manual/028_phase6l_moodle_command_runtime.sql`, and likewise the
other numbers. `PROJECT.json` maps every definition to the lines it models and
lists the runs, the mutants, the hazards and the theorems.

1. [The system](#1-the-system)
2. [Modules](#2-modules)
3. [Runs](#3-runs)
4. [Proofs](#4-proofs)
5. [Disagreements found](#5-disagreements-found)
6. [Observations](#6-observations)
7. [What is not modelled](#7-what-is-not-modelled)

## 1. The system

The platform is a TypeScript server (`server/`, deployed as short-lived
functions), a Postgres database reached through Supabase (`supabase/manual/`,
where the state-changing logic lives in `security definer` functions), a Moodle
plugin (`integrations/moodle/local_nilelearn`), a browser client, and remote
services: Moodle itself, Resend for mail, Supabase Auth, the NCC EMS backend.
No process keeps state between requests. What can go wrong lies between two
transactions of the database, or between a transaction and a remote call.

| Component | State | Operations | Interacts through | Hard behaviour | Correct when |
|---|---|---|---|---|---|
| Moodle command store (027, 028) | request, attempt, case, outbox and command rows of a command | create, claim, complete, reconcile | called by routes and worker | replay, stale completions, lease takeover | one request per key; verdicts grounded in the current attempt; the rows agree |
| Moodle plugin service (`command_service.php`) | lock, ledger, Moodle's own tables | execute | web service call | overlap, death between commit and answer, lock timeout | at most one effect per key; a replay answers the same data |
| Moodle worker (`moodleCommandService.ts`, `…Repository.ts`, `…Provider.ts`, `…Routes.ts`) | none of its own: a call of `processOne` | claim, look up references, send, report | database functions and web service | abort timer, lost answers, death, changed mappings | one effect per command, truthful verdicts, every command decided |
| Launch tickets (028, `launch.php`) | ticket rows | create, consume | browser redirect | double exchange, authority revoked in between | a ticket is used once, by a session that still may |
| Email delivery (016, 017, `emailDeliveryService.ts`) | outbox event, delivery, suppression and webhook rows | request, claim, complete, record webhook | Resend calls and webhooks | retry, lost answers, webhooks early or out of order | one mail per event; bounced recipients suppressed; status is the newest |
| User invitations (017, 024, `userInvitationService.ts`) | auth user, app user, invitation, enrolment | create, accept, expire | Supabase Auth and database | two systems, compensation, replay | no invitation without its user, none accepted twice |
| Sessions (001, 002, `sessionRepository.ts`) | session and grant rows, compatibility rows | sign in, resolve, switch role, revoke | cookies, launch tickets | overlapping requests, authority changes, two stores | a session whose end was answered stays ended |
| NCC session (`nccAuthSession.ts`) | tokens in a sealed cookie | login, refresh, switch, logout | NCC EMS | overlapping refreshes, lost answers, an operation refused after a refresh | role and tokens belong together; the tokens kept are the live ones |
| Platform snapshot (`platformRepository.ts`) | one JSON document, a local file | read, write, record event | all legacy routes | read-modify-write, fallback | no update lost |
| Nile Forms (`nileFormsService.ts`, `nileFormsCompatibilityRepository.ts`) | definitions, publications, drafts, responses, promotions | publish, save, submit, sync, withdraw, review, promote | one document with conditional writes, the platform snapshot | conflicts, lost answers, offline replays, an effect inside a retried transaction | one response per person where one is allowed, answered is stored, promoted once |
| Moodle projections (006–014, `moodleProjection*.ts`) | observations, cases | record, show, resolve | sync runs | order, duplicates, a verdict computed twice | the newest observation wins; server and database agree |
| Normalized workflows (020–026) | admissions, placement, attendance rows | one function each | routes | replay | one effect per key |

How the modelled parts interact: a signed-in session creates a command; one
transaction stores it with its outbox event. Some call of `processOne`, not
necessarily the one made by the same request, claims a claimable command for
sixty seconds, turns internal into external ids, calls the plugin
under the command's idempotency key, waits at most twelve seconds, classifies
what it hears, and completes the attempt if it still holds the lease. The
plugin takes a lock per key, looks into its ledger, and commits ledger row and
change in one transaction. Mail works alike, with Resend's idempotency keys in
the place of the ledger and webhooks coming back. Inviting a user writes two
systems, Supabase Auth and the database, with a compensation when the second
fails. A session starts launches into Moodle through one-time tickets that
`launch.php` exchanges. Nile Forms keeps everything in one document that is
read, changed and put back on condition that nobody else did, and a promotion
writes the platform snapshot in the middle of that.

What the repository exposes itself to is listed, at its lines, under `hazards`
in `PROJECT.json`, each with the properties that cover it or a note why none
does.

## 2. Modules

| Module | Models | Uses |
|---|---|---|
| `MoodleCommandStore` | the rows of 027/028 and the four functions that change them, under arbitrary callers | |
| `MoodleProvider` | `command_service::execute` under arbitrary web service calls | |
| `MoodleCommandSystem` | workers, sessions and Moodle together | EXTENDS the store, INSTANCE of the provider |
| `MoodleCommandContract` | what a command promises to who enqueues it | refined by the system |
| `EmailDelivery` | events, deliveries, suppressions, workers, webhooks | |
| `MailContract` | what mail promises to who requests it | refined by `EmailDelivery` |
| `UserInvitation` | inviting and accepting: requests, database transactions, Supabase Auth | |
| `SessionLaunch` | sessions, role switch, logout, launch tickets and their exchange | |
| `NccSession` | the sealed NCC cookie, requests that refresh, the EMS | |
| `FormResponses` | responses to a form, the blob transaction, promotion into the snapshot | |
| `MoodleProjection` | observations of a Moodle course, the view of them, the two freshness verdicts | |
| `MCPlatform` | the last five in one run | EXTENDS all five |
| other `MC…` | symmetry sets for TLC | the module of the same name |
| `…_proofs` | theorems and their lemmas | the module of the same name, TLAPS; `Sessions_proofs`: `SessionLaunch` and `NccSession`; `Platform_proofs`: `MCPlatform` and `MoodleProjection` |

### MoodleCommandStore

A database function is one transaction that locks the request row, so it is one
action: `Enqueue`/`Replay` (create), `Claim`, `Complete`, `Reconcile`. A call
that raises an exception or violates a check or a unique constraint changes
nothing and is no step. Tables are functions from the idempotency key
(`status`, `lease`, `leasedBy`, `attemptCount`, `evidence`, `outbox`, `owner`)
or sets of rows (`attempts`, `cases`). `receipts` is a history variable: what
callers have been told.

Abstractions. Time is seen only through `lease_until`, which is live or expired
at any instant, because the claim tests `<= now()` and the completion
`> now()`. `Claim` takes any claimable row. The function orders them by
`created_at`, but that is the start of the creating transaction, so a row may
become visible after a younger one was claimed, and `SKIP LOCKED` (028:511)
passes over a row that an overlapping claim holds and may give back: the code
promises no order of first claims and no property here assumes one. Connection, manifest, scope and role checks
of create are the input `authority`: "write" lets a first create pass,
"session" only a replay (which looks at the session and role alone), "none"
neither; it changes at any time. Evidence is two booleans, is there a response
hash, is there an error code, because the checks at 027:184–185 look at no
more. The superadmin check of reconcile is an input as well.

### MoodleProvider

A request is one web service call and is never tied to its caller's life: PHP
goes on when the client has hung up. The stages are waiting (before the lock),
locked, committed (lock still held), returned, lost. `Commit` writes ledger and
effect together, as the delegated transaction does; `Vanish` is the death of
the process at any stage. `Throw` rolls back and releases the lock in one step,
although the lock is released a little later, in the `finally`
(`command_service.php:103`). Nothing falls between: whoever waits for the lock
may as well get it, or give up waiting, just before or just after. The uuid and the operation sent with a key never
change, so the ledger comparison is one of payload hashes.

### MoodleCommandSystem

A worker is one call of `processOne` under the id made for it (both routes make
a new id per call, `moodleCommandRoutes.ts:182` and `:276`), so a worker is
used once. `NotConfigured` is what goes wrong before a request is made, a missing
token ("failed") or an address that is no URL ("unknown"). Its phases follow `processOne` line by line: `Take`, then `Send` or
`LookupFails` or `NotConfigured`, then `Hear` or `GiveUp`, then `Report` or
`ReportTurnedDown`; `WorkerDies` at any point. `Report` sends what
`executeClaimed` sends, an error code with every outcome but "applied".
`mapping` is what the references of a payload resolve to, and changes at any
time. The module is smaller than the store alone in one respect, the authority
of a session stays what it was at the start: only create looks at it, and when
or whether a session calls create is open.

### MoodleCommandContract

Five verdicts and a count of changes per command, without queue, leases,
workers or ledger. `Change` may happen after any verdict: an execution whose
caller hung up is not recalled, and the contract says so. What it forbids is
worth the refinement: a second change, "applied" without a change or a
superadmin's word, a final verdict that is revised.

### EmailDelivery

An event has one outbox row and at most one delivery row. `Claim` models the
whole loop of `nile_claim_email_delivery_v2`: on its way to an event that may be
sent it settles events of inactive and suppressed recipients (`ClaimEffect`).
Which due event is met first is left open. `CompleteSent` has the three
outcomes of the completion inside the try block: done, done but the answer
lost, not done; the last two go on into the catch block, where
`CompleteFailure` is the second completion. `RecordWebhook` is
`nile_record_email_webhook`, with the early return for an unknown message id.
Resend is external: it keeps one mail per idempotency key, answers each call or
not, and makes webhooks that arrive in any order. Events carry the time they
happened at Resend, and a mail that is scheduled is so before anything else
happens to it (`Report`); which of them arrives first is open. Recipients of an invitation
may have status `invited` instead of `active`; both are `active` here.

### MailContract

Five verdicts (none, open, sent, suppressed, dead), a count of mails per event
and the blocked recipients, without outbox, leases, workers or calls. `GoOut`
may happen after any verdict but "none": a call is not recalled when its worker
is gone or its event is a dead letter, which is finding 2. What the contract forbids
is a second mail, "sent" without a mail, a verdict that is revised (a dead
letter included), a request whose recipient changes and a recipient blocked for
any other reason than a mail known to be sent. `VerdictOf` maps an event to its
verdict: a succeeded event was sent if it has a message id and was suppressed
if it has none.

### UserInvitation

`UserInvitationService` makes three calls to create an invitation (generate an
identity, insert the rows, on an error delete the identity again) and three to
accept one. A call that is aborted by the client's timer goes on in the
database, so `caller` and `transaction` are two states of one request:
`HearError` may come before, after or without `CommitInvitation`. `OpenTransaction`
takes the lock of the class group and counts the roster; `CommitInvitation`
inserts on the strength of that count. `Compensate` is `removeGeneratedUser`,
whose own failure is swallowed; the foreign key of `app_users` keeps an
identity an account refers to. An identity is named by the request that first generated it, an
invitation by the request that creates it. A retry of the same form is another
request: its request hash contains the new expiry and so never matches the
stored command. The acceptance is `VerifyCode`, `SetPassword`,
`AcceptInvitation`, any of which may be the last.

### SessionLaunch

A `job` is a logout or a role switch: it reads its cookie when it starts, calls
the database in one or two calls, and sets the cookie with its answer, whatever
the browser holds by then. `SignIn` is one step because only its answer matters
to others. Authority is what `resolve_auth_session_authority` computes from
account, grant, expiry and revocation; administrators change account and grant
at any time.

The two launch functions are not one step each. Of all they read, only the row
of the ticket is locked (028:942); session, account, grant and authority are
read by several statements, each of which sees what was committed by then, while
`now()` is the start of the transaction throughout. So an exchange is
`BeginExchange` (what has expired is settled), `CheckSession` (the lock, and
what was read of ticket, session and account), `CheckAuthority` (grant and
authority), `ConsumeLaunch`, and `CompleteLogin`, the login `launch.php` does
with the answer; a create is `BeginLaunch` and `MakeLaunch`. Logouts, role
switches and administrators may come between any two of them. Two pairs of
statements are one step each, at the moment of the second of them. The lock comes
just before the read of the session: in between nobody else can spend the ticket,
and a session that ends there makes the call fail, which it may do at any time
(`ExchangeFails`). The grant is read before the authority function asks for
account and grant in one statement of its own; the model wants what the latter
wants and lets pass a call that the former alone would have stopped. The scope of
the grant and the course of the launch are not kept: a course outside the scope
is one of the ways in which the two calls fail.

`ended` and `logins` are history, and so is `late`, which marks an exchange that
began after the end of its session had been answered. An exchange that is under
way when a logout is answered may still succeed, because nothing asks again
after `CheckSession`; `TicketDiesWithItsSession` says that no other one does.

### NccSession

The server keeps nothing, so the state is the cookie (`sealed`), what the EMS
has for each token pair, and the requests under way. A request goes through
`runWithRefresh`: first call, refresh on a 401, second call, `/auth/me`, and an
answer that writes or clears the cookie or leaves it alone. A login does not look
at the cookie (`server/routes.ts:514`, `nccAuthSession.ts:426`); when its answer
replaces one, the pair that was in it is `replaced` and its session stays at the
EMS. `CallLost` loses a call or its answer, the latter after the EMS has
refreshed, switched role or branch, or logged out, which is also what a login
sends when its `/auth/me` fails (`AppliedUnheard`). The EMS is
external: access tokens run out, a refresh or a switch of role ends the old
pair, a switch of branch does not. `disturbed`, `refused` and `replaced` are
history: they separate what a browser that makes one request at a time can rely on from what
overlap, loss, refusals and a second sign-in do.

### FormResponses

A `run` is one transaction of one server instance: `Begin` reads the document
and computes the draft that the operation makes of it, `Commit` puts it back if
the stored one has not changed (`fresh`), `Conflict` starts it again until
`Attempts` are used up, `CommitUnheard` and `PutLost` are the two ways in which
an answer of the store is lost. A promotion stands still between the two
(`AdapterReads`, `AdapterWrites`, `AdapterFails`): the adapter reads the platform
snapshot and writes it back without a condition. The publication allows one
response per person. `overwritten` is history: a copy replaced a snapshot newer
than itself.

### MoodleProjection

Sync runs observe at one time (`Observe`) and report at another
(`RecordObservation`), in any order, more than once or never. Every success
brings its own `fresh_until` and `retain_until`, any two the table admits
(`BoundsFit`, 007:378–394), so a newer one may run out before an older one. The
view orders by `observed_at desc, id desc` and drops what is past its retention.
`Freshness` is
the verdict `moodleProjectionFreshness.ts` makes from parts of the view,
`StoredFreshness` the one the database computed with it. `shown` is history:
the newest success the view has shown.

## 3. Runs

All instances are checked exhaustively.

| Run | Instance | Distinct states | Shows |
|---|---|---|---|
| `command_store` | 2 keys, 2 sessions, 2 hashes, 2 workers, 2 claims per key | 194,535 | the store's safety under arbitrary callers |
| `provider` | 2 keys, 3 requests, 2 payloads | 2,513 | exactly-once effects of the plugin |
| `command_system` | 1 key, 3 workers, 3 claims, 2 payloads, 2 faults | 191,397 | end-to-end safety and the contract |
| `command_progress` | 2 keys, 3 workers, 3 claims, 1 fault | 147,768 | every command is decided |
| `unknown_blindly_retried` | 1 key, 2 workers, 1 fault | violation | finding 1 |
| `email_delivery` | 2 events, 1 recipient, 2 workers, 2 attempts, 2 webhooks of 3 types, 2 faults | 1,068,514 | the safety of mail |
| `email_progress` | 2 events, 3 workers, 1 fault, no webhooks | 64,248 | every requested mail is settled |
| `email_sent_as_dead_letter`, `bounce_not_suppressed`, `exhausted_retried` | 1 event, 2 workers | violations | findings 2 to 4 |
| `platform` | the five parts of `MCPlatform`, see below | 1,515,837 | the safety of invitations, sessions, launches, NCC cookies, form responses and projections |
| `ncc_tokens_thrown_away` | 3 pairs, 2 requests, 2 roles, 2 branches | violation | finding 5 |

`MCPlatform` puts five parts that share no state in the code into one run: a
behaviour chooses one of them at the start (`part`) and leaves the others as
they are, so the states are the sum, not the product, of the five, and each is
explored in full. Their sets share model values, because a symmetry must
permute disjoint sets of values and one permutation then permutes the sets of
every part. The instances: 2 invitations, 2 addresses, 2 acceptances, 1 seat;
2 session tokens, 1 user, 1 browser, 2 jobs, 1 ticket, 2 exchanges; 3 token
pairs, 2 requests, 2 roles, 1 branch; 1 respondent, 2 responses, 2 server
instances, 2 attempts; 2 observations, each with a retention of up to 4 instants,
clock up to 4.

### The bounds, and why they are enough

- `MaxAttempts` bounds claims of a command. The store compares a completion
  with the current claim only, so two claims show a stale and a current one;
  the system run takes three, which puts a stale execution, a lock waiter and a
  current attempt side by side. In `EmailDelivery` it is not a bound of the
  model but the code's cap of five, lowered to two: an attempt that may be
  retried and a last one.
- `MaxFaults` bounds deaths, lost calls and answers, failed look-ups and leases
  that expire under a running worker. What a fault does is undone by the next
  claim; two faults let a retry fail as well.
- `MaxNotices` bounds webhooks; two are needed to arrive in the wrong order,
  and three types distinguish one that suppresses, one that changes the status
  only and one that changes nothing.
- Two keys (or events) suffice where they interact: in what one session, or
  one recipient, has in progress side by side. One key is enough for
  `command_system` because the provider's state is per key and the store run
  covers two.
- `platform`. Two invitations overlap for one seat and two addresses tell a
  request for the same address from one for another; the seat makes the second
  student the one too many. One browser suffices for `SessionLaunch` because a
  job carries its cookie with it, so two jobs of one browser already hold
  different tokens; two tokens are the one before and the one after a switch.
  One ticket and two exchanges are a double exchange, one of them early, one late.
  Three NCC pairs are an old, a refreshed and a twice refreshed one, so that a
  late answer can bring back a pair two refreshes old. One respondent with two
  ids is what a limit of one per person needs. `Attempts` is 5 in the code: two
  are a conflict that is repeated and one that is the last. Two observations
  have all orders of observing and reporting. Five instants (`MaxTime` 4) and a
  retention of up to four are an older success, a newer one that runs out before
  it, and a time at which the older one is retained, fresh or not. One branch is
  what the safety run of the cookie can afford; `ncc_tokens_thrown_away` has two,
  and the theorems any number.
- The theorems of section 4 hold for every value of all of these.

`CHECK_DEADLOCK FALSE` stands in the provider run, where nothing is left to do
when all requests have been answered, and in the two runs of the platform's
parts, where tokens, pairs, requests and time are used up. In the others
somebody may always act.

Symmetry is used in the safety runs over sets whose members the modules never
tell apart (workers, keys, events, requests, hashes, payloads), never in the
liveness runs. `Tokens` and `Ids` are permuted together with `Invites`, `Jobs`
with `Emails`, because they hold the same values; `Observations` are ordered and
never permuted.

### Properties

Store: `OneRequestPerKey` (no key is answered with another's command, whatever
the order of creates and authority changes), `OutboxAgrees` (request and outbox
rows, changed separately in four functions, agree),
`UnknownIsReconciledBeforeRetry`, `VerdictFromLastAttempt` (a verdict rests on
the attempt that was current), `AppliedEndsTheCommand`, `FinalIsForever` (a
command in progress is decided by the holder of its live lease and nobody else,
and then for good). Provider: `AtMostOneEffect`, `AppliedMeansCommitted`,
`OneExecutionPerKey`. System: `AppliedIsTrue`,
`FailedAfterLostAnswerOnly` (a command that Moodle did apply is shown as failed
only if an earlier answer never reached the store), `KeepsContract`. Mail:
`OneMailPerEvent`, `SentIsAccepted`, `OutboxMatchesDelivery`,
`SuppressionIsKept`, `StatusIsNewest`, `OnlyTheHolderSettles`,
`KeepsMailContract`.
Invitations: `RosterWithinSeats` (count and insert are one section, however
requests overlap), `AccountKeepsItsIdentity` (no compensation takes the identity
of a committed invitation, of its own request or another's),
`ActivatedByItsOwner`. Sessions: `EndedIsFinal`, `TicketDiesWithItsSession` (one
login per ticket, however exchanges overlap, and none for an exchange that
begins after the end of the session was answered). NCC: `RoleFitsTheTokens`
(under any overlap and loss), `NoSessionIsLeftBehind` (for a browser that makes
one request at a time; the sessions it signed in over are excepted, for they
stay). Forms: `OneResponseEach`, `AnsweredIsStored` (of web submissions, which
alone are answered one by one), `PromotionHasOneRecord` (as long as no promotion
overwrote a newer snapshot). Projections: `NeverShownOlder` (as long as what was
shown last is retained), `FreshnessAgrees` (but for one case that the property
names, see section 6). Every
property has a mutant, a variant of a definition of the
code with a plausible bug, that violates it.

### Fairness

`FairSystemSpec` and `FairSpec` assume weak fairness of each step a running
call takes by itself, of Moodle's or Resend's own steps, of the abort timer and
of the clock (leases expire, retries become due). These are what a running
process and a clock do. Weak fairness of `Take` and `Claim` is an assumption
about the operation: somebody keeps calling `processOne`. Each POST of a
command does; beyond that the worker routes need a scheduler, and the
repository configures none (`vercel.json` has no schedule although
`docs/RESEND_TRANSACTIONAL_EMAIL.md` mentions a daily one). No fairness is
assumed of sessions, superadmins, faults, mappings, webhooks or accounts.
`EveryCommandIsDecided` assumes in addition that the references resolve from
some time on: as long as they do not, the code retries for ever and decides
nothing. The fairness is that of each command; that a command whose references
never resolve, with its old `created_at`, is the first to be claimed again and
again and so holds up the others is not caught by it. Faults are finitely many in both runs; with more workers than faults
and commands together no run ends for lack of a worker. No fairness is assumed
of the five parts of the platform run: a request may stop anywhere, which is
how a killed function instance appears in them, and they state safety only.

## 4. Proofs

Eight modules hold proofs. For all values of the constants they prove every
invariant and every action property of every run that passes; what is left to
TLC alone are the two liveness properties. `Sessions_proofs` is about
`SessionLaunch` and `NccSession`, `Platform_proofs` about `MoodleProjection` and
about the five parts together, the others about the module they are named
after. The
assumptions are the ones named in the modules (`StoreAssumption`,
`ProviderAssumption`, …): that the value standing for SQL's null belongs to no
other set, that bounds are natural numbers, and that keys and addresses are
finitely many where a property counts them.

**The store.** The properties are not inductive one by one. That a verdict rests on the current
attempt needs to know that no attempt row exists yet for the claim in
progress; that an unknown attempt is reconciled before a retry needs to know
that its case is still open as long as the command is under review; that an
applied command is never claimed again needs the lease to be gone. `StoreInv`
adds what ties the tables together:

- `LeasedIsProcessing`: exactly a command in progress is leased;
- `AbsentIsUnclaimed`: what was never stored was never claimed;
- `RowsAnswerClaims`: attempt rows answer claims that were made, and the claim
  in progress has none;
- `OpenIsCurrent`: an open case is about the last claim of a command under
  review;
- `UnknownIsSettled`: an unknown answer is the last word, or was reconciled as
  not applied;
- `ReceiptsAreTrue`: what callers were told is what is stored;

beside `StoreTypeOK`, `VerdictFromLastAttempt`, `AppliedEndsTheCommand` and
`OutboxAgrees`. TLC checked `StoreInv` on the instance of `command_store`
before it was proved. `OneRequestPerKey` and `UnknownIsReconciledBeforeRetry`
follow from it in one state, `FinalIsForever` in one step: only a completion
takes a command out of "processing", and the attempt row it adds is its worker's.

**The provider.** `ProviderInv` adds to the type invariant: a request that is
under way has a key and a payload (`CallsAreWhole`); a key has been executed
exactly as often as the ledger records it, once or never (`LedgerIsExact`); an
answered or committed "applied" is in the ledger with its payload
(`AppliedIsRecorded`); and at most one request holds the lock of a key
(`OneExecutionPerKey`), without which two requests could both find the ledger
empty and both commit.

**The runtime.** `SystemIInv` is `StoreInv` and `ProviderInv`, each kept by its
own lemma because a step of the system is a step of the store and a step of the
provider or leaves them alone (`StoreKeeps`, `PluginStep`), and what ties the
workers to both:

- `JobsMatchClaims`: the worker a row names in `leased_by` has the current
  claim as its job, and no two workers have the same job;
- `CallsMatchJobs`: a worker's call carries the key of its job, "applied" is
  only reported by a worker that heard it, and "failed" only by one that heard
  a refusal or sent nothing;
- `AttemptsAreReports`: an attempt row is the report of the worker whose job it
  is, and none says "unknown" (finding 1);
- `LedgerHasCommitter`: a ledger row has the call that committed it.

That a command changes Moodle once is the provider's exactness
(`AtMostOneEffect`). `AppliedIsTrue` goes from the
verdict to its attempt row, to its worker, to what that worker heard, to the
ledger. `FailedAfterLostAnswerOnly` takes the call that made the change: a row
of its worker would say "applied", which ends the command, so there is none,
while the verdict has one; the two attempts differ. `SystemKeepsContract` maps
each step of the runtime to a step of the contract or to none. The late
execution is where the invariant is needed: its command was claimed, so it has
a verdict, and its ledger row was absent, so this is its first change.

The invariant also says more than the run asks. No attempt row says "unknown",
so no completion ever opens a case: `NothingIsEverReviewed` proves what finding 1
says of the composed system, that no command is ever put before a superadmin.
Hence nobody's word stands behind an "applied" (`AppliedIsExact`): every one of
them is a change that was made, once.

**Mail.** `EmailIInv` has four parts beside the types. `RowsInv`: outbox and
delivery agree, a delivery with a message id is not being sent any more, and a
live lease is that of an event in progress (`LiveIsOpen`). `CallsInv`: every call
is made under the key of its event (`KeysAreEvents`), a worker that heard an
acceptance heard it of the mail of its own event (`WorkersKnow`), and what is
stored as sent was accepted (`SentIsTaken`). `HooksInv`: a webhook that found
its delivery found it by its message id (`MatchedIsSent`), so nothing takes the
delivery back to a status before "sent"; webhooks are numbered in the order
they happened (`NoticesInOrder`); and the newest that was matched is the one
the row shows (`LastIsNewest`). `CallsAreAsked`: what workers hold and what is on
its way to Resend was requested. `MailKeepsContract` maps each step to a step of
`MailContract` or to none. A completion or a claim finds its event open, because
an event with a live lease, or one that is claimable, is undecided
(`UndecidedIsOpen`); a claim, which may settle several events, is one `Drop`; a mail that Resend takes
is the first of its event or repeats a key (`MailsAreCounted`).

**Inviting a user.** `InvitationIInv` adds three things to the properties.
`RequestComesFirst`: callers, transactions, accounts and identities refer to
requests that were made. `RowsBelongTogether` ties account and invitation, and
`StagesWereReached` says what an acceptance at some stage has behind it, without
which its last step could not be known to be the owner's. `ClassIsHeldOnce`: at
most one transaction holds the class group, and what it counted is still the
roster, so the insert that follows cannot be one too many.

**Sessions and launches.** `SessionIInv` adds that cookies and jobs refer to
sessions that exist, that a job which is done has revoked its session
(`DoneIsRevoked`), and two things of exchanges. `ExchangeHasTicket`: an exchange
under way has a ticket that was made, and one that found the session standing
did not begin after its end was answered, because by then the row was revoked
(`EndedIsFinal`) and revoked rows are not taken back. `ExchangedOnce`: at most one
exchange holds the lock of a ticket, it holds it only while the ticket is
unspent, and spending it, being answered and logging in exclude each other, so
that however many overlap there is one login. That a revoked session stays
revoked is one lemma (`RevokeKeepsRows`).

**The NCC session.** `NccIInv` adds that pairs in cookies and requests were given
out, and that a request about to write the cookie knows the role of the pair it
holds (`WriteHasTheRole`). One lemma (`EmsKeepsRoles`) says of every step of the
EMS that a pair keeps its role; with it a late answer is harmless.

`NoSessionIsLeftBehind` is about the moments between requests and says nothing
of a request under way, which is where a session can be lost. `LiveIInv` adds
that: as long as nothing was disturbed or refused, at most one request is under
way, it works with the live pair, and up to the refresh the cookie has that
pair, after `/auth/me` the request has its authority, and a request that clears
the cookie has no live pair behind it (`LiveIsCarried`); all of it of the pairs that
no sign-in has replaced (`Unreplaced`), since what was replaced stays live and
belongs to nobody. That a request has a pair
of its own exactly after the refresh (`StagesAreReached`) is what makes a lost
or refused call with a new pair count as a disturbance. `LoneStep` reduces each
step to what it does to the one row; a step to an end goes through `EndLive`.
TLC checked `LiveIInv` on the instance of `platform` before it was proved.

**Form responses.** `FormIInv` is about drafts: a draft that is still fresh keeps
everything that is stored and everything that was answered (`DraftIsDue`), and
each draft by itself respects the limit. Lemmas say of each operation on a
document that it keeps what counts (`AdvanceKeeps` and its siblings). For
promotions, no snapshot and no copy of one has two records of a response
(`RecordedOnce`), and success implies a record as long as no newer snapshot was
overwritten (`SuccessIsRecorded`).

**Projections.** What the view shows is a CHOOSE of the newest member of a finite
set. That every finite set has one is an induction over sets, and the provers
at hand cannot instantiate the library's induction theorems. `ProjectionIInv`
carries the fact along the behaviour instead: the table starts empty and grows
by one observation at a time, and of the old newest and the new one, one is
newer (`NewestOfOneMore`). Since every success has its own retention, any set of
successes may be the one that is retained, so `NewestExist` says it of every
non-empty set of recorded observations. From that, `RetainedIsNewest` and
`LatestIsNewest` say what the view computes. `FreshnessAgrees` compares two
verdicts about the same rows: if the latest observation is a success that is
retained, both see it, and if it is none, neither says fresh. `NeverShownOlder`
holds because what was shown is still in the table (`ShownIsKept`) and, as long
as it is retained, one of those the view chooses the newest from.

**The platform run.** `PlatformIsItsParts`: a behaviour of `MCPlatform` is a
behaviour of each of the five parts, because a step of one leaves the variables
of the others alone. So `PlatformSpec` has everything that is proved of a part
(`PlatformTypes`, `PlatformIsSafe`).

**Only model-checked.** The two liveness properties, `EveryCommandIsDecided` and
`EveryRequestIsSettled`: fairness and ENABLED are outside what the provers can do.

## 5. Disagreements found

Each is a run whose property quotes a document and which TLC violates.

1. `unknown_blindly_retried`. ADR-010: "unknown outcomes move to reconciliation
   rather than being retried blindly". `executeClaimed`
   (`server/moodleCommandService.ts:55`) sends the error's code along with
   "unknown"; the check at 027:185 admits a code only for "failed" and
   "denied". The completion is rolled back, the command stays leased, and after
   sixty seconds it is sent again. The test of the service uses a repository
   without the check, and the test of the check sends no code. The retry is
   harmless as long as the payload hash stays the same (`AtMostOneEffect`),
   and "failed" otherwise (`FailedAfterLostAnswerOnly`). No reachable state of
   the composed system is "under review" (`NothingIsEverReviewed`, section 4).
2. `email_sent_as_dead_letter`. "Terminal failures become dead letters"
   (`docs/RESEND_TRANSACTIONAL_EMAIL.md:112`): so do mails that Resend accepted
   when the answer or the completion is lost, because an error without a status
   code is not retryable and because the completion of a sent mail stands
   inside the try block.
3. `bounce_not_suppressed`. "Bounced or complained recipients are suppressed
   from later sends" (same file): not when the webhook is faster than the
   completion that stores the message id. It is recorded without effect, and
   its repetition counts as a duplicate.
4. `exhausted_retried`. ADR-005: workers "move exhausted work to a dead-letter
   state". The claim caps the count at five instead of stopping there, so an
   event whose workers keep dying is claimed for ever.

5. `ncc_tokens_thrown_away`. "Refresh **rotates** the pair: store the new
   tokens" (`FRONTEND_API.md:57`). `runWithRefresh`
   (`server/nccAuthSession.ts:386`) hands the new pair on only if the operation
   after the refresh succeeds. When that operation is refused (a wrong current
   password, a conflict, a missing permission), the error is thrown before the
   cookie is written: the browser keeps a pair that no longer works, and its
   next request signs it out.

## 6. Observations

What modelling showed beside these, without a document that says otherwise or
without a run of its own:

- A role switch that overlaps a logout creates the new session after the old
  one was revoked (`server/auth.ts:345`): the user is signed in again. The old
  session stays ended, which is what `EndedIsFinal` says.
- A logout whose revocation fails is answered with 503. The model sets no
  cookie then, because `auth.ts` does not, although
  `docs/session-hardening-plan.md:64` says the cookie is cleared.
- A logout sent with NCC tokens that no longer work swallows the 401 and clears
  the cookie, but the answer of an overlapping request may set it again. This is
  why `NoSessionIsLeftBehind` is about undisturbed browsers.
- The session row's id doubles as the cookie's token
  (`server/sessionRepository.ts:569`), and the same value is sent as `p_session_id`
  to the launch and command functions (`server/moodleCommandRepository.ts:317`,
  354, 480, 530), which declare a uuid. The models name a session by one value.
- The hybrid session repository looks a session up among the effective ones
  before it revokes it (`server/sessionRepository.ts:621`): the logout of a
  suspended account leaves it as it is. `EndedIsFinal` is about the database
  repository.
- A promotion adapter writes the snapshot in the middle of a transaction that
  may be run again. Its source key keeps a second run from making a second
  record, but the snapshot is written whole, so that of two promotions the last
  writer wins; `PromotionHasOneRecord` holds of behaviours without such an
  overwriting.
- A response that an offline sync put into quarantine counts as the one response
  of its respondent (`server/nileFormsService.ts:3269`) and cannot be withdrawn,
  which only a submitted one can, so he can never respond again.
- Every observation brings its own retention (007:142–152), and the seed varies
  it. When a newer success runs out before an older one, the view goes back to
  the older state of the course. The database then calls it stale, because it is
  not the last attempt's; the server, which is given only the outcome of the last
  attempt, takes the older one for its result and says fresh as long as its
  bound allows (`server/moodleProjectionFreshness.ts:1695`), or raises an error if
  one was "available" and the other "empty". `FreshnessAgrees` and
  `NeverShownOlder` except exactly this case.
  `docs/INTEGRATION_OWNERSHIP.md:81` says that a failed read "retains only the last
  successful projection"; here it is the last but one.
- An NCC sign-in in a browser that is signed in leaves the first session live at
  the EMS (`server/nccAuthSession.ts:438`); `NoSessionIsLeftBehind` excepts it.
- A launch exchange that has read its session before a logout commits uses the
  ticket after it, even if the logout has been answered by then (028:949–1007).
- Nothing in the repository calls the worker route (`moodleCommandRoutes.ts:260`),
  claim and completion of a mail lock event and delivery in opposite orders
  (016:383; Postgres breaks the deadlock with an error, which is a lost
  completion), and Resend keeps an idempotency key for a limited time
  (`resendEmailProvider.ts:74`), which the model takes as unlimited.

## 7. What is not modelled

Components without a module are listed in `PROJECT.json` with the reason. In
short: user interface, rendering, parsing, configuration and read models have
no interleaving to check; proxies translate requests for a remote system whose
state is not ours; the normalized workflows are one transaction each; migration
and validation scripts run once and by hand.

Within the modelled components these are left out: the first version of the
email claim, which the second replaces; the hybrid session repository and the
demonstration sessions; NCC invitations, session lists and the revocation of
other sessions; definitions, versions, publications, assignments, drafts,
devices and exports of Nile Forms, and its one-time import; the other actions on
the platform snapshot and its local file; course context and course authority of
the projections; the kinds of launch. The operations of the plugin on one Moodle
target, with their version check, are calls into Moodle and are one effect or
one exception. Lengths and formats of keys are abstracted (two hazards are about
them).
