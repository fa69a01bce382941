-------------------------- MODULE MoodleProjection --------------------------
(***************************************************************************)
(* What the platform shows of a Moodle course: the observations that       *)
(* record_moodle_projection_observation of 007 keeps, the view of them     *)
(* that list_authorized_moodle_projection_freshness gives out, the verdict *)
(* that moodleProjectionFreshness.ts makes of that view for itself, and    *)
(* the cases an administrator resolves.                                    *)
(*                                                                         *)
(* Sync runs are external: each observes the course at some time and       *)
(* reports it later, in any order, more than once or never, together with  *)
(* how long its result counts as fresh and is retained.  One course, one   *)
(* family.                                                                 *)
(***************************************************************************)
EXTENDS Naturals

CONSTANTS
  Observations, \* numbers that order observations of the same time, as ids do
  Retention,    \* the longest time a success may be retained for
  MaxTime,      \* bound on the clock
  Admins,
  Nothing       \* no observation, no result, no resolution

VARIABLES
  now,
  item,       \* what a sync run observed
  recorded,   \* observations the table has
  mapping,    \* sync_state of the course's external record
  resolution, \* of the reconciliation case
  shown       \* the success the view showed last

projectionVars == <<now, item, recorded, mapping, resolution, shown>>

Successes == {"available", "empty"}
Results == Successes \cup {"unavailable", "reconciliation"}
Times == 0..(MaxTime + Retention)
ItemRow ==
  [outcome : Results, at : 0..MaxTime, fresh : Times, retain : Times]
ASSUME ProjectionAssumption ==
  /\ Observations \subseteq Nat
  /\ Retention \in Nat \ {0, 1}
  /\ MaxTime \in Nat
  /\ Nothing \notin Observations \cup ItemRow

ResolutionRow ==
  [status : {"matched", "ignored", "resolved"}, by : Admins]

ProjectionTypeOK ==
  /\ now \in 0..MaxTime
  /\ item \in [Observations -> ItemRow \cup {Nothing}]
  /\ recorded \in SUBSET Observations
  /\ mapping \in {"matched", "ignored"}
  /\ resolution \in ResolutionRow \cup {Nothing}
  /\ shown \in Observations \cup {Nothing}

ProjectionInit ==
  /\ now = 0
  /\ item = [o \in Observations |-> Nothing]
  /\ recorded = {}
  /\ mapping = "matched"
  /\ resolution = Nothing
  /\ shown = Nothing

-----------------------------------------------------------------------------
(* The view *)

\* order by observed_at desc, id desc
Newer(o, p) ==
  \/ item[o].at > item[p].at
  \/ item[o].at = item[p].at /\ o > p

\* Variant with a bug: the order in which rows got their ids.
NewestById(S) ==
  IF S = {} THEN Nothing ELSE CHOOSE o \in S : \A p \in S : o >= p
NewestOf(S) ==
  IF S = {} THEN Nothing
            ELSE CHOOSE o \in S : \A p \in S \ {o} : Newer(o, p)

FreshUntil(o) == item[o].fresh
RetainUntil(o) == item[o].retain

Latest == NewestOf(recorded)
Retained ==
  NewestOf({o \in recorded :
    /\ mapping # "ignored"
    /\ item[o].outcome \in Successes
    /\ now <= RetainUntil(o)})

\* freshness_state, which the server does not read.
StoredFreshness ==
  IF Retained = Nothing THEN "unavailable"
  ELSE IF Latest = Retained /\ now <= FreshUntil(Retained) THEN "fresh"
  ELSE "stale"

\* resolveMoodleProjectionObservation from the latest outcome and the retained
\* success; a pair it takes for inconsistent is an error.  The variant with a
\* bug looks at the age of the success only.
FreshnessByAge ==
  IF Retained = Nothing THEN "unavailable"
  ELSE IF now <= FreshUntil(Retained) THEN "fresh"
  ELSE "stale"
Freshness ==
  IF Retained = Nothing THEN "unavailable"
  ELSE IF /\ item[Latest].outcome \in Successes
          /\ item[Latest].outcome # item[Retained].outcome THEN "error"
  ELSE IF /\ item[Latest].outcome \in Successes
          /\ now <= FreshUntil(Retained) THEN "fresh"
  ELSE "stale"

\* What the page shows after a step.
Show == shown' = IF Retained' = Nothing THEN shown ELSE Retained'

-----------------------------------------------------------------------------
(* Actions *)

Tick ==
  /\ now < MaxTime
  /\ now' = now + 1
  /\ UNCHANGED <<item, recorded, mapping, resolution>>
  /\ Show

\* The bounds the table admits; they are null (0 here) without a success.
BoundsFit(outcome, fresh, retain) ==
  IF outcome \in Successes
    THEN now < fresh /\ fresh < retain /\ retain <= now + Retention
    ELSE fresh = 0 /\ retain = 0

\* A sync run finishes with a result for the course and its bounds.
Observe(o, outcome, fresh, retain) ==
  /\ item[o] = Nothing
  /\ BoundsFit(outcome, fresh, retain)
  /\ item' = [item EXCEPT
       ![o] = [outcome |-> outcome, at |-> now, fresh |-> fresh,
               retain |-> retain]]
  /\ UNCHANGED <<now, recorded, mapping, resolution>>
  /\ Show

\* A success needs a mapping that is not ignored, a reconciliation a case
\* that is open.  A repeated call finds the row of its key.
RecordObservation(o) ==
  /\ item[o] # Nothing
  /\ o \notin recorded
  /\ item[o].outcome \in Successes => mapping # "ignored"
  /\ item[o].outcome = "reconciliation" => resolution = Nothing
  /\ recorded' = recorded \cup {o}
  /\ UNCHANGED <<now, item, mapping, resolution>>
  /\ Show

\* Whoever maps courses ignores the mapping or takes it up again.
ChangeMapping ==
  /\ mapping' = IF mapping = "ignored" THEN "matched" ELSE "ignored"
  /\ UNCHANGED <<now, item, recorded, resolution>>
  /\ Show

\* resolve_moodle_projection_reconciliation: the first resolution stays.
ResolveCase(a, status) ==
  /\ \E o \in recorded : item[o].outcome = "reconciliation"
  /\ resolution = Nothing
  /\ resolution' = [status |-> status, by |-> a]
  /\ UNCHANGED <<now, item, recorded, mapping>>
  /\ Show

ProjectionNext ==
  \/ Tick
  \/ \E o \in Observations :
       \/ \E outcome \in Results, fresh, retain \in Times :
            Observe(o, outcome, fresh, retain)
       \/ RecordObservation(o)
  \/ ChangeMapping
  \/ \E a \in Admins, status \in {"matched", "ignored", "resolved"} :
       ResolveCase(a, status)

ProjectionSpec == ProjectionInit /\ [][ProjectionNext]_projectionVars

-----------------------------------------------------------------------------
(* Safety *)

\* The view never goes back to an older state of the course as long as what
\* it showed last is retained, in whatever order observations are reported
\* and however late, also after a time in which it showed nothing.  (A newer
\* success that is retained for less time gives way to an older one.)
NeverShownOlder ==
  [][shown # Nothing =>
       \/ shown' = shown
       \/ Newer(shown', shown)
       \/ now' > RetainUntil(shown)]_projectionVars

\* The server, which computes the freshness again from parts of the view,
\* comes to the verdict the database has: fresh is what the last attempt
\* observed, not an older state after an attempt that failed.  There is one
\* exception, a last attempt whose success is past its own retention while an
\* older one is retained: stale for the database, while the server takes the
\* older one for the last attempt's result.
FreshnessAgrees ==
  Freshness # StoredFreshness =>
    /\ item[Latest].outcome \in Successes
    /\ now > RetainUntil(Latest)
    /\ StoredFreshness = "stale"
=============================================================================
