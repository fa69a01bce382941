--------------------------- MODULE Platform_proofs ---------------------------
(***************************************************************************)
(* Proofs about MoodleProjection, and about the five parts side by side.   *)
(*                                                                         *)
(* That every set of observations has a newest member is an induction over *)
(* sets; here it is carried by the behaviour: the table grows by one       *)
(* observation at a time, and of two there is a newer.                     *)
(*                                                                         *)
(* MCPlatform chooses one of five parts.  Each of its behaviours is one of *)
(* every part, so what is proved of a part holds of it.                    *)
(***************************************************************************)
EXTENDS MCPlatform, UserInvitation_proofs, Sessions_proofs,
        FormResponses_proofs

-----------------------------------------------------------------------------
(* The view of Moodle courses *)

USE ProjectionAssumption

\* Successes that were recorded, past their retention or not.
Kept == {o \in recorded : item[o].outcome \in Successes}

\* What the view retains.
Standing ==
  {o \in recorded : /\ mapping # "ignored"
                    /\ item[o].outcome \in Successes
                    /\ now <= RetainUntil(o)}

IsNewestOf(o, S) == o \in S /\ \A p \in S \ {o} : Newer(o, p)

\* What was recorded was observed, and of what was recorded, whatever part of
\* it is retained, there is a newest; what was shown is a recorded success.
NewestExist ==
  /\ \A o \in recorded : item[o] # Nothing
  /\ \A S \in SUBSET recorded : S # {} => \E o \in S : IsNewestOf(o, S)

\* The types of everything but the view.
RowsTypeOK ==
  /\ now \in 0..MaxTime
  /\ item \in [Observations -> ItemRow \cup {Nothing}]
  /\ recorded \in SUBSET Observations
  /\ mapping \in {"matched", "ignored"}
  /\ resolution \in ResolutionRow \cup {Nothing}

ShownIsKept == shown # Nothing => shown \in Kept

ProjectionIInv == ProjectionTypeOK /\ NewestExist /\ ShownIsKept

-----------------------------------------------------------------------------
(* The order of observations *)

\* Observations that have been made are ordered by time, then by id.
LEMMA NewerIsOrder ==
  ASSUME RowsTypeOK,
         NEW o \in Observations, NEW p \in Observations, NEW q \in Observations,
         item[o] # Nothing, item[p] # Nothing, item[q] # Nothing
  PROVE  /\ ~Newer(o, o)
         /\ Newer(o, p) => ~Newer(p, o)
         /\ Newer(o, p) /\ Newer(p, q) => Newer(o, q)
         /\ o # p => Newer(o, p) \/ Newer(p, o)
<1>1. /\ item[o].at \in Nat /\ item[p].at \in Nat /\ item[q].at \in Nat
      /\ o \in Nat /\ p \in Nat /\ q \in Nat
  <2>1. item[o] \in ItemRow /\ item[p] \in ItemRow /\ item[q] \in ItemRow
    BY DEF RowsTypeOK
  <2>2. \A row \in ItemRow : row.at \in Nat
    BY DEF ItemRow
  <2> QED
    BY <2>1, <2>2
<1> QED
  BY <1>1 DEF Newer

\* The newest member is the only one, and the CHOOSE of NewestOf finds it.
LEMMA NewestIsChosen ==
  ASSUME RowsTypeOK, NEW S \in SUBSET Observations,
         \A o \in S : item[o] # Nothing, NEW o \in S, IsNewestOf(o, S)
  PROVE  NewestOf(S) = o
<1>1. \A p \in S : (\A q \in S \ {p} : Newer(p, q)) => p = o
  BY NewerIsOrder DEF IsNewestOf
<1>2. NewestOf(S) = CHOOSE p \in S : \A q \in S \ {p} : Newer(p, q)
  BY DEF NewestOf
<1>3. \E p \in S : \A q \in S \ {p} : Newer(p, q)
  BY DEF IsNewestOf
<1> QED
  BY <1>1, <1>2, <1>3

\* One more observation: it is the newest now, or the newest stays.
LEMMA NewestOfOneMore ==
  ASSUME RowsTypeOK, NEW S \in SUBSET Observations, NEW o \in Observations,
         \A p \in S \cup {o} : item[p] # Nothing,
         S # {} => \E p \in S : IsNewestOf(p, S)
  PROVE  \E p \in S \cup {o} : IsNewestOf(p, S \cup {o})
<1>1. CASE S = {}
  BY <1>1 DEF IsNewestOf
<1>2. CASE S # {}
  <2>1. PICK p \in S : IsNewestOf(p, S)
    BY <1>2
  <2>2. CASE o = p
    BY <2>1, <2>2 DEF IsNewestOf
  <2>3. CASE Newer(p, o)
    BY <2>1, <2>3 DEF IsNewestOf
  <2>4. CASE Newer(o, p)
    <3>1. \A q \in S : item[q] # Nothing /\ q \in Observations
      OBVIOUS
    <3>2. ASSUME NEW q \in S \ {o} PROVE Newer(o, q)
      BY <2>1, <2>4, <3>1, NewerIsOrder DEF IsNewestOf
    <3> QED
      BY <3>2 DEF IsNewestOf
  <2> QED
    BY <2>1, <2>2, <2>3, <2>4, NewerIsOrder
<1> QED
  BY <1>1, <1>2

-----------------------------------------------------------------------------
(* What the view computes *)

\* The view shows the newest of what it retains, if it retains anything.
LEMMA RetainedIsNewest ==
  ASSUME RowsTypeOK, NewestExist, Retained # Nothing
  PROVE  IsNewestOf(Retained, Standing)
<1>1. Retained = NewestOf(Standing) /\ Standing # {}
  BY DEF Retained, Standing, NewestOf
<1>2. PICK o \in Standing : IsNewestOf(o, Standing)
  BY <1>1 DEF NewestExist, Standing
<1>3. /\ Standing \in SUBSET Observations
      /\ \A p \in Standing : item[p] # Nothing
  BY DEF Standing, RowsTypeOK, NewestExist
<1>4. NewestOf(Standing) = o
  BY <1>2, <1>3, NewestIsChosen
<1> QED
  BY <1>1, <1>2, <1>4

LEMMA LatestIsNewest ==
  ASSUME RowsTypeOK, NewestExist, recorded # {}
  PROVE  IsNewestOf(Latest, recorded)
<1>1. PICK o \in recorded : IsNewestOf(o, recorded)
  BY DEF NewestExist
<1> QED
  BY <1>1, NewestIsChosen DEF Latest, RowsTypeOK, NewestExist

-----------------------------------------------------------------------------
(* The invariant *)

LEMMA ProjectionInitIInv == ProjectionInit => ProjectionIInv
BY DEF ProjectionInit, ProjectionIInv, ProjectionTypeOK, NewestExist, Kept,
       ShownIsKept, Successes

\* What every step does to the observations: they stay, with their results,
\* and at most one more is recorded.
OneMoreAtMost ==
  /\ recorded' = recorded \/ \E o \in Observations : recorded' = recorded \cup {o}
  /\ \A o \in recorded' : item'[o] = item[o] /\ item[o] # Nothing

LEMMA StepRecords ==
  ASSUME ProjectionIInv, ProjectionNext
  PROVE  OneMoreAtMost /\ Show /\ RowsTypeOK'
<1> USE DEF ProjectionIInv, ProjectionTypeOK, RowsTypeOK, NewestExist,
            OneMoreAtMost
<1>1. CASE Tick
  BY <1>1 DEF Tick
<1>2. ASSUME NEW o \in Observations, NEW outcome \in Results,
             NEW fresh \in Times, NEW retain \in Times,
             Observe(o, outcome, fresh, retain)
      PROVE  /\ OneMoreAtMost /\ Show
             /\ UNCHANGED <<now, mapping, resolution>>
             /\ item' \in [Observations -> ItemRow \cup {Nothing}]
  BY <1>2 DEF Observe, ItemRow
<1>3. ASSUME NEW o \in Observations, RecordObservation(o)
      PROVE  /\ OneMoreAtMost /\ Show
             /\ UNCHANGED <<now, item, mapping, resolution>>
  BY <1>3 DEF RecordObservation
<1>4. CASE ChangeMapping
  BY <1>4 DEF ChangeMapping
<1>5. ASSUME NEW a \in Admins, NEW status \in {"matched", "ignored", "resolved"},
             ResolveCase(a, status)
      PROVE  /\ OneMoreAtMost /\ Show
             /\ UNCHANGED <<now, item, mapping>>
             /\ resolution' \in ResolutionRow \cup {Nothing}
  BY <1>5 DEF ResolveCase, ResolutionRow
<1> QED
  BY <1>1, <1>2, <1>3, <1>4, <1>5 DEF ProjectionNext

\* Every part of what was recorded has a newest after one more, too.
LEMMA NewestExistStep ==
  ASSUME ProjectionIInv, OneMoreAtMost, RowsTypeOK'
  PROVE  /\ NewestExist'
         /\ Kept \subseteq Kept'
         /\ \A o, p \in recorded' : Newer(o, p)' <=> Newer(o, p)
<1>1. /\ recorded \subseteq recorded' /\ recorded' \subseteq Observations
      /\ \A o, p \in recorded' : Newer(o, p)' <=> Newer(o, p)
      /\ \A o \in recorded' : item[o] # Nothing /\ item'[o] # Nothing
  BY DEF OneMoreAtMost, Newer, RowsTypeOK
<1>2. Kept \subseteq Kept'
  BY <1>1 DEF OneMoreAtMost, Kept
<1>3. RowsTypeOK /\ NewestExist
  BY DEF ProjectionIInv, ProjectionTypeOK, RowsTypeOK
<1>4. ASSUME NEW S \in SUBSET recorded', S # {}
      PROVE  \E o \in S : IsNewestOf(o, S)
  <2>1. CASE S \subseteq recorded
    BY <1>3, <1>4, <2>1 DEF NewestExist
  <2>2. CASE ~(S \subseteq recorded)
    <3>1. PICK o \in Observations : recorded' = recorded \cup {o}
      BY <2>2 DEF OneMoreAtMost
    <3> DEFINE T == S \ {o}
    <3>2. T \in SUBSET recorded /\ T \in SUBSET Observations /\ T \cup {o} = S
      BY <1>1, <2>2, <3>1
    <3>3. T # {} => \E p \in T : IsNewestOf(p, T)
      BY <1>3, <3>2 DEF NewestExist
    <3>4. \A p \in T \cup {o} : item[p] # Nothing
      BY <1>1, <3>2
    <3> HIDE DEF T
    <3>5. \E p \in T \cup {o} : IsNewestOf(p, T \cup {o})
      BY <1>3, <3>2, <3>3, <3>4, NewestOfOneMore
    <3> QED
      BY <3>2, <3>5
  <2> QED
    BY <2>1, <2>2
<1>5. ASSUME NEW S \in SUBSET recorded', S # {}
      PROVE  \E o \in S : \A p \in S \ {o} : Newer(o, p)'
  BY <1>1, <1>4, <1>5 DEF IsNewestOf
<1>6. NewestExist'
  BY <1>1, <1>5 DEF NewestExist, IsNewestOf
<1> QED
  BY <1>1, <1>2, <1>6

LEMMA ProjectionIInvStep ==
  ProjectionIInv /\ [ProjectionNext]_projectionVars => ProjectionIInv'
<1> SUFFICES ASSUME ProjectionIInv, [ProjectionNext]_projectionVars
             PROVE  ProjectionIInv'
  OBVIOUS
<1>1. CASE ProjectionNext
  <2>1. OneMoreAtMost /\ Show /\ RowsTypeOK'
    BY <1>1, StepRecords
  <2>2. NewestExist' /\ Kept \subseteq Kept'
    BY <2>1, NewestExistStep
  <2>3. Retained' # Nothing => Retained' \in Kept'
    <3>1. (RowsTypeOK /\ NewestExist /\ Retained # Nothing
             => IsNewestOf(Retained, Standing))'
      BY RetainedIsNewest, PTL
    <3> QED
      BY <2>1, <2>2, <3>1 DEF IsNewestOf, Standing, Kept
  <2>4. shown' \in Kept' \cup {Nothing}
    BY <2>1, <2>2, <2>3 DEF Show, ProjectionIInv, ShownIsKept
  <2> QED
    BY <2>1, <2>2, <2>4
       DEF ProjectionIInv, ProjectionTypeOK, RowsTypeOK, ShownIsKept, Kept
<1>2. CASE UNCHANGED projectionVars
  BY <1>2 DEF projectionVars, ProjectionIInv, ProjectionTypeOK, NewestExist,
     Kept, IsNewestOf, Newer, ShownIsKept
<1> QED
  BY <1>1, <1>2


\* Whatever part of the observations is retained has a newest, and what the
\* view has shown is a success that was recorded.
THEOREM ProjectionInvariant == ProjectionSpec => []ProjectionIInv
BY ProjectionInitIInv, ProjectionIInvStep, PTL DEF ProjectionSpec

\* Observations, mapping, resolution and view keep their types.
THEOREM ProjectionTypes == ProjectionSpec => []ProjectionTypeOK
BY ProjectionInvariant, PTL DEF ProjectionIInv

-----------------------------------------------------------------------------
(* What follows *)

\* The server's verdict about the age of what it shows is the database's,
\* whatever bounds the observations came with, unless the last attempt's
\* success is past its retention while an older one is retained: a latest
\* success that is retained is the newest of all that are.
THEOREM FreshnessAlwaysAgrees == ProjectionSpec => []FreshnessAgrees
<1>1. ProjectionIInv => FreshnessAgrees
  <2> SUFFICES ASSUME ProjectionIInv, Freshness # StoredFreshness
               PROVE  /\ item[Latest].outcome \in Successes
                      /\ now > RetainUntil(Latest)
                      /\ StoredFreshness = "stale"
    BY DEF FreshnessAgrees
  <2>1. RowsTypeOK /\ NewestExist
    BY DEF ProjectionIInv, ProjectionTypeOK, RowsTypeOK
  <2>2. Retained # Nothing
    BY DEF Freshness, StoredFreshness
  <2>3. IsNewestOf(Retained, Standing)
    BY <2>1, <2>2, RetainedIsNewest
  <2>4. IsNewestOf(Latest, recorded)
    BY <2>1, <2>3, LatestIsNewest DEF IsNewestOf, Standing
  <2>5. /\ Retained \in recorded /\ item[Retained].outcome \in Successes
        /\ now <= RetainUntil(Retained) /\ mapping # "ignored"
        /\ Latest \in recorded
        /\ Retained \in Observations /\ Latest \in Observations
        /\ item[Retained] # Nothing /\ item[Latest] # Nothing
        /\ RetainUntil(Latest) \in Nat /\ now \in Nat
    <3>1. /\ Retained \in recorded /\ item[Retained].outcome \in Successes
          /\ now <= RetainUntil(Retained) /\ mapping # "ignored"
          /\ Latest \in recorded
      BY <2>3, <2>4 DEF IsNewestOf, Standing
    <3>2. /\ Retained \in Observations /\ Latest \in Observations
          /\ item[Retained] # Nothing /\ item[Latest] # Nothing
      BY <2>1, <3>1 DEF RowsTypeOK, NewestExist
    <3>3. item[Latest] \in ItemRow
      BY <2>1, <3>2 DEF RowsTypeOK
    <3>4. RetainUntil(Latest) \in Nat /\ now \in Nat
      BY <2>1, <3>3 DEF RetainUntil, ItemRow, Times, RowsTypeOK
    <3> QED
      BY <3>1, <3>2, <3>4
  <2>6. item[Latest].outcome \in Successes
    BY <2>2, <2>5 DEF Freshness, StoredFreshness
  <2>7. ASSUME now <= RetainUntil(Latest) PROVE Latest = Retained
    <3>1. Latest \in Standing
      BY <2>5, <2>6, <2>7 DEF Standing
    <3>2. CASE Latest # Retained
      <4>1. Newer(Retained, Latest) /\ Newer(Latest, Retained)
        BY <2>3, <2>4, <2>5, <3>1, <3>2 DEF IsNewestOf
      <4> QED
        BY <2>1, <2>5, <4>1, NewerIsOrder
    <3> QED
      BY <3>2
  <2>8. Latest # Retained
    BY <2>2, <2>6 DEF Freshness, StoredFreshness
  <2> QED
    BY <2>2, <2>5, <2>6, <2>7, <2>8 DEF StoredFreshness
<1> QED
  BY <1>1, ProjectionInvariant, PTL

\* While the view retains what it has shown last, it does not go back, in
\* whatever order and however late observations are reported: what it shows is
\* the newest of what it retains, and what it has shown is part of that.
THEOREM ViewNeverGoesBack == ProjectionSpec => NeverShownOlder
<1>1. ProjectionIInv /\ ProjectionIInv' /\ [ProjectionNext]_projectionVars =>
        [shown # Nothing =>
           \/ shown' = shown
           \/ Newer(shown', shown)
           \/ now' > RetainUntil(shown)]_projectionVars
  <2> SUFFICES ASSUME ProjectionIInv, ProjectionIInv', ProjectionNext,
                      shown # Nothing, shown' # shown,
                      ~(now' > RetainUntil(shown))
               PROVE  Newer(shown', shown)
    OBVIOUS
  <2>1. OneMoreAtMost /\ Show /\ RowsTypeOK'
    BY StepRecords
  <2>2. NewestExist' /\ Kept \subseteq Kept'
    BY <2>1, NewestExistStep
  <2>3. shown \in Kept'
    BY <2>2 DEF ProjectionIInv, ShownIsKept
  <2>4. Retained' # Nothing /\ shown' = Retained'
    BY <2>1 DEF Show
  <2>5. IsNewestOf(Retained, Standing)'
    <3>1. (RowsTypeOK /\ NewestExist /\ Retained # Nothing
             => IsNewestOf(Retained, Standing))'
      BY RetainedIsNewest, PTL
    <3> QED
      BY <2>1, <2>2, <2>4, <3>1
  <2>6. /\ shown \in recorded' /\ shown' \in recorded'
        /\ item'[shown'] = item[shown'] /\ item'[shown] = item[shown]
        /\ item[shown] # Nothing /\ mapping' # "ignored"
    BY <2>1, <2>3, <2>4, <2>5 DEF IsNewestOf, Kept, Standing, OneMoreAtMost
  <2>7. now' <= item[shown].retain
    <3>1. item'[shown] \in ItemRow
      BY <2>1, <2>6 DEF RowsTypeOK
    <3>2. item[shown].retain \in Nat /\ now' \in Nat
      BY <2>1, <2>6, <3>1 DEF ItemRow, Times, RowsTypeOK
    <3> QED
      BY <3>2 DEF RetainUntil
  <2>8. shown \in Standing'
    BY <2>3, <2>6, <2>7 DEF Standing, Kept, RetainUntil
  <2>9. \/ item'[shown'].at > item'[shown].at
        \/ item'[shown'].at = item'[shown].at /\ shown' > shown
    BY <2>4, <2>5, <2>8 DEF IsNewestOf, Newer
  <2> QED
    BY <2>6, <2>9 DEF Newer
<1> QED
  BY <1>1, ProjectionInvariant, PTL DEF ProjectionSpec, NeverShownOlder

-----------------------------------------------------------------------------
(* The five parts side by side *)

\* A behaviour of the platform is a behaviour of each of its parts.
THEOREM PlatformIsItsParts ==
  PlatformSpec =>
    InvitationSpec /\ SessionSpec /\ NccSpec /\ FormSpec /\ ProjectionSpec
<1>1. PlatformInit =>
        InvitationInit /\ SessionInit /\ NccInit /\ FormInit /\ ProjectionInit
  BY DEF PlatformInit
<1>2. [PlatformNext]_platformVars =>
        /\ [InvitationNext]_invitationVars
        /\ [SessionNext]_sessionVars
        /\ [NccNext]_nccVars
        /\ [FormNext]_formVars
        /\ [ProjectionNext]_projectionVars
  BY DEF PlatformNext, platformVars
<1> QED
  BY <1>1, <1>2, PTL DEF PlatformSpec, InvitationSpec, SessionSpec, NccSpec,
     FormSpec, ProjectionSpec

\* Every variable of the five parts keeps its type.
THEOREM PlatformTypes == PlatformSpec => []PlatformTypeOK
BY PlatformIsItsParts, InvitationTypes, SessionTypes, NccTypes, FormTypes,
   ProjectionTypes, PTL DEF PlatformTypeOK

\* The safety properties of the five parts, for the platform as it is run.
THEOREM PlatformIsSafe ==
  PlatformSpec =>
    /\ []RosterWithinSeats
    /\ []AccountKeepsItsIdentity
    /\ []ActivatedByItsOwner
    /\ []EndedIsFinal
    /\ []TicketDiesWithItsSession
    /\ []RoleFitsTheTokens
    /\ []NoSessionIsLeftBehind
    /\ []OneResponseEach
    /\ []AnsweredIsStored
    /\ []PromotionHasOneRecord
    /\ []FreshnessAgrees
    /\ NeverShownOlder
BY PlatformIsItsParts, SeatsAreEnough, IdentitiesStay, OwnersActivate,
   EndedStaysEnded, CookieRoleFits, NoSessionIsLost, OneResponsePerPerson,
   AnswersStay, PromotedOnce, FreshnessAlwaysAgrees, TicketsDieWithSessions,
   ViewNeverGoesBack, PTL
=============================================================================
