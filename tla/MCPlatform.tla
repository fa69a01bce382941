----------------------------- MODULE MCPlatform -----------------------------
(***************************************************************************)
(* Five parts of the platform side by side for one run: inviting a user,   *)
(* sessions and launches, the NCC session, form responses, and the view of *)
(* Moodle courses.  They share no state in the code, so a behaviour        *)
(* chooses one of them and leaves the others in their initial states;      *)
(* every part is checked in full.  Their sets share model values: a        *)
(* permutation of the values permutes the sets of every part.              *)
(***************************************************************************)
EXTENDS UserInvitation, SessionLaunch, NccSession, FormResponses,
        MoodleProjection, TLC

VARIABLE part

platformVars ==
  <<part, invitationVars, sessionVars, nccVars, formVars,
    projectionVars>>

PlatformInit ==
  /\ part \in {"invitation", "session", "ncc", "form", "projection"}
  /\ InvitationInit
  /\ SessionInit
  /\ NccInit
  /\ FormInit
  /\ ProjectionInit

PlatformNext ==
  \/ /\ part = "invitation"
     /\ InvitationNext
     /\ UNCHANGED <<part, sessionVars, nccVars, formVars, projectionVars>>
  \/ /\ part = "session"
     /\ SessionNext
     /\ UNCHANGED <<part, invitationVars, nccVars, formVars, projectionVars>>
  \/ /\ part = "ncc"
     /\ NccNext
     /\ UNCHANGED <<part, invitationVars, sessionVars, formVars,
                    projectionVars>>
  \/ /\ part = "form"
     /\ FormNext
     /\ UNCHANGED <<part, invitationVars, sessionVars, nccVars,
                    projectionVars>>
  \/ /\ part = "projection"
     /\ ProjectionNext
     /\ UNCHANGED <<part, invitationVars, sessionVars, nccVars, formVars>>

PlatformSpec == PlatformInit /\ [][PlatformNext]_platformVars

\* The types of all five parts.
PlatformTypeOK ==
  /\ InvitationTypeOK
  /\ SessionTypeOK
  /\ NccTypeOK
  /\ FormTypeOK
  /\ ProjectionTypeOK

Symmetry ==
  Permutations(Invites) \cup Permutations(Emails) \cup Permutations(Acceptances)
=============================================================================
