--------------------------- MODULE UserInvitation ---------------------------
(***************************************************************************)
(* Inviting a user: UserInvitationService with its two stores, the         *)
(* identities of Supabase Auth and the rows that the functions of 017 and  *)
(* 024 write.  An invitation is made in three calls that no transaction    *)
(* spans: generate an identity, create the rows, and, on any error, remove *)
(* the identity again.  It is accepted in three more: verify the code of   *)
(* the mail, set the password, accept.                                     *)
(*                                                                         *)
(* The database goes on with a call whose caller has given up (the fetch   *)
(* of supabase.ts is aborted by a timer), so caller and transaction are    *)
(* two states of one request.  A retry of the same form is another         *)
(* request: its request hash contains a new expiry, so the stored command  *)
(* never matches it.  An identity is named by the request that first       *)
(* generated it, as is an invitation by the request that creates it.       *)
(***************************************************************************)
EXTENDS Naturals, FiniteSets

CONSTANTS
  Invites,     \* requests to invite somebody
  Emails,      \* addresses that are invited
  Acceptances, \* requests to accept an invitation
  Seats,       \* capacity of the class group students are enrolled in
  Nobody       \* no identity, no account, no request

VARIABLES
  request,     \* what an invite asks for and the identity it was given
  caller,      \* how far the service has come with an invite
  transaction, \* how far the database has come with it
  counted,     \* the roster it counted under the lock of the class group
  identity,    \* auth.users: the identity of an address
  confirmed,   \* identities whose owner has entered the code of a mail
  secured,     \* identities that have a password
  account,     \* app_users with its role grant and enrolment
  invitation,  \* status of user_invitations
  overdue,     \* invitations past their expires_at
  acceptance   \* how far a request to accept has come

invitationVars ==
  <<request, caller, transaction, counted, identity, confirmed, secured,
    account, invitation, overdue, acceptance>>

Kinds == {"staff", "student"}
RequestRow == [email : Emails, kind : Kinds, identity : Invites]
AccountRow ==
  [identity : Invites, invitation : Invites, kind : Kinds,
   status : {"invited", "active"}, grant : {"pending", "active"},
   enrolment : {"none", "pending", "active"}]
ASSUME InvitationAssumption ==
  /\ Seats \in Nat
  /\ IsFiniteSet(Emails)
  /\ Nobody \notin Invites \cup Emails \cup RequestRow \cup AccountRow

AcceptanceRow ==
  [stage : {"idle", "verified", "secured", "accepted", "refused"},
   identity : Invites \cup {Nobody}, invitation : Invites \cup {Nobody}]
IdleAcceptance ==
  [stage |-> "idle", identity |-> Nobody, invitation |-> Nobody]

InvitationTypeOK ==
  /\ request \in [Invites -> RequestRow \cup {Nobody}]
  /\ caller \in [Invites ->
       {"idle", "waiting", "compensating", "answered", "failed"}]
  /\ transaction \in [Invites -> {"none", "open", "committed", "raised"}]
  /\ counted \in [Invites -> Nat]
  /\ identity \in [Emails -> Invites \cup {Nobody}]
  /\ confirmed \in SUBSET Invites
  /\ secured \in SUBSET Invites
  /\ account \in [Emails -> AccountRow \cup {Nobody}]
  /\ invitation \in [Invites -> {"none", "queued", "accepted"}]
  /\ overdue \in SUBSET Invites
  /\ acceptance \in [Acceptances -> AcceptanceRow]

InvitationInit ==
  /\ request = [i \in Invites |-> Nobody]
  /\ caller = [i \in Invites |-> "idle"]
  /\ transaction = [i \in Invites |-> "none"]
  /\ counted = [i \in Invites |-> 0]
  /\ identity = [e \in Emails |-> Nobody]
  /\ confirmed = {}
  /\ secured = {}
  /\ account = [e \in Emails |-> Nobody]
  /\ invitation = [i \in Invites |-> "none"]
  /\ overdue = {}
  /\ acceptance = [a \in Acceptances |-> IdleAcceptance]

-----------------------------------------------------------------------------
(* Creating an invitation *)

\* Supabase makes an identity for an unknown address and gives out the
\* existing one while it is unconfirmed.
IdentityGiven(i, e) == IF identity[e] = Nobody THEN i ELSE identity[e]

GenerateIdentity(i, e, k) ==
  /\ caller[i] = "idle"
  /\ identity[e] \notin confirmed
  /\ identity' = [identity EXCEPT ![e] = IdentityGiven(i, e)]
  /\ request' = [request EXCEPT
       ![i] = [email |-> e, kind |-> k, identity |-> IdentityGiven(i, e)]]
  /\ caller' = [caller EXCEPT ![i] = "waiting"]
  /\ UNCHANGED <<transaction, counted, confirmed, secured, account,
                 invitation, overdue, acceptance>>

\* The address is refused, or the answer is lost: the error is raised before
\* the try block, so an identity that was made stays.
GenerateFails(i, e) ==
  /\ caller[i] = "idle"
  /\ \/ UNCHANGED identity
     \/ identity' = [identity EXCEPT ![e] = IdentityGiven(i, e)]
  /\ caller' = [caller EXCEPT ![i] = "failed"]
  /\ UNCHANGED <<request, transaction, counted, confirmed, secured, account,
                 invitation, overdue, acceptance>>

Enrolled == {e \in Emails : account[e] # Nobody /\ account[e].enrolment # "none"}
HoldsClass(i) == transaction[i] = "open" /\ request[i].kind = "student"

\* Variant with a bug: the class group is read without "for update".
ClassIsAlwaysFree(i) == TRUE
ClassIsFree(i) ==
  request[i].kind = "student" => \A j \in Invites : ~HoldsClass(j)

\* The function starts: the session, the scope and the class are checked and
\* the roster is counted under the lock of the class group.
OpenTransaction(i) ==
  /\ request[i] # Nobody
  /\ transaction[i] = "none"
  /\ ClassIsFree(i)
  /\ transaction' = [transaction EXCEPT ![i] = "open"]
  /\ counted' = [counted EXCEPT ![i] = Cardinality(Enrolled)]
  /\ UNCHANGED <<request, caller, identity, confirmed, secured, account,
                 invitation, overdue, acceptance>>

\* Address and identity are unused, and the identity still exists: the
\* unique indexes and the foreign key of app_users.
IdentityUsable(i) ==
  /\ account[request[i].email] = Nobody
  /\ \A e \in Emails :
       account[e] # Nobody => account[e].identity # request[i].identity
  /\ identity[request[i].email] = request[i].identity

SeatLeft(i) == request[i].kind = "student" => counted[i] < Seats

NewAccount(i) ==
  [identity |-> request[i].identity, invitation |-> i,
   kind |-> request[i].kind, status |-> "invited", grant |-> "pending",
   enrolment |-> IF request[i].kind = "student" THEN "pending" ELSE "none"]

\* All rows are written and the event of the mail is put into the outbox.
CommitInvitation(i) ==
  /\ transaction[i] = "open"
  /\ IdentityUsable(i)
  /\ SeatLeft(i)
  /\ transaction' = [transaction EXCEPT ![i] = "committed"]
  /\ account' = [account EXCEPT ![request[i].email] = NewAccount(i)]
  /\ invitation' = [invitation EXCEPT ![i] = "queued"]
  /\ UNCHANGED <<request, caller, counted, identity, confirmed, secured,
                 overdue, acceptance>>

\* A check fails, the connection is lost, or the call never arrives.
RaiseInCreate(i) ==
  /\ request[i] # Nobody
  /\ transaction[i] \in {"none", "open"}
  /\ transaction' = [transaction EXCEPT ![i] = "raised"]
  /\ UNCHANGED <<request, caller, counted, identity, confirmed, secured,
                 account, invitation, overdue, acceptance>>

AnswerInvite(i) ==
  /\ caller[i] = "waiting"
  /\ transaction[i] = "committed"
  /\ caller' = [caller EXCEPT ![i] = "answered"]
  /\ UNCHANGED <<request, transaction, counted, identity, confirmed, secured,
                 account, invitation, overdue, acceptance>>

\* The service hears an error: the one of the database, or its own timer's
\* while the database is still at work or has committed.
HearError(i) ==
  /\ caller[i] = "waiting"
  /\ caller' = [caller EXCEPT ![i] = "compensating"]
  /\ UNCHANGED <<request, transaction, counted, identity, confirmed, secured,
                 account, invitation, overdue, acceptance>>

\* auth_user_id is a foreign key "on delete restrict".
RemovalAlwaysAllowed(i) == TRUE
RemovalAllowed(i) ==
  \A e \in Emails :
    account[e] # Nobody => account[e].identity # request[i].identity

\* removeGeneratedUser: the identity goes, is already gone, or cannot be
\* removed; the last is swallowed and the first error is thrown again.
Compensate(i) ==
  /\ caller[i] = "compensating"
  /\ caller' = [caller EXCEPT ![i] = "failed"]
  /\ \/ UNCHANGED identity
     \/ /\ identity[request[i].email] = request[i].identity
        /\ RemovalAllowed(i)
        /\ identity' = [identity EXCEPT ![request[i].email] = Nobody]
  /\ UNCHANGED <<request, transaction, counted, confirmed, secured, account,
                 invitation, overdue, acceptance>>

-----------------------------------------------------------------------------
(* Accepting it *)

\* Time passes an invitation's expires_at.
ExpireInvitation(i) ==
  /\ invitation[i] = "queued"
  /\ overdue' = overdue \cup {i}
  /\ UNCHANGED <<request, caller, transaction, counted, identity, confirmed,
                 secured, account, invitation, acceptance>>

Mailed(e) ==
  \E i \in Invites :
    /\ invitation[i] # "none"
    /\ request[i].email = e
    /\ request[i].identity = identity[e]

\* Somebody who received a mail at e proves it and names an invitation,
\* which need not be his.
VerifyCode(a, e, i) ==
  /\ acceptance[a].stage = "idle"
  /\ Mailed(e)
  /\ confirmed' = confirmed \cup {identity[e]}
  /\ acceptance' = [acceptance EXCEPT
       ![a] = [stage |-> "verified", identity |-> identity[e], invitation |-> i]]
  /\ UNCHANGED <<request, caller, transaction, counted, identity, secured,
                 account, invitation, overdue>>

SetPassword(a) ==
  /\ acceptance[a].stage = "verified"
  /\ acceptance' = [acceptance EXCEPT ![a].stage = "secured"]
  /\ secured' = secured \cup {acceptance[a].identity}
  /\ UNCHANGED <<request, caller, transaction, counted, identity, confirmed,
                 account, invitation, overdue>>

\* Variant with a bug: whoever is verified may accept any invitation.
OwnsNothing(a) == TRUE
OwnsInvitation(a) ==
  request[acceptance[a].invitation].identity = acceptance[a].identity

Activated(row) ==
  [row EXCEPT !.status = "active", !.grant = "active",
              !.enrolment = IF @ = "pending" THEN "active" ELSE @]

AcceptInvitation(a) ==
  LET i == acceptance[a].invitation
      e == request[i].email
  IN  /\ acceptance[a].stage = "secured"
      /\ invitation[i] = "queued"
      /\ i \notin overdue
      /\ OwnsInvitation(a)
      /\ account[e].grant = "pending"
      /\ account[e].status = "invited"
      /\ account' = [account EXCEPT ![e] = Activated(@)]
      /\ invitation' = [invitation EXCEPT ![i] = "accepted"]
      /\ acceptance' = [acceptance EXCEPT ![a].stage = "accepted"]
      /\ UNCHANGED <<request, caller, transaction, counted, identity,
                     confirmed, secured, overdue>>

\* Any of the three calls fails; what was done before it stays.
RefuseAcceptance(a) ==
  /\ acceptance[a].stage \in {"verified", "secured"}
  /\ acceptance' = [acceptance EXCEPT ![a].stage = "refused"]
  /\ UNCHANGED <<request, caller, transaction, counted, identity, confirmed,
                 secured, account, invitation, overdue>>

InvitationNext ==
  \/ \E i \in Invites :
       \/ \E e \in Emails, k \in Kinds : GenerateIdentity(i, e, k)
       \/ \E e \in Emails : GenerateFails(i, e)
       \/ OpenTransaction(i)
       \/ CommitInvitation(i)
       \/ RaiseInCreate(i)
       \/ AnswerInvite(i)
       \/ HearError(i)
       \/ Compensate(i)
       \/ ExpireInvitation(i)
  \/ \E a \in Acceptances :
       \/ \E e \in Emails, i \in Invites : VerifyCode(a, e, i)
       \/ SetPassword(a)
       \/ AcceptInvitation(a)
       \/ RefuseAcceptance(a)

InvitationSpec == InvitationInit /\ [][InvitationNext]_invitationVars

-----------------------------------------------------------------------------
(* Safety *)

\* However many students are invited at the same time, no more of them hold
\* a place in the class group than it has seats: the count and the insert
\* are one section under the lock of the class row.
RosterWithinSeats == Cardinality(Enrolled) <= Seats

\* The identity an account refers to exists as long as the account: no
\* compensation, however late, takes it away from an invitation that was
\* committed, by the same request or by another one for the same address.
AccountKeepsItsIdentity ==
  \A e \in Emails : account[e] # Nobody => identity[e] = account[e].identity

\* An account is active only if its own owner verified the address and set
\* the password, and then grant, enrolment and invitation are active too; an
\* account that is not active has none of them active.
ActivatedByItsOwner ==
  \A e \in Emails :
    LET row == account[e]
    IN  row # Nobody =>
          /\ row.status = "active" =>
               row.identity \in confirmed \cap secured
          /\ (row.grant = "active") = (row.status = "active")
          /\ (invitation[row.invitation] = "accepted") = (row.status = "active")
          /\ row.enrolment # "none" =>
               (row.enrolment = "active") = (row.status = "active")
=============================================================================
