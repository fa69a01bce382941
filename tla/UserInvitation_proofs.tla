----------------------- MODULE UserInvitation_proofs -----------------------
(***************************************************************************)
(* Proofs about UserInvitation: its types, that an account keeps its       *)
(* identity, that only its owner activates it, and that a class group has  *)
(* no more students than seats.                                            *)
(***************************************************************************)
EXTENDS UserInvitation, FiniteSetTheorems, TLAPS

USE InvitationAssumption

\* A request is made once, and nothing is done before it.
RequestComesFirst ==
  \A i \in Invites :
    /\ caller[i] = "idle" => request[i] = Nobody
    /\ transaction[i] # "none" => request[i] # Nobody
    /\ invitation[i] # "none" => transaction[i] = "committed"

\* The rows of an account and of its invitation belong together.
RowsBelongTogether ==
  /\ \A i \in Invites :
       invitation[i] # "none" =>
         /\ account[request[i].email] # Nobody
         /\ account[request[i].email].invitation = i
         /\ account[request[i].email].identity = request[i].identity
  /\ \A e \in Emails :
       account[e] # Nobody =>
         /\ invitation[account[e].invitation] # "none"
         /\ request[account[e].invitation].email = e

\* Who has come so far has verified an address and set a password.
StagesWereReached ==
  \A a \in Acceptances :
    /\ acceptance[a].stage \in {"verified", "secured"} =>
         /\ acceptance[a].identity \in confirmed
         /\ acceptance[a].invitation \in Invites
    /\ acceptance[a].stage = "secured" => acceptance[a].identity \in secured

\* One transaction at a time holds the class group, and its count is right.
ClassIsHeldOnce ==
  \A i \in Invites :
    HoldsClass(i) =>
      /\ counted[i] = Cardinality(Enrolled)
      /\ \A j \in Invites : HoldsClass(j) => j = i

InvitationIInv ==
  /\ InvitationTypeOK
  /\ RequestComesFirst
  /\ RowsBelongTogether
  /\ StagesWereReached
  /\ ClassIsHeldOnce
  /\ AccountKeepsItsIdentity
  /\ ActivatedByItsOwner
  /\ RosterWithinSeats

-----------------------------------------------------------------------------
(* Initial states *)

LEMMA InvitationInitIInv == InvitationInit => InvitationIInv
<1> SUFFICES ASSUME InvitationInit PROVE InvitationIInv
  OBVIOUS
<1>1. InvitationTypeOK
  BY DEF InvitationInit, InvitationTypeOK, IdleAcceptance, AcceptanceRow
<1>2. RequestComesFirst /\ RowsBelongTogether /\ StagesWereReached
      /\ AccountKeepsItsIdentity /\ ActivatedByItsOwner
  BY DEF InvitationInit, RequestComesFirst, RowsBelongTogether,
     StagesWereReached, AccountKeepsItsIdentity, ActivatedByItsOwner,
     IdleAcceptance
<1>3. ClassIsHeldOnce
  BY DEF InvitationInit, ClassIsHeldOnce, HoldsClass
<1>4. Enrolled = {}
  BY DEF InvitationInit, Enrolled
<1>5. RosterWithinSeats
  BY <1>4, FS_EmptySet DEF RosterWithinSeats
<1> QED
  BY <1>1, <1>2, <1>3, <1>5 DEF InvitationIInv

-----------------------------------------------------------------------------
(* Types *)

LEMMA NewAccountIsRow ==
  ASSUME InvitationTypeOK, NEW i \in Invites, request[i] # Nobody
  PROVE  /\ NewAccount(i) \in AccountRow
         /\ NewAccount(i) # Nobody
<1>1. request[i] \in RequestRow
  BY DEF InvitationTypeOK
<1>2. NewAccount(i) \in AccountRow
  BY <1>1 DEF NewAccount, AccountRow, RequestRow, Kinds
<1> QED
  BY <1>2

\* Activation changes what it should and nothing else.
LEMMA ActivatedIsRow ==
  ASSUME NEW row \in AccountRow
  PROVE  /\ Activated(row) \in AccountRow
         /\ Activated(row) # Nobody
         /\ Activated(row).identity = row.identity
         /\ Activated(row).invitation = row.invitation
         /\ Activated(row).status = "active"
         /\ Activated(row).grant = "active"
         /\ (Activated(row).enrolment = "none") = (row.enrolment = "none")
         /\ Activated(row).enrolment # "pending"
<1>1. /\ Activated(row) \in AccountRow
      /\ Activated(row).identity = row.identity
      /\ Activated(row).invitation = row.invitation
      /\ Activated(row).status = "active"
      /\ Activated(row).grant = "active"
      /\ (Activated(row).enrolment = "none") = (row.enrolment = "none")
      /\ Activated(row).enrolment # "pending"
  BY DEF Activated, AccountRow
<1> QED
  BY <1>1

LEMMA IdentityGivenIsInvite ==
  ASSUME InvitationTypeOK, NEW i \in Invites, NEW e \in Emails
  PROVE  IdentityGiven(i, e) \in Invites
BY DEF InvitationTypeOK, IdentityGiven

LEMMA InvitationTypesStep ==
  ASSUME InvitationTypeOK, RequestComesFirst, RowsBelongTogether,
         StagesWereReached, [InvitationNext]_invitationVars
  PROVE  InvitationTypeOK'
<1>1. ASSUME NEW i \in Invites, NEW e \in Emails, NEW k \in Kinds,
             GenerateIdentity(i, e, k)
      PROVE  InvitationTypeOK'
  BY <1>1, IdentityGivenIsInvite DEF GenerateIdentity, InvitationTypeOK, RequestRow
<1>2. ASSUME NEW i \in Invites, NEW e \in Emails, GenerateFails(i, e)
      PROVE  InvitationTypeOK'
  BY <1>2, IdentityGivenIsInvite DEF GenerateFails, InvitationTypeOK
<1>3. ASSUME NEW i \in Invites, OpenTransaction(i)
      PROVE  InvitationTypeOK'
  <2>1. IsFiniteSet(Enrolled)
    BY FS_Subset DEF Enrolled
  <2>2. Cardinality(Enrolled) \in Nat
    BY <2>1, FS_CardinalityType
  <2> QED
    BY <1>3, <2>2 DEF OpenTransaction, InvitationTypeOK
<1>4. ASSUME NEW i \in Invites, CommitInvitation(i)
      PROVE  InvitationTypeOK'
  <2>1. request[i] # Nobody
    BY <1>4 DEF CommitInvitation, RequestComesFirst
  <2> QED
    BY <1>4, <2>1, NewAccountIsRow DEF CommitInvitation, InvitationTypeOK
<1>5. ASSUME NEW i \in Invites,
             \/ RaiseInCreate(i) \/ AnswerInvite(i) \/ HearError(i)
             \/ Compensate(i) \/ ExpireInvitation(i)
      PROVE  InvitationTypeOK'
  BY <1>5 DEF RaiseInCreate, AnswerInvite, HearError, Compensate,
     ExpireInvitation, InvitationTypeOK
<1>6. ASSUME NEW a \in Acceptances, NEW e \in Emails, NEW i \in Invites,
             VerifyCode(a, e, i)
      PROVE  InvitationTypeOK'
  <2>1. identity[e] \in Invites
    BY <1>6 DEF VerifyCode, Mailed, RequestComesFirst, InvitationTypeOK, RequestRow
  <2> QED
    BY <1>6, <2>1 DEF VerifyCode, InvitationTypeOK, AcceptanceRow
<1>7. ASSUME NEW a \in Acceptances, SetPassword(a) \/ RefuseAcceptance(a)
      PROVE  InvitationTypeOK'
  BY <1>7 DEF SetPassword, RefuseAcceptance, InvitationTypeOK, AcceptanceRow,
     StagesWereReached
<1>8. ASSUME NEW a \in Acceptances, AcceptInvitation(a)
      PROVE  InvitationTypeOK'
  <2>1. /\ acceptance[a].invitation \in Invites
        /\ acceptance[a] \in AcceptanceRow
    BY <1>8 DEF AcceptInvitation, StagesWereReached, InvitationTypeOK
  <2>2. account[request[acceptance[a].invitation].email] # Nobody
    BY <1>8, <2>1 DEF AcceptInvitation, RowsBelongTogether
  <2>3. request[acceptance[a].invitation].email \in Emails
    BY <1>8, <2>1 DEF AcceptInvitation, RequestComesFirst, InvitationTypeOK, RequestRow
  <2> QED
    BY <1>8, <2>1, <2>2, <2>3, ActivatedIsRow
       DEF AcceptInvitation, InvitationTypeOK, AcceptanceRow
<1>9. CASE UNCHANGED invitationVars
  BY <1>9 DEF invitationVars, InvitationTypeOK
<1> QED
  BY <1>1, <1>2, <1>3, <1>4, <1>5, <1>6, <1>7, <1>8, <1>9 DEF InvitationNext

-----------------------------------------------------------------------------
(* The invariant, action by action *)

\* A step that changes no row and no stage of an acceptance.
LEMMA BookkeepingStep ==
  ASSUME InvitationIInv, InvitationTypeOK',
         UNCHANGED <<confirmed, secured, account, invitation, acceptance>>,
         AccountKeepsItsIdentity', RequestComesFirst', ClassIsHeldOnce',
         \A i \in Invites : invitation[i] # "none" => request'[i] = request[i]
  PROVE  InvitationIInv'
<1> USE DEF InvitationIInv
<1>1. RowsBelongTogether'
  BY DEF RowsBelongTogether, InvitationTypeOK, AccountRow
<1>2. StagesWereReached' /\ ActivatedByItsOwner'
  BY DEF StagesWereReached, ActivatedByItsOwner
<1>3. Enrolled' = Enrolled
  BY DEF Enrolled
<1>4. RosterWithinSeats'
  BY <1>3 DEF RosterWithinSeats
<1> QED
  BY <1>1, <1>2, <1>4

LEMMA GenerateStep ==
  ASSUME InvitationIInv, InvitationTypeOK', NEW i \in Invites, NEW e \in Emails,
         \/ \E k \in Kinds : GenerateIdentity(i, e, k)
         \/ GenerateFails(i, e)
  PROVE  InvitationIInv'
<1> USE DEF InvitationIInv
<1>1. /\ caller[i] = "idle"
      /\ caller' = [caller EXCEPT ![i] = caller'[i]]
      /\ request' = [request EXCEPT ![i] = request'[i]]
      /\ caller'[i] # "idle"
      /\ identity' = [identity EXCEPT ![e] = IdentityGiven(i, e)] \/ identity' = identity
      /\ UNCHANGED <<transaction, counted, confirmed, secured, account,
                     invitation, acceptance>>
  BY DEF GenerateIdentity, GenerateFails, InvitationTypeOK
<1>2. request[i] = Nobody /\ transaction[i] = "none" /\ invitation[i] = "none"
  BY <1>1 DEF RequestComesFirst, InvitationTypeOK
<1>3. AccountKeepsItsIdentity'
  <2>1. \A f \in Emails : account[f] # Nobody => identity[f] \in Invites
    BY DEF AccountKeepsItsIdentity, InvitationTypeOK, AccountRow
  <2> QED
    BY <1>1, <2>1 DEF AccountKeepsItsIdentity, IdentityGiven, InvitationTypeOK
<1>4. RequestComesFirst'
  BY <1>1, <1>2 DEF RequestComesFirst, InvitationTypeOK
<1>5. \A j \in Invites : HoldsClass(j)' <=> HoldsClass(j)
  BY <1>1, <1>2 DEF HoldsClass, InvitationTypeOK
<1>6. Enrolled' = Enrolled
  BY <1>1 DEF Enrolled
<1>7. ClassIsHeldOnce'
  BY <1>1, <1>5, <1>6 DEF ClassIsHeldOnce
<1>8. \A j \in Invites : invitation[j] # "none" => request'[j] = request[j]
  BY <1>1, <1>2 DEF InvitationTypeOK
<1> QED
  BY <1>1, <1>3, <1>4, <1>7, <1>8, BookkeepingStep

LEMMA OpenStep ==
  ASSUME InvitationIInv, InvitationTypeOK', NEW i \in Invites, OpenTransaction(i)
  PROVE  InvitationIInv'
<1> USE DEF InvitationIInv
<1>1. AccountKeepsItsIdentity' /\ RequestComesFirst'
  BY DEF OpenTransaction, AccountKeepsItsIdentity, RequestComesFirst, InvitationTypeOK
<1>2. Enrolled' = Enrolled
  BY DEF OpenTransaction, Enrolled
<1>3. /\ \A j \in Invites \ {i} : HoldsClass(j)' = HoldsClass(j) /\ counted'[j] = counted[j]
      /\ counted'[i] = Cardinality(Enrolled)
      /\ HoldsClass(i)' => \A j \in Invites : ~HoldsClass(j)
  BY DEF OpenTransaction, HoldsClass, ClassIsFree, InvitationTypeOK
<1>4. ClassIsHeldOnce'
  BY <1>2, <1>3 DEF ClassIsHeldOnce
<1> QED
  BY <1>1, <1>4, BookkeepingStep DEF OpenTransaction

LEMMA WaitStep ==
  ASSUME InvitationIInv, InvitationTypeOK', NEW i \in Invites,
         RaiseInCreate(i) \/ AnswerInvite(i) \/ HearError(i) \/ Compensate(i)
  PROVE  InvitationIInv'
<1> USE DEF InvitationIInv
<1>1. UNCHANGED <<request, counted, confirmed, secured, account, invitation,
                  acceptance>>
  BY DEF RaiseInCreate, AnswerInvite, HearError, Compensate
<1>2. \A j \in Invites : caller'[j] = "idle" => caller[j] = "idle"
  BY DEF RaiseInCreate, AnswerInvite, HearError, Compensate, InvitationTypeOK
<1>3. \/ UNCHANGED transaction
      \/ /\ transaction' = [transaction EXCEPT ![i] = "raised"]
         /\ request[i] # Nobody
         /\ transaction[i] # "committed"
  BY DEF RaiseInCreate, AnswerInvite, HearError, Compensate
<1>4. \A j \in Invites :
        \/ transaction'[j] = transaction[j]
        \/ /\ transaction[j] # "committed"
           /\ transaction'[j] = "raised"
           /\ request[j] # Nobody
  BY <1>3 DEF InvitationTypeOK
<1>5. AccountKeepsItsIdentity'
  <2>1. CASE UNCHANGED identity
    BY <1>1, <2>1 DEF AccountKeepsItsIdentity
  <2>2. CASE /\ Compensate(i)
             /\ identity[request[i].email] = request[i].identity
             /\ RemovalAllowed(i)
             /\ identity' = [identity EXCEPT ![request[i].email] = Nobody]
    BY <1>1, <2>2 DEF AccountKeepsItsIdentity, RemovalAllowed, InvitationTypeOK
  <2> QED
    BY <2>1, <2>2 DEF RaiseInCreate, AnswerInvite, HearError, Compensate
<1>6. RequestComesFirst'
  BY <1>1, <1>2, <1>4 DEF RequestComesFirst
<1>7. \A j \in Invites : HoldsClass(j)' => HoldsClass(j)
  BY <1>1, <1>4 DEF HoldsClass
<1>8. Enrolled' = Enrolled
  BY <1>1 DEF Enrolled
<1>9. ClassIsHeldOnce'
  BY <1>1, <1>7, <1>8 DEF ClassIsHeldOnce
<1> QED
  BY <1>1, <1>5, <1>6, <1>9, BookkeepingStep

LEMMA CommitStep ==
  ASSUME InvitationIInv, InvitationTypeOK', NEW i \in Invites, CommitInvitation(i)
  PROVE  InvitationIInv'
<1> DEFINE email == request[i].email
<1> DEFINE row == NewAccount(i)
<1> USE DEF InvitationIInv
<1>1. /\ request[i] # Nobody
      /\ invitation[i] = "none"
      /\ transaction[i] = "open"
      /\ email \in Emails
      /\ account[email] = Nobody
      /\ identity[email] = request[i].identity
  BY DEF CommitInvitation, IdentityUsable, RequestComesFirst, InvitationTypeOK,
     RequestRow
<1>2. /\ row \in AccountRow
      /\ row # Nobody
  BY <1>1, NewAccountIsRow
<1>3. /\ row.identity = request[i].identity
      /\ row.invitation = i
      /\ row.status = "invited" /\ row.grant = "pending"
      /\ row.enrolment \in {"none", "pending"}
      /\ row.enrolment = "pending" <=> request[i].kind = "student"
  BY DEF NewAccount
<1>4. /\ account' = [account EXCEPT ![email] = row]
      /\ invitation' = [invitation EXCEPT ![i] = "queued"]
      /\ transaction' = [transaction EXCEPT ![i] = "committed"]
      /\ UNCHANGED <<request, caller, counted, identity, confirmed, secured,
                     overdue, acceptance>>
  BY DEF CommitInvitation
<1> HIDE DEF row
<1>5. RequestComesFirst'
  BY <1>1, <1>4 DEF RequestComesFirst, InvitationTypeOK
<1>6. \A j \in Invites : invitation[j] # "none" => request[j].email # email
  BY <1>1 DEF RowsBelongTogether
<1>7. RowsBelongTogether'
  <2>1. \A j \in Invites : invitation[j] # "none" => request[j].email \in Emails
    BY DEF RequestComesFirst, InvitationTypeOK, RequestRow
  <2>2. \A e \in Emails : account[e] # Nobody => account[e].invitation \in Invites
    BY DEF InvitationTypeOK, AccountRow
  <2> QED
    BY <1>1, <1>2, <1>3, <1>4, <1>6, <2>1, <2>2 DEF RowsBelongTogether, InvitationTypeOK
<1>8. StagesWereReached'
  BY <1>4 DEF StagesWereReached
<1>9. AccountKeepsItsIdentity'
  BY <1>1, <1>3, <1>4 DEF AccountKeepsItsIdentity, InvitationTypeOK
<1>10. ActivatedByItsOwner'
  <2>1. ASSUME NEW e \in Emails, e # email, account[e] # Nobody
        PROVE  account'[e] = account[e] /\ account[e].invitation # i
               /\ account[e].invitation \in Invites
    BY <1>1, <1>4, <2>1 DEF RowsBelongTogether, InvitationTypeOK, AccountRow
  <2>2. account'[email] = row /\ invitation'[i] = "queued"
    BY <1>1, <1>4 DEF InvitationTypeOK
  <2>3. \A e \in Emails : e # email => account'[e] = account[e]
    BY <1>4
  <2> QED
    BY <1>3, <1>4, <2>1, <2>2, <2>3 DEF ActivatedByItsOwner, InvitationTypeOK
<1>11. Enrolled' = IF request[i].kind = "student" THEN Enrolled \cup {email} ELSE Enrolled
  BY <1>1, <1>2, <1>3, <1>4 DEF Enrolled, InvitationTypeOK
<1>12. IsFiniteSet(Enrolled) /\ Cardinality(Enrolled) \in Nat
  BY FS_Subset, FS_CardinalityType DEF Enrolled
<1>13. ClassIsHeldOnce'
  <2>1. ASSUME NEW j \in Invites, HoldsClass(j)'
        PROVE  j # i /\ HoldsClass(j)
    BY <1>1, <1>4, <2>1 DEF HoldsClass, InvitationTypeOK
  <2>2. request[i].kind = "student" => HoldsClass(i)
    BY <1>1 DEF HoldsClass
  <2>3. ASSUME NEW j \in Invites, HoldsClass(j)'
        PROVE  Enrolled' = Enrolled
    BY <1>11, <2>1, <2>2, <2>3 DEF ClassIsHeldOnce
  <2> QED
    BY <1>4, <2>1, <2>3 DEF ClassIsHeldOnce
<1>14. RosterWithinSeats'
  <2>1. CASE request[i].kind = "student"
    <3>1. HoldsClass(i)
      BY <1>1, <2>1 DEF HoldsClass
    <3>2. Cardinality(Enrolled) < Seats
      BY <2>1, <3>1 DEF CommitInvitation, SeatLeft, ClassIsHeldOnce
    <3>3. email \notin Enrolled
      BY <1>1 DEF Enrolled
    <3>4. Cardinality(Enrolled \cup {email}) = Cardinality(Enrolled) + 1
      BY <1>12, <3>3, FS_AddElement
    <3> QED
      BY <1>11, <1>12, <2>1, <3>2, <3>4 DEF RosterWithinSeats
  <2>2. CASE request[i].kind # "student"
    BY <1>11, <2>2 DEF RosterWithinSeats
  <2> QED
    BY <2>1, <2>2
<1> QED
  BY <1>5, <1>7, <1>8, <1>9, <1>10, <1>13, <1>14

LEMMA AcceptanceStep ==
  ASSUME InvitationIInv, InvitationTypeOK', NEW a \in Acceptances,
         \/ \E e \in Emails, i \in Invites : VerifyCode(a, e, i)
         \/ SetPassword(a)
         \/ RefuseAcceptance(a)
  PROVE  InvitationIInv'
<1> USE DEF InvitationIInv
<1>1. /\ UNCHANGED <<request, caller, transaction, counted, identity, account,
                     invitation>>
      /\ confirmed \subseteq confirmed'
      /\ secured \subseteq secured'
  BY DEF VerifyCode, SetPassword, RefuseAcceptance
<1>2. StagesWereReached'
  <2>1. ASSUME NEW e \in Emails, NEW i \in Invites, VerifyCode(a, e, i)
        PROVE  StagesWereReached'
    BY <2>1 DEF VerifyCode, StagesWereReached, InvitationTypeOK
  <2>2. CASE SetPassword(a)
    <3>1. /\ acceptance'[a].stage = "secured"
          /\ acceptance'[a].identity = acceptance[a].identity
          /\ acceptance'[a].invitation = acceptance[a].invitation
      BY <2>2 DEF SetPassword, InvitationTypeOK, AcceptanceRow
    <3> QED
      BY <2>2, <3>1 DEF SetPassword, StagesWereReached, InvitationTypeOK
  <2>3. CASE RefuseAcceptance(a)
    <3>1. acceptance'[a].stage = "refused"
      BY <2>3 DEF RefuseAcceptance, InvitationTypeOK, AcceptanceRow
    <3> QED
      BY <2>3, <3>1 DEF RefuseAcceptance, StagesWereReached, InvitationTypeOK
  <2> QED
    BY <2>1, <2>2, <2>3
<1>3. RequestComesFirst' /\ RowsBelongTogether' /\ AccountKeepsItsIdentity'
  BY <1>1 DEF RequestComesFirst, RowsBelongTogether, AccountKeepsItsIdentity
<1>4. ActivatedByItsOwner'
  BY <1>1 DEF ActivatedByItsOwner
<1>5. Enrolled' = Enrolled /\ \A j \in Invites : HoldsClass(j)' = HoldsClass(j)
  BY <1>1 DEF Enrolled, HoldsClass
<1>6. ClassIsHeldOnce' /\ RosterWithinSeats'
  BY <1>1, <1>5 DEF ClassIsHeldOnce, RosterWithinSeats
<1> QED
  BY <1>2, <1>3, <1>4, <1>6

LEMMA AcceptStep ==
  ASSUME InvitationIInv, InvitationTypeOK', NEW a \in Acceptances,
         AcceptInvitation(a)
  PROVE  InvitationIInv'
<1> DEFINE i == acceptance[a].invitation
<1> DEFINE email == request[i].email
<1> DEFINE row == Activated(account[email])
<1> USE DEF InvitationIInv
<1>1. /\ acceptance[a].stage = "secured"
      /\ i \in Invites
      /\ acceptance[a].identity \in confirmed \cap secured
      /\ invitation[i] = "queued"
      /\ request[i].identity = acceptance[a].identity
  BY DEF AcceptInvitation, OwnsInvitation, StagesWereReached
<1>2. /\ email \in Emails
      /\ account[email] # Nobody
      /\ account[email] \in AccountRow
      /\ account[email].identity = request[i].identity
      /\ account[email].invitation = i
  BY <1>1 DEF RowsBelongTogether, RequestComesFirst, InvitationTypeOK, RequestRow
<1>3. /\ account' = [account EXCEPT ![email] = row]
      /\ invitation' = [invitation EXCEPT ![i] = "accepted"]
      /\ acceptance' = [acceptance EXCEPT ![a].stage = "accepted"]
      /\ UNCHANGED <<request, caller, transaction, counted, identity,
                     confirmed, secured, overdue>>
  BY DEF AcceptInvitation
<1>4. /\ row # Nobody
      /\ row.identity = account[email].identity
      /\ row.invitation = i
      /\ row.status = "active"
      /\ row.grant = "active"
      /\ (row.enrolment = "none") = (account[email].enrolment = "none")
      /\ row.enrolment # "pending"
      /\ row.enrolment \in {"none", "active"}
  <2>1. row \in AccountRow
    BY <1>2, ActivatedIsRow
  <2>2. row.enrolment \in {"none", "pending", "active"}
    BY <2>1 DEF AccountRow
  <2> QED
    BY <1>2, <2>2, ActivatedIsRow
<1> HIDE DEF i, email, row
<1>5. \A e \in Emails \ {email} : account'[e] = account[e]
  BY <1>3 DEF InvitationTypeOK
<1>6. account'[email] = row
  BY <1>2, <1>3 DEF InvitationTypeOK
<1>7. /\ \A j \in Invites \ {i} : invitation'[j] = invitation[j]
      /\ invitation'[i] = "accepted"
  BY <1>1, <1>3 DEF InvitationTypeOK
<1>8. RequestComesFirst'
  BY <1>1, <1>3, <1>7 DEF RequestComesFirst
<1>9. RowsBelongTogether'
  BY <1>1, <1>2, <1>3, <1>4, <1>5, <1>6, <1>7 DEF RowsBelongTogether
<1>10. StagesWereReached'
  BY <1>3 DEF StagesWereReached, InvitationTypeOK
<1>11. AccountKeepsItsIdentity'
  BY <1>2, <1>3, <1>4, <1>5, <1>6 DEF AccountKeepsItsIdentity
<1>12. ActivatedByItsOwner'
  <2>1. ASSUME NEW e \in Emails, e # email, account[e] # Nobody
        PROVE  account[e].invitation \in Invites \ {i}
    BY <1>1, <2>1 DEF RowsBelongTogether, InvitationTypeOK, AccountRow, email
  <2> QED
    BY <1>1, <1>2, <1>3, <1>4, <1>5, <1>6, <1>7, <2>1 DEF ActivatedByItsOwner
<1>13. Enrolled' = Enrolled
  BY <1>2, <1>4, <1>5, <1>6 DEF Enrolled
<1>14. \A j \in Invites : HoldsClass(j)' = HoldsClass(j)
  BY <1>3 DEF HoldsClass
<1>15. ClassIsHeldOnce' /\ RosterWithinSeats'
  BY <1>3, <1>13, <1>14 DEF ClassIsHeldOnce, RosterWithinSeats
<1> QED
  BY <1>8, <1>9, <1>10, <1>11, <1>12, <1>15

LEMMA ExpireStep ==
  ASSUME InvitationIInv, InvitationTypeOK', NEW i \in Invites,
         ExpireInvitation(i)
  PROVE  InvitationIInv'
<1> USE DEF InvitationIInv
<1>1. UNCHANGED <<request, caller, transaction, counted, identity, confirmed,
                  secured, account, invitation, acceptance>>
  BY DEF ExpireInvitation
<1>2. AccountKeepsItsIdentity' /\ RequestComesFirst'
  BY <1>1 DEF AccountKeepsItsIdentity, RequestComesFirst
<1>3. Enrolled' = Enrolled /\ \A j \in Invites : HoldsClass(j)' = HoldsClass(j)
  BY <1>1 DEF Enrolled, HoldsClass
<1>4. ClassIsHeldOnce'
  BY <1>1, <1>3 DEF ClassIsHeldOnce
<1> QED
  BY <1>1, <1>2, <1>4, BookkeepingStep

-----------------------------------------------------------------------------
(* Theorems *)

\* The inductive invariant of UserInvitation holds in every state.
THEOREM InvitationIInvHolds == InvitationSpec => []InvitationIInv
<1>1. InvitationInit => InvitationIInv
  BY InvitationInitIInv
<1>2. InvitationIInv /\ [InvitationNext]_invitationVars => InvitationIInv'
  <2> SUFFICES ASSUME InvitationIInv, [InvitationNext]_invitationVars
               PROVE  InvitationIInv'
    OBVIOUS
  <2>1. InvitationTypeOK'
    BY InvitationTypesStep DEF InvitationIInv
  <2>2. ASSUME NEW i \in Invites, NEW e \in Emails, NEW k \in Kinds,
               GenerateIdentity(i, e, k)
        PROVE  InvitationIInv'
    BY <2>1, <2>2, GenerateStep
  <2>3. ASSUME NEW i \in Invites, NEW e \in Emails, GenerateFails(i, e)
        PROVE  InvitationIInv'
    BY <2>1, <2>3, GenerateStep
  <2>4. ASSUME NEW i \in Invites,
               OpenTransaction(i) \/ CommitInvitation(i) \/ ExpireInvitation(i)
        PROVE  InvitationIInv'
    BY <2>1, <2>4, OpenStep, CommitStep, ExpireStep
  <2>5. ASSUME NEW i \in Invites,
               RaiseInCreate(i) \/ AnswerInvite(i) \/ HearError(i) \/ Compensate(i)
        PROVE  InvitationIInv'
    BY <2>1, <2>5, WaitStep
  <2>6. ASSUME NEW a \in Acceptances,
               \/ \E e \in Emails, i \in Invites : VerifyCode(a, e, i)
               \/ SetPassword(a)
               \/ RefuseAcceptance(a)
        PROVE  InvitationIInv'
    BY <2>1, <2>6, AcceptanceStep
  <2>7. ASSUME NEW a \in Acceptances, AcceptInvitation(a)
        PROVE  InvitationIInv'
    BY <2>1, <2>7, AcceptStep
  <2>8. CASE UNCHANGED invitationVars
    <3>1. AccountKeepsItsIdentity' /\ RequestComesFirst'
      BY <2>8 DEF invitationVars, InvitationIInv, AccountKeepsItsIdentity,
         RequestComesFirst
    <3>2. Enrolled' = Enrolled /\ \A j \in Invites : HoldsClass(j)' = HoldsClass(j)
      BY <2>8 DEF invitationVars, Enrolled, HoldsClass
    <3>3. ClassIsHeldOnce'
      BY <2>8, <3>2 DEF invitationVars, InvitationIInv, ClassIsHeldOnce
    <3> QED
      BY <2>1, <2>8, <3>1, <3>3, BookkeepingStep DEF invitationVars
  <2> QED
    BY <2>2, <2>3, <2>4, <2>5, <2>6, <2>7, <2>8 DEF InvitationNext
<1> QED
  BY <1>1, <1>2, PTL DEF InvitationSpec

\* Requests, rows and stages keep their types.
THEOREM InvitationTypes == InvitationSpec => []InvitationTypeOK
BY InvitationIInvHolds, PTL DEF InvitationIInv

\* A class group never has more students than seats, whatever number of
\* enrolments is under way.
THEOREM SeatsAreEnough == InvitationSpec => []RosterWithinSeats
BY InvitationIInvHolds, PTL DEF InvitationIInv

\* No compensation removes the identity of an account.
THEOREM IdentitiesStay == InvitationSpec => []AccountKeepsItsIdentity
BY InvitationIInvHolds, PTL DEF InvitationIInv

\* Nobody but its owner activates an account.
THEOREM OwnersActivate == InvitationSpec => []ActivatedByItsOwner
BY InvitationIInvHolds, PTL DEF InvitationIInv
=============================================================================
