----------------------------- MODULE Sessions_proofs -----------------------------
(***************************************************************************)
(* Proofs about the two kinds of session.  SessionLaunch: its types, that  *)
(* an ended session stays ended, and that a launch ticket dies with its    *)
(* session.  NccSession: its types, that the role sealed in a cookie is    *)
(* the role of the tokens sealed with it, and that a browser that makes    *)
(* one request at a time leaves no session behind at the EMS but those it  *)
(* signed in over.                                                         *)
(***************************************************************************)
EXTENDS SessionLaunch, NccSession, TLAPS

-----------------------------------------------------------------------------
(* Sessions and launch tickets *)

Exists(t) == t \in Tokens /\ session[t] # Absent

\* What cookies, jobs and tickets refer to has a row.
CookieHasSession == \A b \in Browsers : cookie[b] # Absent => Exists(cookie[b])
JobHasSession ==
  \A j \in Jobs :
    /\ job[j].stage # "idle" => Exists(job[j].token)
    /\ job[j].next # Absent => Exists(job[j].next)
    /\ job[j].stage \in {"revoke", "error"} /\ job[j].kind = "switch" =>
         job[j].next # Absent

\* A request is done only after its session was revoked.
DoneIsRevoked ==
  \A j \in Jobs : job[j].stage = "done" => session[job[j].token].revoked

Holds(x) == exchange[x].stage \in {"checked", "allowed", "answered"}

\* A call of launch.php has a ticket that was made, and one that found its
\* session standing did not begin after the end of it.
ExchangeHasTicket ==
  \A x \in Exchanges :
    exchange[x].stage \notin {"idle", "over"} =>
      /\ exchange[x].ticket \in Tickets
      /\ ticket[exchange[x].ticket] # Absent
      /\ ticket[exchange[x].ticket].made
      /\ exchange[x].late => ticket[exchange[x].ticket].session \in ended
      /\ Holds(x) => ~exchange[x].late
      /\ exchange[x].stage \in {"checked", "allowed"} =>
           ~ticket[exchange[x].ticket].spent
      /\ exchange[x].stage = "answered" => ticket[exchange[x].ticket].spent

\* One call at a time gets anywhere with a ticket, and none after a login.
ExchangedOnce ==
  /\ \A x, y \in Exchanges :
       Holds(x) /\ Holds(y) /\ exchange[x].ticket = exchange[y].ticket => x = y
  /\ \A k \in Tickets :
       /\ logins[k] <= 1
       /\ logins[k] > 0 =>
            /\ ticket[k] # Absent /\ ticket[k].made /\ ticket[k].spent
            /\ \A x \in Exchanges : Holds(x) => exchange[x].ticket # k

SessionIInv ==
  /\ SessionTypeOK
  /\ CookieHasSession
  /\ JobHasSession
  /\ DoneIsRevoked
  /\ EndedIsFinal
  /\ ExchangeHasTicket
  /\ ExchangedOnce

USE SessionAssumption

\* Revoking a row keeps every row a row.
LEMMA RevokeKeepsRows ==
  ASSUME SessionTypeOK, NEW t, Exists(t), RevokeRow(t)
  PROVE  /\ session' \in [Tokens -> SessionRow \cup {Absent}]
         /\ session'[t].revoked
         /\ \A s \in Tokens : session[s] # Absent => session'[s] # Absent
         /\ \A s \in Tokens :
              session[s] # Absent /\ session[s].revoked => session'[s].revoked
<1>1. session[t] \in SessionRow
  BY DEF SessionTypeOK, Exists
<1>2. [session[t] EXCEPT !.revoked = TRUE] \in SessionRow
  BY <1>1 DEF SessionRow
<1>3. session' = [session EXCEPT ![t] = [session[t] EXCEPT !.revoked = TRUE]]
  BY DEF RevokeRow
<1>4. [session[t] EXCEPT !.revoked = TRUE] # Absent
  BY <1>1, <1>2 DEF SessionRow
<1>5. [session[t] EXCEPT !.revoked = TRUE].revoked
  BY <1>1 DEF SessionRow
<1> QED
  BY <1>1, <1>2, <1>3, <1>4, <1>5 DEF SessionTypeOK, Exists


LEMMA NewSessionIsRow ==
  ASSUME NEW u \in Users
  PROVE  NewSession(u) \in SessionRow /\ NewSession(u) # Absent
<1>1. NewSession(u) \in SessionRow
  BY DEF NewSession, SessionRow
<1> QED
  BY <1>1

LEMMA SessionInitIInv == SessionInit => SessionIInv
<1> SUFFICES ASSUME SessionInit PROVE SessionIInv
  OBVIOUS
<1>1. SessionTypeOK
  BY DEF SessionInit, SessionTypeOK, NoJob, JobRow, JobKinds, JobStages,
         NoExchange, ExchangeRow, ExchangeStages
<1>2. CookieHasSession /\ JobHasSession /\ DoneIsRevoked /\ EndedIsFinal
      /\ ExchangeHasTicket /\ ExchangedOnce
  BY DEF SessionInit, NoJob, NoExchange, CookieHasSession, JobHasSession,
         DoneIsRevoked, EndedIsFinal, ExchangeHasTicket, ExchangedOnce, Holds
<1> QED
  BY <1>1, <1>2 DEF SessionIInv

\* What the launch functions leave of a ticket, and of one that was made.
LEMMA TicketStep ==
  ASSUME SessionTypeOK, NEW k \in Tickets,
         \/ \E t \in Tokens : BeginLaunch(t, k)
         \/ MakeLaunch(k) \/ LaunchFails(k) \/ ExpireTicket(k)
  PROVE  /\ SessionTypeOK'
         /\ UNCHANGED <<session, cookie, job, ended, exchange, logins>>
         /\ \A m \in Tickets : ticket[m] # Absent /\ ticket[m].made =>
              /\ ticket'[m] # Absent
              /\ ticket'[m].made
              /\ ticket'[m].spent = ticket[m].spent
              /\ ticket'[m].session = ticket[m].session
<1> USE DEF SessionTypeOK
<1>1. UNCHANGED <<active, granted, session, cookie, job, ended, exchange, logins>>
  BY DEF BeginLaunch, MakeLaunch, LaunchFails, ExpireTicket
<1>2. PICK row \in TicketRow \cup {Absent} :
        /\ ticket' = [ticket EXCEPT ![k] = row]
        /\ ticket[k] # Absent /\ ticket[k].made =>
             /\ row # Absent
             /\ row.made
             /\ row.spent = ticket[k].spent
             /\ row.session = ticket[k].session
  <2>1. CASE \E t \in Tokens : BeginLaunch(t, k)
    BY <2>1 DEF BeginLaunch, TicketRow
  <2>2. CASE MakeLaunch(k)
    <3> DEFINE row == [ticket[k] EXCEPT !.made = TRUE]
    <3>1. ticket[k] \in TicketRow
      BY <2>2 DEF MakeLaunch
    <3>2. row \in TicketRow
      BY <3>1 DEF TicketRow
    <3> QED
      BY <2>2, <3>2 DEF MakeLaunch
  <2>3. CASE LaunchFails(k)
    BY <2>3 DEF LaunchFails
  <2>4. CASE ExpireTicket(k)
    <3> DEFINE row == [ticket[k] EXCEPT !.expired = TRUE]
    <3>1. ticket[k] \in TicketRow
      BY <2>4 DEF ExpireTicket
    <3>2. /\ row \in TicketRow
          /\ row.made = ticket[k].made
          /\ row.spent = ticket[k].spent
          /\ row.session = ticket[k].session
      BY <3>1 DEF TicketRow
    <3>3. row # Absent
      BY <3>2
    <3>4. ticket' = [ticket EXCEPT ![k] = row]
      BY <2>4 DEF ExpireTicket
    <3> HIDE DEF row
    <3> QED
      BY <3>2, <3>3, <3>4
  <2> QED
    BY <2>1, <2>2, <2>3, <2>4
<1>3. SessionTypeOK'
  BY <1>1, <1>2
<1> QED
  BY <1>1, <1>2, <1>3

\* What a step of one call of launch.php leaves.
LEMMA ExchangeStep ==
  ASSUME SessionTypeOK, ExchangeHasTicket, NEW x \in Exchanges,
         \/ \E k \in Tickets : BeginExchange(x, k)
         \/ CheckSession(x) \/ CheckAuthority(x) \/ ConsumeLaunch(x)
         \/ ExchangeFails(x) \/ CompleteLogin(x)
  PROVE  /\ SessionTypeOK'
         /\ UNCHANGED <<session, cookie, job, ended>>
<1> USE DEF SessionTypeOK
<1>1. UNCHANGED <<active, granted, session, cookie, job, ended>>
  BY DEF BeginExchange, CheckSession, CheckAuthority, ConsumeLaunch,
     ExchangeFails, CompleteLogin
<1>2. exchange' \in [Exchanges -> ExchangeRow]
  <2>1. NoExchange("over") \in ExchangeRow
    BY DEF NoExchange, ExchangeRow, ExchangeStages
  <2>2. \A st \in ExchangeStages : [exchange[x] EXCEPT !.stage = st] \in ExchangeRow
    BY DEF ExchangeRow
  <2>3. CASE \E k \in Tickets : BeginExchange(x, k)
    BY <2>3 DEF BeginExchange, ExchangeRow, ExchangeStages
  <2>4. CASE CheckSession(x) \/ CheckAuthority(x) \/ ConsumeLaunch(x)
             \/ ExchangeFails(x) \/ CompleteLogin(x)
    BY <2>1, <2>2, <2>4 DEF CheckSession, CheckAuthority, ConsumeLaunch,
       ExchangeFails, CompleteLogin, ExchangeStages
  <2> QED
    BY <2>3, <2>4
<1>3. ticket' \in [Tickets -> TicketRow \cup {Absent}]
  <2>1. CASE ConsumeLaunch(x)
    <3>1. ticket[exchange[x].ticket] \in TicketRow
      BY <2>1 DEF ConsumeLaunch, ExchangeHasTicket
    <3>2. [ticket[exchange[x].ticket] EXCEPT !.spent = TRUE] \in TicketRow
      BY <3>1 DEF TicketRow
    <3> QED
      BY <2>1, <3>2 DEF ConsumeLaunch
  <2>2. CASE ~ConsumeLaunch(x)
    BY <2>2 DEF BeginExchange, CheckSession, CheckAuthority, ExchangeFails,
       CompleteLogin
  <2> QED
    BY <2>1, <2>2
<1>4. logins' \in [Tickets -> Nat]
  BY DEF BeginExchange, CheckSession, CheckAuthority, ConsumeLaunch,
     ExchangeFails, CompleteLogin, ExchangeHasTicket
<1> QED
  BY <1>1, <1>2, <1>3, <1>4

LEMMA SessionTypesStep ==
  SessionTypeOK /\ JobHasSession /\ ExchangeHasTicket
    /\ [SessionNext]_sessionVars => SessionTypeOK'
<1> SUFFICES ASSUME SessionTypeOK, JobHasSession, ExchangeHasTicket,
                    [SessionNext]_sessionVars
             PROVE  SessionTypeOK'
  OBVIOUS
<1> USE DEF SessionTypeOK, JobRow, JobKinds, JobStages
<1>1. ASSUME NEW b \in Browsers, NEW u \in Users, NEW t \in Tokens, SignIn(b, u, t)
      PROVE  SessionTypeOK'
  BY <1>1 DEF SignIn, NewSession, SessionRow
<1>2. ASSUME NEW j \in Jobs, NEW b \in Browsers, BeginLogout(j, b) \/ BeginSwitch(j, b)
      PROVE  SessionTypeOK'
  BY <1>2 DEF BeginLogout, BeginSwitch
<1>3. ASSUME NEW j \in Jobs, NEW t \in Tokens, CreateNext(j, t)
      PROVE  SessionTypeOK'
  <2>1. session[job[j].token].user \in Users
    BY <1>3 DEF CreateNext, JobHasSession, Exists, SessionRow
  <2> QED
    BY <1>3, <2>1 DEF CreateNext, NewSession, SessionRow
<1>4. ASSUME NEW j \in Jobs, CreateNextFails(j)
      PROVE  SessionTypeOK'
  BY <1>4 DEF CreateNextFails, NoJob
<1>5. ASSUME NEW j \in Jobs, Revoke(j) \/ RevokeFails(j)
      PROVE  SessionTypeOK'
  <2>1. Exists(job[j].token)
    BY <1>5 DEF Revoke, RevokeFails, JobHasSession
  <2>2. session' \in [Tokens -> SessionRow \cup {Absent}]
    BY <1>5, <2>1, RevokeKeepsRows DEF Revoke, RevokeFails
  <2> QED
    BY <1>5, <2>2 DEF Revoke, RevokeFails
<1>6. ASSUME NEW j \in Jobs, AnswerError(j)
      PROVE  SessionTypeOK'
  <2>1. job[j].kind = "switch" => Exists(job[j].next)
    BY <1>6 DEF AnswerError, JobHasSession
  <2>2. session' \in [Tokens -> SessionRow \cup {Absent}]
    BY <1>6, <2>1, RevokeKeepsRows DEF AnswerError
  <2> QED
    BY <1>6, <2>2 DEF AnswerError, NoJob
<1>7. ASSUME NEW j \in Jobs, AnswerDone(j)
      PROVE  SessionTypeOK'
  <2>1. job[j].token \in Tokens
    BY <1>7 DEF AnswerDone, JobHasSession, Exists
  <2> QED
    BY <1>7, <2>1 DEF AnswerDone, NoJob
<1>8. ASSUME NEW k \in Tickets,
             \/ \E t \in Tokens : BeginLaunch(t, k)
             \/ MakeLaunch(k) \/ LaunchFails(k) \/ ExpireTicket(k)
      PROVE  SessionTypeOK'
  BY <1>8, TicketStep
<1>12. ASSUME NEW x \in Exchanges,
              \/ \E k \in Tickets : BeginExchange(x, k)
              \/ CheckSession(x) \/ CheckAuthority(x) \/ ConsumeLaunch(x)
              \/ ExchangeFails(x) \/ CompleteLogin(x)
       PROVE  SessionTypeOK'
  BY <1>12, ExchangeStep
<1>9. ASSUME NEW t \in Tokens, ExpireSession(t)
      PROVE  SessionTypeOK'
  <2>1. session[t] \in SessionRow
    BY <1>9 DEF ExpireSession
  <2>2. [session[t] EXCEPT !.expired = TRUE] \in SessionRow
    BY <2>1 DEF SessionRow
  <2> QED
    BY <1>9, <2>2 DEF ExpireSession
<1>10. ASSUME NEW u \in Users, ChangeAccount(u) \/ ChangeGrant(u)
       PROVE  SessionTypeOK'
  BY <1>10 DEF ChangeAccount, ChangeGrant, Toggled
<1>11. CASE UNCHANGED sessionVars
  BY <1>11 DEF sessionVars
<1> QED
  BY <1>1, <1>2, <1>3, <1>4, <1>5, <1>6, <1>7, <1>8, <1>9, <1>10, <1>11,
     <1>12 DEF SessionNext

\* No action takes a row away or takes a revocation back.
LEMMA SessionsStay ==
  ASSUME SessionTypeOK, JobHasSession, [SessionNext]_sessionVars
  PROVE  \A s \in Tokens : session[s] # Absent =>
           /\ session'[s] # Absent
           /\ session[s].revoked => session'[s].revoked
<1> DEFINE Stay == \A s \in Tokens : session[s] # Absent =>
                     /\ session'[s] # Absent
                     /\ session[s].revoked => session'[s].revoked
<1> SUFFICES Stay
  OBVIOUS
<1>1. ASSUME NEW u \in Users, NEW t \in Tokens, session[t] = Absent,
             session' = [session EXCEPT ![t] = NewSession(u)]
      PROVE  Stay
  BY <1>1 DEF SessionTypeOK
<1>2. ASSUME NEW j \in Jobs, NEW t \in Tokens, CreateNext(j, t)
      PROVE  Stay
  BY <1>2 DEF CreateNext, SessionTypeOK
<1>3. ASSUME NEW j \in Jobs, Revoke(j) \/ RevokeFails(j)
      PROVE  Stay
  <2>1. Exists(job[j].token)
    BY <1>3 DEF Revoke, RevokeFails, JobHasSession
  <2> QED
    BY <1>3, <2>1, RevokeKeepsRows DEF Revoke, RevokeFails
<1>4. ASSUME NEW j \in Jobs, AnswerError(j)
      PROVE  Stay
  <2>1. job[j].kind = "switch" => Exists(job[j].next)
    BY <1>4 DEF AnswerError, JobHasSession
  <2> QED
    BY <1>4, <2>1, RevokeKeepsRows DEF AnswerError
<1>5. ASSUME NEW t \in Tokens, ExpireSession(t)
      PROVE  Stay
  <2>1. session[t] \in SessionRow
    BY <1>5 DEF ExpireSession, SessionTypeOK
  <2>2. /\ [session[t] EXCEPT !.expired = TRUE] \in SessionRow
        /\ [session[t] EXCEPT !.expired = TRUE].revoked = session[t].revoked
    BY <2>1 DEF SessionRow
  <2> QED
    BY <1>5, <2>1, <2>2 DEF ExpireSession, SessionTypeOK
<1>6. CASE UNCHANGED session
  BY <1>6
<1> QED
  BY <1>1, <1>2, <1>3, <1>4, <1>5, <1>6
     DEF SessionNext, sessionVars, SignIn, BeginLogout, BeginSwitch,
         CreateNextFails, AnswerDone, BeginLaunch, MakeLaunch, LaunchFails,
         ExpireTicket, BeginExchange, CheckSession, CheckAuthority,
         ConsumeLaunch, ExchangeFails, CompleteLogin, ChangeAccount, ChangeGrant

LEMMA SessionReferencesStep ==
  ASSUME SessionIInv, SessionNext
  PROVE  CookieHasSession' /\ JobHasSession'
<1> USE DEF SessionIInv, Exists
<1>1. SessionTypeOK'
  BY SessionTypesStep
<1>2. \A s \in Tokens : session[s] # Absent => session'[s] # Absent
  BY SessionsStay
<1>3. ASSUME NEW b \in Browsers, NEW u \in Users, NEW t \in Tokens, SignIn(b, u, t)
      PROVE  CookieHasSession' /\ JobHasSession'
  <2>1. session'[t] # Absent
    BY <1>3, NewSessionIsRow DEF SignIn, SessionTypeOK
  <2> QED
    BY <1>2, <1>3, <2>1 DEF SignIn, SessionTypeOK, CookieHasSession,
       JobHasSession, JobRow
<1>4. ASSUME NEW j \in Jobs, NEW b \in Browsers, BeginLogout(j, b) \/ BeginSwitch(j, b)
      PROVE  CookieHasSession' /\ JobHasSession'
  <2>1. Exists(cookie[b])
    BY <1>4 DEF BeginLogout, BeginSwitch, Resolves, CookieHasSession
  <2> QED
    BY <1>2, <1>4, <2>1 DEF BeginLogout, BeginSwitch, CookieHasSession,
       JobHasSession, SessionTypeOK
<1>5. ASSUME NEW j \in Jobs, NEW t \in Tokens, CreateNext(j, t)
      PROVE  CookieHasSession' /\ JobHasSession'
  <2>0. session[job[j].token].user \in Users
    BY <1>5 DEF CreateNext, JobHasSession, SessionTypeOK, SessionRow
  <2>1. session'[t] # Absent /\ t # Absent
    BY <1>5, <2>0, NewSessionIsRow DEF CreateNext, SessionTypeOK
  <2>2. CookieHasSession'
    BY <1>2, <1>5 DEF CreateNext, CookieHasSession
  <2>3. JobHasSession'
    BY <1>2, <1>5, <2>1 DEF CreateNext, JobHasSession, SessionTypeOK, JobRow
  <2> QED
    BY <2>2, <2>3
<1>6. ASSUME NEW j \in Jobs,
             CreateNextFails(j) \/ Revoke(j) \/ RevokeFails(j) \/ AnswerError(j)
      PROVE  CookieHasSession' /\ JobHasSession'
  <2>1. cookie' = cookie
    BY <1>6 DEF CreateNextFails, Revoke, RevokeFails, AnswerError
  <2>2. \/ job' = [job EXCEPT ![j] = NoJob]
        \/ job[j].stage = "revoke" /\ job' = [job EXCEPT ![j].stage = "done"]
        \/ job[j].stage = "revoke" /\ job' = [job EXCEPT ![j].stage = "error"]
    BY <1>6 DEF CreateNextFails, Revoke, RevokeFails, AnswerError
  <2>3. CookieHasSession'
    BY <1>2, <2>1 DEF CookieHasSession
  <2>4. JobHasSession'
    BY <1>2, <2>2 DEF JobHasSession, SessionTypeOK, JobRow, NoJob
  <2> QED
    BY <2>3, <2>4
<1>7. ASSUME NEW j \in Jobs, AnswerDone(j)
      PROVE  CookieHasSession' /\ JobHasSession'
  <2>1. job[j].next # Absent =>
          job[j].next \in Tokens /\ session'[job[j].next] # Absent
    BY <1>2, <1>7 DEF AnswerDone, JobHasSession
  <2>2. CookieHasSession'
    BY <1>2, <1>7, <2>1 DEF AnswerDone, CookieHasSession, SessionTypeOK
  <2>3. JobHasSession'
    BY <1>2, <1>7 DEF AnswerDone, JobHasSession, SessionTypeOK, NoJob
  <2> QED
    BY <2>2, <2>3
<1>8. CASE UNCHANGED <<cookie, job>>
  BY <1>2, <1>8 DEF CookieHasSession, JobHasSession
<1> QED
  BY <1>3, <1>4, <1>5, <1>6, <1>7, <1>8
     DEF SessionNext, BeginLaunch, MakeLaunch, LaunchFails, ExpireTicket,
         BeginExchange, CheckSession, CheckAuthority, ConsumeLaunch,
         ExchangeFails, CompleteLogin, ExpireSession, ChangeAccount, ChangeGrant

LEMMA SessionEndsStep ==
  ASSUME SessionIInv, SessionNext
  PROVE  DoneIsRevoked' /\ EndedIsFinal'
<1> USE DEF SessionIInv
<1>1. \A s \in Tokens : session[s] # Absent =>
        session'[s] # Absent /\ (session[s].revoked => session'[s].revoked)
  BY SessionsStay
<1>2. ASSUME NEW j \in Jobs, Revoke(j)
      PROVE  DoneIsRevoked' /\ EndedIsFinal'
  <2>1. Exists(job[j].token)
    BY <1>2 DEF Revoke, JobHasSession
  <2>2. session'[job[j].token].revoked
    BY <1>2, <2>1, RevokeKeepsRows DEF Revoke
  <2>3. DoneIsRevoked'
    BY <1>1, <1>2, <2>2 DEF Revoke, DoneIsRevoked, JobHasSession, Exists,
       SessionTypeOK, JobRow
  <2>4. EndedIsFinal'
    BY <1>1, <1>2 DEF Revoke, EndedIsFinal, SessionTypeOK
  <2> QED
    BY <2>3, <2>4
<1>3. ASSUME NEW j \in Jobs, AnswerDone(j)
      PROVE  DoneIsRevoked' /\ EndedIsFinal'
  <2>1. Exists(job[j].token) /\ session[job[j].token].revoked
    BY <1>3 DEF AnswerDone, JobHasSession, DoneIsRevoked
  <2>2. DoneIsRevoked'
    BY <1>3 DEF AnswerDone, DoneIsRevoked, SessionTypeOK, NoJob
  <2>3. EndedIsFinal'
    BY <1>3, <2>1 DEF AnswerDone, EndedIsFinal, Exists
  <2> QED
    BY <2>2, <2>3
<1>4. ASSUME ended' = ended,
             \A j \in Jobs : job'[j].stage = "done" =>
               job[j].stage = "done" /\ job'[j].token = job[j].token
      PROVE  DoneIsRevoked' /\ EndedIsFinal'
  <2>1. DoneIsRevoked'
    BY <1>1, <1>4 DEF DoneIsRevoked, JobHasSession, Exists
  <2>2. EndedIsFinal'
    BY <1>1, <1>4 DEF EndedIsFinal, SessionTypeOK
  <2> QED
    BY <2>1, <2>2
<1>5. ASSUME NEW j \in Jobs,
             \/ \E b \in Browsers : BeginLogout(j, b) \/ BeginSwitch(j, b)
             \/ \E t \in Tokens : CreateNext(j, t)
             \/ CreateNextFails(j) \/ RevokeFails(j) \/ AnswerError(j)
      PROVE  DoneIsRevoked' /\ EndedIsFinal'
  <2>1. /\ ended' = ended
        /\ \A i \in Jobs \ {j} : job'[i] = job[i]
        /\ job'[j].stage # "done"
    <3> USE DEF SessionTypeOK
    <3>1. CASE \E b \in Browsers : BeginLogout(j, b) \/ BeginSwitch(j, b)
      BY <3>1 DEF BeginLogout, BeginSwitch
    <3>2. CASE \E t \in Tokens : CreateNext(j, t)
      <4>1. job'[j] = [job[j] EXCEPT !.next = job'[j].next, !.stage = "revoke"]
        BY <3>2 DEF CreateNext, JobRow
      <4> QED
        BY <3>2, <4>1 DEF CreateNext, JobRow
    <3>3. CASE CreateNextFails(j) \/ RevokeFails(j) \/ AnswerError(j)
      BY <3>3 DEF CreateNextFails, RevokeFails, AnswerError, NoJob, JobRow
    <3> QED
      BY <1>5, <3>1, <3>2, <3>3
  <2> QED
    BY <1>4, <2>1
<1>6. CASE UNCHANGED <<job, ended>>
  BY <1>4, <1>6
<1> QED
  BY <1>2, <1>3, <1>5, <1>6
     DEF SessionNext, SignIn, BeginLaunch, MakeLaunch, LaunchFails,
         ExpireTicket, BeginExchange, CheckSession, CheckAuthority,
         ConsumeLaunch, ExchangeFails, CompleteLogin, ExpireSession,
         ChangeAccount, ChangeGrant

\* A step outside of the exchanges keeps what they rely on.
LEMMA ExchangesAreApart ==
  ASSUME SessionIInv, UNCHANGED <<exchange, logins>>, ended \subseteq ended',
         \A m \in Tickets : ticket[m] # Absent /\ ticket[m].made =>
           /\ ticket'[m] # Absent
           /\ ticket'[m].made
           /\ ticket'[m].spent = ticket[m].spent
           /\ ticket'[m].session = ticket[m].session
  PROVE  ExchangeHasTicket' /\ ExchangedOnce'
<1>1. ExchangeHasTicket'
  BY DEF SessionIInv, ExchangeHasTicket, Holds
<1>2. ExchangedOnce'
  BY DEF SessionIInv, ExchangedOnce, Holds
<1> QED
  BY <1>1, <1>2

\* An exchange that goes on with its ticket, or ends, keeps the others apart
\* as long as it does not join another one that got as far.
LEMMA ExchangeMoves ==
  ASSUME SessionIInv, NEW x \in Exchanges, NEW row \in ExchangeRow,
         exchange' = [exchange EXCEPT ![x] = row],
         UNCHANGED <<ticket, ended, logins>>,
         row.stage \in {"idle", "waiting", "checked", "allowed", "over"},
         row.stage \notin {"idle", "over"} =>
           /\ row.ticket \in Tickets
           /\ ticket[row.ticket] # Absent
           /\ ticket[row.ticket].made
           /\ row.late => ticket[row.ticket].session \in ended,
         row.stage \in {"checked", "allowed"} =>
           /\ ~row.late
           /\ ~ticket[row.ticket].spent
           /\ \A y \in Exchanges \ {x} :
                Holds(y) => exchange[y].ticket # row.ticket
  PROVE  ExchangeHasTicket' /\ ExchangedOnce'
<1> USE DEF SessionIInv, SessionTypeOK
<1>1. exchange'[x] = row /\ \A y \in Exchanges \ {x} : exchange'[y] = exchange[y]
  OBVIOUS
<1>2. ExchangeHasTicket'
  BY <1>1 DEF ExchangeHasTicket, Holds
<1>3. ASSUME NEW k \in Tickets, logins[k] > 0, NEW y \in Exchanges, Holds(y)'
      PROVE  exchange'[y].ticket # k
  BY <1>1, <1>3 DEF ExchangedOnce, Holds
<1>4. ASSUME NEW y \in Exchanges, NEW z \in Exchanges, Holds(y)', Holds(z)',
             exchange'[y].ticket = exchange'[z].ticket
      PROVE  y = z
  BY <1>1, <1>4 DEF ExchangedOnce, Holds
<1>5. ExchangedOnce'
  BY <1>3, <1>4 DEF ExchangedOnce
<1> QED
  BY <1>2, <1>5

LEMMA ExchangedOnceStep ==
  ASSUME SessionIInv, SessionNext
  PROVE  ExchangeHasTicket' /\ ExchangedOnce'
<1> USE DEF SessionIInv, SessionTypeOK
<1> DEFINE Goal == ExchangeHasTicket' /\ ExchangedOnce'
<1>1. ASSUME NEW k \in Tickets,
             \/ \E t \in Tokens : BeginLaunch(t, k)
             \/ MakeLaunch(k) \/ LaunchFails(k) \/ ExpireTicket(k)
      PROVE  Goal
  BY <1>1, TicketStep, ExchangesAreApart
<1>2. ASSUME NEW x \in Exchanges, NEW k \in Tickets, BeginExchange(x, k)
      PROVE  Goal
  <2> DEFINE late == ticket[k].session \in ended
  <2> DEFINE row == [ticket |-> k, stage |-> "waiting", late |-> late]
  <2>2. /\ exchange' = [exchange EXCEPT ![x] = row]
        /\ ticket[k] # Absent /\ ticket[k].made
        /\ UNCHANGED <<ticket, ended, logins>>
    BY <1>2 DEF BeginExchange
  <2>3. late \in BOOLEAN /\ (late => ticket[k].session \in ended)
    OBVIOUS
  <2> HIDE DEF late
  <2>1. /\ row \in ExchangeRow /\ row.stage = "waiting" /\ row.ticket = k
        /\ row.late = late
    BY <2>3 DEF ExchangeRow, ExchangeStages
  <2> HIDE DEF row
  <2> QED
    BY <2>1, <2>2, <2>3, ExchangeMoves
<1>3. ASSUME NEW x \in Exchanges, CheckSession(x)
      PROVE  Goal
  <2> DEFINE k == exchange[x].ticket
  <2> DEFINE row == [exchange[x] EXCEPT !.stage = "checked"]
  <2>1. /\ row \in ExchangeRow /\ row.stage = "checked" /\ row.ticket = k
        /\ row.late = exchange[x].late
    BY DEF ExchangeRow, ExchangeStages
  <2>2. /\ exchange' = [exchange EXCEPT ![x] = row]
        /\ exchange[x].stage = "waiting"
        /\ UNCHANGED <<ticket, ended, logins>>
        /\ ~ticket[k].spent /\ ~session[ticket[k].session].revoked
        /\ \A y \in Exchanges : ~LocksTicket(y, k)
    BY <1>3 DEF CheckSession, TicketGood, Stands
  <2>3. /\ k \in Tickets /\ ticket[k] # Absent /\ ticket[k].made
        /\ exchange[x].late => ticket[k].session \in ended
    BY <2>2 DEF ExchangeHasTicket
  <2>4. ~exchange[x].late
    BY <2>2, <2>3 DEF EndedIsFinal
  <2>5. \A y \in Exchanges : Holds(y) => exchange[y].ticket # k
    BY <2>2 DEF Holds, LocksTicket, ExchangeHasTicket
  <2> HIDE DEF row
  <2> QED
    BY <2>1, <2>2, <2>3, <2>4, <2>5, ExchangeMoves
<1>4. ASSUME NEW x \in Exchanges, CheckAuthority(x)
      PROVE  Goal
  <2> DEFINE row == [exchange[x] EXCEPT !.stage = "allowed"]
  <2>1. /\ row \in ExchangeRow /\ row.stage = "allowed"
        /\ row.ticket = exchange[x].ticket /\ row.late = exchange[x].late
    BY DEF ExchangeRow, ExchangeStages
  <2>2. /\ exchange' = [exchange EXCEPT ![x] = row]
        /\ exchange[x].stage = "checked"
        /\ UNCHANGED <<ticket, ended, logins>>
    BY <1>4 DEF CheckAuthority
  <2>3. /\ exchange[x].ticket \in Tickets
        /\ ticket[exchange[x].ticket] # Absent
        /\ ticket[exchange[x].ticket].made
        /\ ~ticket[exchange[x].ticket].spent /\ ~exchange[x].late
    BY <2>2 DEF ExchangeHasTicket, Holds
  <2>4. \A y \in Exchanges \ {x} :
          Holds(y) => exchange[y].ticket # exchange[x].ticket
    BY <2>2 DEF ExchangedOnce, Holds
  <2> HIDE DEF row
  <2> QED
    BY <2>1, <2>2, <2>3, <2>4, ExchangeMoves
<1>5. ASSUME NEW x \in Exchanges, ConsumeLaunch(x)
      PROVE  Goal
  <2> DEFINE k == exchange[x].ticket
  <2>1. /\ exchange[x].stage = "allowed"
        /\ k \in Tickets /\ ticket[k] \in TicketRow /\ ticket[k].made
        /\ ~ticket[k].spent /\ ~exchange[x].late
        /\ \A y \in Exchanges \ {x} : Holds(y) => exchange[y].ticket # k
        /\ UNCHANGED <<ended, logins>>
    BY <1>5 DEF ConsumeLaunch, ExchangeHasTicket, ExchangedOnce, Holds
  <2> DEFINE spent == [ticket[k] EXCEPT !.spent = TRUE]
  <2>2. /\ spent \in TicketRow /\ spent.made /\ spent.spent
        /\ spent.session = ticket[k].session
    BY <2>1 DEF TicketRow
  <2>3. ticket' = [ticket EXCEPT ![k] = spent]
    BY <1>5 DEF ConsumeLaunch
  <2> HIDE DEF spent
  <2>4. /\ ticket'[k] # Absent /\ ticket'[k].made /\ ticket'[k].spent
        /\ ticket'[k].session = ticket[k].session
        /\ \A m \in Tickets \ {k} : ticket'[m] = ticket[m]
    BY <2>1, <2>2, <2>3
  <2>5. PICK row \in ExchangeRow :
          /\ exchange' = [exchange EXCEPT ![x] = row]
          /\ \/ row.stage = "over"
             \/ row.stage = "answered" /\ row.ticket = k /\ ~row.late
    <3>1. NoExchange("over") \in ExchangeRow /\ NoExchange("over").stage = "over"
      BY DEF NoExchange, ExchangeRow, ExchangeStages
    <3> DEFINE row == [exchange[x] EXCEPT !.stage = "answered"]
    <3>2. /\ row \in ExchangeRow /\ row.stage = "answered" /\ row.ticket = k
          /\ ~row.late
      BY <2>1 DEF ExchangeRow, ExchangeStages
    <3>3. \/ exchange' = [exchange EXCEPT ![x] = row]
          \/ exchange' = [exchange EXCEPT ![x] = NoExchange("over")]
      BY <1>5 DEF ConsumeLaunch
    <3> HIDE DEF row
    <3> QED
      BY <3>1, <3>2, <3>3
  <2>6. exchange'[x] = row /\ \A y \in Exchanges \ {x} : exchange'[y] = exchange[y]
    BY <2>5
  <2>7. ExchangeHasTicket'
    <3> SUFFICES ASSUME NEW y \in Exchanges,
                        exchange'[y].stage \notin {"idle", "over"}
                 PROVE  /\ exchange'[y].ticket \in Tickets
                        /\ ticket'[exchange'[y].ticket] # Absent
                        /\ ticket'[exchange'[y].ticket].made
                        /\ exchange'[y].late =>
                             ticket'[exchange'[y].ticket].session \in ended
                        /\ Holds(y)' => ~exchange'[y].late
                        /\ exchange'[y].stage \in {"checked", "allowed"} =>
                             ~ticket'[exchange'[y].ticket].spent
                        /\ exchange'[y].stage = "answered" =>
                             ticket'[exchange'[y].ticket].spent
      BY <2>1 DEF ExchangeHasTicket
    <3>1. CASE y = x
      BY <2>1, <2>4, <2>5, <2>6, <3>1 DEF Holds
    <3>2. CASE y # x
      BY <2>1, <2>4, <2>6, <3>2 DEF ExchangeHasTicket, Holds
    <3> QED
      BY <3>1, <3>2
  <2>8. ExchangedOnce'
    <3>1. ASSUME NEW y \in Exchanges, NEW z \in Exchanges, Holds(y)', Holds(z)',
                 exchange'[y].ticket = exchange'[z].ticket
          PROVE  y = z
      BY <2>1, <2>5, <2>6, <3>1 DEF ExchangedOnce, Holds
    <3>2. logins[k] = 0
      BY <2>1 DEF ExchangedOnce, Holds
    <3>3. ASSUME NEW m \in Tickets, logins[m] > 0
          PROVE  /\ ticket'[m] # Absent /\ ticket'[m].made /\ ticket'[m].spent
                 /\ \A y \in Exchanges : Holds(y)' => exchange'[y].ticket # m
      BY <2>1, <2>4, <2>5, <2>6, <3>2, <3>3 DEF ExchangedOnce, Holds
    <3> QED
      BY <2>1, <3>1, <3>3 DEF ExchangedOnce
  <2> QED
    BY <2>7, <2>8
<1>6. ASSUME NEW x \in Exchanges, ExchangeFails(x)
      PROVE  Goal
  <2>1. NoExchange("over") \in ExchangeRow /\ NoExchange("over").stage = "over"
    BY DEF NoExchange, ExchangeRow, ExchangeStages
  <2>2. /\ exchange' = [exchange EXCEPT ![x] = NoExchange("over")]
        /\ UNCHANGED <<ticket, ended, logins>>
    BY <1>6 DEF ExchangeFails
  <2> QED
    BY <2>1, <2>2, ExchangeMoves
<1>7. ASSUME NEW x \in Exchanges, CompleteLogin(x)
      PROVE  Goal
  <2> DEFINE k == exchange[x].ticket
  <2>1. /\ exchange[x].stage = "answered" /\ Holds(x)
        /\ k \in Tickets /\ ticket[k] # Absent
        /\ ticket[k].made /\ ticket[k].spent
        /\ UNCHANGED <<ticket, ended>>
    BY <1>7 DEF CompleteLogin, ExchangeHasTicket, Holds
  <2>2. logins[k] = 0
    BY <2>1 DEF ExchangedOnce
  <2>3. /\ exchange'[x].stage = "over"
        /\ \A y \in Exchanges \ {x} : exchange'[y] = exchange[y]
    BY <1>7 DEF CompleteLogin, NoExchange
  <2>4. ExchangeHasTicket'
    BY <2>1, <2>3 DEF ExchangeHasTicket, Holds
  <2>5. \A y \in Exchanges : Holds(y)' => y # x /\ Holds(y) /\ exchange'[y] = exchange[y]
    BY <2>3 DEF Holds
  <2>6. \A m \in Tickets : m # k => logins'[m] = logins[m]
    BY <1>7 DEF CompleteLogin
  <2>7. logins'[k] \in {0, 1}
    BY <1>7, <2>1, <2>2 DEF CompleteLogin
  <2>8. ASSUME NEW m \in Tickets
        PROVE  /\ logins'[m] <= 1
               /\ logins'[m] > 0 =>
                    /\ ticket[m] # Absent /\ ticket[m].made /\ ticket[m].spent
                    /\ \A y \in Exchanges : Holds(y)' => exchange'[y].ticket # m
    <3>1. CASE m = k
      BY <2>1, <2>5, <2>7, <3>1 DEF ExchangedOnce
    <3>2. CASE m # k
      BY <2>5, <2>6, <3>2 DEF ExchangedOnce
    <3> QED
      BY <3>1, <3>2
  <2>9. ExchangedOnce'
    BY <2>1, <2>5, <2>8 DEF ExchangedOnce
  <2> QED
    BY <2>4, <2>9
<1>8. CASE UNCHANGED <<ticket, exchange, logins>> /\ ended \subseteq ended'
  BY <1>8, ExchangesAreApart
<1> QED
  BY <1>1, <1>2, <1>3, <1>4, <1>5, <1>6, <1>7, <1>8
     DEF SessionNext, SignIn, BeginLogout, BeginSwitch, CreateNext,
         CreateNextFails, Revoke, RevokeFails, AnswerError, AnswerDone,
         ExpireSession, ChangeAccount, ChangeGrant

\* The inductive invariant: the row of what ended is revoked, a request that
\* will end one has revoked it, and what anything refers to exists.
THEOREM SessionIInvHolds == SessionSpec => []SessionIInv
<1>1. SessionIInv /\ [SessionNext]_sessionVars => SessionIInv'
  <2> SUFFICES ASSUME SessionIInv, [SessionNext]_sessionVars
               PROVE  SessionIInv'
    OBVIOUS
  <2>1. CASE SessionNext
    <3>1. SessionTypeOK'
      BY SessionTypesStep DEF SessionIInv
    <3> QED
      BY <2>1, <3>1, SessionReferencesStep, SessionEndsStep, ExchangedOnceStep
         DEF SessionIInv
  <2>2. CASE UNCHANGED sessionVars
    BY <2>2 DEF sessionVars, SessionIInv, SessionTypeOK, CookieHasSession,
       JobHasSession, DoneIsRevoked, EndedIsFinal, ExchangeHasTicket,
       ExchangedOnce, Holds, Exists
  <2> QED
    BY <2>1, <2>2
<1> QED
  BY SessionInitIInv, <1>1, PTL DEF SessionSpec

\* Type correctness of sessions, requests, tickets and cookies.
THEOREM SessionTypes == SessionSpec => []SessionTypeOK
BY SessionIInvHolds, PTL DEF SessionIInv

\* However requests, administrators and expiry interleave, a token whose end
\* was answered stays revoked.
THEOREM EndedStaysEnded == SessionSpec => []EndedIsFinal
BY SessionIInvHolds, PTL DEF SessionIInv

\* A ticket logs in once at most, and no exchange of it that began after the
\* end of its session was answered is granted, although the exchange locks
\* nothing but the ticket.
THEOREM TicketsDieWithSessions == SessionSpec => []TicketDiesWithItsSession
<1>1. SessionIInv => TicketDiesWithItsSession
  BY DEF SessionIInv, ExchangeHasTicket, ExchangedOnce, Holds,
     TicketDiesWithItsSession
<1> QED
  BY <1>1, SessionIInvHolds, PTL

-----------------------------------------------------------------------------
(* The NCC session *)

USE NccAssumption

RoleOf(p) == authority[p].role

\* What a cookie or a request holds was given out.
PairsAreIssued ==
  /\ \A p \in issued : authority[p] # NoPair
  /\ sealed # NoPair => sealed.pair \in issued
  /\ \A r \in Requests : call[r].stage # "idle" => call[r].pair \in issued

\* A request about to write the cookie has the role of the pair it holds.
WriteHasTheRole ==
  \A r \in Requests :
    call[r].stage = "write" =>
      call[r].me # NoPair /\ call[r].me.role = RoleOf(call[r].pair)

NccIInv ==
  /\ NccTypeOK
  /\ PairsAreIssued
  /\ WriteHasTheRole
  /\ RoleFitsTheTokens

LEMMA NccInitIInv == NccInit => NccIInv
<1> SUFFICES ASSUME NccInit PROVE NccIInv
  OBVIOUS
<1>1. NccTypeOK
  BY DEF NccInit, NccTypeOK, NoCall, CallRow
<1>2. PairsAreIssued /\ WriteHasTheRole /\ RoleFitsTheTokens
  BY DEF NccInit, PairsAreIssued, WriteHasTheRole, RoleFitsTheTokens, NoCall
<1> QED
  BY <1>1, <1>2 DEF NccIInv

-----------------------------------------------------------------------------
(* What the EMS keeps *)

\* A pair that was given out keeps its role; new pairs get one.
EmsKeepsRoles ==
  /\ issued' \in SUBSET Pairs
  /\ issued \subseteq issued'
  /\ valid' \in SUBSET issued'
  /\ stale' \in SUBSET valid'
  /\ authority' \in [Pairs -> Authority \cup {NoPair}]
  /\ \A p \in issued' : authority'[p] # NoPair
  /\ \A p \in issued : authority'[p].role = authority[p].role

LEMMA RotateKeepsRoles ==
  ASSUME NccTypeOK, PairsAreIssued, NEW p, NEW q \in Pairs,
         NEW a \in Authority, Rotate(p, q, a)
  PROVE  EmsKeepsRoles /\ q \in issued' /\ authority'[q] = a
<1>1. /\ issued' = issued \cup {q}
      /\ authority'[q] = a
      /\ \A s \in issued : authority'[s] = authority[s]
      /\ authority' \in [Pairs -> Authority \cup {NoPair}]
  BY DEF Rotate, NccTypeOK
<1>2. valid' \in SUBSET issued' /\ stale' \in SUBSET valid'
  BY DEF Rotate, NccTypeOK
<1>3. a # NoPair
  OBVIOUS
<1> QED
  BY <1>1, <1>2, <1>3 DEF EmsKeepsRoles, NccTypeOK, PairsAreIssued

LEMMA EndPairKeepsRoles ==
  ASSUME NccTypeOK, PairsAreIssued, NEW p, EndPair(p)
  PROVE  EmsKeepsRoles
BY DEF EndPair, EmsKeepsRoles, NccTypeOK, PairsAreIssued

LEMMA BranchKeepsRoles ==
  ASSUME NccTypeOK, PairsAreIssued, NEW p \in Pairs, NEW b \in Branches,
         authority[p] \in Authority,
         authority' = [authority EXCEPT ![p].branch = b],
         UNCHANGED <<issued, valid, stale>>
  PROVE  /\ EmsKeepsRoles
         /\ authority'[p] \in Authority
         /\ authority'[p].role = authority[p].role
<1> DEFINE new == [authority[p] EXCEPT !.branch = b]
<1>1. new \in Authority /\ new.role = authority[p].role
  BY DEF Authority
<1>2. authority' = [authority EXCEPT ![p] = new]
  OBVIOUS
<1> HIDE DEF new
<1>3. new # NoPair
  BY <1>1
<1> QED
  BY <1>1, <1>2, <1>3 DEF EmsKeepsRoles, NccTypeOK, PairsAreIssued

LEMMA UnchangedKeepsRoles ==
  ASSUME NccTypeOK, PairsAreIssued, EmsUnchanged
  PROVE  EmsKeepsRoles
BY DEF EmsUnchanged, EmsKeepsRoles, NccTypeOK, PairsAreIssued

-----------------------------------------------------------------------------
(* What a step may do to a request *)

\* A row that a step may leave behind.
FitsAfter(row) ==
  /\ row \in CallRow
  /\ row.stage # "idle" => row.pair \in issued'
  /\ row.stage = "write" =>
       row.me # NoPair /\ row.me.role = authority'[row.pair].role

\* A step of one request that keeps the roles and leaves the cookie.
LEMMA CallStep ==
  ASSUME NccIInv, EmsKeepsRoles, NEW r \in Requests, NEW row, FitsAfter(row),
         call' = [call EXCEPT ![r] = row],
         sealed' = sealed, replaced' = replaced,
         disturbed' \in BOOLEAN, refused' \in BOOLEAN
  PROVE  NccIInv'
<1> USE DEF NccIInv
<1>1. NccTypeOK'
  BY DEF EmsKeepsRoles, FitsAfter, NccTypeOK
<1>2. PairsAreIssued'
  BY DEF EmsKeepsRoles, FitsAfter, NccTypeOK, PairsAreIssued
<1>3. WriteHasTheRole'
  BY DEF EmsKeepsRoles, FitsAfter, NccTypeOK, PairsAreIssued,
     WriteHasTheRole, RoleOf
<1>4. RoleFitsTheTokens'
  BY DEF EmsKeepsRoles, PairsAreIssued, RoleFitsTheTokens
<1> QED
  BY <1>1, <1>2, <1>3, <1>4

\* Going on to a stage that holds nothing new.
LEMMA GoToStep ==
  ASSUME NccIInv, EmsKeepsRoles, NEW r \in Requests, UnderWay(r),
         NEW stage \in {"idle", "first", "refresh", "second", "me", "clear"},
         GoTo(r, stage), sealed' = sealed, replaced' = replaced,
         disturbed' \in BOOLEAN, refused' \in BOOLEAN
  PROVE  NccIInv'
<1> DEFINE row == IF stage = "idle" THEN NoCall
                                    ELSE [call[r] EXCEPT !.stage = stage]
<1>1. call[r] \in CallRow /\ call[r].pair \in issued
  BY DEF NccIInv, NccTypeOK, PairsAreIssued, UnderWay
<1>2. FitsAfter(row)
  BY <1>1 DEF FitsAfter, EmsKeepsRoles, NoCall, CallRow
<1>3. call' = [call EXCEPT ![r] = row]
  BY DEF GoTo
<1> HIDE DEF row
<1> QED
  BY <1>2, <1>3, CallStep

-----------------------------------------------------------------------------
(* The actions *)

LEMMA BeginStep ==
  ASSUME NccIInv, NEW r \in Requests,
         \/ \E q \in Pairs, a \in Authority : BeginLogin(r, q, a)
         \/ \E k \in Operations : BeginRequest(r, k)
  PROVE  NccIInv'
<1> USE DEF NccIInv
<1>1. ASSUME NEW q \in Pairs, NEW a \in Authority, BeginLogin(r, q, a)
      PROVE  NccIInv'
  <2> DEFINE row == [kind |-> "login", stage |-> "me", renewed |-> TRUE,
                     pair |-> q, me |-> NoPair]
  <2>1. EmsKeepsRoles /\ q \in issued'
    BY <1>1, RotateKeepsRoles DEF BeginLogin
  <2>2. FitsAfter(row)
    BY <2>1 DEF FitsAfter, CallRow
  <2>3. /\ call' = [call EXCEPT ![r] = row]
        /\ UNCHANGED <<sealed, replaced>>
        /\ disturbed' \in BOOLEAN /\ refused' \in BOOLEAN
    BY <1>1 DEF BeginLogin, NccTypeOK, Overlaps
  <2> HIDE DEF row
  <2> QED
    BY <2>1, <2>2, <2>3, CallStep
<1>2. ASSUME NEW k \in Operations, BeginRequest(r, k)
      PROVE  NccIInv'
  <2> DEFINE row == [kind |-> k, stage |-> "first", renewed |-> FALSE,
                     pair |-> sealed.pair, me |-> NoPair]
  <2>1. EmsKeepsRoles
    BY <1>2, UnchangedKeepsRoles DEF BeginRequest
  <2>2. sealed.pair \in issued
    BY <1>2 DEF BeginRequest, PairsAreIssued
  <2>3. FitsAfter(row)
    BY <2>1, <2>2 DEF FitsAfter, CallRow, EmsKeepsRoles
  <2>4. /\ call' = [call EXCEPT ![r] = row]
        /\ UNCHANGED <<sealed, replaced>>
        /\ disturbed' \in BOOLEAN /\ refused' \in BOOLEAN
    BY <1>2 DEF BeginRequest, NccTypeOK, Overlaps
  <2> HIDE DEF row
  <2> QED
    BY <2>1, <2>3, <2>4, CallStep
<1> QED
  BY <1>1, <1>2

LEMMA AcceptedStep ==
  ASSUME NccIInv, NEW r \in Requests, Accepted(r)
  PROVE  NccIInv'
<1> DEFINE p == call[r].pair
<1> USE DEF NccIInv
<1>1. /\ p \in issued /\ p \in Pairs
      /\ authority[p] \in Authority
      /\ call[r] \in CallRow
      /\ UnderWay(r)
  BY DEF Accepted, PairsAreIssued, NccTypeOK, UnderWay
<1>2. /\ UNCHANGED <<sealed, replaced>>
      /\ disturbed' \in BOOLEAN /\ refused' \in BOOLEAN
  BY DEF Accepted, NccTypeOK
<1>3. CASE EmsUnchanged /\ GoTo(r, IF call[r].stage = "first" THEN "idle" ELSE "me")
  BY <1>1, <1>2, <1>3, UnchangedKeepsRoles, GoToStep
<1>4. CASE /\ call' = [call EXCEPT ![r].stage = "write", ![r].me = authority[p]]
          /\ EmsUnchanged
  <2> DEFINE row == [call[r] EXCEPT !.stage = "write", !.me = authority[p]]
  <2>1. EmsUnchanged /\ call' = [call EXCEPT ![r] = row]
    BY <1>4
  <2>2. EmsKeepsRoles
    BY <2>1, UnchangedKeepsRoles
  <2>3. row \in CallRow /\ row.pair = p /\ row.me = authority[p]
    BY <1>1 DEF CallRow
  <2>4. FitsAfter(row)
    BY <1>1, <2>1, <2>3 DEF FitsAfter, EmsUnchanged
  <2> HIDE DEF row
  <2> QED
    BY <1>2, <2>1, <2>2, <2>4, CallStep
<1>5. CASE /\ \E b \in Branches : authority' = [authority EXCEPT ![p].branch = b]
          /\ call' = [call EXCEPT ![r].stage = "write", ![r].me = authority'[p]]
          /\ UNCHANGED <<issued, valid, stale>>
  <2> DEFINE me == authority'[p]
  <2> DEFINE row == [call[r] EXCEPT !.stage = "write", !.me = me]
  <2>1. EmsKeepsRoles /\ me \in Authority /\ me.role = authority[p].role
    BY <1>1, <1>5, BranchKeepsRoles
  <2>2. call' = [call EXCEPT ![r] = row]
    BY <1>5
  <2>3. p \in issued'
    BY <1>1, <1>5
  <2> HIDE DEF me
  <2>4. me # NoPair
    BY <2>1
  <2>5. row \in CallRow /\ row.pair = p /\ row.me = me
    BY <1>1, <2>1 DEF CallRow
  <2>6. FitsAfter(row)
    BY <2>1, <2>3, <2>4, <2>5 DEF FitsAfter, me
  <2> HIDE DEF row
  <2> QED
    BY <1>2, <2>1, <2>2, <2>6, CallStep
<1>6. CASE \E q \in Pairs, role \in Roles :
             /\ Rotate(p, q, [authority[p] EXCEPT !.role = role])
             /\ call' = [call EXCEPT ![r].stage = "me", ![r].pair = q,
                                     ![r].renewed = TRUE]
  <2>1. PICK q \in Pairs, role \in Roles :
          /\ Rotate(p, q, [authority[p] EXCEPT !.role = role])
          /\ call' = [call EXCEPT ![r].stage = "me", ![r].pair = q,
                                  ![r].renewed = TRUE]
    BY <1>6
  <2> DEFINE row == [call[r] EXCEPT !.stage = "me", !.pair = q, !.renewed = TRUE]
  <2>2. [authority[p] EXCEPT !.role = role] \in Authority
    BY <1>1 DEF Authority
  <2>3. EmsKeepsRoles /\ q \in issued'
    BY <2>1, <2>2, RotateKeepsRoles
  <2>4. call' = [call EXCEPT ![r] = row]
    BY <2>1
  <2>5. row \in CallRow /\ row.stage = "me" /\ row.pair = q
    BY <1>1 DEF CallRow
  <2>6. FitsAfter(row)
    BY <2>3, <2>5 DEF FitsAfter
  <2> HIDE DEF row
  <2> QED
    BY <1>2, <2>3, <2>4, <2>6, CallStep
<1>7. CASE GoTo(r, "clear") /\ EndPair(p)
  BY <1>1, <1>2, <1>7, EndPairKeepsRoles, GoToStep
<1> QED
  BY <1>3, <1>4, <1>5, <1>6, <1>7 DEF Accepted

LEMMA RefusalStep ==
  ASSUME NccIInv, NEW r \in Requests,
         Unauthorized(r) \/ Denied(r) \/ RefreshRefused(r) \/ MeRefused(r)
  PROVE  NccIInv'
<1> USE DEF NccIInv
<1>1. UnderWay(r) /\ UNCHANGED <<sealed, replaced>>
  BY DEF Unauthorized, Denied, RefreshRefused, MeRefused, UnderWay
<1>2. disturbed' \in BOOLEAN /\ refused' \in BOOLEAN
  BY DEF Unauthorized, Denied, RefreshRefused, MeRefused, NccTypeOK, CallRow
<1>3. EmsKeepsRoles
  BY UnchangedKeepsRoles, EndPairKeepsRoles
     DEF Unauthorized, Denied, RefreshRefused, MeRefused
<1>4. GoTo(r, AfterUnauthorized(r)) \/ GoTo(r, AfterRefusal(r)) \/ GoTo(r, "idle")
  BY DEF Unauthorized, Denied, RefreshRefused, MeRefused
<1>5. /\ AfterUnauthorized(r) \in {"refresh", "clear", "idle"}
      /\ AfterRefusal(r) \in {"clear", "idle"}
  BY DEF AfterUnauthorized, AfterRefusal
<1> QED
  BY <1>1, <1>2, <1>3, <1>4, <1>5, GoToStep

LEMMA RefreshStep ==
  ASSUME NccIInv, NEW r \in Requests, NEW q \in Pairs, Refresh(r, q)
  PROVE  NccIInv'
<1> DEFINE row == [call[r] EXCEPT !.stage = "second", !.pair = q, !.renewed = TRUE]
<1> USE DEF NccIInv
<1>1. /\ call[r] \in CallRow
      /\ authority[call[r].pair] \in Authority
  BY DEF Refresh, PairsAreIssued, NccTypeOK
<1>2. EmsKeepsRoles /\ q \in issued'
  BY <1>1, RotateKeepsRoles DEF Refresh
<1>3. row \in CallRow /\ row.stage = "second" /\ row.pair = q
  BY <1>1 DEF CallRow
<1>4. FitsAfter(row)
  BY <1>2, <1>3 DEF FitsAfter
<1>5. /\ call' = [call EXCEPT ![r] = row]
      /\ UNCHANGED <<sealed, replaced>>
      /\ disturbed' \in BOOLEAN /\ refused' \in BOOLEAN
  BY DEF Refresh, NccTypeOK
<1> HIDE DEF row
<1> QED
  BY <1>2, <1>4, <1>5, CallStep

LEMMA AskMeStep ==
  ASSUME NccIInv, NEW r \in Requests, AskMe(r)
  PROVE  NccIInv'
<1> DEFINE p == call[r].pair
<1> DEFINE row == [call[r] EXCEPT !.stage = "write", !.me = authority[p]]
<1> USE DEF NccIInv
<1>1. /\ call[r] \in CallRow
      /\ p \in issued
      /\ authority[p] \in Authority
  BY DEF AskMe, PairsAreIssued, NccTypeOK
<1>2. EmsKeepsRoles
  BY UnchangedKeepsRoles DEF AskMe
<1>3. row \in CallRow /\ row.pair = p /\ row.me = authority[p]
  BY <1>1 DEF CallRow
<1>4. FitsAfter(row)
  BY <1>1, <1>3 DEF FitsAfter, AskMe, EmsUnchanged
<1>5. /\ call' = [call EXCEPT ![r] = row]
      /\ UNCHANGED <<sealed, replaced>>
      /\ disturbed' \in BOOLEAN /\ refused' \in BOOLEAN
  BY DEF AskMe, FreshAuthority, NccTypeOK
<1> HIDE DEF row
<1> QED
  BY <1>2, <1>4, <1>5, CallStep

LEMMA CallLostStep ==
  ASSUME NccIInv, NEW r \in Requests, CallLost(r)
  PROVE  NccIInv'
<1> USE DEF NccIInv
<1>1. /\ call[r] \in CallRow
      /\ authority[call[r].pair] \in Authority
      /\ UnderWay(r)
  BY DEF CallLost, PairsAreIssued, NccTypeOK, UnderWay
<1>2. EmsKeepsRoles
  <2> DEFINE p == call[r].pair
  <2>1. CASE EmsUnchanged \/ EndPair(p)
    BY <2>1, EndPairKeepsRoles, UnchangedKeepsRoles
  <2>2. CASE \E q \in Pairs : Rotate(p, q, authority[p])
    BY <1>1, <2>2, RotateKeepsRoles
  <2>3. CASE \E q \in Pairs, role \in Roles :
               Rotate(p, q, [authority[p] EXCEPT !.role = role])
    <3>1. \A role \in Roles : [authority[p] EXCEPT !.role = role] \in Authority
      BY <1>1 DEF Authority
    <3> QED
      BY <2>3, <3>1, RotateKeepsRoles
  <2>4. CASE /\ \E b \in Branches : authority' = [authority EXCEPT ![p].branch = b]
             /\ UNCHANGED <<issued, valid, stale>>
    <3>1. PICK b \in Branches : authority' = [authority EXCEPT ![p].branch = b]
      BY <2>4
    <3>2. p \in Pairs
      BY <1>1 DEF CallLost, PairsAreIssued, NccTypeOK
    <3> QED
      BY <1>1, <2>4, <3>1, <3>2, BranchKeepsRoles
  <2> QED
    BY <2>1, <2>2, <2>3, <2>4 DEF CallLost, AppliedUnheard
<1>3. disturbed' \in BOOLEAN /\ refused' \in BOOLEAN
  BY <1>1 DEF CallLost, AppliedUnheard, NccTypeOK, CallRow
<1>4. GoTo(r, "idle") /\ UNCHANGED <<sealed, replaced>>
  BY DEF CallLost
<1> QED
  BY <1>1, <1>2, <1>3, <1>4, GoToStep

LEMMA AnswerStep ==
  ASSUME NccIInv, NEW r \in Requests, Answer(r)
  PROVE  NccIInv'
<1> USE DEF NccIInv
<1>1. /\ call[r] \in CallRow
      /\ call[r].pair \in issued
      /\ issued \in SUBSET Pairs
      /\ call[r].stage = "write" =>
           call[r].me \in Authority /\ call[r].me.role = RoleOf(call[r].pair)
  BY DEF Answer, PairsAreIssued, NccTypeOK, WriteHasTheRole, CallRow
<1>2. Cookie(r) \in Envelope \cup {NoPair}
  BY <1>1 DEF Cookie, Envelope
<1>3. Cookie(r) # NoPair =>
        /\ Cookie(r).pair \in issued
        /\ Cookie(r).authority.role = RoleOf(Cookie(r).pair)
  BY <1>1 DEF Cookie
<1>4. /\ NoCall \in CallRow
      /\ call' = [call EXCEPT ![r] = NoCall]
      /\ UNCHANGED <<issued, valid, stale, authority, refused>>
      /\ sealed' = Cookie(r) \/ sealed' = sealed
      /\ disturbed' \in BOOLEAN
      /\ replaced' \in SUBSET issued
  BY DEF Answer, ReplacedBy, EmsUnchanged, NoCall, CallRow, NccTypeOK,
     PairsAreIssued
<1>5. NccTypeOK'
  BY <1>2, <1>4 DEF NccTypeOK
<1>6. PairsAreIssued'
  BY <1>3, <1>4 DEF PairsAreIssued, NccTypeOK, NoCall
<1>7. WriteHasTheRole'
  BY <1>4 DEF WriteHasTheRole, NccTypeOK, NoCall, RoleOf
<1>8. RoleFitsTheTokens'
  BY <1>3, <1>4 DEF RoleFitsTheTokens, RoleOf
<1> QED
  BY <1>5, <1>6, <1>7, <1>8

LEMMA EmsStep ==
  ASSUME NccIInv, NEW p \in Pairs, AccessRunsOut(p) \/ EndedElsewhere(p)
  PROVE  NccIInv'
<1> USE DEF NccIInv
<1>1. UNCHANGED <<issued, authority, sealed, call, disturbed, refused, replaced>>
  BY DEF AccessRunsOut, EndedElsewhere, EndPair
<1>2. valid' \in SUBSET issued /\ stale' \in SUBSET valid'
  BY DEF AccessRunsOut, EndedElsewhere, EndPair, NccTypeOK
<1> QED
  BY <1>1, <1>2 DEF NccTypeOK, PairsAreIssued, WriteHasTheRole,
     RoleFitsTheTokens, RoleOf

\* The inductive invariant: what a cookie or a request holds was given out,
\* and a request that is about to write has asked with the pair it writes.
THEOREM NccIInvHolds == NccSpec => []NccIInv
<1>1. NccIInv /\ [NccNext]_nccVars => NccIInv'
  <2> SUFFICES ASSUME NccIInv, [NccNext]_nccVars
               PROVE  NccIInv'
    OBVIOUS
  <2>1. CASE NccNext
    BY <2>1, BeginStep, AcceptedStep, RefusalStep, RefreshStep, AskMeStep,
       CallLostStep, AnswerStep, EmsStep DEF NccNext
  <2>2. CASE UNCHANGED nccVars
    BY <2>2 DEF nccVars, NccIInv, NccTypeOK, PairsAreIssued, WriteHasTheRole,
       RoleFitsTheTokens, RoleOf
  <2> QED
    BY <2>1, <2>2
<1> QED
  BY NccInitIInv, <1>1, PTL DEF NccSpec

\* Type correctness of the cookie, the requests and the pairs of the EMS.
THEOREM NccTypes == NccSpec => []NccTypeOK
BY NccIInvHolds, PTL DEF NccIInv

\* However the requests of a browser overlap and whatever gets lost, a cookie
\* never joins the role of one token pair with another pair.
THEOREM CookieRoleFits == NccSpec => []RoleFitsTheTokens
BY NccIInvHolds, PTL DEF NccIInv

-----------------------------------------------------------------------------
(* A browser that makes one request at a time and loses none *)

Steady == ~disturbed /\ ~refused

\* The pairs that no sign-in has replaced in the cookie.
Unreplaced == valid \ replaced

\* A request has a pair of its own once the EMS was asked for one, and a
\* sign-in asks for nothing but its authority.
StagesAreReached ==
  \A r \in Requests :
    /\ call[r].stage \in {"first", "refresh"} => ~call[r].renewed
    /\ call[r].stage \in {"second", "me"} => call[r].renewed
    /\ call[r].stage # "idle" /\ call[r].kind = "login" =>
         call[r].stage \in {"me", "write"}

InCookie(p) == sealed = [pair |-> p, authority |-> authority[p]]

\* A live session p is the one request r works with, and what the cookie or
\* the request has on it is what the EMS has; or it waits in the cookie for
\* the sign-in r to replace it.
Carries(r, p) ==
  \/ call[r].kind = "login" /\ InCookie(p)
  \/ /\ call[r].pair = p
     /\ call[r].stage \in {"first", "refresh"} => InCookie(p)
     /\ call[r].stage = "write" => call[r].me = authority[p]
     /\ call[r].stage # "clear"

\* At any time a live session that no sign-in has replaced is in the cookie
\* or in the hands of the one request that is under way.
LiveIsCarried ==
  Steady =>
    /\ \A r, s \in Requests : UnderWay(r) /\ UnderWay(s) => r = s
    /\ Quiet => \A p \in Unreplaced : InCookie(p)
    /\ \A r \in Requests : UnderWay(r) => \A p \in Unreplaced : Carries(r, p)

LiveIInv == NccIInv /\ StagesAreReached /\ LiveIsCarried

\* A row that a step may leave behind, as far as pair p goes.
CarriesAfter(row, p) ==
  /\ row.stage = "idle" =>
       sealed' = [pair |-> p, authority |-> authority'[p]]
  /\ row.stage # "idle" =>
       \/ /\ row.kind = "login"
          /\ sealed' = [pair |-> p, authority |-> authority'[p]]
       \/ /\ row.pair = p
          /\ row.stage \in {"first", "refresh"} =>
               sealed' = [pair |-> p, authority |-> authority'[p]]
          /\ row.stage = "write" => row.me = authority'[p]
          /\ row.stage # "clear"

ReachedAfter(row) ==
  /\ row.stage \in {"first", "refresh"} => ~row.renewed
  /\ row.stage \in {"second", "me"} => row.renewed
  /\ row.stage # "idle" /\ row.kind = "login" => row.stage \in {"me", "write"}

\* A step of the only request.
LEMMA LoneStep ==
  ASSUME LiveIInv, NEW r \in Requests, NEW row, ReachedAfter(row),
         call' = [call EXCEPT ![r] = row],
         Steady' =>
           /\ \A s \in Requests \ {r} : ~UnderWay(s)
           /\ \A p \in Unreplaced' : CarriesAfter(row, p)
  PROVE  StagesAreReached' /\ LiveIsCarried'
<1> USE DEF LiveIInv, NccIInv, NccTypeOK
<1>1. call'[r] = row /\ \A s \in Requests \ {r} : call'[s] = call[s]
  OBVIOUS
<1>2. StagesAreReached'
  BY <1>1 DEF StagesAreReached, ReachedAfter
<1>3. ASSUME Steady'
      PROVE  /\ \A s \in Requests : UnderWay(s)' => s = r
             /\ UnderWay(r)' <=> row.stage # "idle"
             /\ Quiet' <=> row.stage = "idle"
  BY <1>1, <1>3 DEF UnderWay, Quiet
<1>4. ASSUME Steady', NEW p \in Unreplaced'
      PROVE  /\ Quiet' => InCookie(p)'
             /\ \A s \in Requests : UnderWay(s)' => Carries(s, p)'
  BY <1>1, <1>3, <1>4 DEF CarriesAfter, Carries, InCookie
<1>5. LiveIsCarried'
  BY <1>3, <1>4 DEF LiveIsCarried
<1> QED
  BY <1>2, <1>5

\* What is known in a steady step of a request under way.
LEMMA SteadyRequest ==
  ASSUME LiveIInv, Steady, NEW r \in Requests, UnderWay(r)
  PROVE  /\ \A s \in Requests \ {r} : ~UnderWay(s)
         /\ \A p \in Unreplaced : Carries(r, p)
         /\ call[r].kind # "login" => Unreplaced \subseteq {call[r].pair}
         /\ call[r] \in CallRow /\ call[r].pair \in Pairs
         /\ authority[call[r].pair] \in Authority
BY DEF LiveIInv, LiveIsCarried, Carries, NccIInv, NccTypeOK, PairsAreIssued,
       UnderWay

LEMMA BeginLive ==
  ASSUME LiveIInv, NEW r \in Requests,
         \/ \E q \in Pairs, a \in Authority : BeginLogin(r, q, a)
         \/ \E k \in Operations : BeginRequest(r, k)
  PROVE  StagesAreReached' /\ LiveIsCarried'
<1>1. ~UnderWay(r) /\ disturbed' = (disturbed \/ Overlaps(r)) /\ refused' = refused
  BY DEF BeginLogin, BeginRequest
<1>2. ASSUME Steady'
      PROVE  /\ \A s \in Requests \ {r} : ~UnderWay(s)
             /\ \A p \in Unreplaced : InCookie(p)
  BY <1>1, <1>2 DEF Steady, Overlaps, LiveIInv, LiveIsCarried, Quiet
<1>3. ASSUME NEW q \in Pairs, NEW a \in Authority, BeginLogin(r, q, a)
      PROVE  StagesAreReached' /\ LiveIsCarried'
  <2> DEFINE row == [kind |-> "login", stage |-> "me", renewed |-> TRUE,
                     pair |-> q, me |-> NoPair]
  <2>1. /\ call' = [call EXCEPT ![r] = row]
        /\ UNCHANGED <<sealed, replaced>>
        /\ valid' \subseteq valid \cup {q}
        /\ \A p \in valid : authority'[p] = authority[p]
    BY <1>3 DEF BeginLogin, Rotate, LiveIInv, NccIInv, NccTypeOK
  <2>2. ReachedAfter(row) /\ CarriesAfter(row, q)
    BY DEF ReachedAfter, CarriesAfter
  <2>3. ASSUME Steady', NEW p \in Unreplaced' PROVE CarriesAfter(row, p)
    <3>1. CASE p = q
      BY <2>2, <3>1
    <3>2. CASE p # q
      BY <1>2, <2>1, <2>3, <3>2 DEF Unreplaced, InCookie, CarriesAfter
    <3> QED
      BY <3>1, <3>2
  <2> HIDE DEF row
  <2> QED
    BY <1>2, <2>1, <2>2, <2>3, LoneStep
<1>4. ASSUME NEW k \in Operations, BeginRequest(r, k)
      PROVE  StagesAreReached' /\ LiveIsCarried'
  <2> DEFINE row == [kind |-> k, stage |-> "first", renewed |-> FALSE,
                     pair |-> sealed.pair, me |-> NoPair]
  <2>1. /\ UNCHANGED <<valid, authority, sealed, replaced>>
        /\ call' = [call EXCEPT ![r] = row]
    BY <1>4 DEF BeginRequest, EmsUnchanged
  <2>2. ReachedAfter(row)
    BY DEF ReachedAfter, Operations
  <2>3. Steady' => \A p \in Unreplaced' : CarriesAfter(row, p)
    BY <1>2, <2>1 DEF Unreplaced, InCookie, CarriesAfter
  <2> HIDE DEF row
  <2> QED
    BY <1>2, <2>1, <2>2, <2>3, LoneStep
<1> QED
  BY <1>3, <1>4

\* A request that gives up or clears the cookie: no live session is lost.
LEMMA EndLive ==
  ASSUME LiveIInv, NEW r \in Requests, UnderWay(r),
         NEW stage \in {"idle", "clear"}, GoTo(r, stage),
         Steady' => /\ Steady
                    /\ Unreplaced' \subseteq Unreplaced
                    /\ UNCHANGED <<authority, sealed>>
                    /\ \/ Unreplaced' = {}
                       \/ stage = "idle" /\ call[r].stage \in {"first", "refresh"},
         call[r].kind = "login" => stage = "idle"
  PROVE  StagesAreReached' /\ LiveIsCarried'
<1> DEFINE row == IF stage = "idle" THEN NoCall
                                    ELSE [call[r] EXCEPT !.stage = stage]
<1>1. call' = [call EXCEPT ![r] = row]
  BY DEF GoTo
<1>2. call[r] \in CallRow
  BY DEF LiveIInv, NccIInv, NccTypeOK
<1>3. row.stage = stage
  BY <1>2 DEF CallRow, NoCall
<1>4. ReachedAfter(row)
  BY <1>2, <1>3 DEF ReachedAfter, CallRow, NoCall
<1>5. ASSUME Steady', NEW p \in Unreplaced' PROVE CarriesAfter(row, p)
  <2>1. p \in Unreplaced /\ Carries(r, p) /\ stage = "idle"
        /\ call[r].stage \in {"first", "refresh"}
    BY <1>5, SteadyRequest
  <2> QED
    BY <1>3, <1>5, <2>1 DEF CarriesAfter, Carries, InCookie
<1> HIDE DEF row
<1> QED
  BY <1>1, <1>4, <1>5, SteadyRequest, LoneStep

LEMMA AcceptedLive ==
  ASSUME LiveIInv, NEW r \in Requests, Accepted(r)
  PROVE  StagesAreReached' /\ LiveIsCarried'
<1> DEFINE p == call[r].pair
<1>1. /\ call[r].stage \in {"first", "second"} /\ UnderWay(r)
      /\ UNCHANGED <<sealed, disturbed, refused, replaced>>
      /\ p \in valid
  BY DEF Accepted, UnderWay, Works
<1>2. /\ call[r] \in CallRow /\ p \in Pairs /\ authority[p] \in Authority
      /\ valid \subseteq issued
      /\ authority \in [Pairs -> Authority \cup {NoPair}]
      /\ call[r].stage = "second" => call[r].renewed
      /\ call[r].kind # "login"
  BY <1>1 DEF LiveIInv, NccIInv, NccTypeOK, PairsAreIssued, StagesAreReached
<1>3. ASSUME Steady'
      PROVE  /\ Steady
             /\ \A s \in Requests \ {r} : ~UnderWay(s)
             /\ Unreplaced \subseteq {p}
  BY <1>1, <1>2, <1>3, SteadyRequest DEF Steady
<1>4. CASE EmsUnchanged /\ GoTo(r, IF call[r].stage = "first" THEN "idle" ELSE "me")
  <2>1. CASE call[r].stage = "first"
    <3>1. GoTo(r, "idle")
      BY <1>4, <2>1
    <3>2. Steady' => /\ Steady /\ Unreplaced' \subseteq Unreplaced
                     /\ UNCHANGED <<authority, sealed>>
      BY <1>1, <1>3, <1>4 DEF EmsUnchanged, Unreplaced
    <3> QED
      BY <1>1, <1>2, <2>1, <3>1, <3>2, EndLive
  <2>2. CASE call[r].stage # "first"
    <3> DEFINE row == [call[r] EXCEPT !.stage = "me"]
    <3>1. EmsUnchanged /\ call' = [call EXCEPT ![r] = row]
      BY <1>4, <2>2 DEF GoTo
    <3>2. row.stage = "me" /\ row.pair = p /\ row.renewed
      BY <1>1, <1>2, <2>2 DEF CallRow
    <3>3. ReachedAfter(row) /\ CarriesAfter(row, p)
      BY <3>2 DEF ReachedAfter, CarriesAfter
    <3>4. Steady' => Unreplaced' \subseteq {p}
      BY <1>1, <1>3, <3>1 DEF EmsUnchanged, Unreplaced
    <3> HIDE DEF row
    <3> QED
      BY <1>3, <3>1, <3>3, <3>4, LoneStep
  <2> QED
    BY <2>1, <2>2
<1>5. CASE /\ call' = [call EXCEPT ![r].stage = "write", ![r].me = authority'[p]]
           /\ UNCHANGED <<issued, valid, stale>>
  <2> DEFINE me == authority'[p]
  <2> DEFINE row == [call[r] EXCEPT !.stage = "write", !.me = me]
  <2>1. call' = [call EXCEPT ![r] = row]
    BY <1>5
  <2> HIDE DEF me
  <2>2. row.stage = "write" /\ row.pair = p /\ row.me = me
    BY <1>2 DEF CallRow
  <2>3. ReachedAfter(row)
    BY <2>2 DEF ReachedAfter
  <2>4. CarriesAfter(row, p)
    BY <2>2 DEF CarriesAfter, me
  <2>5. Steady' => Unreplaced' \subseteq {p}
    BY <1>1, <1>3, <1>5 DEF Unreplaced
  <2> HIDE DEF row
  <2> QED
    BY <1>3, <2>1, <2>3, <2>4, <2>5, LoneStep
<1>6. CASE /\ call' = [call EXCEPT ![r].stage = "write", ![r].me = authority[p]]
           /\ EmsUnchanged
  <2>1. authority' = authority
    BY <1>6 DEF EmsUnchanged
  <2> QED
    BY <1>5, <1>6, <2>1 DEF EmsUnchanged
<1>7. CASE \E q \in Pairs, role \in Roles :
             /\ Rotate(p, q, [authority[p] EXCEPT !.role = role])
             /\ call' = [call EXCEPT ![r].stage = "me", ![r].pair = q,
                                     ![r].renewed = TRUE]
  <2>1. PICK q \in Pairs, role \in Roles :
          /\ Rotate(p, q, [authority[p] EXCEPT !.role = role])
          /\ call' = [call EXCEPT ![r].stage = "me", ![r].pair = q,
                                  ![r].renewed = TRUE]
    BY <1>7
  <2> DEFINE row == [call[r] EXCEPT !.stage = "me", !.pair = q, !.renewed = TRUE]
  <2>2. call' = [call EXCEPT ![r] = row]
    BY <2>1
  <2>3. row.stage = "me" /\ row.pair = q /\ row.renewed
    BY <1>2 DEF CallRow
  <2>4. ReachedAfter(row) /\ CarriesAfter(row, q)
    BY <2>3 DEF ReachedAfter, CarriesAfter
  <2>5. Steady' => Unreplaced' \subseteq {q}
    BY <1>1, <1>3, <2>1 DEF Rotate, Unreplaced
  <2> HIDE DEF row
  <2> QED
    BY <1>3, <2>2, <2>4, <2>5, LoneStep
<1>8. CASE GoTo(r, "clear") /\ EndPair(p)
  <2>1. Steady' => /\ Steady /\ Unreplaced' = {}
                   /\ UNCHANGED <<authority, sealed>>
    BY <1>1, <1>3, <1>8 DEF EndPair, Unreplaced
  <2> QED
    BY <1>1, <1>2, <1>8, <2>1, EndLive
<1> QED
  BY <1>4, <1>5, <1>6, <1>7, <1>8 DEF Accepted

LEMMA RefusalLive ==
  ASSUME LiveIInv, NEW r \in Requests,
         Unauthorized(r) \/ Denied(r) \/ RefreshRefused(r) \/ MeRefused(r)
  PROVE  StagesAreReached' /\ LiveIsCarried'
<1>1. /\ UnderWay(r) /\ UNCHANGED <<sealed, disturbed, replaced>>
      /\ Steady' => Steady
  <2>1. UnderWay(r) /\ UNCHANGED <<sealed, disturbed, replaced>>
    BY DEF Unauthorized, Denied, RefreshRefused, MeRefused, UnderWay
  <2>2. refused' = (refused \/ call[r].renewed) \/ refused' = refused
        \/ refused' = TRUE
    BY DEF Unauthorized, Denied, RefreshRefused, MeRefused
  <2>3. ~refused' => ~refused
    BY <2>2, Zenon
  <2> QED
    BY <2>1, <2>3 DEF Steady
<1>2. /\ call[r].stage \in {"second", "me"} => call[r].renewed
      /\ call[r] \in CallRow
      /\ call[r].stage \in {"first", "second", "refresh"} => call[r].kind # "login"
  BY DEF LiveIInv, StagesAreReached, NccIInv, NccTypeOK
<1>3. CASE Unauthorized(r) /\ call[r].stage = "first"
  <2> DEFINE row == [call[r] EXCEPT !.stage = "refresh"]
  <2>1. EmsUnchanged /\ call' = [call EXCEPT ![r] = row]
    BY <1>3 DEF Unauthorized, AfterUnauthorized, GoTo
  <2>2. /\ row.stage = "refresh" /\ row.pair = call[r].pair
        /\ row.renewed = call[r].renewed /\ ~call[r].renewed
        /\ row.kind = call[r].kind /\ call[r].kind # "login"
    BY <1>2, <1>3 DEF CallRow, LiveIInv, StagesAreReached
  <2>3. ReachedAfter(row)
    BY <2>2 DEF ReachedAfter
  <2>4. ASSUME Steady', NEW p \in Unreplaced' PROVE CarriesAfter(row, p)
    <3>1. Carries(r, p)
      BY <1>1, <2>1, <2>4, SteadyRequest DEF EmsUnchanged, Unreplaced
    <3> QED
      BY <1>1, <1>3, <2>1, <2>2, <3>1
         DEF Carries, CarriesAfter, InCookie, EmsUnchanged
  <2> HIDE DEF row
  <2> QED
    BY <1>1, <2>1, <2>3, <2>4, SteadyRequest, LoneStep
<1>4. CASE Unauthorized(r) /\ call[r].stage # "first"
  <2>1. ~Steady' /\ GoTo(r, AfterRefusal(r)) /\ call[r].kind # "login"
    BY <1>2, <1>4 DEF Unauthorized, AfterUnauthorized, Steady
  <2> QED
    BY <1>1, <2>1, EndLive DEF AfterRefusal
<1>5. CASE Denied(r)
  <2>1. /\ GoTo(r, "idle") /\ EmsUnchanged
        /\ Steady' => call[r].stage = "first"
    BY <1>2, <1>5 DEF Denied, Steady
  <2>2. UNCHANGED <<Unreplaced, authority>>
    BY <1>1, <2>1 DEF EmsUnchanged, Unreplaced
  <2> QED
    BY <1>1, <2>1, <2>2, EndLive
<1>6. CASE RefreshRefused(r)
  <2>1. /\ GoTo(r, AfterRefusal(r)) /\ EmsUnchanged
        /\ call[r].pair \notin valid
        /\ call[r].kind # "login"
    BY <1>2, <1>6 DEF RefreshRefused
  <2>2. Steady' => Unreplaced' = {}
    BY <1>1, <2>1, SteadyRequest DEF EmsUnchanged, Unreplaced
  <2>3. UNCHANGED <<Unreplaced, authority>>
    BY <1>1, <2>1 DEF EmsUnchanged, Unreplaced
  <2> QED
    BY <1>1, <2>1, <2>2, <2>3, EndLive DEF AfterRefusal
<1>7. CASE MeRefused(r)
  BY <1>1, <1>7, EndLive DEF MeRefused, Steady
<1> QED
  BY <1>3, <1>4, <1>5, <1>6, <1>7

LEMMA RefreshLive ==
  ASSUME LiveIInv, NEW r \in Requests, NEW q \in Pairs, Refresh(r, q)
  PROVE  StagesAreReached' /\ LiveIsCarried'
<1> DEFINE row == [call[r] EXCEPT !.stage = "second", !.pair = q, !.renewed = TRUE]
<1>1. /\ UnderWay(r) /\ UNCHANGED <<disturbed, refused, replaced>>
      /\ call' = [call EXCEPT ![r] = row]
      /\ call[r] \in CallRow /\ call[r].kind # "login"
  BY DEF Refresh, UnderWay, LiveIInv, NccIInv, NccTypeOK, StagesAreReached
<1>2. /\ row.stage = "second" /\ row.pair = q /\ row.renewed
      /\ row.kind = call[r].kind
  BY <1>1 DEF CallRow
<1>3. ReachedAfter(row) /\ CarriesAfter(row, q)
  BY <1>1, <1>2 DEF ReachedAfter, CarriesAfter
<1>4. Steady' => /\ \A s \in Requests \ {r} : ~UnderWay(s)
                 /\ Unreplaced' \subseteq {q}
  BY <1>1, SteadyRequest DEF Steady, Refresh, Rotate, Unreplaced
<1> HIDE DEF row
<1> QED
  BY <1>1, <1>3, <1>4, LoneStep

LEMMA AskMeLive ==
  ASSUME LiveIInv, NEW r \in Requests, AskMe(r)
  PROVE  StagesAreReached' /\ LiveIsCarried'
<1> DEFINE p == call[r].pair
<1> DEFINE row == [call[r] EXCEPT !.stage = "write", !.me = authority[p]]
<1>1. /\ UnderWay(r)
      /\ UNCHANGED <<disturbed, refused, replaced, valid, authority, sealed>>
      /\ call[r].stage = "me"
      /\ call' = [call EXCEPT ![r] = row]
      /\ call[r] \in CallRow
  BY DEF AskMe, FreshAuthority, EmsUnchanged, UnderWay, LiveIInv, NccIInv,
     NccTypeOK
<1>2. /\ row.stage = "write" /\ row.pair = p /\ row.me = authority[p]
      /\ row.kind = call[r].kind
  BY <1>1 DEF CallRow
<1>3. ReachedAfter(row)
  BY <1>1, <1>2 DEF ReachedAfter
<1>4. Steady' => /\ \A s \in Requests \ {r} : ~UnderWay(s)
                 /\ \A s \in Unreplaced' : Carries(r, s)
  BY <1>1, SteadyRequest DEF Steady, Unreplaced
<1>5. ASSUME Steady', NEW s \in Unreplaced' PROVE CarriesAfter(row, s)
  BY <1>1, <1>2, <1>4, <1>5 DEF Carries, CarriesAfter, InCookie
<1> HIDE DEF row
<1> QED
  BY <1>1, <1>3, <1>4, <1>5, LoneStep

LEMMA CallLostLive ==
  ASSUME LiveIInv, NEW r \in Requests, CallLost(r)
  PROVE  StagesAreReached' /\ LiveIsCarried'
<1>1. /\ call[r].stage \in {"first", "second", "refresh", "me"}
      /\ UnderWay(r) /\ GoTo(r, "idle")
      /\ UNCHANGED <<sealed, refused, replaced>>
  BY DEF CallLost, UnderWay
<1>2. call[r].stage \in {"second", "me"} => call[r].renewed
  BY DEF LiveIInv, StagesAreReached
<1>3. call[r] \in CallRow
  BY DEF LiveIInv, NccIInv, NccTypeOK
<1>4. \/ EmsUnchanged /\ disturbed' = (disturbed \/ call[r].renewed)
      \/ disturbed' = TRUE
      \/ EndPair(call[r].pair) /\ disturbed' = (disturbed \/ call[r].renewed)
  BY DEF CallLost, AppliedUnheard
<1>5. ~disturbed' =>
        /\ ~disturbed /\ ~call[r].renewed
        /\ EmsUnchanged \/ EndPair(call[r].pair)
  BY <1>4, Zenon
<1>6. Steady' =>
        /\ Steady /\ Unreplaced' \subseteq Unreplaced /\ UNCHANGED authority
        /\ call[r].stage \in {"first", "refresh"}
  BY <1>1, <1>2, <1>5 DEF Steady, EmsUnchanged, EndPair, Unreplaced
<1> QED
  BY <1>1, <1>6, EndLive

LEMMA AnswerLive ==
  ASSUME LiveIInv, NEW r \in Requests, Answer(r)
  PROVE  StagesAreReached' /\ LiveIsCarried'
<1>1. /\ call[r].stage \in {"write", "clear"} /\ UnderWay(r)
      /\ call' = [call EXCEPT ![r] = NoCall]
      /\ UNCHANGED <<valid, authority, refused>>
      /\ Steady' =>
           /\ Steady /\ sealed' = Cookie(r)
           /\ \/ replaced' = replaced \cup ReplacedBy(r)
              \/ replaced' = replaced /\ sealed' = sealed
  <2>1. /\ call[r].stage \in {"write", "clear"} /\ UnderWay(r)
        /\ call' = [call EXCEPT ![r] = NoCall]
        /\ UNCHANGED <<valid, authority, refused>>
    BY DEF Answer, UnderWay, EmsUnchanged
  <2>2. \/ /\ sealed' = Cookie(r) /\ disturbed' = disturbed
           /\ replaced' = replaced \cup ReplacedBy(r)
        \/ /\ sealed' = sealed /\ disturbed' = (disturbed \/ Cookie(r) # sealed)
           /\ replaced' = replaced
    BY DEF Answer
  <2>3. ~disturbed' =>
          /\ ~disturbed /\ sealed' = Cookie(r)
          /\ \/ replaced' = replaced \cup ReplacedBy(r)
             \/ replaced' = replaced /\ sealed' = sealed
    BY <2>2, Zenon
  <2> QED
    BY <2>1, <2>3 DEF Steady
<1>2. ReachedAfter(NoCall) /\ NoCall.stage = "idle"
  BY DEF ReachedAfter, NoCall
<1>3. ASSUME Steady', NEW p \in Unreplaced' PROVE CarriesAfter(NoCall, p)
  <2>1. Unreplaced' \subseteq Unreplaced
    BY <1>1, <1>3 DEF Unreplaced
  <2>2. Carries(r, p)
    BY <1>1, <1>3, <2>1, SteadyRequest
  <2>3. CASE call[r].kind = "login" /\ InCookie(p)
    <3>1. sealed.pair = p /\ sealed # NoPair
      <4>1. p \in Pairs /\ authority[p] \in Authority
        BY <1>3, <2>1 DEF Unreplaced, LiveIInv, NccIInv, NccTypeOK, PairsAreIssued
      <4> QED
        BY <2>3, <4>1 DEF InCookie, Envelope
    <3>2. p \notin replaced'
      BY <1>3 DEF Unreplaced
    <3>3. sealed' = sealed
      BY <1>1, <1>3, <2>3, <3>1, <3>2 DEF ReplacedBy
    <3> QED
      BY <1>1, <1>2, <2>3, <3>3 DEF CarriesAfter, InCookie
  <2>4. CASE ~(call[r].kind = "login" /\ InCookie(p))
    <3>1. Cookie(r) = [pair |-> p, authority |-> authority[p]]
      BY <1>1, <2>2, <2>4 DEF Carries, Cookie
    <3> QED
      BY <1>1, <1>2, <1>3, <3>1 DEF CarriesAfter
  <2> QED
    BY <2>3, <2>4
<1> QED
  BY <1>1, <1>2, <1>3, SteadyRequest, LoneStep

LEMMA EmsLive ==
  ASSUME LiveIInv, NEW p \in Pairs, AccessRunsOut(p) \/ EndedElsewhere(p)
  PROVE  StagesAreReached' /\ LiveIsCarried'
<1>1. UNCHANGED <<authority, sealed, call, disturbed, refused>>
  BY DEF AccessRunsOut, EndedElsewhere, EndPair
<1>2. Unreplaced' \subseteq Unreplaced
  BY DEF AccessRunsOut, EndedElsewhere, EndPair, Unreplaced
<1> QED
  BY <1>1, <1>2 DEF LiveIInv, StagesAreReached, LiveIsCarried, Steady, Quiet,
     UnderWay, InCookie, Carries

\* For a browser that makes one request at a time, loses none and is refused
\* nothing with a new pair, a session that is live at the EMS is always in
\* the cookie or in the hands of the request under way, until a sign-in puts
\* another one in its place.
THEOREM LiveIInvHolds == NccSpec => []LiveIInv
<1>1. NccInit => LiveIInv
  <2>1. NccInit => NccIInv
    BY NccInitIInv
  <2>2. NccInit => StagesAreReached /\ LiveIsCarried
    BY DEF NccInit, StagesAreReached, LiveIsCarried, NoCall, UnderWay, Unreplaced
  <2> QED
    BY <2>1, <2>2 DEF LiveIInv
<1>2. LiveIInv /\ NccIInv' /\ [NccNext]_nccVars => LiveIInv'
  <2> SUFFICES ASSUME LiveIInv, [NccNext]_nccVars
               PROVE  StagesAreReached' /\ LiveIsCarried'
    BY DEF LiveIInv
  <2>1. CASE NccNext
    BY <2>1, BeginLive, AcceptedLive, RefusalLive, RefreshLive, AskMeLive,
       CallLostLive, AnswerLive, EmsLive DEF NccNext
  <2>2. CASE UNCHANGED nccVars
    BY <2>2 DEF nccVars, LiveIInv, StagesAreReached, LiveIsCarried, Steady,
       Quiet, UnderWay, InCookie, Carries, Unreplaced
  <2> QED
    BY <2>1, <2>2
<1> QED
  BY <1>1, <1>2, NccIInvHolds, PTL DEF NccSpec

\* Between the requests of such a browser no session is left behind at the
\* EMS but those it signed in over, and none is forgotten by the cookie.
THEOREM NoSessionIsLost == NccSpec => []NoSessionIsLeftBehind
<1>1. LiveIInv => NoSessionIsLeftBehind
  BY DEF LiveIInv, LiveIsCarried, Steady, InCookie, Unreplaced, NoSessionIsLeftBehind
<1> QED
  BY <1>1, LiveIInvHolds, PTL
=============================================================================
