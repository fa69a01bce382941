---------------------------- MODULE SessionLaunch ----------------------------
(***************************************************************************)
(* Sessions in the database and the Moodle launches made from them: the    *)
(* session repository with create_auth_session and revoke_auth_session of  *)
(* 002 and the authority functions of 001, sign in, switch of role and     *)
(* logout of auth.ts, and the launch tickets of 028 with their exchange by *)
(* launch.php.                                                             *)
(*                                                                         *)
(* A request is a job: it reads its cookie when it starts, calls the       *)
(* database in several calls between which anything may happen, and sets   *)
(* the cookie with its answer.  An account and its role grant are changed  *)
(* by administrators; the repository only has functions that read them.    *)
(* The two launch functions are transactions that read them and the        *)
(* session in several statements, none of which locks what it reads: each  *)
(* statement sees what has been committed by then.                         *)
(***************************************************************************)
EXTENDS Naturals

CONSTANTS
  Tokens,   \* session tokens, one per session
  Users,
  Browsers,
  Jobs,     \* logout and role switch requests
  Tickets,
  Exchanges, \* calls of launch.php to exchange a ticket
  Absent    \* no session, no cookie, no ticket

VARIABLES
  active,     \* users with an active account
  granted,    \* users with an effective role grant
  session,    \* auth_sessions, found by token
  cookie,     \* the token a browser holds
  job,        \* where a request is
  ended,      \* tokens whose end was answered with success
  ticket,     \* moodle_native_launch_tickets
  exchange,   \* where a call of launch.php is with which ticket
  logins      \* how often Moodle logged a user in through a ticket

sessionVars ==
  <<active, granted, session, cookie, job, ended, ticket, exchange,
    logins>>

SessionRow == [user : Users, revoked : BOOLEAN, expired : BOOLEAN]
\* A row that is not made yet belongs to a create that is still reading.
TicketRow ==
  [session : Tokens, made : BOOLEAN, spent : BOOLEAN, expired : BOOLEAN]
ASSUME SessionAssumption ==
  Absent \notin Tokens \cup Browsers \cup SessionRow \cup TicketRow

JobKinds == {"none", "logout", "switch"}
JobStages == {"idle", "create", "revoke", "done", "error"}
JobRow ==
  [kind : JobKinds, stage : JobStages, browser : Browsers \cup {Absent},
   token : Tokens \cup {Absent}, next : Tokens \cup {Absent}]
NoJob ==
  [kind |-> "none", stage |-> "idle", browser |-> Absent, token |-> Absent,
   next |-> Absent]

\* "late": the call began after the end of the session was answered.
ExchangeStages == {"idle", "waiting", "checked", "allowed", "answered", "over"}
ExchangeRow ==
  [ticket : Tickets \cup {Absent}, stage : ExchangeStages, late : BOOLEAN]
NoExchange(st) == [ticket |-> Absent, stage |-> st, late |-> FALSE]

SessionTypeOK ==
  /\ active \in SUBSET Users
  /\ granted \in SUBSET Users
  /\ session \in [Tokens -> SessionRow \cup {Absent}]
  /\ cookie \in [Browsers -> Tokens \cup {Absent}]
  /\ job \in [Jobs -> JobRow]
  /\ ended \in SUBSET Tokens
  /\ ticket \in [Tickets -> TicketRow \cup {Absent}]
  /\ exchange \in [Exchanges -> ExchangeRow]
  /\ logins \in [Tickets -> Nat]

SessionInit ==
  /\ active = Users
  /\ granted = Users
  /\ session = [t \in Tokens |-> Absent]
  /\ cookie = [b \in Browsers |-> Absent]
  /\ job = [j \in Jobs |-> NoJob]
  /\ ended = {}
  /\ ticket = [k \in Tickets |-> Absent]
  /\ exchange = [x \in Exchanges |-> NoExchange("idle")]
  /\ logins = [k \in Tickets |-> 0]

Effective == active \cap granted

\* resolve_auth_session_authority: what every request asks about its token.
Resolves(t) ==
  /\ t # Absent
  /\ session[t] # Absent
  /\ ~session[t].revoked
  /\ ~session[t].expired
  /\ session[t].user \in Effective

NewSession(u) == [user |-> u, revoked |-> FALSE, expired |-> FALSE]

-----------------------------------------------------------------------------
(* Sign in, logout, role switch *)

\* The session is made; the answer with the cookie may be lost.
SignIn(b, u, t) ==
  /\ session[t] = Absent
  /\ u \in Effective
  /\ session' = [session EXCEPT ![t] = NewSession(u)]
  /\ \/ cookie' = [cookie EXCEPT ![b] = t]
     \/ UNCHANGED cookie
  /\ UNCHANGED <<active, granted, job, ended, ticket, exchange, logins>>

BeginLogout(j, b) ==
  /\ job[j].stage = "idle"
  /\ cookie[b] # Absent
  /\ job' = [job EXCEPT
       ![j] = [kind |-> "logout", stage |-> "revoke", browser |-> b,
               token |-> cookie[b], next |-> Absent]]
  /\ UNCHANGED <<active, granted, session, cookie, ended, ticket, exchange,
                 logins>>

BeginSwitch(j, b) ==
  /\ job[j].stage = "idle"
  /\ Resolves(cookie[b])
  /\ job' = [job EXCEPT
       ![j] = [kind |-> "switch", stage |-> "create", browser |-> b,
               token |-> cookie[b], next |-> Absent]]
  /\ UNCHANGED <<active, granted, session, cookie, ended, ticket, exchange,
                 logins>>

\* The authority for the other role is resolved and a session made for it;
\* whether the first session still stands is not asked again.
CreateNext(j, t) ==
  LET u == session[job[j].token].user
  IN  /\ job[j].stage = "create"
      /\ session[t] = Absent
      /\ u \in Effective
      /\ session' = [session EXCEPT ![t] = NewSession(u)]
      /\ job' = [job EXCEPT ![j].next = t, ![j].stage = "revoke"]
      /\ UNCHANGED <<active, granted, cookie, ended, ticket, exchange, logins>>

\* No authority, or the database cannot be reached.
CreateNextFails(j) ==
  /\ job[j].stage = "create"
  /\ job' = [job EXCEPT ![j] = NoJob]
  /\ UNCHANGED <<active, granted, session, cookie, ended, ticket, exchange,
                 logins>>

\* Variant with a bug: a session that no longer has authority is left alone.
RevokeResolving(t) ==
  session' = [session EXCEPT ![t].revoked = @ \/ Resolves(t)]
RevokeRow(t) == session' = [session EXCEPT ![t].revoked = TRUE]

\* revoke_auth_session_with_evidence; a session already revoked is no error.
Revoke(j) ==
  /\ job[j].stage = "revoke"
  /\ RevokeRow(job[j].token)
  /\ job' = [job EXCEPT ![j].stage = "done"]
  /\ UNCHANGED <<active, granted, cookie, ended, ticket, exchange, logins>>

\* The call fails before the database, or its answer is lost after it.
RevokeFails(j) ==
  /\ job[j].stage = "revoke"
  /\ \/ UNCHANGED session
     \/ RevokeRow(job[j].token)
  /\ job' = [job EXCEPT ![j].stage = "error"]
  /\ UNCHANGED <<active, granted, cookie, ended, ticket, exchange, logins>>

\* A failed logout is answered 503 and leaves the cookie; a failed switch
\* first tries to revoke the session it made.
AnswerError(j) ==
  /\ job[j].stage = "error"
  /\ \/ UNCHANGED session
     \/ job[j].kind = "switch" /\ RevokeRow(job[j].next)
  /\ job' = [job EXCEPT ![j] = NoJob]
  /\ UNCHANGED <<active, granted, cookie, ended, ticket, exchange, logins>>

\* The answer reaches the browser and sets its cookie, whatever the browser
\* holds by now, or is lost on its way.
AnswerDone(j) ==
  /\ job[j].stage = "done"
  /\ \/ cookie' = [cookie EXCEPT ![job[j].browser] = job[j].next]
     \/ UNCHANGED cookie
  /\ ended' = ended \cup {job[j].token}
  /\ job' = [job EXCEPT ![j] = NoJob]
  /\ UNCHANGED <<active, granted, session, ticket, exchange, logins>>

-----------------------------------------------------------------------------
(* Launches *)

\* What the first read of both functions asks of a session; the times are
\* compared with now(), which is when the transaction began.
Stands(t) == ~session[t].revoked /\ session[t].user \in active

\* What the last read asks: the account and the grant in one snapshot.  The
\* grant's scope is not kept: a course outside it is one of the ways in which
\* LaunchFails and ExchangeFails happen.
Entitled(t) == session[t].user \in Effective

\* nile_create_moodle_launch, for the row of a session that has resolved:
\* its first read; the rest of its reads and the insert.
BeginLaunch(t, k) ==
  /\ ticket[k] = Absent
  /\ session[t] # Absent
  /\ ~session[t].expired
  /\ Stands(t)
  /\ ticket' = [ticket EXCEPT
       ![k] = [session |-> t, made |-> FALSE, spent |-> FALSE,
               expired |-> FALSE]]
  /\ UNCHANGED <<active, granted, session, cookie, job, ended, exchange,
                 logins>>

MakeLaunch(k) ==
  /\ ticket[k] # Absent
  /\ ~ticket[k].made
  /\ Entitled(ticket[k].session)
  /\ ticket' = [ticket EXCEPT ![k].made = TRUE]
  /\ UNCHANGED <<active, granted, session, cookie, job, ended, exchange,
                 logins>>

LaunchFails(k) ==
  /\ ticket[k] # Absent
  /\ ~ticket[k].made
  /\ ticket' = [ticket EXCEPT ![k] = Absent]
  /\ UNCHANGED <<active, granted, session, cookie, job, ended, exchange,
                 logins>>

ExpireTicket(k) ==
  /\ ticket[k] # Absent
  /\ ticket[k].made
  /\ ticket' = [ticket EXCEPT ![k].expired = TRUE]
  /\ UNCHANGED <<active, granted, session, cookie, job, ended, exchange,
                 logins>>

\* nile_consume_moodle_launch begins: from here on it is clear whether the
\* ticket and its session have expired, and nothing else is.
BeginExchange(x, k) ==
  /\ exchange[x].stage = "idle"
  /\ ticket[k] # Absent
  /\ ticket[k].made
  /\ ~ticket[k].expired
  /\ ~session[ticket[k].session].expired
  /\ exchange' = [exchange EXCEPT
       ![x] = [ticket |-> k, stage |-> "waiting",
               late |-> ticket[k].session \in ended]]
  /\ UNCHANGED <<active, granted, session, cookie, job, ended, ticket, logins>>

LocksTicket(y, k) ==
  exchange[y].ticket = k /\ exchange[y].stage \in {"checked", "allowed"}

\* Variant with a bug: the session of the ticket is not looked at again.
TicketGoodAlone(k) == ~ticket[k].spent
TicketGood(k) == ~ticket[k].spent /\ Stands(ticket[k].session)

\* The row of the ticket is locked, which is all this function locks, and
\* its session is read.
CheckSession(x) ==
  LET k == exchange[x].ticket
  IN  /\ exchange[x].stage = "waiting"
      /\ \A y \in Exchanges : ~LocksTicket(y, k)
      /\ TicketGood(k)
      /\ exchange' = [exchange EXCEPT ![x].stage = "checked"]
      /\ UNCHANGED <<active, granted, session, cookie, job, ended, ticket,
                     logins>>

\* The grant and the authority are read; whether the session still stands is
\* not asked again.
CheckAuthority(x) ==
  /\ exchange[x].stage = "checked"
  /\ Entitled(ticket[exchange[x].ticket].session)
  /\ exchange' = [exchange EXCEPT ![x].stage = "allowed"]
  /\ UNCHANGED <<active, granted, session, cookie, job, ended, ticket, logins>>

\* consumed_at is set and the transaction commits; the answer may be lost.
ConsumeLaunch(x) ==
  /\ exchange[x].stage = "allowed"
  /\ ticket' = [ticket EXCEPT ![exchange[x].ticket].spent = TRUE]
  /\ \/ exchange' = [exchange EXCEPT ![x].stage = "answered"]
     \/ exchange' = [exchange EXCEPT ![x] = NoExchange("over")]
  /\ UNCHANGED <<active, granted, session, cookie, job, ended, logins>>

\* A read finds nothing, or the call is cut off: the transaction rolls back.
ExchangeFails(x) ==
  /\ exchange[x].stage \in {"waiting", "checked", "allowed"}
  /\ exchange' = [exchange EXCEPT ![x] = NoExchange("over")]
  /\ UNCHANGED <<active, granted, session, cookie, job, ended, ticket, logins>>

\* launch.php logs the user in, or stops with an exception.
CompleteLogin(x) ==
  /\ exchange[x].stage = "answered"
  /\ exchange' = [exchange EXCEPT ![x] = NoExchange("over")]
  /\ \/ logins' = [logins EXCEPT ![exchange[x].ticket] = @ + 1]
     \/ UNCHANGED logins
  /\ UNCHANGED <<active, granted, session, cookie, job, ended, ticket>>

-----------------------------------------------------------------------------
(* Time and administrators *)

ExpireSession(t) ==
  /\ session[t] # Absent
  /\ session' = [session EXCEPT ![t].expired = TRUE]
  /\ UNCHANGED <<active, granted, cookie, job, ended, ticket, exchange,
                 logins>>

Toggled(S, u) == IF u \in S THEN S \ {u} ELSE S \cup {u}

ChangeAccount(u) ==
  /\ active' = Toggled(active, u)
  /\ UNCHANGED <<granted, session, cookie, job, ended, ticket, exchange,
                 logins>>

ChangeGrant(u) ==
  /\ granted' = Toggled(granted, u)
  /\ UNCHANGED <<active, session, cookie, job, ended, ticket, exchange,
                 logins>>

SessionNext ==
  \/ \E b \in Browsers, u \in Users, t \in Tokens : SignIn(b, u, t)
  \/ \E j \in Jobs :
       \/ \E b \in Browsers : BeginLogout(j, b) \/ BeginSwitch(j, b)
       \/ \E t \in Tokens : CreateNext(j, t)
       \/ CreateNextFails(j)
       \/ Revoke(j)
       \/ RevokeFails(j)
       \/ AnswerError(j)
       \/ AnswerDone(j)
  \/ \E k \in Tickets :
       \/ \E t \in Tokens : BeginLaunch(t, k)
       \/ MakeLaunch(k)
       \/ LaunchFails(k)
       \/ ExpireTicket(k)
  \/ \E x \in Exchanges :
       \/ \E k \in Tickets : BeginExchange(x, k)
       \/ CheckSession(x)
       \/ CheckAuthority(x)
       \/ ConsumeLaunch(x)
       \/ ExchangeFails(x)
       \/ CompleteLogin(x)
  \/ \E t \in Tokens : ExpireSession(t)
  \/ \E u \in Users : ChangeAccount(u) \/ ChangeGrant(u)

SessionSpec == SessionInit /\ [][SessionNext]_sessionVars

-----------------------------------------------------------------------------
(* Safety *)

\* A token whose logout was answered with success, or that a role switch has
\* replaced, never gives access again, even when the account was without
\* authority at the moment of the logout and gets it back.
EndedIsFinal == \A t \in ended : session[t] # Absent /\ session[t].revoked

\* A ticket logs its user into Moodle at most once, however many exchanges of
\* it overlap; and none that began after the end of its session was answered
\* is granted, even when the ticket was made by a create that overlapped the
\* logout.  One that was under way by then may still be.
TicketDiesWithItsSession ==
  /\ \A k \in Tickets : logins[k] <= 1
  /\ \A x \in Exchanges : exchange[x].stage = "answered" => ~exchange[x].late
=============================================================================
