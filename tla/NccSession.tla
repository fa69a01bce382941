----------------------------- MODULE NccSession -----------------------------
(***************************************************************************)
(* The session of a staff member with the NCC EMS, as nccAuthSession.ts    *)
(* keeps it: the token pair and what /auth/me said of it are sealed into a *)
(* cookie, and the server keeps nothing.  A request opens the cookie it    *)
(* was sent, makes up to four calls to the EMS, and its answer may set the *)
(* cookie; requests of one browser overlap as they like.                   *)
(*                                                                         *)
(* The EMS is external: an access token runs out, a refresh or a switch of *)
(* role replaces the pair and ends the old one, a switch of branch does    *)
(* not, and administrators or other devices end a session at any time.     *)
(* Calls and answers get lost.  A sign-in does not look at the cookie the  *)
(* browser holds: its answer replaces the cookie, and the session of the   *)
(* pair that was in it stays as it is at the EMS.                          *)
(***************************************************************************)
EXTENDS Naturals

CONSTANTS
  Pairs,     \* access and refresh tokens the EMS gives out together
  Requests,  \* requests to the server
  Roles,
  Branches,
  NoPair     \* no cookie, no pair, nothing known about one

VARIABLES
  issued,    \* pairs that were given out
  valid,     \* pairs whose session at the EMS is live
  stale,     \* pairs whose access token ran out
  authority, \* the role and branch the EMS has for a pair
  sealed,    \* the cookie: a pair and the authority that was sealed with it
  call,      \* where a request is
  disturbed, \* two requests were under way at the same time, or a call or
             \* an answer was lost that the browser's cookie depends on
  refused,   \* the EMS refused a call made with a pair it had just given out
  replaced   \* pairs that were in the cookie when a sign-in replaced it

nccVars ==
  <<issued, valid, stale, authority, sealed, call, disturbed, refused,
    replaced>>

Authority == [role : Roles, branch : Branches]
Envelope == [pair : Pairs, authority : Authority]
ASSUME NccAssumption == NoPair \notin Pairs \cup Authority \cup Envelope

Operations == {"session", "read", "role", "branch", "logout"}
CallRow ==
  [kind : Operations \cup {"login", "none"},
   stage : {"idle", "first", "refresh", "second", "me", "write", "clear"},
   renewed : BOOLEAN,  \* pair is not the one of the cookie it was sent
   pair : Pairs \cup {NoPair},
   me : Authority \cup {NoPair}]
NoCall ==
  [kind |-> "none", stage |-> "idle", renewed |-> FALSE, pair |-> NoPair,
   me |-> NoPair]

NccTypeOK ==
  /\ issued \in SUBSET Pairs
  /\ valid \in SUBSET issued
  /\ stale \in SUBSET valid
  /\ authority \in [Pairs -> Authority \cup {NoPair}]
  /\ sealed \in Envelope \cup {NoPair}
  /\ call \in [Requests -> CallRow]
  /\ disturbed \in BOOLEAN
  /\ refused \in BOOLEAN
  /\ replaced \in SUBSET issued

NccInit ==
  /\ issued = {}
  /\ valid = {}
  /\ stale = {}
  /\ authority = [p \in Pairs |-> NoPair]
  /\ sealed = NoPair
  /\ call = [r \in Requests |-> NoCall]
  /\ disturbed = FALSE
  /\ refused = FALSE
  /\ replaced = {}

UnderWay(r) == call[r].stage # "idle"
Overlaps(r) == \E s \in Requests \ {r} : UnderWay(s)
Works(p) == p \in valid \ stale

-----------------------------------------------------------------------------
(* The EMS *)

\* Pair p, or none for a login, is replaced by the unused pair q.
Rotate(p, q, a) ==
  /\ q \notin issued
  /\ issued' = issued \cup {q}
  /\ valid' = (valid \ {p}) \cup {q}
  /\ authority' = [authority EXCEPT ![q] = a]
  /\ stale' = stale \ {p}

EndPair(p) ==
  /\ valid' = valid \ {p}
  /\ stale' = stale \ {p}
  /\ UNCHANGED <<issued, authority>>
EmsUnchanged == UNCHANGED <<issued, valid, stale, authority>>

\* Not within the request that got the pair: fifteen minutes are longer than
\* the timers of its calls.
AccessRunsOut(p) ==
  /\ p \in valid
  /\ \A r \in Requests : call[r].renewed => call[r].pair # p
  /\ stale' = stale \cup {p}
  /\ UNCHANGED <<issued, valid, authority, sealed, call, disturbed, refused,
                 replaced>>

EndedElsewhere(p) ==
  /\ p \in valid
  /\ EndPair(p)
  /\ UNCHANGED <<sealed, call, disturbed, refused, replaced>>

-----------------------------------------------------------------------------
(* Requests *)

\* "idle" is the end of a request whose answer does not touch the cookie.
GoTo(r, stage) ==
  call' = [call EXCEPT
    ![r] = IF stage = "idle" THEN NoCall ELSE [@ EXCEPT !.stage = stage]]

\* A refusal: session resolution and logout take a 401 for a dead session
\* and clear the cookie, every other request leaves it as it is.
AfterRefusal(r) ==
  IF call[r].kind \in {"session", "logout"} THEN "clear" ELSE "idle"

BeginLogin(r, q, a) ==
  /\ ~UnderWay(r)
  /\ Rotate(NoPair, q, a)
  /\ call' = [call EXCEPT ![r] =
       [kind |-> "login", stage |-> "me", renewed |-> TRUE, pair |-> q,
        me |-> NoPair]]
  /\ disturbed' = (disturbed \/ Overlaps(r))
  /\ UNCHANGED <<sealed, refused, replaced>>

BeginRequest(r, k) ==
  /\ ~UnderWay(r)
  /\ sealed # NoPair
  /\ call' = [call EXCEPT ![r] =
       [kind |-> k, stage |-> "first", renewed |-> FALSE,
        pair |-> sealed.pair, me |-> NoPair]]
  /\ disturbed' = (disturbed \/ Overlaps(r))
  /\ EmsUnchanged
  /\ UNCHANGED <<sealed, refused, replaced>>

\* The operation is carried out and its answer arrives.
Accepted(r) ==
  LET p == call[r].pair IN
  /\ call[r].stage \in {"first", "second"}
  /\ Works(p)
  /\ \/ /\ call[r].kind = "read"
        /\ GoTo(r, IF call[r].stage = "first" THEN "idle" ELSE "me")
        /\ EmsUnchanged
     \/ /\ call[r].kind = "session"
        /\ call' = [call EXCEPT ![r].stage = "write", ![r].me = authority[p]]
        /\ EmsUnchanged
     \/ /\ call[r].kind = "branch"
        /\ \E b \in Branches : authority' = [authority EXCEPT ![p].branch = b]
        /\ call' = [call EXCEPT ![r].stage = "write", ![r].me = authority'[p]]
        /\ UNCHANGED <<issued, valid, stale>>
     \/ /\ call[r].kind = "role"
        /\ \E q \in Pairs, role \in Roles :
             /\ Rotate(p, q, [authority[p] EXCEPT !.role = role])
             /\ call' = [call EXCEPT ![r].stage = "me", ![r].pair = q,
                                     ![r].renewed = TRUE]
     \/ /\ call[r].kind = "logout"
        /\ GoTo(r, "clear")
        /\ EndPair(p)
  /\ UNCHANGED <<sealed, disturbed, refused, replaced>>

\* Variant with a bug: an expired access token ends the session at once.
NotRefreshed(r) == AfterRefusal(r)
AfterUnauthorized(r) ==
  IF call[r].stage = "first" THEN "refresh" ELSE AfterRefusal(r)

\* 401: the access token does not work, or (for an operation that asks for
\* the password again) the password was wrong.
Unauthorized(r) ==
  /\ call[r].stage \in {"first", "second"}
  /\ Works(call[r].pair) => call[r].kind = "read"
  /\ GoTo(r, AfterUnauthorized(r))
  /\ refused' = (refused \/ call[r].renewed)
  /\ EmsUnchanged
  /\ UNCHANGED <<sealed, disturbed, replaced>>

\* 400, 403, 404, 409, 422: the operation is refused.
Denied(r) ==
  /\ call[r].stage \in {"first", "second"}
  /\ call[r].kind \in {"read", "role", "branch"}
  /\ Works(call[r].pair)
  /\ GoTo(r, "idle")
  /\ refused' = (refused \/ call[r].renewed)
  /\ EmsUnchanged
  /\ UNCHANGED <<sealed, disturbed, replaced>>

Refresh(r, q) ==
  /\ call[r].stage = "refresh"
  /\ call[r].pair \in valid
  /\ Rotate(call[r].pair, q, authority[call[r].pair])
  /\ call' = [call EXCEPT ![r].stage = "second", ![r].pair = q,
                          ![r].renewed = TRUE]
  /\ UNCHANGED <<sealed, disturbed, refused, replaced>>

RefreshRefused(r) ==
  /\ call[r].stage = "refresh"
  /\ call[r].pair \notin valid
  /\ GoTo(r, AfterRefusal(r))
  /\ EmsUnchanged
  /\ UNCHANGED <<sealed, disturbed, refused, replaced>>

\* Variant with a bug: the authority that was sealed is kept.
OldAuthority(r) ==
  IF sealed = NoPair THEN authority[call[r].pair] ELSE sealed.authority
FreshAuthority(r) == authority[call[r].pair]

AskMe(r) ==
  /\ call[r].stage = "me"
  /\ Works(call[r].pair)
  /\ call' = [call EXCEPT ![r].stage = "write", ![r].me = FreshAuthority(r)]
  /\ EmsUnchanged
  /\ UNCHANGED <<sealed, disturbed, refused, replaced>>

\* A login whose authority cannot be read is logged out again.
MeRefused(r) ==
  /\ call[r].stage = "me"
  /\ ~Works(call[r].pair)
  /\ GoTo(r, "idle")
  /\ refused' = TRUE
  /\ IF call[r].kind = "login" THEN EndPair(call[r].pair) ELSE EmsUnchanged
  /\ UNCHANGED <<sealed, disturbed, replaced>>

\* What the EMS did of a call whose answer was lost, besides nothing: a
\* refresh, a switch of role or branch, or a logout; the last also for the
\* sign-in that is logged out because its authority could not be read.
AppliedUnheard(r) ==
  LET p == call[r].pair IN
  \/ /\ call[r].stage = "refresh"
     /\ p \in valid
     /\ \E q \in Pairs : Rotate(p, q, authority[p])
     /\ disturbed' = TRUE
  \/ /\ call[r].stage \in {"first", "second"}
     /\ call[r].kind = "role"
     /\ Works(p)
     /\ \E q \in Pairs, role \in Roles :
          Rotate(p, q, [authority[p] EXCEPT !.role = role])
     /\ disturbed' = TRUE
  \/ /\ call[r].stage \in {"first", "second"}
     /\ call[r].kind = "branch"
     /\ Works(p)
     /\ \E b \in Branches : authority' = [authority EXCEPT ![p].branch = b]
     /\ disturbed' = TRUE
     /\ UNCHANGED <<issued, valid, stale>>
  \/ /\ \/ call[r].stage \in {"first", "second"} /\ call[r].kind = "logout"
        \/ call[r].stage = "me" /\ call[r].kind = "login"
     /\ EndPair(p)
     /\ disturbed' = (disturbed \/ call[r].renewed)

\* A call gets lost on its way or its answer on the way back.
CallLost(r) ==
  /\ call[r].stage \in {"first", "second", "refresh", "me"}
  /\ GoTo(r, "idle")
  /\ \/ EmsUnchanged /\ disturbed' = (disturbed \/ call[r].renewed)
     \/ AppliedUnheard(r)
  /\ UNCHANGED <<sealed, refused, replaced>>

Cookie(r) ==
  IF call[r].stage = "write"
    THEN [pair |-> call[r].pair, authority |-> call[r].me]
    ELSE NoPair

ReplacedBy(r) ==
  IF call[r].kind = "login" /\ sealed # NoPair THEN {sealed.pair} ELSE {}

\* The answer reaches the browser and sets its cookie, or is lost.
Answer(r) ==
  /\ call[r].stage \in {"write", "clear"}
  /\ call' = [call EXCEPT ![r] = NoCall]
  /\ \/ /\ sealed' = Cookie(r)
        /\ replaced' = replaced \cup ReplacedBy(r)
        /\ UNCHANGED disturbed
     \/ /\ disturbed' = (disturbed \/ Cookie(r) # sealed)
        /\ UNCHANGED <<sealed, replaced>>
  /\ EmsUnchanged
  /\ UNCHANGED refused

NccNext ==
  \/ \E r \in Requests :
       \/ \E q \in Pairs, a \in Authority : BeginLogin(r, q, a)
       \/ \E k \in Operations : BeginRequest(r, k)
       \/ Accepted(r)
       \/ Unauthorized(r)
       \/ Denied(r)
       \/ \E q \in Pairs : Refresh(r, q)
       \/ RefreshRefused(r)
       \/ AskMe(r)
       \/ MeRefused(r)
       \/ CallLost(r)
       \/ Answer(r)
  \/ \E p \in Pairs : AccessRunsOut(p) \/ EndedElsewhere(p)

NccSpec == NccInit /\ [][NccNext]_nccVars

-----------------------------------------------------------------------------
(* Safety *)

Quiet == \A r \in Requests : ~UnderWay(r)

\* However requests overlap, the role sealed in the cookie is the one the EMS
\* has for the pair sealed with it: a late answer may bring back an old pair,
\* but never one role with the tokens of another.
RoleFitsTheTokens ==
  sealed # NoPair => sealed.authority.role = authority[sealed.pair].role

\* A browser that makes one request at a time and loses none keeps its
\* session: between requests every session that is live at the EMS is the
\* one in the cookie, with its role and branch, and a logout leaves none
\* behind.  A refused call with a new pair is the exception, and so is the
\* session of a browser that signs in again: it is never ended.
NoSessionIsLeftBehind ==
  Quiet /\ ~disturbed /\ ~refused =>
    \A p \in valid \ replaced :
      sealed = [pair |-> p, authority |-> authority[p]]

\* "Refresh rotates the pair: store the new tokens".  What the EMS says to
\* the call that follows does not change that: a browser that makes one
\* request at a time, loses none and does not sign in over a session holds
\* the pair that is live.
NewTokensAreStored ==
  Quiet /\ ~disturbed =>
    \A p \in valid \ replaced : sealed # NoPair /\ sealed.pair = p
=============================================================================
