---------------------------- MODULE MailContract ----------------------------
(***************************************************************************)
(* What transactional mail promises to those who request it, without       *)
(* outbox, leases, workers or calls (docs/decisions/ADR-005 and            *)
(* docs/RESEND_TRANSACTIONAL_EMAIL.md): a request leads to one mail at     *)
(* most and to one verdict, which is final; "sent" is said only of a mail  *)
(* that went out, and a recipient is blocked only because of such a mail.  *)
(***************************************************************************)
EXTENDS Naturals

CONSTANTS Events, Users, None

VARIABLES
  to,      \* whom the mail is for; None before it is requested
  verdict, \* what is said about the mail
  mails,   \* how many mails the provider took for it
  blocked  \* recipients who get no more mail

ContractInit ==
  /\ to = [e \in Events |-> None]
  /\ verdict = [e \in Events |-> "none"]
  /\ mails = [e \in Events |-> 0]
  /\ blocked = {}

Ask(e, u) ==
  /\ verdict[e] = "none"
  /\ to' = [to EXCEPT ![e] = u]
  /\ verdict' = [verdict EXCEPT ![e] = "open"]
  /\ UNCHANGED <<mails, blocked>>

\* The mail may go out late: a call whose worker is gone is not recalled,
\* whatever has been decided about the mail since.
GoOut(e) ==
  /\ verdict[e] # "none"
  /\ mails[e] = 0
  /\ mails' = [mails EXCEPT ![e] = 1]
  /\ UNCHANGED <<to, verdict, blocked>>

Confirm(e) ==
  /\ verdict[e] = "open"
  /\ mails[e] = 1
  /\ verdict' = [verdict EXCEPT ![e] = "sent"]
  /\ UNCHANGED <<to, mails, blocked>>

\* Several mails may be decided at once.
Drop(dead, stopped) ==
  /\ \A e \in dead \cup stopped : verdict[e] = "open"
  /\ \A e \in stopped : to[e] \in blocked
  /\ verdict' = [e \in Events |-> IF e \in dead THEN "dead"
                                  ELSE IF e \in stopped THEN "suppressed"
                                  ELSE verdict[e]]
  /\ UNCHANGED <<to, mails, blocked>>

Block(e) ==
  /\ verdict[e] = "sent"
  /\ blocked' = blocked \cup {to[e]}
  /\ UNCHANGED <<to, verdict, mails>>

ContractNext ==
  \/ \E e \in Events : \/ \E u \in Users : Ask(e, u)
                       \/ GoOut(e)
                       \/ Confirm(e)
                       \/ Block(e)
  \/ \E dead, stopped \in SUBSET Events : Drop(dead, stopped)

Contract == ContractInit /\ [][ContractNext]_<<to, verdict, mails, blocked>>
=============================================================================
