----------------------- MODULE MoodleCommandContract -----------------------
(***************************************************************************)
(* What the Moodle command runtime promises to those who enqueue commands, *)
(* without queue, leases, workers, web service calls or ledgers            *)
(* (docs/decisions/ADR-005 and ADR-010): every command has one verdict and *)
(* changes Moodle at most once; "applied" is said only of a change that    *)
(* was made or that a superadmin vouched for; a verdict is never revised,  *)
(* except by the review of an unknown outcome.                             *)
(***************************************************************************)
EXTENDS Naturals

CONSTANT Keys

VARIABLES
  verdict, \* what the runtime says about the command
  changes  \* how often Moodle has been changed by the command

Verdicts == {"none", "open", "review", "applied", "failed", "cancelled"}

ContractInit ==
  /\ verdict = [k \in Keys |-> "none"]
  /\ changes = [k \in Keys |-> 0]

Become(k, v) ==
  /\ verdict' = [verdict EXCEPT ![k] = v]
  /\ UNCHANGED changes

Accept(k) == verdict[k] = "none" /\ Become(k, "open")

\* The change may come late: an execution whose caller hung up is not
\* recalled, whatever has been decided about the command since.
Change(k) ==
  /\ verdict[k] # "none"
  /\ changes[k] = 0
  /\ changes' = [changes EXCEPT ![k] = 1]
  /\ UNCHANGED verdict

Decide(k) ==
  /\ verdict[k] = "open"
  /\ \/ changes[k] = 1 /\ Become(k, "applied")
     \/ Become(k, "failed")
     \/ Become(k, "review")

Review(k) ==
  /\ verdict[k] = "review"
  /\ \E v \in {"open", "applied", "cancelled"} : Become(k, v)

ContractNext ==
  \E k \in Keys : Accept(k) \/ Change(k) \/ Decide(k) \/ Review(k)

Contract == ContractInit /\ [][ContractNext]_<<verdict, changes>>
=============================================================================
