---------------------------- MODULE ApprovalSpec ----------------------------
(***************************************************************************)
(* What an approval promises to the module that submitted it: a request is *)
(* opened once, its steps are signed in increasing order, it is closed     *)
(* once, and the submitting module is told that outcome and no other.      *)
(***************************************************************************)
EXTENDS Integers

CONSTANTS Requests, StepNumbers

VARIABLES
  outcome,     \* how each request ended, if it did
  frontier,    \* the step each request waits at
  told         \* what the submitting module's own row says

specVars == <<outcome, frontier, told>>

Verdicts == {"approved", "rejected", "cancelled"}

SpecInit ==
  /\ outcome  = [r \in Requests |-> "absent"]
  /\ frontier = [r \in Requests |-> 1]
  /\ told     = [r \in Requests |-> "absent"]

Announce(r) ==
  /\ told[r] = "absent"
  /\ told' = [told EXCEPT ![r] = "pending"]
  /\ UNCHANGED <<outcome, frontier>>

Open(r) ==
  /\ outcome[r] = "absent" /\ told[r] = "pending"
  /\ outcome' = [outcome EXCEPT ![r] = "open"]
  /\ UNCHANGED <<frontier, told>>

Sign(r) ==
  /\ outcome[r] = "open"
  /\ \E s \in StepNumbers : s > frontier[r] /\ frontier' = [frontier EXCEPT ![r] = s]
  /\ UNCHANGED <<outcome, told>>

Close(r) ==
  /\ outcome[r] = "open"
  /\ \E v \in Verdicts \cup {"expired"} : outcome' = [outcome EXCEPT ![r] = v]
  /\ UNCHANGED <<frontier, told>>

Tell(r) ==
  /\ outcome[r] \in Verdicts
  /\ told' = [told EXCEPT ![r] = outcome[r]]
  /\ UNCHANGED <<outcome, frontier>>

SpecNext == \E r \in Requests :
              Announce(r) \/ Open(r) \/ Sign(r) \/ Close(r) \/ Tell(r)

Contract == SpecInit /\ [][SpecNext]_specVars
=============================================================================
