-------------------------- MODULE MCApprovalEngine --------------------------
(***************************************************************************)
(* Small instances of ApprovalEngine: two approvers and an org admin, and a*)
(* chain of two named steps numbered 1 and 3.                              *)
(***************************************************************************)
EXTENDS ApprovalEngine

CONSTANTS hod, hr, boss, r1, r2

MCUsers     == {hod, hr, boss}
MCSteps     == {1, 3}
Named(u)    == [named |-> TRUE, pool |-> {u}]
MCChain     == [s \in MCSteps |-> IF s = 1 THEN Named(hod) ELSE Named(hr)]
MCLateChain == [s \in {3} |-> [named |-> FALSE, pool |-> {hod, hr}]]
MCKindLeave == [r \in Requests |-> "leave_requests"]
MCKindTwo   == [r \in Requests |-> IF r = r1 THEN "attendance_corrections"
                                   ELSE "employee_branch_transfers"]
MCSubmitter == [r \in Requests |-> hod]
MCSaved     == {MCChain, MCLateChain}
=============================================================================
