--------------------------- MODULE MCLeaveService ---------------------------
(* Two leaves of one employee, or a leave and an encashment, decided on a  *)
(* chain of one or two named steps.                                          *)
EXTENDS LeaveService

CONSTANTS hod, boss, l1, l2, e1

MCUsers     == {hod, boss}
Named(u)    == [named |-> TRUE, pool |-> {u}]
MCChain     == [s \in {1} |-> Named(hod)]
MCTwoSteps  == [s \in {1, 2} |-> IF s = 1 THEN Named(hod) ELSE Named(boss)]
MCSaved     == {MCChain}
MCKind      == [r \in Requests |-> IF r = e1 THEN "leave_encashment_requests"
                                   ELSE "leave_requests"]
MCSubmitter == [r \in Requests |-> hod]
MCDays      == [r \in Requests |-> 2]
=============================================================================
