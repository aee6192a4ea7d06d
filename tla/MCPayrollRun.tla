---------------------------- MODULE MCPayrollRun ----------------------------
(* Instances of PayrollRun: every run covers everybody, and every fine.      *)
EXTENDS PayrollRun, TLC

CONSTANTS g1, g2, g3

MCScope     == [r \in Runs |-> Employees]
MCFineScope == [r \in Runs |-> Fines]
MCOwner     == [f \in Fines |-> CHOOSE e \in Employees : TRUE]


\* g1 and g2 differ only in what compute does not compare.
MCCompared  == [f \in Figures |-> IF f = g3 THEN "other days" ELSE "days"]

\* What was reviewed is read by no action, and in the concurrent run by no
\* property either.
Unghosted == <<summary, versions, job, fineVars, runVars>>

Symmetry == Permutations(Runs) \cup Permutations(Workers) \cup Permutations({g1, g2})
=============================================================================
