-------------------------- MODULE MCPunchIngestion --------------------------
(* Instances of PunchIngestion: every punch has a record of its own.         *)
EXTENDS PunchIngestion

MCRecord == [p \in Punches |-> p]
=============================================================================
