------------------------- MODULE MCImportExecution -------------------------
(* Instances of ImportExecution.                                             *)
EXTENDS ImportExecution
=============================================================================
