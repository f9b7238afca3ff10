------------------------------ MODULE MCZtPool ------------------------------
(* Small instances of ZtPool for TLC.                                      *)
EXTENDS ZtPool
=============================================================================
