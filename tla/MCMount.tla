------------------------------ MODULE MCMount -------------------------------
(* An instance of Mount.                                                   *)
EXTENDS Mount
=============================================================================
