------------------------------ MODULE MCTimer ------------------------------
(***************************************************************************)
(* A timer that is started, reset and canceled, with different times.      *)
(***************************************************************************)
EXTENDS Timer
=============================================================================
