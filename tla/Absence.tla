------------------------------ MODULE Absence -------------------------------
(***************************************************************************)
(* What stands where the code has null or undefined.  Modules that are used *)
(* together take it from here, so that they mean the same by it.            *)
(***************************************************************************)
CONSTANT None
=============================================================================
