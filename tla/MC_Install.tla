------------------------------ MODULE MC_Install ------------------------------
(***************************************************************************)
(* Instances of Install for TLC.                                           *)
(***************************************************************************)
EXTENDS Install
=============================================================================
