------------------------------ MODULE MC_Connect ------------------------------
(***************************************************************************)
(* Instances of Connect for TLC: one or two phones, alike.                 *)
(***************************************************************************)
EXTENDS Connect
=============================================================================
