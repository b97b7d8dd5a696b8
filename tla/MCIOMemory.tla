---------------------------- MODULE MCIOMemory -----------------------------
(***************************************************************************)
(* The module that TLC runs for IOMemory: its configuration gives the      *)
(* workers model values.                                                   *)
(***************************************************************************)
EXTENDS IOMemory
=============================================================================
