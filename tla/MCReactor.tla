----------------------------- MODULE MCReactor -----------------------------
(***************************************************************************)
(* The module that TLC runs for Reactor: its configurations give workers   *)
(* and connections model values, and set the bounds.                       *)
(***************************************************************************)
EXTENDS Reactor
=============================================================================
