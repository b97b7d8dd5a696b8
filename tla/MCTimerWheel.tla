---------------------------- MODULE MCTimerWheel ----------------------------
(***************************************************************************)
(* A wheel of NUM_LEVELS levels of two slots, so that events pass through  *)
(* every level within a few ticks.                                         *)
(***************************************************************************)
EXTENDS TimerWheel
=============================================================================
