--------------------------- MODULE MCThreadPool ----------------------------
(***************************************************************************)
(* The module that TLC runs for ThreadPool: its configurations give the    *)
(* constants model values.                                                 *)
(***************************************************************************)
EXTENDS ThreadPool
=============================================================================
