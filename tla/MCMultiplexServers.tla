------------------------ MODULE MCMultiplexServers ------------------------
(***************************************************************************)
(* The module that TLC runs for MultiplexServers.                          *)
(***************************************************************************)
EXTENDS MultiplexServers
=============================================================================
