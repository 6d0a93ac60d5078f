-------------------------- MODULE MCListenSupervisor --------------------------
(* Finite instances of ListenSupervisor.                                   *)
EXTENDS ListenSupervisor

CONSTANTS a1
=============================================================================
