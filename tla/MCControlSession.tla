-------------------------- MODULE MCControlSession --------------------------
(* Two names for keepalive tasks: one that runs and one that is being drained. *)
EXTENDS ControlSession
=============================================================================
