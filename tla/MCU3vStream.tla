----------------------------- MODULE MCU3vStream -----------------------------
(* A layout of two payload transfers, for payloads that end early, exactly or late. *)
EXTENDS U3vStream
=============================================================================
