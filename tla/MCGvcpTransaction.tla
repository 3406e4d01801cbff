------------------------- MODULE MCGvcpTransaction -------------------------
(* Two ids and five draws: ids wrap, and a probe meets its command's id. *)
EXTENDS GvcpTransaction
=============================================================================
