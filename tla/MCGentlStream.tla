---------------------------- MODULE MCGentlStream ----------------------------
(* One acquisition without end and one of a single buffer. *)
EXTENDS GentlStream

OneOrAll == {1, NoLimit}
=============================================================================
