---------------------------- MODULE MCFrameStream ----------------------------
(* The cameras of the stream run: their blocks have a leader and a trailer only. *)
EXTENDS FrameStream

Bare == [payload |-> "image", last |-> 0, sizes |-> "full", status |-> "ok"]

From(id) ==
    [timeout |-> 1, resend |-> FALSE, kinds |-> {Bare}, starts |-> {id}, restartable |-> FALSE,
     blocks |-> 2, duplicates |-> 0, errors |-> 0, reordering |-> 2]

\* Its first blocks, or later ones of which a packet is unusable.
TwoSetups == {From(1), [From(2) EXCEPT !.errors = 1]}
=============================================================================
