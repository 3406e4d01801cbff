----------------------------- MODULE MCAssembly -----------------------------
(* The streams and cameras of the assembly run. *)
EXTENDS Assembly

Image(last, sizes) == [payload |-> "image", last |-> last, sizes |-> sizes, status |-> "ok"]

\* Blocks overtake and repeat each other, and more assemble than MaxInFlight lets in.
Overtaking ==
    [timeout |-> 1, resend |-> FALSE, kinds |-> {Image(1, "full")}, starts |-> {2},
     restartable |-> FALSE, blocks |-> 3, duplicates |-> 1, errors |-> 0, reordering |-> 2]

\* So they do while one of them is block 1: the camera's first, or after the wrap.
OvertakingOne   == [Overtaking EXCEPT !.starts = {1, Cycle - 1}, !.kinds = {Image(0, "full")}]
RepeatingOne    == [Overtaking EXCEPT !.starts = {1}, !.blocks = 2]
OvertakenByWrap == [Overtaking EXCEPT !.starts = {Cycle - 1}, !.duplicates = 0]

\* Blocks with something wrong, across the wrap of the ids.
Faulty ==
    [Overtaking EXCEPT !.starts = {7}, !.blocks = 2, !.duplicates = 0, !.errors = 1, !.reordering = 1,
        !.kinds = {Image(2, "short"),
                   [payload |-> "chunk", last |-> 1, sizes |-> "lastShort", status |-> "error"],
                   [payload |-> "other", last |-> 1, sizes |-> "full", status |-> "ok"]}]

\* The camera starts its count again, after any of its blocks.
Restarted ==
    [Overtaking EXCEPT !.restartable = TRUE, !.blocks = 4, !.duplicates = 0,
        !.reordering = 0]

\* One block whose lost packets are asked for again.
Resending ==
    [Overtaking EXCEPT !.timeout = 2, !.resend = TRUE, !.blocks = 1, !.duplicates = 0, !.errors = 1,
        !.kinds = {Image(2, "long"), Image(2, "short"), Image(3, "lastShort")}]

AllSetups ==
    {Overtaking, OvertakingOne, RepeatingOne, OvertakenByWrap, Faulty, Restarted, Resending}
=============================================================================
