------------------------------- MODULE Handoff -------------------------------
(***************************************************************************)
(* What a delivery queue promises, without its mutex and its wake-ups: a    *)
(* bounded sequence of items of which a new one displaces the oldest, and   *)
(* an end, recorded once, that is reported when the items are gone: a       *)
(* failure first, if there was one, and only "Finished" from then on.       *)
(***************************************************************************)
EXTENDS Naturals, Sequences

CONSTANT Capacity

VARIABLES items, end, pushed, taken, reported

vars == <<items, end, pushed, taken, reported>>

Init ==
    /\ items = <<>> /\ end = "None" /\ pushed = 0
    /\ taken = <<>> /\ reported = <<>>

\* Nothing is added once the end is known.
Put ==
    /\ end = "None"
    /\ pushed' = pushed + 1
    /\ items' = Append(IF Len(items) >= Capacity THEN Tail(items) ELSE items, pushed')
    /\ UNCHANGED <<end, taken, reported>>

Close ==
    /\ end = "None"
    /\ end' \in {"Failed", "Finished"}
    /\ UNCHANGED <<items, pushed, taken, reported>>

Take ==
    /\ items # <<>>
    /\ reported = <<>>
    /\ taken' = Append(taken, Head(items))
    /\ items' = Tail(items)
    /\ UNCHANGED <<end, pushed, reported>>

Report ==
    /\ items = <<>>
    /\ end # "None"
    /\ reported' = Append(reported, end)
    /\ end' = "Finished"
    /\ UNCHANGED <<items, pushed, taken>>

Next == Put \/ Close \/ Take \/ Report

Spec == Init /\ [][Next]_vars
=============================================================================
