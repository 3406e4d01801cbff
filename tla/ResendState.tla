----------------------------- MODULE ResendState -----------------------------
(***************************************************************************)
(* Which lost packets of one block to ask for again: the operations of      *)
(* `ResendState` (viva-genicam's stream/resend.rs) on a record              *)
(*   [frontier, gaps, asked, spent].                                        *)
(* The code's Vec of gaps is ordered by packet id; here it is a set, and    *)
(* the order is that of the gaps' first ids.  A gap's due Instant is the    *)
(* number of ticks still to wait, Never once it is not asked for again.     *)
(***************************************************************************)
EXTENDS Integers, FiniteSets

Never == -1

Fresh == [frontier |-> 0, gaps |-> {}, asked |-> 0, spent |-> FALSE]

Ids(g)      == g.first..g.last
IdsOf(gaps) == UNION {Ids(g) : g \in gaps}
Missing(r)   == IdsOf(r.gaps)
Requested(r) == IdsOf({g \in r.gaps : g.requests > 0})

\* The number of packets in some gaps: what `len` adds up to, gaps being disjoint.
PacketsIn(gaps) == Cardinality(IdsOf(gaps))

\* What is left of gap g without packet id: nothing, one gap or two, each with
\* the history of g.
Without(g, id) ==
    {h \in {[g EXCEPT !.last = id - 1], [g EXCEPT !.first = id + 1]} : h.first <= h.last}

\* Mutated form: the whole gap goes with its packet.
RemoveWholeGap(r, id) == [r EXCEPT !.gaps = {g \in @ : id \notin Ids(g)}]

remove_packet(r, id) ==
    [r EXCEPT !.gaps = UNION {IF id \in Ids(g) THEN Without(g, id) ELSE {g} : g \in r.gaps}]

\* The gap that packet id shows: the ids it skips.
Opened(r, id, delay) ==
    IF id > r.frontier
    THEN {[first |-> r.frontier, last |-> id - 1, requests |-> 0, wait |-> delay]}
    ELSE {}

\* A packet at or beyond the next one expected moves the frontier; one below it
\* fills its place in a gap.
arrived(r, id, delay) ==
    IF id >= r.frontier
    THEN [r EXCEPT !.frontier = id + 1, !.gaps = @ \cup Opened(r, id, delay)]
    ELSE remove_packet(r, id)

\* Whether the packet that arrives had been asked for.
arrivedAsked(r, id) == id < r.frontier /\ id \in Requested(r)

\* Nothing beyond the trailer belongs to the block.  (The code shortens only the
\* last gap: no other can reach beyond the trailer.)
trailer(r, id) ==
    [r EXCEPT !.gaps = {[g EXCEPT !.last = IF @ < id THEN @ ELSE id - 1] : g \in {h \in @ : h.first < id}},
              !.frontier = IF @ < id + 1 THEN @ ELSE id + 1]

\* The camera cannot send packet id again ("Gone"), or it and all before it
\* ("GoneWithPrevious").  A packet nobody asked for is only closed by the latter.
unavailable(r, id, answer) ==
    IF answer = "Gone"
    THEN IF id \in Requested(r) THEN remove_packet(r, id) ELSE r
    ELSE [r EXCEPT !.gaps = {[g EXCEPT !.first = IF @ <= id THEN id + 1 ELSE @] : g \in {h \in @ : h.last > id}}]

\* The packets this answer declares unavailable, of those asked for.
DeclaredGone(r, id, answer) ==
    Requested(r) \cap (IF answer = "Gone" THEN {id} ELSE 0..id)

DueGaps(r) == {g \in r.gaps : g.wait = 0}

\* The due gaps are asked for in order, until the first that does not fit in
\* what is left of the budget.
Affordable(r, budget) ==
    {g \in DueGaps(r) :
        r.asked + PacketsIn({h \in DueGaps(r) : h.first <= g.first}) <= budget}

\* The requests that go out now.
Requests(r, budget) == IF r.spent THEN {} ELSE Affordable(r, budget)

\* A gap that has been asked for once more: when to ask again, if at all.
Asked(g, config) ==
    [g EXCEPT !.requests = @ + 1,
              !.wait = IF g.requests + 1 < config.max_requests THEN config.retry_interval ELSE Never]

due(r, config, budget) ==
    LET now == Requests(r, budget)
    IN  [r EXCEPT !.gaps  = (@ \ now) \cup {Asked(g, config) : g \in now},
                  !.asked = @ + PacketsIn(now),
                  !.spent = @ \/ now # DueGaps(r)]

\* Mutated form: retries are counted as well.
RequestedAgain(r, budget) == IdsOf(Requests(r, budget))

\* Packets asked for the first time.
newly_requested(r, budget) == IdsOf({g \in Requests(r, budget) : g.requests = 0})

\* A tick of the clock.
Elapse(r) == [r EXCEPT !.gaps = {[g EXCEPT !.wait = IF @ > 0 THEN @ - 1 ELSE @] : g \in @}]
=============================================================================
