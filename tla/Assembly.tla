------------------------------ MODULE Assembly ------------------------------
(***************************************************************************)
(* Assembling blocks from GVSP datagrams: `Assembler` of viva-genicam's     *)
(* stream/assembly.rs, fed by a camera and a network that loses, delays,    *)
(* reorders and duplicates packets.                                         *)
(*                                                                          *)
(* A datagram is a pair <<n, pid>>: packet pid of the n-th block the camera *)
(* sent, 0 being the leader, 1..last the data packets and last + 1 the      *)
(* trailer.  What the packet says is in the camera's description of its     *)
(* block, so data is never copied; a block in flight remembers in `from`    *)
(* and `seen` whose packets it took, for the properties only.               *)
(*                                                                          *)
(* The functions on an assembler state `a` follow the methods of the code;  *)
(* an action applies the whole of ingest, poll or resend_due.               *)
(***************************************************************************)
EXTENDS BlockOrder, ResendState, Sequences, FiniteSetsExt

CONSTANTS
    MaxInFlight,     \* MAX_IN_FLIGHT: 3 in the code
    Delay, RetryInterval, MaxRequests, BudgetPercent,   \* ResendConfig, in ticks and %
    EstimateCap,     \* ESTIMATE_CAP, in data packets
    PayloadPackets,  \* data packets of PayloadSize, or 0 where it is not known
    Setups           \* the streams and cameras considered: see Setup

\* What the leader announces, the data packets, how long they are next to the
\* negotiated packet size, and the status in the trailer.
Kind == [payload : {"image", "chunk", "other"}, last : Nat,
         sizes : {"full", "lastShort", "short", "long"}, status : {"ok", "error"}]

\* How a stream is configured, and what its camera and network do.
Setup == [timeout : Nat \ {0},          \* AssemblyConfig::block_timeout, in ticks
          resend : BOOLEAN,             \* ResendConfig::enabled
          kinds : SUBSET Kind,          \* the blocks the camera may send
          starts : SUBSET (1..Cycle),   \* the block ids it may start counting at
          restartable : BOOLEAN,        \* whether it may start its count again
          blocks : Nat,                 \* model bound: the blocks it sends
          duplicates : Nat,             \* model bound: packets delivered twice
          errors : Nat,                 \* model bound: packets with an error status
          reordering : 0..LateWindow]   \* model bound: how many blocks back a packet may be

ASSUME AssemblyAssumption ==
    /\ MaxInFlight \in Nat \ {0}
    /\ Delay \in Nat /\ RetryInterval \in Nat /\ MaxRequests \in Nat /\ BudgetPercent \in 0..100
    /\ EstimateCap \in Nat /\ PayloadPackets \in Nat
    /\ Setups \subseteq Setup

VARIABLES
    setup,       \* the one of Setups that this behaviour has
    asm,         \* the assembler: see Empty
    sent,        \* the camera: the blocks it has sent, with their ids
    net,         \* datagrams on their way
    duplicates,  \* datagrams delivered twice so far
    errors,      \* datagrams that arrived with an error status so far
    asks,        \* the packets asked for again and not yet answered
    heads,       \* history: blocks whose leader came while they were the newest,
                 \* nothing was in flight and their ids showed them to be new
    misled       \* history: an old or early leader of block 1 passed for a new acquisition

vars == <<setup, asm, sent, net, duplicates, errors, asks, heads, misled>>

NoTrailer == -1

\* What a block adds to a counter of StreamStats and, as history, the packets counted.
Zero == [count |-> 0, ids |-> {}]
Record(stat, ids) == [count |-> stat.count + Cardinality(ids), ids |-> stat.ids \cup ids]

\* The packet bits of the newest admitted block and its bookkeeping.
NewBlock(id, n) ==
    [id |-> id, age |-> 0, leader |-> "none", trailer |-> NoTrailer, buffer |-> PayloadPackets,
     got |-> {}, highest |-> 0, any_payload |-> FALSE, short |-> 0, resolved |-> "no",
     resend |-> Fresh, requested |-> Zero, recovered |-> Zero, unavailable |-> Zero,
     from |-> {n}, seen |-> {}, closed |-> {}]

config == [max_requests |-> MaxRequests, retry_interval |-> RetryInterval]

\* length of data packet pid of a block of that kind
SizeOf(kind, pid) ==
    CASE kind.sizes = "lastShort" -> IF pid = kind.last THEN "short" ELSE "full"
      [] OTHER -> kind.sizes

-----------------------------------------------------------------------------
(* One block. *)

\* The buffer, in packets, holds at least n of them.
Grown(buffer, n) == IF n > buffer THEN n ELSE buffer

\* What the leader's geometry may size a buffer for.
Estimate(geometry) == IF geometry > EstimateCap THEN EstimateCap ELSE geometry

\* An image's leader also sizes the buffer; a repeated leader changes nothing.
on_leader(b, payload, geometry) ==
    IF b.leader # "none" THEN b
    ELSE [b EXCEPT !.leader = payload,
                   !.buffer = IF payload = "image" THEN Grown(@, Estimate(geometry)) ELSE @]

unsupported(b) == b.leader = "other"

BeyondTrailer(b, pid) == b.trailer # NoTrailer /\ pid > b.trailer

\* What a buffer may grow to: ESTIMATE_CAP, or PayloadSize if that is more.
buffer_limit == Grown(EstimateCap, PayloadPackets)

\* Beyond the frame: past the trailer's count, or past what the buffer may grow to.
\* (A packet refused for its length is refused first, and is not beyond it.)
OutOfRange(b, pid, size) == BeyondTrailer(b, pid) \/ (pid > buffer_limit /\ size # "long")

\* Whether a data packet counts as arrived for resend: a refused one does.
PayloadArrived(b, pid, size) == ~unsupported(b) /\ ~OutOfRange(b, pid, size)

\* A short packet stays pending while nothing shows that it is not the last.
StillPending(pending, highest, last) ==
    pending # 0 /\ pending >= highest /\ (last # NoTrailer => pending >= last)

\* Write the packet; of the short ones, take back those that are not the last.
Place(b, pid, size) ==
    LET shorts  == ({b.short} \ {0}) \cup (IF size = "short" THEN {pid} ELSE {})
        pending == IF shorts = {} THEN 0 ELSE Max(shorts)
        top     == Grown(b.highest, pid)
        keep    == IF StillPending(pending, top, b.trailer) THEN {pending} ELSE {}
    IN  [b EXCEPT !.got = (@ \cup {pid}) \ (shorts \ keep),
                  !.short = IF keep = {} THEN 0 ELSE pending,
                  !.highest = top,
                  !.buffer = Grown(@, pid),
                  !.any_payload = TRUE]

on_payload(b, pid, size) ==
    IF ~PayloadArrived(b, pid, size) \/ pid \in b.got \/ size = "long"
    THEN b
    ELSE Place(b, pid, size)

on_trailer(b, pid, status) ==
    IF b.trailer # NoTrailer THEN b
    ELSE LET t == [b EXCEPT !.trailer = pid - 1]
         IN  IF unsupported(b) THEN [t EXCEPT !.resolved = "Unsupported"]
             ELSE IF status = "error" THEN [t EXCEPT !.resolved = "DeviceStatus"]
             ELSE IF b.short # 0 /\ b.short < pid - 1
             THEN [t EXCEPT !.got = @ \ {b.short}, !.short = 0]
             ELSE t

\* The resend state of a block that is told of packet pid.
track_arrival(b, pid, isTrailer) ==
    IF ~setup.resend \/ unsupported(b) THEN b
    ELSE LET r == arrived(b.resend, pid, Delay)
         IN  [b EXCEPT !.resend = IF isTrailer THEN trailer(r, pid) ELSE r,
                       !.recovered = IF arrivedAsked(b.resend, pid) THEN Record(@, {pid}) ELSE @]

\* Mutated form: the leader is not needed.
CompleteWithoutLeader(b) ==
    IF b.resolved = "no" /\ ~unsupported(b) /\ b.trailer # NoTrailer /\ 1..b.trailer \subseteq b.got
    THEN [b EXCEPT !.resolved = "Complete"]
    ELSE b

try_complete(b) ==
    IF /\ b.resolved = "no" /\ b.leader \in {"image", "chunk"}
       /\ b.trailer # NoTrailer /\ 1..b.trailer \subseteq b.got
    THEN [b EXCEPT !.resolved = "Complete"]
    ELSE b

\* Resolve an unfinished block with what it has.
close(b) ==
    [b EXCEPT !.resolved = IF unsupported(b) THEN "Unsupported"
                           ELSE IF b.trailer # NoTrailer THEN "Incomplete" ELSE "TrailerMissing"]

-----------------------------------------------------------------------------
(* The assembler. *)

\* in_flight, last_block_id, the blocks handed out, and the counters of missed
\* and unsupported blocks; as history, which of the camera's blocks were started.
Empty == [in_flight |-> <<>>, last |-> None, out |-> <<>>, missed |-> 0, unsupported |-> 0,
          started |-> {}]

\* The frames of the first n blocks of q, in their order.
Frames(q, n) ==
    LET frames[i \in 0..Len(q)] ==
          IF i = 0 THEN <<>>
          ELSE IF q[i].resolved = "Unsupported" THEN frames[i - 1] ELSE Append(frames[i - 1], q[i])
    IN  frames[n]

Dropped(q, n) == {i \in 1..n : q[i].resolved = "Unsupported"}

\* Frames go out; a block of an unsupported type is counted and dropped.
HandOut(a, q, n) ==
    [a EXCEPT !.out = @ \o Frames(q, n), !.unsupported = @ + Cardinality(Dropped(q, n))]

\* Mutated form: a resolved block leaves at once, not in its turn.
EmitOutOfTurn(a) ==
    LET ready == SelectSeq(a.in_flight, LAMBDA b : b.resolved # "no")
    IN  HandOut([a EXCEPT !.in_flight = SelectSeq(@, LAMBDA b : b.resolved = "no")], ready, Len(ready))

\* Hand out resolved blocks from the front, in the order they started.
emit(a) ==
    LET q == a.in_flight
        k == Max({j \in 0..Len(q) : \A i \in 1..j : q[i].resolved # "no"})
    IN  HandOut([a EXCEPT !.in_flight = SubSeq(q, k + 1, Len(q))], q, k)

Index(a, id) == {i \in 1..Len(a.in_flight) : a.in_flight[i].id = id}

\* Mutated form: one block too many is let in.
MakeRoomLate(a) ==
    IF Len(a.in_flight) <= MaxInFlight THEN a
    ELSE emit([a EXCEPT !.in_flight[1] = IF @.resolved = "no" THEN close(@) ELSE @])

\* The in-flight limit: the oldest block gives way, closed with what it has.
MakeRoom(a) ==
    IF Len(a.in_flight) < MaxInFlight THEN a
    ELSE emit([a EXCEPT !.in_flight[1] = IF @.resolved = "no" THEN close(@) ELSE @])

\* Mutated form: skipped ids are not counted.
StartWithoutMissed(a, id, n, verdict) ==
    LET room == MakeRoom([a EXCEPT !.last = id, !.started = @ \cup {n}])
    IN  [room EXCEPT !.in_flight = Append(@, NewBlock(id, n))]

\* Start the packet's block.
StartBlock(a, id, n, verdict) ==
    LET room == MakeRoom([a EXCEPT !.last = IF id = 0 THEN @ ELSE id, !.missed = @ + verdict.missed,
                              !.started = @ \cup {n}])
    IN  [room EXCEPT !.in_flight = Append(@, NewBlock(id, n))]

\* The assembler with the packet's block in flight; unchanged for a late packet.
admit(a, id, n, leader) ==
    LET verdict == classify(a.last, id, FALSE, leader)
    IN  IF Index(a, id) # {} \/ verdict.order = "Late" THEN a
        ELSE StartBlock(a, id, n, verdict)

\* Give packet pid of block n to the unresolved block b.
Take(b, n, pid) ==
    LET kind == sent[n]
        isTrailer == pid = kind.last + 1
        c == CASE pid = 0   -> on_leader(b, kind.payload, kind.last)
               [] isTrailer -> on_trailer(b, pid, kind.status)
               [] OTHER     -> on_payload(b, pid, SizeOf(kind, pid))
        isArrived == pid = 0 \/ isTrailer \/ PayloadArrived(b, pid, SizeOf(kind, pid))
        d == IF isArrived THEN [track_arrival(c, pid, isTrailer) EXCEPT !.seen = @ \cup {pid}] ELSE c
    IN  try_complete([d EXCEPT !.from = @ \cup {n}])

\* A resolved block that waits for its turn keeps only the time of the packet.
ingest(a, n, pid) ==
    LET id == sent[n].id
        s  == admit(a, id, n, pid = 0)
    IN  IF Index(s, id) = {} THEN s
        ELSE LET i == Min(Index(s, id))
                 b == [s.in_flight[i] EXCEPT !.age = 0]
             IN  IF b.resolved # "no"
                 THEN [s EXCEPT !.in_flight[i] = b]
                 ELSE emit([s EXCEPT !.in_flight[i] = Take(b, n, pid)])

\* A packet that only shows its block is alive: it carries an error status, or
\* a format that is not assembled.
touch(a, id) ==
    IF Index(a, id) = {} THEN a
    ELSE [a EXCEPT !.in_flight[Min(Index(a, id))].age = 0]

\* The newest block is left alone while its leader is all there is of it.
LeaderOnly(b) == b.leader \in {"image", "chunk"} /\ ~b.any_payload /\ b.trailer = NoTrailer

TimedOut(a, i) ==
    /\ a.in_flight[i].resolved = "no"
    /\ a.in_flight[i].age >= setup.timeout
    /\ ~(i = Len(a.in_flight) /\ LeaderOnly(a.in_flight[i]))

\* Mutated form: a silent block is never closed.
PollNothing(a) == emit(a)

poll(a) ==
    emit([a EXCEPT !.in_flight =
            [i \in DOMAIN @ |-> IF TimedOut(a, i) THEN close(@[i]) ELSE @[i]]])

\* The packets a block is taken to have: from its trailer, else from its buffer,
\* else from what has been seen of it.
packets(b) == IF b.trailer # NoTrailer THEN b.trailer + 2
              ELSE IF b.buffer > 0 THEN b.buffer + 2 ELSE b.resend.frontier + 1
Budget(b)  == (packets(b) * BudgetPercent + 99) \div 100

Asking(b) == setup.resend /\ b.resolved = "no" /\ ~unsupported(b)

\* A camera's answer that packet pid of block id is gone, if that block is open.
on_resend_answer(a, id, pid, answer) ==
    LET open == {i \in Index(a, id) : a.in_flight[i].resolved = "no"}
    IN  IF open = {} \/ ~Asking(a.in_flight[Min(open)]) THEN a
        ELSE LET b == a.in_flight[Min(open)]
                 r == unavailable(b.resend, pid, answer)
             IN  [a EXCEPT !.in_flight[Min(open)] =
                    [b EXCEPT !.resend = r,
                              !.unavailable = Record(@, DeclaredGone(b.resend, pid, answer)),
                              !.closed = @ \cup (Missing(b.resend) \ Missing(r))]]

-----------------------------------------------------------------------------
(* The system. *)

Init ==
    /\ setup \in Setups
    /\ asm = Empty
    /\ sent = <<>>
    /\ net = {}
    /\ duplicates = 0
    /\ errors = 0
    /\ asks = {}
    /\ heads = {}
    /\ misled = FALSE

NextId(id) == IF id = Cycle THEN 1 ELSE id + 1

\* A block of that kind, with its id.
Numbered(id, kind) == [id |-> id, payload |-> kind.payload, last |-> kind.last,
                       sizes |-> kind.sizes, status |-> kind.status]

\* Packets too old for the network to still deliver.
Reaches(n, p) == p[1] + setup.reordering >= n

\* The camera sends a block: all its packets are on their way.  It may start its
\* count again.
CameraSend(kind) ==
    /\ Len(sent) < setup.blocks
    /\ \E id \in IF sent = <<>> THEN setup.starts
                  ELSE {NextId(sent[Len(sent)].id)} \cup (IF setup.restartable THEN {1} ELSE {}) :
          sent' = Append(sent, Numbered(id, kind))
    /\ LET n == Len(sent) + 1
       IN  net' = {p \in net \cup ({n} \X (0..(kind.last + 1))) : Reaches(n, p)}
    /\ UNCHANGED <<setup, asm, duplicates, errors, asks, heads, misled>>

\* Deliver takes p off the network, or leaves a duplicate there.
Deliver(p) ==
    \/ net' = net \ {p} /\ UNCHANGED duplicates
    \/ duplicates < setup.duplicates /\ duplicates' = duplicates + 1 /\ UNCHANGED net

\* The ids show that block n is new: nothing was started before, or n continues the
\* count of a block that was, or it is a first block and the newest so far was not.
Recognisable(n) ==
    \/ asm.started = {}
    \/ \E m \in asm.started : m < n /\ \A k \in (m + 1)..n : sent[k].id = NextId(sent[k - 1].id)
    \/ sent[n].id = 1 /\ asm.last # 1

\* A leader of block 1 that looks like a new acquisition, from a camera that never
\* starts its count again: the block is not in flight, and the newest one started is
\* neither it nor the one the camera sent before it.
Misleading(p) ==
    /\ ~setup.restartable /\ asm.started # {}
    /\ p[2] = 0 /\ sent[p[1]].id = 1
    /\ p[1] - Max(asm.started) \notin {0, 1}
    /\ \A i \in DOMAIN asm.in_flight : p[1] \notin asm.in_flight[i].from

Ingest(p) ==
    /\ p \in net
    /\ Deliver(p)
    /\ asm' = ingest(asm, p[1], p[2])
    /\ heads' = IF p = <<Len(sent), 0>> /\ asm.in_flight = <<>> /\ Recognisable(p[1]) THEN heads \cup {p[1]} ELSE heads
    /\ misled' = (misled \/ Misleading(p))
    /\ UNCHANGED <<setup, sent, errors, asks>>

\* The packet arrives unusable; its block is only touched.
IngestIgnored(p) ==
    /\ p \in net
    /\ errors < setup.errors
    /\ errors' = errors + 1
    /\ net' = net \ {p}
    /\ asm' = touch(asm, sent[p[1]].id)
    /\ UNCHANGED <<setup, sent, duplicates, asks, heads, misled>>

\* A block one tick later.
Aged(b) == [b EXCEPT !.age = IF @ < setup.timeout THEN @ + 1 ELSE @, !.resend = Elapse(@)]

Tick ==
    /\ asm' = [asm EXCEPT !.in_flight = [i \in DOMAIN @ |-> Aged(@[i])]]
    /\ asm' # asm
    /\ UNCHANGED <<setup, sent, net, duplicates, errors, asks, heads, misled>>

Poll ==
    /\ asm' = poll(asm)
    /\ asm' # asm
    /\ UNCHANGED <<setup, sent, net, duplicates, errors, asks, heads, misled>>

\* The camera's newest block with that id.
Named(id) == Max({n \in DOMAIN sent : sent[n].id = id})

\* resend_due for one block.
Planned(b) ==
    [b EXCEPT !.resend = due(@, config, Budget(b)),
              !.requested = Record(@, newly_requested(b.resend, Budget(b)))]

\* The requests go out to the camera, in block order.
ResendDue ==
    /\ setup.resend
    /\ asm' = [asm EXCEPT !.in_flight =
                 [i \in DOMAIN @ |-> IF Asking(@[i]) THEN Planned(@[i]) ELSE @[i]]]
    /\ asm' # asm
    /\ asks' = asks \cup
         UNION {{Named(b.id)} \X IdsOf(Requests(b.resend, Budget(b))) :
                  b \in {asm.in_flight[i] : i \in {j \in DOMAIN asm.in_flight : Asking(asm.in_flight[j])}}}
    /\ UNCHANGED <<setup, sent, net, duplicates, errors, heads, misled>>

\* The camera answers a request: with the packet, if it numbers one so, or with
\* the status that it, or it and all before it, are gone.
CameraResend(p) ==
    /\ p \in asks
    /\ asks' = asks \ {p}
    /\ p[2] <= sent[p[1]].last + 1
    /\ net' = net \cup {p}
    /\ UNCHANGED <<setup, asm, sent, duplicates, errors, heads, misled>>

CameraGone(p, answer) ==
    /\ p \in asks
    /\ asks' = asks \ {p}
    /\ asm' = on_resend_answer(touch(asm, sent[p[1]].id), sent[p[1]].id, p[2], answer)
    /\ UNCHANGED <<setup, sent, net, duplicates, errors, heads, misled>>

Next ==
    \/ \E kind \in setup.kinds : CameraSend(kind)
    \/ \E p \in net : Ingest(p) \/ IngestIgnored(p)
    \/ Tick
    \/ Poll
    \/ ResendDue
    \/ \E p \in asks : CameraResend(p) \/ \E answer \in {"Gone", "GoneWithPrevious"} : CameraGone(p, answer)

Spec == Init /\ [][Next]_vars

-----------------------------------------------------------------------------
(* Properties. *)

\* What the 16-bit ids need of the network, for every packet that may still arrive:
\* it is of a block at most half a cycle after the newest that was started.  If the
\* count never starts again, it is also at most LATE_WINDOW blocks before it, and an id
\* has not come round again while the block that had it is in flight.  If it may, nothing
\* older than the newest block started is still to come.
Timely ==
    asm.started # {} =>
        \A p \in net :
            LET d == p[1] - Max(asm.started)
            IN  /\ d <= Cycle \div 2
                /\ setup.restartable => d >= 0
                /\ ~setup.restartable =>
                      /\ d >= -LateWindow
                      /\ \A i \in DOMAIN asm.in_flight :
                            asm.in_flight[i].id = sent[p[1]].id => p[1] \in asm.in_flight[i].from

Out(i)  == asm.out[i]
Origin(b) == CHOOSE n \in b.from : TRUE

\* What a block with so many data packets may ask for: leader and trailer included.
Allowance(last) == ((last + 2) * BudgetPercent + 99) \div 100

\* How many data packets a block can be taken to have.
Lengths(b) == {PayloadPackets} \cup {sent[n].last : n \in b.from}

\* Memory and traffic are bounded: no more than MAX_IN_FLIGHT blocks assemble at
\* once, their ids are different, and the one at the front is still open; none has
\* asked for more packets than its budget, retries included, however its gaps were
\* split and its size estimated, nor for one range more than max_requests times.
\* (PayloadSize counts as a length of every block; and the first request for a gap
\* goes out before max_requests is looked at, so 0 of them means one.)
InFlightBounded ==
    /\ Len(asm.in_flight) <= MaxInFlight
    /\ \A i, j \in DOMAIN asm.in_flight : asm.in_flight[i].id = asm.in_flight[j].id => i = j
    /\ asm.in_flight # <<>> => asm.in_flight[1].resolved = "no"
    /\ \A i \in DOMAIN asm.in_flight :
          LET b == asm.in_flight[i]
          IN  /\ \E last \in Lengths(b) : b.resend.asked <= Allowance(last)
              /\ \A g \in b.resend.gaps : g.requests <= MaxRequests \/ g.requests = 1

\* Every packet of such a block can be placed: none but the last is short, none long.
Placeable(kind) ==
    \A pid \in 1..kind.last :
        SizeOf(kind, pid) = "full" \/ (pid = kind.last /\ SizeOf(kind, pid) = "short")

\* A frame delivered as complete is one block of the camera, whole: its leader,
\* its trailer and every data packet came, all of that block, and only its last
\* packet was shorter than the stride.  Never "complete and scrambled".
CompleteIsWhole(b) ==
    b.resolved = "Complete" =>
        /\ Cardinality(b.from) = 1
        /\ b.seen = 0..(sent[Origin(b)].last + 1)
        /\ Placeable(sent[Origin(b)])

\* A frame is given up as incomplete only if some packet of it had not come or
\* could not be placed: no order of arrival makes a whole block incomplete.
NoFalseLoss(b) ==
    b.resolved \in {"Incomplete", "TrailerMissing"} =>
        b.seen # 0..(sent[Origin(b)].last + 1) \/ ~Placeable(sent[Origin(b)])

\* Frames say truly whether they are whole, as long as no two blocks have one id.
\* (A camera that starts its count again while a block 1 is in flight continues that
\* block: nothing in a packet tells the two apart.)
FramesAreTruthful ==
    (\A m, n \in DOMAIN sent : sent[m].id = sent[n].id => m = n) =>
        \A i \in DOMAIN asm.out : CompleteIsWhole(Out(i)) /\ NoFalseLoss(Out(i))

\* The accounting of StreamStats: every block from the first the stream started to
\* the newest is handed out, in flight, unsupported or counted as missed, once; and
\* what is handed out is in the order the camera sent it, whatever was overtaken,
\* repeated or closed early.  Two exceptions.  A camera that restarts its ids mid-stream
\* breaks the count: `last_block_id` says nothing of what was lost across the restart.
\* And so does a leader of block 1 that is only taken for a restart: it came after a later
\* block was started, or the block before it, the last of the ids, was lost (`misled`).
CountedOnce ==
    ~setup.restartable /\ ~misled =>
        /\ \A i, j \in DOMAIN asm.out : i < j => Origin(Out(i)) < Origin(Out(j))
        /\ asm.started # {} =>
              Len(asm.out) + Len(asm.in_flight) + asm.unsupported + asm.missed
                  = Max(asm.started) - Min(asm.started) + 1

\* A block whose leader arrives with nothing in flight, while it is the newest the
\* camera has sent, is started: also after lost blocks, across the wrap of the ids,
\* and as the first block of a new acquisition, whose id is back to 1.  (After a leader
\* that was only taken for a new acquisition, the ids of the others look old.)
NewestIsStarted == ~misled => heads \subseteq asm.started

\* The gaps of a block are separate runs of ids: none empty, none touching another
\* or the frontier, none reaching the trailer once that has come.
GapsAreRuns(b) ==
    /\ \A g \in b.resend.gaps : g.first <= g.last /\ g.last < b.resend.frontier - 1
    /\ \A g, h \in b.resend.gaps : g # h => g.last + 1 < h.first \/ h.last + 1 < g.first
    /\ b.trailer # NoTrailer => b.resend.frontier = b.trailer + 2

\* The blocks whose packets b took are of one length.  (Two of them continue each other
\* only where a camera starts its count again while the first is in flight.)
OneLength(b) == \A m, n \in b.from : sent[m].last = sent[n].last

\* The comment on `frontier`: every id below it arrived, is in one gap or was
\* declared gone.  So only packets of the block that have not arrived and can
\* still come are asked for, and none of them is forgotten.
AsksOnlyForLost ==
    \A i \in DOMAIN asm.in_flight :
        LET b == asm.in_flight[i]
        IN  Asking(b) /\ OneLength(b) =>
                         /\ GapsAreRuns(b)
                         /\ 0..(b.resend.frontier - 1) \subseteq b.seen \cup Missing(b.resend) \cup b.closed
                         /\ Missing(b.resend) \cap (b.seen \cup b.closed) = {}
                         /\ \A n \in b.from : Missing(b.resend) \subseteq 0..(sent[n].last + 1)

\* The documentation of StreamStats: each packet asked for is counted once, and
\* then at most once more, as recovered or as unavailable, however its gap was
\* split, retried, shortened or closed in between.
OutcomeOnce ==
    \A i \in DOMAIN asm.in_flight :
        LET b == asm.in_flight[i]
        IN  OneLength(b) =>
            /\ b.recovered.ids \cap b.unavailable.ids = {}
            /\ b.recovered.ids \cup b.unavailable.ids \subseteq b.requested.ids
            /\ Requested(b.resend) = (b.requested.ids \cap Missing(b.resend))
            /\ Requested(b.resend) \cap (b.recovered.ids \cup b.unavailable.ids) = {}
            /\ \A stat \in {b.requested, b.recovered, b.unavailable} : stat.count = Cardinality(stat.ids)
=============================================================================
