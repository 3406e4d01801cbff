------------------------------ MODULE U3vStream ------------------------------
(***************************************************************************)
(* A USB3 Vision stream: `U3vStream` of viva-u3v's stream.rs, which keeps   *)
(* transfers queued on a bulk endpoint and plans each for where the device  *)
(* is in its block, and the loop of the reader thread that takes its blocks *)
(* (viva-genicam's stream/u3v.rs).                                          *)
(*                                                                          *)
(* Data is counted in USB packets.  A packet is <<n, i>>: 0 is the leader   *)
(* of the device's n-th block, 1..len its payload, len + 1 its trailer.  A  *)
(* transfer ends when it is full or at a short packet: a leader, a trailer, *)
(* or the last of a payload that is not as long as the layout says.         *)
(***************************************************************************)
EXTENDS Integers, Sequences, FiniteSetsExt, SequencesExt

CONSTANTS
    Size, Count, Final,  \* StreamLayout: payload_transfer_size and _count, final_transfer1_size
    InFlight,            \* transfers_in_flight: 8 in the code
    MaxFailures,         \* MAX_CONSECUTIVE_FAILURES: 8 in the code
    Lengths,             \* payload lengths the device may send
    MaxBlocks,           \* model bound: blocks the device sends
    MaxFaults            \* model bound: faults, of all kinds

ASSUME U3vAssumption ==
    /\ {Size, InFlight} \subseteq Nat \ {0}
    /\ {Count, Final, MaxFailures, MaxBlocks, MaxFaults} \subseteq Nat
    /\ Lengths \subseteq Nat \ {0}

VARIABLES
    u,        \* the stream: see NewStream
    at,       \* what next_frame_within is doing: see Steps
    pending,  \* the endpoint's transfers: see Transfer
    dev,      \* the device: the lengths of its blocks, the packet it sends next
    usb,      \* whether the device is there, and is still listed
    faults,   \* faults so far
    reader,   \* the reader thread: last_block, frames missed, frames delivered
    harmed,   \* history: blocks the device or the bus did not deliver whole and in time
    cut       \* history: blocks that lost their place: a cancelled transfer cut their
              \* payload, or their trailer came at the end of a payload transfer

vars == <<u, at, pending, dev, usb, faults, reader, harmed, cut>>

Steps == {"top", "wait", "replan", "recover", "ended"}

\* Cursor: Leader, Trailer, or how far into the payload.
Leader  == -1
Trailer == -2
NoBlock == [id |-> 0, payload |-> <<>>, ended |-> FALSE]

\* planned, next, block and ready; the counters of skipped transfers, of errors and of
\* errors in a row.
NewStream == [planned |-> <<>>, next |-> Leader, block |-> NoBlock, ready |-> <<>>,
              skipped |-> 0, errors |-> 0, failures |-> 0]

capacity == Size * Count + Final

Init ==
    /\ u = NewStream
    /\ at = "top"
    /\ pending = <<>>
    /\ dev = [lens |-> <<>>, i |-> 0]
    /\ usb = [present |-> TRUE, listed |-> TRUE]
    /\ faults = 0
    /\ reader = [last |-> 0, first |-> 0, missed |-> 0, out |-> <<>>]
    /\ harmed = {} /\ cut = {}

-----------------------------------------------------------------------------
(* The bus: transfers are filled, and end, in the order they were queued. *)

Transfer(len) == [len |-> len, data |-> <<>>, status |-> "open"]

Open == {j \in DOMAIN pending : pending[j].status = "open"}

Len_(n) == dev.lens[n]
Sending == Len(dev.lens)

\* Nothing of a block is left to send.
Idle == IF Sending = 0 THEN TRUE ELSE dev.i > Len_(Sending) + 1

ShortPacket(p) ==
    \/ p[2] \in {0, Len_(p[1]) + 1}
    \/ p[2] = Len_(p[1]) /\ Len_(p[1]) # capacity

Fault == faults < MaxFaults /\ faults' = faults + 1

\* The device begins a block when it has sent the last one's trailer; one longer than the
\* layout holds is a fault.
BeginBlock(len) ==
    /\ usb.present /\ Sending < MaxBlocks /\ Idle
    /\ dev' = [lens |-> Append(dev.lens, len), i |-> 0]
    /\ IF len > capacity THEN Fault /\ harmed' = harmed \cup {Sending + 1}
                         ELSE UNCHANGED <<faults, harmed>>
    /\ UNCHANGED <<u, at, pending, usb, reader, cut>>

\* Its next packet goes to the oldest transfer that is not done.
Transmit ==
    /\ usb.present /\ ~Idle
    /\ Open # {}
    /\ LET j == Min(Open)
           p == <<Sending, dev.i>>
           t == [pending[j] EXCEPT !.data = Append(@, p)]
       IN  pending' = [pending EXCEPT ![j] =
              [t EXCEPT !.status = IF ShortPacket(p) \/ Len(t.data) = t.len THEN "ok" ELSE "open"]]
           /\ cut' = IF dev.i > Len_(Sending) /\ pending[j].data # <<>> THEN cut \cup {Sending} ELSE cut
    /\ dev' = [dev EXCEPT !.i = @ + 1]
    /\ UNCHANGED <<u, at, usb, faults, reader, harmed>>

\* Blocks that a transfer carries data of, or whose data it would have carried next.
Touched(j) == {p[1] : p \in Range(pending[j].data)} \cup ({Sending} \ {0})

\* A transfer fails (a stall, a fault), or the host's stack ends it.
TransferFails(status) ==
    /\ Fault /\ Open # {}
    /\ pending' = [pending EXCEPT ![Min(Open)].status = status]
    /\ harmed' = harmed \cup Touched(Min(Open))
    /\ UNCHANGED <<u, at, dev, usb, reader, cut>>

\* The device is unplugged: transfers end, as a disconnect or as some other failure,
\* and a moment later the system no longer lists it.
Unplug(status) ==
    /\ Fault /\ usb.present
    /\ usb' = [usb EXCEPT !.present = FALSE]
    /\ pending' = [j \in DOMAIN pending |-> IF j \in Open THEN [pending[j] EXCEPT !.status = status] ELSE pending[j]]
    /\ harmed' = harmed \cup ({Sending} \ {0})
    /\ UNCHANGED <<u, at, dev, reader, cut>>

Delist ==
    /\ ~usb.present /\ usb.listed
    /\ usb' = [usb EXCEPT !.listed = FALSE]
    /\ UNCHANGED <<u, at, pending, dev, faults, reader, harmed, cut>>

cancel_all(ts) == [j \in DOMAIN ts |-> IF ts[j].status = "open" THEN [ts[j] EXCEPT !.status = "cancelled"] ELSE ts[j]]

-----------------------------------------------------------------------------
(* Blocks. *)

\* Hand out what there is of the open block, without a trailer.
abandon(s) ==
    IF s.block.id = 0 THEN s
    ELSE [s EXCEPT !.ready = Append(@, [id |-> s.block.id, payload |-> s.block.payload, valid |-> -1]),
                   !.block = NoBlock]

\* Close the block with the trailer of block n, which says how long the payload is.
finish(s, n) ==
    IF n # s.block.id THEN abandon(s)
    ELSE LET payload == IF Len(s.block.payload) > Len_(n) THEN SubSeq(s.block.payload, 1, Len_(n)) ELSE s.block.payload
         IN  [s EXCEPT !.ready = Append(@, [id |-> n, payload |-> payload, valid |-> Len_(n)]),
                       !.block = NoBlock, !.failures = 0]

\* One packet of framing, and nothing else.
IsLeader(data)  == Len(data) = 1 /\ data[1][2] = 0
IsTrailer(data) == Len(data) = 1 /\ data[1][2] = Len_(data[1][1]) + 1

AtPayload(s) == s.block.id # 0 /\ ~s.block.ended /\ Len(s.block.payload) < capacity

\* Mutated form: a leader does not close the block that is open.
AbsorbKeepingBlock(s, data, requested) ==
    IF IsLeader(data) THEN [s EXCEPT !.block = [id |-> data[1][1], payload |-> @.payload, ended |-> FALSE]]
    ELSE IF s.block.id # 0 /\ IsTrailer(data) THEN finish(s, data[1][1])
    ELSE IF AtPayload(s) THEN [s EXCEPT !.block.payload = @ \o data, !.block.ended = Len(data) < requested]
    ELSE [s EXCEPT !.skipped = @ + 1]

\* A leader opens a block, a trailer closes it, anything else is payload where payload
\* is due.
absorb(s, data, requested) ==
    LET room == capacity - Len(s.block.payload)
        over == Len(data) > room
    IN  IF IsLeader(data) THEN [abandon(s) EXCEPT !.block = [id |-> data[1][1], payload |-> <<>>, ended |-> capacity = 0]]
        ELSE IF s.block.id # 0 /\ IsTrailer(data) THEN finish(s, data[1][1])
        ELSE IF AtPayload(s)
        THEN [s EXCEPT !.block.payload = @ \o SubSeq(data, 1, IF over THEN room ELSE Len(data)),
                       !.block.ended = Len(data) < requested \/ Len(data) >= room,
                       !.skipped = IF over THEN @ + 1 ELSE @]
        ELSE [s EXCEPT !.skipped = @ + 1]

\* Where the device is, by what has arrived.
cursor(s) ==
    IF s.block.id = 0 THEN Leader
    ELSE IF s.block.ended \/ Len(s.block.payload) >= capacity THEN Trailer
    ELSE Len(s.block.payload)

\* The transfer for a cursor: its size and the cursor after it.
slot(c) ==
    LET full == Size * Count
        end  == IF c < full THEN (c \div Size + 1) * Size ELSE capacity
    IN  CASE c = Leader  -> [len |-> 1, next |-> IF capacity = 0 THEN Trailer ELSE 0]
          [] c = Trailer -> [len |-> 1, next |-> Leader]
          [] OTHER       -> [len |-> end - c, next |-> IF end >= capacity THEN Trailer ELSE end]

-----------------------------------------------------------------------------
(* next_frame_within. *)

\* One transfer more, until there are enough.
fill ==
    /\ at = "top" /\ u.ready = <<>>
    /\ IF Len(pending) < InFlight
       THEN LET s == slot(u.next)
            IN  /\ pending' = Append(pending, Transfer(s.len))
                /\ u' = [u EXCEPT !.planned = Append(@, [at |-> u.next, len |-> s.len]), !.next = s.next]
                /\ at' = at
       ELSE at' = "wait" /\ UNCHANGED <<u, pending>>
    /\ UNCHANGED <<dev, usb, faults, reader, harmed, cut>>

Completed == pending # <<>> /\ Head(pending).status # "open"

\* Nothing completed in time; a block that has been quiet for too long is given up.
IdleOut(stalled) ==
    /\ at = "wait" /\ ~Completed
    /\ stalled => u.block.id # 0 /\ Fault
    /\ u' = IF stalled THEN abandon(u) ELSE u
    /\ harmed' = IF stalled THEN harmed \cup {u.block.id} ELSE harmed
    /\ at' = "top"
    /\ UNCHANGED <<pending, dev, usb, reader, cut>>
    /\ ~stalled => UNCHANGED faults

\* The stream with the head transfer taken from the plan, and the size it was planned with.
Unplanned  == [u EXCEPT !.planned = IF @ = <<>> THEN @ ELSE Tail(@)]
Requested  == IF u.planned = <<>> THEN Len(Head(pending).data) ELSE Head(u.planned).len

\* After a completion: go on, or plan again if the device is not where it should be.
Onward(s) ==
    IF s.planned # <<>> /\ Head(s.planned).at # cursor(s)
    THEN u' = s /\ at' = "replan" /\ pending' = cancel_all(Tail(pending))
    ELSE /\ u' = IF s.planned = <<>> THEN [s EXCEPT !.next = cursor(s)] ELSE s
         /\ at' = "top" /\ pending' = Tail(pending)

\* recover, up to its drain: the block is given up, unless the device is gone or
\* transfers keep failing.
Recovering(s) ==
    LET failed == [abandon(s) EXCEPT !.errors = @ + 1, !.failures = @ + 1]
    IN  /\ u' = IF usb.listed THEN failed ELSE s
        /\ at' = IF usb.listed /\ failed.failures <= MaxFailures THEN "recover" ELSE "ended"
        /\ pending' = cancel_all(Tail(pending))

WaitNext ==
    /\ at = "wait" /\ Completed
    /\ LET t == Head(pending)
       IN  CASE t.status = "ok"        -> Onward(absorb(Unplanned, t.data, Requested))
             [] t.status = "cancelled" -> Recovering(absorb(Unplanned, t.data, Requested))
             [] t.status = "failed"    -> Recovering(Unplanned)
             [] t.status = "gone"      -> u' = Unplanned /\ at' = "ended" /\ pending' = Tail(pending)
    /\ UNCHANGED <<dev, usb, faults, reader, harmed, cut>>

\* Mutated form: what had arrived is not taken in.
ReplanDiscards ==
    /\ at = "replan" /\ pending # <<>>
    /\ u' = Unplanned /\ pending' = Tail(pending)
    /\ UNCHANGED <<at, dev, usb, faults, reader, harmed, cut>>

\* replan: the transfers that come back are taken in; a cancelled one without data
\* never happened.
ReplanDrain ==
    /\ at = "replan" /\ pending # <<>>
    /\ LET t == Head(pending)
           s == absorb(Unplanned, t.data, Requested)
           empty == t.status = "cancelled" /\ t.data = <<>>
       IN  /\ CASE t.status = "failed" -> Recovering(Unplanned)
                [] t.status = "gone"   -> u' = Unplanned /\ at' = "ended" /\ pending' = Tail(pending)
                [] OTHER               -> u' = (IF empty THEN Unplanned ELSE s) /\ at' = at /\ pending' = Tail(pending)
           /\ cut' = IF t.status = "cancelled" /\ s.block.id # 0 /\ s.block.payload # u.block.payload THEN cut \cup {s.block.id} ELSE cut
    /\ UNCHANGED <<dev, usb, faults, reader, harmed>>

\* All are back, or one does not come back within DRAIN_TIMEOUT: from then on the plan
\* and the queue are out of step, and any block may suffer.
ReplanDone(late) ==
    /\ at = "replan"
    /\ IF late THEN pending # <<>> /\ Fault ELSE pending = <<>> /\ UNCHANGED faults
    /\ u' = [u EXCEPT !.planned = <<>>, !.next = cursor(u)]
    /\ at' = "top"
    /\ harmed' = IF late THEN 1..MaxBlocks ELSE harmed
    /\ UNCHANGED <<pending, dev, usb, reader, cut>>

\* recover's drain: what comes back is dropped.
RecoverDrain ==
    /\ at = "recover" /\ pending # <<>>
    /\ at' = IF Head(pending).status = "gone" THEN "ended" ELSE at
    /\ pending' = Tail(pending)
    /\ harmed' = harmed \cup {p[1] : p \in Range(Head(pending).data)}
    /\ UNCHANGED <<u, dev, usb, faults, reader, cut>>

\* All are back, or one is late: the endpoint is reset, and the device drops what it had
\* queued on it, up to some packet.
Reset(i, late) ==
    /\ at = "recover"
    /\ IF late THEN pending # <<>> /\ Fault ELSE pending = <<>> /\ UNCHANGED faults
    /\ IF usb.present
       THEN /\ u' = [u EXCEPT !.planned = <<>>, !.next = Leader]
            /\ at' = "top"
            /\ i \in IF Idle THEN {dev.i} ELSE dev.i..(Len_(Sending) + 2)
            /\ dev' = [dev EXCEPT !.i = i]
            /\ harmed' = IF late THEN 1..MaxBlocks ELSE harmed \cup (IF i # dev.i THEN {Sending} ELSE {})
       ELSE at' = "ended" /\ i = 0 /\ UNCHANGED <<u, dev, harmed>>
    /\ UNCHANGED <<pending, usb, reader, cut>>

-----------------------------------------------------------------------------
(* read_loop. *)

\* Mutated form: the gap is one too large.
MissedFromLast(last, id) == IF last # 0 /\ id > last THEN id - last ELSE 0

MissedBetween(last, id) == IF last # 0 /\ id > last + 1 THEN id - last - 1 ELSE 0

Status(frame) ==
    IF frame.valid = -1 THEN "TrailerMissing"
    ELSE IF Len(frame.payload) < frame.valid THEN "Incomplete" ELSE "Complete"

\* A block is counted and goes to the delivery queue.
ReadLoop ==
    /\ at = "top" /\ u.ready # <<>>
    /\ LET frame == Head(u.ready)
       IN  reader' = [last |-> frame.id, first |-> IF reader.first = 0 THEN frame.id ELSE reader.first,
                      missed |-> reader.missed + MissedBetween(reader.last, frame.id),
                      out |-> Append(reader.out, [id |-> frame.id, payload |-> frame.payload, status |-> Status(frame)])]
    /\ u' = [u EXCEPT !.ready = Tail(@)]
    /\ UNCHANGED <<at, pending, dev, usb, faults, harmed, cut>>

-----------------------------------------------------------------------------
Host ==
    \/ fill \/ WaitNext \/ ReplanDrain \/ RecoverDrain \/ ReadLoop
    \/ \E stalled \in BOOLEAN : IdleOut(stalled)
    \/ \E late \in BOOLEAN : ReplanDone(late)
    \/ \E i \in 0..(Max(Lengths) + 2), late \in BOOLEAN : Reset(i, late)

Device ==
    \/ \E len \in Lengths : BeginBlock(len)
    \/ Transmit
    \/ Delist
    \/ \E status \in {"failed", "cancelled"} : TransferFails(status)
    \/ \E status \in {"failed", "gone"} : Unplug(status)

Next == Host \/ Device

Spec == Init /\ [][Next]_vars

-----------------------------------------------------------------------------
(* Properties. *)

Out == reader.out

\* A frame delivered as complete is one block's payload, all of it, in order: whatever
\* was cancelled, replanned, reset or skipped, no other block's data is in it.
CompleteIsOneBlock ==
    \A k \in DOMAIN Out : Out[k].status = "Complete" =>
        Out[k].payload = [i \in 1..Len_(Out[k].id) |-> <<Out[k].id, i>>]

\* Frames come in the device's order, once each, and those delivered and those counted
\* as missed add up to what the device sent from the first to the newest.
DeliveredOrMissed ==
    /\ \A j, k \in DOMAIN Out : j < k => Out[j].id < Out[k].id
    /\ Len(Out) + reader.missed = IF Out = <<>> THEN 0 ELSE reader.last - reader.first + 1

\* Not complete, or not there at all, though a newer frame is.
Lost == {n \in reader.first..reader.last : n # 0 /\ ~\E k \in DOMAIN Out : Out[k].id = n /\ Out[k].status = "Complete"}

\* A block is lost only for a cause: a fault touched it; replanning cancelled a transfer
\* that had some of its payload; or it met transfers planned for an earlier block, and its
\* trailer, behind payload, was not seen as one.
LossHasCause == Lost \subseteq harmed \cup cut

\* Replanning itself costs nothing: it "plans again from where the device really is".
ReplanCostsNothing == Lost \subseteq harmed
=============================================================================
