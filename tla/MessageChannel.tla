---------------------------- MODULE MessageChannel ----------------------------
(***************************************************************************)
(* The GVCP message channel of viva-gige's message.rs: `EventSocket`, its   *)
(* receive thread, which acknowledges each message and queues its events,   *)
(* and the concurrent callers of `recv`; with a camera that resends a       *)
(* message until it is acknowledged and holds back the ones behind it, over *)
(* a network that loses and reorders datagrams.                             *)
(*                                                                          *)
(* The camera's messages are numbered; an event is <<message, position>>.   *)
(***************************************************************************)
EXTENDS Integers, Sequences, FiniteSets, SequencesExt

CONSTANTS
    Callers,     \* tasks that call recv
    Capacity,    \* EVENT_QUEUE_CAPACITY: 1024 in the code
    EventCounts, \* events of each message, in the order they are sent
    Unacked,     \* messages that ask for no acknowledgement
    MaxCopies,   \* model bound: times the camera sends a message
    MaxCalls,    \* model bound: calls of recv
    MaxFaults    \* model bound: datagrams lost or overtaken, failures of the socket

ASSUME MessageAssumption ==
    /\ Capacity \in Nat \ {0}
    /\ EventCounts \in Seq(Nat \ {0})
    /\ {MaxCopies, MaxCalls, MaxFaults} \subseteq Nat

VARIABLES
    dev,      \* the camera: the message it sends, copies sent of it, messages it saw acknowledged
    net,      \* datagrams on their way to the socket and in it, oldest first
    acks,     \* acknowledgements on their way back
    rx,       \* the receive thread: "wait", "queue", "count", "count_dropped", "notify", "ended"
    last,     \* last_message, of the camera: 0 for none
    dropping, \* the thread's dropped: events it pushed out and has not counted yet
    queue,    \* QueueState.events
    failed,   \* QueueState.failed
    ended,    \* QueueState.ended
    stop,     \* Shared.stop, set when the socket is dropped
    count,    \* EventStats: events, dropped, retransmissions
    call,     \* what each caller is doing, and whether it was notified
    taken,    \* history: events returned by recv, in order
    overtaken,\* history: a datagram was overtaken
    calls, faults

vars == <<dev, net, acks, rx, last, dropping, queue, failed, ended, stop, count, call, taken, overtaken, calls, faults>>

Messages == DOMAIN EventCounts
events(m) == [i \in 1..EventCounts[m] |-> <<m, i>>]

Quiet == [pc |-> "idle", woken |-> FALSE]

Init ==
    /\ dev = [at |-> 1, copies |-> 0, acked |-> {}]
    /\ net = <<>> /\ acks = {}
    /\ rx = "wait" /\ last = 0 /\ dropping = 0
    /\ queue = <<>> /\ failed = FALSE /\ ended = FALSE /\ stop = FALSE
    /\ count = [events |-> 0, dropped |-> 0, retransmissions |-> 0]
    /\ call = [c \in Callers |-> Quiet]
    /\ taken = <<>> /\ overtaken = FALSE
    /\ calls = 0 /\ faults = 0

Fault == faults < MaxFaults /\ faults' = faults + 1

-----------------------------------------------------------------------------
(* The camera and the network. *)

HostKeep == UNCHANGED <<rx, last, dropping, queue, failed, ended, stop, count, call, taken, calls>>

\* A message is sent, and sent again until it is acknowledged.
Send ==
    /\ dev.at \in Messages /\ dev.copies < MaxCopies
    /\ dev.at \in Unacked => dev.copies = 0
    /\ net' = Append(net, dev.at)
    /\ dev' = [dev EXCEPT !.copies = @ + 1]
    /\ HostKeep /\ UNCHANGED <<acks, overtaken, faults>>

\* The next one: this one is acknowledged, asks for no acknowledgement, or is given up.
SendNext ==
    /\ dev.at \in Messages
    /\ dev.copies > 0 /\ (dev.at \in Unacked \cup dev.acked \/ dev.copies = MaxCopies)
    /\ dev' = [dev EXCEPT !.at = @ + 1, !.copies = 0]
    /\ HostKeep /\ UNCHANGED <<net, acks, overtaken, faults>>

AckArrives(m) ==
    /\ m \in acks
    /\ acks' = acks \ {m}
    /\ dev' = [dev EXCEPT !.acked = IF m = dev.at THEN @ \cup {m} ELSE @]
    /\ HostKeep /\ UNCHANGED <<net, overtaken, faults>>

LoseAck(m) ==
    /\ m \in acks /\ Fault
    /\ acks' = acks \ {m}
    /\ HostKeep /\ UNCHANGED <<dev, net, overtaken>>

LoseDatagram ==
    /\ net # <<>> /\ Fault
    /\ net' = Tail(net)
    /\ HostKeep /\ UNCHANGED <<dev, acks, overtaken>>

\* The oldest datagram is overtaken by the ones behind it.
Overtake ==
    /\ Len(net) > 1 /\ Fault
    /\ net' = Append(Tail(net), Head(net))
    /\ overtaken' = TRUE
    /\ HostKeep /\ UNCHANGED <<dev, acks>>

-----------------------------------------------------------------------------
(* The receive thread. *)

CameraKeep == UNCHANGED <<dev, taken, overtaken, calls>>

\* Mutated form: the copy is recognised only while its events are still queued.
RepeatsQueued(m) == queue # <<>> /\ m = queue[Len(queue)][1]

\* A copy of the message before it.
Repeats(m) == m = last

\* Mutated form: what a full queue cannot take is left out and not counted.
KeepOldest(m) ==
    LET room == Capacity - Len(queue)
        all  == events(m)
    IN  /\ queue' = queue \o SubSeq(all, 1, IF Len(all) < room THEN Len(all) ELSE room)
        /\ dropping' = 0

\* Events are queued; past the capacity the oldest go.
Enqueue(m) ==
    LET all    == queue \o events(m)
        excess == IF Len(all) > Capacity THEN Len(all) - Capacity ELSE 0
    IN  /\ queue' = SubSeq(all, excess + 1, Len(all))
        /\ dropping' = excess

ReceiverKeep == CameraKeep /\ UNCHANGED <<failed, ended, stop, call>>

\* One datagram: acknowledged if it asks for it, which may fail, then dropped if it
\* repeats the one before; the events of another message are in the thread's hands.
handle_datagram(sent) ==
    /\ rx = "wait" /\ ~ended /\ net # <<>>
    /\ net' = Tail(net)
    /\ LET m == Head(net)
       IN  /\ acks' = IF m \notin Unacked /\ sent THEN acks \cup {m} ELSE acks
           /\ last' = m
           /\ rx' = IF Repeats(m) THEN "wait" ELSE "queue"
           /\ count' = [count EXCEPT !.retransmissions = IF Repeats(m) THEN @ + 1 ELSE @]
    /\ IF sent THEN UNCHANGED faults ELSE Fault
    /\ ReceiverKeep /\ UNCHANGED <<queue, dropping>>

\* Under the lock, the events are queued.
queue_events ==
    /\ rx = "queue" /\ rx' = "count"
    /\ Enqueue(last)
    /\ ReceiverKeep /\ UNCHANGED <<net, acks, last, count, faults>>

\* The lock is released: the events are counted,
count_events ==
    /\ rx = "count" /\ rx' = IF dropping > 0 THEN "count_dropped" ELSE "notify"
    /\ count' = [count EXCEPT !.events = @ + EventCounts[last]]
    /\ ReceiverKeep /\ UNCHANGED <<net, acks, last, dropping, queue, faults>>

\* then those that went.  The callers are notified last.
count_dropped ==
    /\ rx = "count_dropped" /\ rx' = "notify"
    /\ count' = [count EXCEPT !.dropped = @ + dropping]
    /\ dropping' = 0
    /\ ReceiverKeep /\ UNCHANGED <<net, acks, last, queue, faults>>

\* Mutated form: one caller is notified, whatever a message brings.
NotifyOne ==
    LET registered == {c \in Callers : call[c].pc \in {"registered", "waiting"}}
    IN  IF registered = {} THEN call ELSE [call EXCEPT ![CHOOSE c \in registered : TRUE].woken = TRUE]

\* Whoever is registered is notified, waiting already or not.
Notified ==
    [c \in Callers |-> IF call[c].pc \in {"registered", "waiting"} THEN [call[c] EXCEPT !.woken = TRUE] ELSE call[c]]

notify_waiters ==
    /\ rx = "notify"
    /\ rx' = IF ended THEN "ended" ELSE "wait"
    /\ call' = Notified
    /\ CameraKeep /\ UNCHANGED <<net, acks, last, dropping, queue, failed, ended, stop, count, faults>>

\* The thread ends: told to stop, or the socket failed.
ReceiveEnds(failure) ==
    /\ rx = "wait" /\ ~ended
    /\ IF failure THEN Fault ELSE stop /\ UNCHANGED faults
    /\ failed' = failure /\ ended' = TRUE /\ rx' = "notify"
    /\ CameraKeep /\ UNCHANGED <<net, acks, last, dropping, queue, stop, count, call>>

-----------------------------------------------------------------------------
(* recv. *)

CallKeep == UNCHANGED <<dev, net, acks, rx, last, dropping, ended, stop, count, overtaken, faults>>

Idle(c) == call[c].pc = "idle"

\* A caller registers with the notifier, then looks at the queue.
recv(c) ==
    /\ Idle(c) /\ calls < MaxCalls /\ ~stop
    /\ call' = [call EXCEPT ![c] = [pc |-> "registered", woken |-> FALSE]]
    /\ calls' = calls + 1
    /\ CallKeep /\ UNCHANGED <<queue, failed, taken>>

\* An event; the failure, once; an end that stays; or nothing yet.
try_take(c) ==
    /\ call[c].pc = "registered"
    /\ IF queue # <<>> THEN queue' = Tail(queue) /\ taken' = Append(taken, Head(queue)) /\ UNCHANGED failed
       ELSE failed' = FALSE /\ UNCHANGED <<queue, taken>>
    /\ call' = [call EXCEPT ![c].pc = IF queue # <<>> \/ failed \/ ended THEN "idle" ELSE "waiting"]
    /\ CallKeep /\ UNCHANGED calls

\* Notified: register again and look again.
Wake(c) ==
    /\ call[c].pc = "waiting" /\ call[c].woken
    /\ call' = [call EXCEPT ![c] = [pc |-> "registered", woken |-> FALSE]]
    /\ CallKeep /\ UNCHANGED <<queue, failed, taken, calls>>

\* The caller's future is dropped while it waits.
Cancel(c) ==
    /\ call[c].pc = "waiting"
    /\ call' = [call EXCEPT ![c] = Quiet]
    /\ CallKeep /\ UNCHANGED <<queue, failed, taken, calls>>

\* The socket is dropped, which no caller can outlive.
DropSocket ==
    /\ ~stop /\ \A c \in Callers : Idle(c)
    /\ stop' = TRUE
    /\ UNCHANGED <<dev, net, acks, rx, last, dropping, queue, failed, ended, count, call, taken, overtaken, calls, faults>>

-----------------------------------------------------------------------------
Camera == Send \/ SendNext \/ \E m \in Messages : AckArrives(m) \/ LoseAck(m)

Receiver ==
    \/ \E sent \in BOOLEAN : handle_datagram(sent)
    \/ queue_events \/ count_events \/ count_dropped \/ notify_waiters
    \/ \E failure \in BOOLEAN : ReceiveEnds(failure)

Next ==
    \/ Camera \/ LoseDatagram \/ Overtake \/ Receiver \/ DropSocket
    \/ \E c \in Callers : recv(c) \/ try_take(c) \/ Wake(c) \/ Cancel(c)

Spec == Init /\ [][Next]_vars

-----------------------------------------------------------------------------
(* Properties. *)

Before(a, b) == a[1] < b[1] \/ (a[1] = b[1] /\ a[2] < b[2])

\* "Events come in the order the device sent them", and the events of a message that is
\* sent again, at whatever moment its acknowledgement is lost, "are not queued twice".
\* A copy that others overtake is the exception: only the last message is remembered.
OnceInOrder ==
    LET seen == taken \o queue
    IN  ~overtaken => \A i, j \in DOMAIN seen : i < j => Before(seen[i], seen[j])

\* A message is acknowledged before its events are queued, and counted after: between
\* the two the thread's hands hold it.  What the camera saw acknowledged, and will not send
\* again, is in them or was queued whole: each event is taken, queued, or one of the oldest
\* that were dropped, which the thread counts before it reads another datagram.
AckedIsAccounted ==
    LET seen   == Range(taken \o queue)
        inHand == IF rx = "queue" THEN {last} ELSE {}
        lost   == (UNION {{<<m, i>> : i \in 1..EventCounts[m]} : m \in dev.acked \ inHand}) \ seen
    IN  /\ rx \in {"wait", "notify", "ended"} =>
              /\ count.events = Len(taken) + Len(queue) + count.dropped
              /\ Cardinality(lost) <= count.dropped
        /\ Cardinality(lost) <= count.dropped + dropping
        /\ \A e \in lost, k \in DOMAIN queue : ~overtaken => Before(e, queue[k])

\* No caller of recv sleeps on an event, a failure or the end of the channel: when the
\* receive thread has nothing left to say, whoever waits is notified or has nothing to get.
NoLostWakeup ==
    rx \notin {"count", "count_dropped", "notify"} /\ (queue # <<>> \/ failed \/ ended) =>
        \A c \in Callers : call[c].pc = "waiting" => call[c].woken
=============================================================================
