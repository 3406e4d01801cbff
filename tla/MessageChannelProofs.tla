------------------------- MODULE MessageChannelProofs -------------------------
(***************************************************************************)
(* Proofs about the GVCP message channel, for any number of callers, any    *)
(* messages and any capacity: no wake-up is lost, events come once and in   *)
(* the camera's order, and what was acknowledged is accounted for.          *)
(***************************************************************************)
EXTENDS MessageChannel, FiniteSetTheorems, TLAPS

Event == Nat \X Nat

TypeInv ==
    /\ dev \in [at : Nat, copies : Nat, acked : SUBSET Messages]
    /\ net \in Seq(Messages) /\ acks \subseteq Messages
    /\ rx \in {"wait", "queue", "count", "count_dropped", "notify", "ended"}
    /\ last \in {0} \cup Messages /\ (rx \in {"queue", "count"} => last \in Messages)
    /\ dropping \in Nat /\ (rx \in {"wait", "queue", "notify", "ended"} => dropping = 0)
    /\ queue \in Seq(Event) /\ taken \in Seq(Event)
    /\ count \in [events : Nat, dropped : Nat, retransmissions : Nat]
    /\ call \in [Callers -> [pc : {"idle", "registered", "waiting"}, woken : BOOLEAN]]
    /\ overtaken \in BOOLEAN

\* The message that is acknowledged and not queued, and the events queued and not counted.
InHand == IF rx = "queue" THEN {last} ELSE {}
Uncounted == IF rx = "count" THEN EventCounts[last] ELSE 0

\* The messages that were received, as far as anybody remembers them: their events, and
\* those of the queued ones that are gone.
Heard == dev.acked \cup acks \cup ({last} \ {0})
EventsOf(ms) == UNION {{<<m, i>> : i \in 1..EventCounts[m]} : m \in ms}
Lost == EventsOf(Heard) \ (EventsOf(InHand) \cup Range(taken) \cup Range(queue))

\* The messages there can be events of.
Queued == {m \in Nat : m <= last /\ m \notin InHand}

InOrder(s) == \A i, j \in DOMAIN s : i < j => Before(s[i], s[j])

\* Without overtaking, datagrams arrive in the order of the messages: each is a copy of
\* the last message or a later one, and everything heard so far is not.
NetInOrder ==
    /\ \A i, j \in DOMAIN net : i < j => net[i] <= net[j]
    /\ \A i \in DOMAIN net : last <= net[i] /\ net[i] <= dev.at
    /\ last <= dev.at
    /\ \A m \in Heard : m <= last

EventsInOrder ==
    /\ InOrder(taken) /\ InOrder(queue)
    /\ \A i \in DOMAIN taken, j \in DOMAIN queue : Before(taken[i], queue[j])
    /\ \A i \in DOMAIN taken : taken[i][1] \in Queued
    /\ \A i \in DOMAIN queue : queue[i][1] \in Queued
    /\ \A e \in Lost, k \in DOMAIN queue : Before(e, queue[k])

Accounted ==
    /\ count.events + Uncounted = Len(taken) + Len(queue) + count.dropped + dropping
    /\ IsFiniteSet(Lost) /\ Cardinality(Lost) <= count.dropped + dropping

IInv ==
    /\ TypeInv /\ NoLostWakeup /\ Accounted
    /\ ~overtaken => NetInOrder /\ EventsInOrder
-----------------------------------------------------------------------------
(* Sequences. *)

LEMMA TailIs ==
    ASSUME NEW S, NEW s \in Seq(S), s # <<>>
    PROVE  /\ Tail(s) \in Seq(S) /\ Len(Tail(s)) = Len(s) - 1 /\ DOMAIN Tail(s) = 1..Len(s) - 1
           /\ \A i \in 1..Len(s) - 1 : Tail(s)[i] = s[i + 1]
           /\ Head(s) = s[1] /\ s[1] \in S /\ DOMAIN s = 1..Len(s) /\ Len(s) \in Nat /\ Len(s) > 0
  OBVIOUS

LEMMA LengthIs ==
    ASSUME NEW S, NEW s \in Seq(S)
    PROVE  Len(s) \in Nat
  OBVIOUS

LEMMA QueueLengths ==
    ASSUME TypeInv
    PROVE  Len(taken) \in Nat /\ Len(queue) \in Nat
  <1>1. taken \in Seq(Event) /\ queue \in Seq(Event)
    BY DEF TypeInv
  <1>. QED  BY <1>1, LengthIs

LEMMA AppendIs ==
    ASSUME NEW S, NEW s \in Seq(S), NEW e \in S
    PROVE  /\ Append(s, e) \in Seq(S) /\ Len(Append(s, e)) = Len(s) + 1
           /\ DOMAIN Append(s, e) = 1..Len(s) + 1 /\ DOMAIN s = 1..Len(s) /\ Len(s) \in Nat
           /\ \A i \in 1..Len(s) : Append(s, e)[i] = s[i]
           /\ Append(s, e)[Len(s) + 1] = e
  OBVIOUS

LEMMA ConcatIs ==
    ASSUME NEW S, NEW s \in Seq(S), NEW t \in Seq(S)
    PROVE  /\ s \o t \in Seq(S) /\ Len(s \o t) = Len(s) + Len(t) /\ DOMAIN (s \o t) = 1..Len(s) + Len(t)
           /\ DOMAIN s = 1..Len(s) /\ DOMAIN t = 1..Len(t) /\ Len(s) \in Nat /\ Len(t) \in Nat
           /\ \A i \in 1..Len(s) : (s \o t)[i] = s[i]
           /\ \A i \in 1..Len(s) + Len(t) : i > Len(s) => i - Len(s) \in 1..Len(t) /\ (s \o t)[i] = t[i - Len(s)]
           /\ \A i \in 1..Len(t) : i + Len(s) \in 1..Len(s) + Len(t) /\ (s \o t)[i + Len(s)] = t[i]
  OBVIOUS

\* A sequence without its first n.
LEMMA RestIs ==
    ASSUME NEW S, NEW s \in Seq(S), NEW n \in 0..Len(s)
    PROVE  /\ SubSeq(s, n + 1, Len(s)) \in Seq(S)
           /\ Len(SubSeq(s, n + 1, Len(s))) = Len(s) - n
           /\ DOMAIN SubSeq(s, n + 1, Len(s)) = 1..Len(s) - n
           /\ \A i \in 1..Len(s) - n : i + n \in 1..Len(s) /\ SubSeq(s, n + 1, Len(s))[i] = s[i + n]
  OBVIOUS

LEMMA FirstBounded ==
    ASSUME NEW S, NEW s \in Seq(S), NEW n \in Nat, n <= Len(s)
    PROVE  IsFiniteSet({s[i] : i \in 1..n}) /\ Cardinality({s[i] : i \in 1..n}) <= n
           /\ Cardinality({s[i] : i \in 1..n}) \in Nat
  <1>. DEFINE T == {s[i] : i \in 1..n}
              f == [i \in 1..n |-> s[i]]
  <1>1. f \in Surjection(1..n, T)
    BY DEF Surjection
  <1>2. IsFiniteSet(1..n) /\ Cardinality(1..n) = n
    BY FS_Interval
  <1>. HIDE DEF f, T
  <1>3. IsFiniteSet(T) /\ Cardinality(T) <= n
    BY <1>1, <1>2, FS_Surjection
  <1>. QED  BY <1>3, FS_CardinalityType DEF T

-----------------------------------------------------------------------------
(* Steps that change neither the queue nor what was taken. *)

LEMMA LostShrinks ==
    ASSUME Heard' \subseteq Heard, InHand' = InHand,
           Range(taken') \cup Range(queue') = Range(taken) \cup Range(queue)
    PROVE  Lost' \subseteq Lost
  BY DEF Lost, EventsOf

LEMMA StillAccounted ==
    ASSUME IInv, Lost' \subseteq Lost,
           count'.events + Uncounted' = Len(taken') + Len(queue') + count'.dropped + dropping',
           count'.dropped + dropping' = count.dropped + dropping
    PROVE  Accounted'
  <1>1. IsFiniteSet(Lost) /\ Cardinality(Lost) <= count.dropped + dropping
    BY DEF IInv, Accounted
  <1>. HIDE DEF Lost
  <1>2. IsFiniteSet(Lost') /\ Cardinality(Lost') <= Cardinality(Lost)
    BY <1>1, FS_Subset
  <1>3. Cardinality(Lost') \in Nat /\ Cardinality(Lost) \in Nat /\ count.dropped \in Nat /\ dropping \in Nat
    BY <1>1, <1>2, FS_CardinalityType DEF IInv, TypeInv
  <1>4. Cardinality(Lost') <= count'.dropped + dropping'
    BY <1>1, <1>2, <1>3
  <1>. QED  BY <1>2, <1>4 DEF Accounted

LEMMA QueueQuiet ==
    ASSUME IInv, TypeInv', NoLostWakeup', UNCHANGED <<queue, taken, last>>,
           Heard' \subseteq Heard, InHand' = InHand,
           count'.events + Uncounted' = count.events + Uncounted,
           count'.dropped + dropping' = count.dropped + dropping,
           ~overtaken' => ~overtaken /\ NetInOrder'
    PROVE  IInv'
  <1>1. Lost' \subseteq Lost
    BY LostShrinks
  <1>2. Accounted'
    <2>1. count.events + Uncounted = Len(taken) + Len(queue) + count.dropped + dropping
      BY DEF IInv, Accounted
    <2>2. Len(taken) \in Nat /\ Len(queue) \in Nat
      BY QueueLengths DEF IInv
    <2>3. count \in [events : Nat, dropped : Nat, retransmissions : Nat] /\ dropping \in Nat
          /\ count' \in [events : Nat, dropped : Nat, retransmissions : Nat] /\ dropping' \in Nat
      BY DEF IInv, TypeInv
    <2>4. count.dropped \in Nat /\ count'.dropped \in Nat /\ dropping \in Nat /\ dropping' \in Nat
      BY <2>3
    <2>. DEFINE Same(t, q, d, x, e, y) == t + q + d + x = t + q + e + y
    <2>5. Same(Len(taken), Len(queue), count.dropped, dropping, count'.dropped, dropping')
      <3>1. \A t, q, d, x, e, y \in Nat : e + y = d + x => Same(t, q, d, x, e, y)
        OBVIOUS
      <3>2. count'.dropped + dropping' = count.dropped + dropping
        OBVIOUS
      <3>. HIDE DEF Same
      <3>. QED  BY <2>2, <2>4, <3>1, <3>2
    <2>6. count'.events + Uncounted' = Len(taken') + Len(queue') + count'.dropped + dropping'
      BY <2>1, <2>5
    <2>. HIDE DEF Same
    <2>. QED  BY <1>1, <2>6, StillAccounted
  <1>3. ASSUME ~overtaken' PROVE EventsInOrder'
    <2>1. EventsInOrder
      BY <1>3 DEF IInv
    <2>2. Queued' = Queued
      BY DEF Queued
    <2>. HIDE DEF Lost
    <2>. QED  BY <1>1, <2>1, <2>2 DEF EventsInOrder, InOrder
  <1>. QED  BY <1>2, <1>3 DEF IInv

\* The camera and the network, which the host does not see.
LEMMA CameraQuiet ==
    ASSUME IInv, HostKeep, TypeInv', Heard' \subseteq Heard, ~overtaken' => ~overtaken /\ NetInOrder'
    PROVE  IInv'
  <1>1. NoLostWakeup'
    BY DEF IInv, NoLostWakeup, HostKeep
  <1>2. InHand' = InHand /\ Uncounted' = Uncounted
    BY DEF HostKeep, InHand, Uncounted
  <1>. QED  BY <1>1, <1>2, QueueQuiet DEF HostKeep

\* A step about who waits: the camera, the network and the queue stay.
LEMMA CallQuiet ==
    ASSUME IInv, UNCHANGED <<dev, net, acks, last, dropping, queue, count, taken, overtaken>>, NoLostWakeup',
           rx' = rx \/ {rx, rx'} \subseteq {"wait", "notify", "ended"},
           call' \in [Callers -> [pc : {"idle", "registered", "waiting"}, woken : BOOLEAN]]
    PROVE  IInv'
  <1>1. TypeInv'
    BY DEF IInv, TypeInv
  <1>2. Heard' = Heard
    BY DEF Heard
  <1>3. ~overtaken' => ~overtaken /\ NetInOrder'
    BY <1>2 DEF IInv, NetInOrder
  <1>4. InHand' = InHand /\ Uncounted' = Uncounted
    BY DEF InHand, Uncounted
  <1>. QED  BY <1>1, <1>2, <1>3, <1>4, QueueQuiet

LEMMA MessageNumbers ==
    /\ Messages \subseteq Nat /\ 0 \notin Messages
    /\ \A m \in Messages : EventCounts[m] \in Nat
  <1>1. Messages = 1..Len(EventCounts) /\ Len(EventCounts) \in Nat
    BY MessageAssumption DEF Messages
  <1>2. \A m \in Messages : EventCounts[m] \in Nat
    BY MessageAssumption DEF Messages
  <1>. QED  BY <1>1, <1>2

LEMMA SendStep ==
    ASSUME IInv, Send
    PROVE  IInv'
  <1>1. /\ dev.at \in Messages /\ net' = Append(net, dev.at) /\ dev' = [dev EXCEPT !.copies = @ + 1]
        /\ HostKeep /\ UNCHANGED <<acks, overtaken>>
    BY DEF Send
  <1>2. dev \in [at : Nat, copies : Nat, acked : SUBSET Messages] /\ net \in Seq(Messages)
    BY DEF IInv, TypeInv
  <1>3. /\ dev' \in [at : Nat, copies : Nat, acked : SUBSET Messages]
        /\ dev'.at = dev.at /\ dev'.acked = dev.acked
    BY <1>1, <1>2
  <1>4. /\ net' \in Seq(Messages) /\ DOMAIN net' = 1..Len(net) + 1 /\ DOMAIN net = 1..Len(net) /\ Len(net) \in Nat
        /\ (\A i \in 1..Len(net) : net'[i] = net[i]) /\ net'[Len(net) + 1] = dev.at
    BY <1>1, <1>2, AppendIs
  <1>5. TypeInv'
    BY <1>1, <1>3, <1>4 DEF IInv, TypeInv, HostKeep
  <1>6. Heard' = Heard
    BY <1>1, <1>3 DEF Heard, HostKeep
  <1>7. ASSUME ~overtaken' PROVE NetInOrder'
    <2>1. NetInOrder /\ last' = last /\ \A m \in Messages : m \in Nat
      BY <1>1, <1>7, MessageNumbers DEF IInv, HostKeep
    <2>2. ASSUME NEW i \in DOMAIN net', NEW j \in DOMAIN net', i < j PROVE net'[i] <= net'[j]
      <3>1. i \in 1..Len(net)
        BY <1>4, <2>2
      <3>2. CASE j \in 1..Len(net)
        BY <1>4, <2>1, <2>2, <3>1, <3>2 DEF NetInOrder
      <3>3. CASE j = Len(net) + 1
        BY <1>4, <2>1, <3>1, <3>3 DEF NetInOrder
      <3>. QED  BY <1>4, <3>2, <3>3
    <2>3. ASSUME NEW i \in DOMAIN net' PROVE last <= net'[i] /\ net'[i] <= dev.at
      <3>1. CASE i \in 1..Len(net)
        BY <1>4, <2>1, <3>1 DEF NetInOrder
      <3>2. CASE i = Len(net) + 1
        BY <1>2, <1>4, <2>1, <3>2 DEF NetInOrder
      <3>. QED  BY <1>4, <3>1, <3>2
    <2>. QED  BY <1>3, <1>6, <2>1, <2>2, <2>3 DEF NetInOrder
  <1>. QED  BY <1>1, <1>5, <1>6, <1>7, CameraQuiet

LEMMA SendNextStep ==
    ASSUME IInv, SendNext
    PROVE  IInv'
  <1>1. /\ dev' = [dev EXCEPT !.at = @ + 1, !.copies = 0] /\ HostKeep /\ UNCHANGED <<net, acks, overtaken>>
    BY DEF SendNext
  <1>2. dev \in [at : Nat, copies : Nat, acked : SUBSET Messages] /\ net \in Seq(Messages)
    BY DEF IInv, TypeInv
  <1>3. /\ dev' \in [at : Nat, copies : Nat, acked : SUBSET Messages]
        /\ dev'.at = dev.at + 1 /\ dev'.acked = dev.acked
    <2>. DEFINE n == dev.at + 1
    <2>1. n \in Nat
      BY <1>2
    <2>2. dev' = [dev EXCEPT !.at = n, !.copies = 0]
      BY <1>1
    <2>. HIDE DEF n
    <2>3. dev' \in [at : Nat, copies : Nat, acked : SUBSET Messages] /\ dev'.at = n /\ dev'.acked = dev.acked
      BY <1>2, <2>1, <2>2
    <2>. QED  BY <2>3 DEF n
  <1>4. TypeInv'
    BY <1>1, <1>3 DEF IInv, TypeInv, HostKeep
  <1>5. Heard' = Heard
    BY <1>1, <1>3 DEF Heard, HostKeep
  <1>6. ASSUME ~overtaken' PROVE NetInOrder'
    <2>1. NetInOrder /\ last' = last /\ last \in Nat /\ \A i \in DOMAIN net : net[i] \in Nat
      <3>1. NetInOrder /\ last' = last
        BY <1>1, <1>6 DEF IInv, HostKeep
      <3>2. last \in Nat
        BY MessageNumbers DEF IInv, TypeInv
      <3>3. \A i \in DOMAIN net : net[i] \in Nat
        <4>1. \A i \in DOMAIN net : net[i] \in Messages
          BY <1>2
        <4>. QED  BY <4>1, MessageNumbers
      <3>. QED  BY <3>1, <3>2, <3>3
    <2>. QED  BY <1>1, <1>2, <1>3, <1>5, <2>1 DEF NetInOrder
  <1>. QED  BY <1>1, <1>4, <1>5, <1>6, CameraQuiet

LEMMA AckArrivesStep ==
    ASSUME IInv, NEW m \in Messages, AckArrives(m)
    PROVE  IInv'
  <1>1. /\ m \in acks /\ acks' = acks \ {m} /\ HostKeep /\ UNCHANGED <<net, overtaken>>
        /\ dev' = [dev EXCEPT !.acked = IF m = dev.at THEN @ \cup {m} ELSE @]
    BY DEF AckArrives
  <1>2. /\ dev' \in [at : Nat, copies : Nat, acked : SUBSET Messages] /\ dev'.at = dev.at
        /\ dev'.acked \subseteq dev.acked \cup {m}
    BY <1>1 DEF IInv, TypeInv
  <1>3. TypeInv'
    BY <1>1, <1>2 DEF IInv, TypeInv, HostKeep
  <1>4. Heard' \subseteq Heard
    BY <1>1, <1>2 DEF Heard, HostKeep
  <1>5. ASSUME ~overtaken' PROVE NetInOrder'
    BY <1>1, <1>2, <1>4, <1>5 DEF IInv, NetInOrder, HostKeep
  <1>. QED  BY <1>1, <1>3, <1>4, <1>5, CameraQuiet

LEMMA LoseAckStep ==
    ASSUME IInv, NEW m \in Messages, LoseAck(m)
    PROVE  IInv'
  <1>1. acks' = acks \ {m} /\ HostKeep /\ UNCHANGED <<dev, net, overtaken>>
    BY DEF LoseAck
  <1>2. TypeInv'
    BY <1>1 DEF IInv, TypeInv, HostKeep
  <1>3. Heard' \subseteq Heard
    BY <1>1 DEF Heard, HostKeep
  <1>4. ASSUME ~overtaken' PROVE NetInOrder'
    BY <1>1, <1>3, <1>4 DEF IInv, NetInOrder, HostKeep
  <1>. QED  BY <1>1, <1>2, <1>3, <1>4, CameraQuiet

LEMMA LoseDatagramStep ==
    ASSUME IInv, LoseDatagram
    PROVE  IInv'
  <1>1. net # <<>> /\ net' = Tail(net) /\ HostKeep /\ UNCHANGED <<dev, acks, overtaken>>
    BY DEF LoseDatagram
  <1>2. /\ net' \in Seq(Messages) /\ DOMAIN net' = 1..Len(net) - 1 /\ DOMAIN net = 1..Len(net) /\ Len(net) \in Nat
        /\ \A i \in 1..Len(net) - 1 : net'[i] = net[i + 1]
    BY <1>1, TailIs DEF IInv, TypeInv
  <1>3. TypeInv'
    BY <1>1, <1>2 DEF IInv, TypeInv, HostKeep
  <1>4. Heard' = Heard
    BY <1>1 DEF Heard, HostKeep
  <1>5. ASSUME ~overtaken' PROVE NetInOrder'
    <2>1. NetInOrder /\ last' = last
      BY <1>1, <1>5 DEF IInv, HostKeep
    <2>2. ASSUME NEW i \in DOMAIN net' PROVE i \in Int /\ i + 1 \in DOMAIN net /\ net'[i] = net[i + 1]
      BY <1>2
    <2>3. ASSUME NEW i \in DOMAIN net', NEW j \in DOMAIN net', i < j PROVE net'[i] <= net'[j]
      <3>1. i + 1 < j + 1
        BY <2>2, <2>3
      <3>. QED  BY <2>1, <2>2, <3>1 DEF NetInOrder
    <2>. QED  BY <1>1, <1>4, <2>1, <2>2, <2>3 DEF NetInOrder
  <1>. QED  BY <1>1, <1>3, <1>4, <1>5, CameraQuiet

LEMMA OvertakeStep ==
    ASSUME IInv, Overtake
    PROVE  IInv'
  <1>1. /\ Len(net) > 1 /\ net' = Append(Tail(net), Head(net)) /\ HostKeep /\ UNCHANGED <<dev, acks>>
        /\ overtaken' = TRUE
    BY DEF Overtake
  <1>2. net \in Seq(Messages) /\ net # <<>>
    BY <1>1 DEF IInv, TypeInv
  <1>3. net' \in Seq(Messages)
    BY <1>1, <1>2
  <1>4. TypeInv'
    BY <1>1, <1>3 DEF IInv, TypeInv, HostKeep
  <1>5. Heard' = Heard
    BY <1>1 DEF Heard, HostKeep
  <1>. QED  BY <1>1, <1>4, <1>5, CameraQuiet

-----------------------------------------------------------------------------
(* Who waits. *)

LEMMA NotifyStep ==
    ASSUME IInv, notify_waiters
    PROVE  IInv'
  <1>1. /\ call' = Notified /\ UNCHANGED <<dev, net, acks, last, dropping, queue, count, taken, overtaken>>
        /\ {rx, rx'} \subseteq {"wait", "notify", "ended"}
    BY DEF notify_waiters, CameraKeep
  <1>2. \A c \in Callers : call'[c] = IF call[c].pc \in {"registered", "waiting"}
                                     THEN [call[c] EXCEPT !.woken = TRUE] ELSE call[c]
    BY <1>1 DEF Notified
  <1>3. call' \in [Callers -> [pc : {"idle", "registered", "waiting"}, woken : BOOLEAN]]
    <2>1. \A c \in Callers : call[c] \in [pc : {"idle", "registered", "waiting"}, woken : BOOLEAN]
      BY DEF IInv, TypeInv
    <2>2. \A c \in Callers : call'[c] \in [pc : {"idle", "registered", "waiting"}, woken : BOOLEAN]
      BY <1>2, <2>1
    <2>. QED  BY <1>1, <2>2 DEF Notified
  <1>4. \A c \in Callers : call'[c].pc = "waiting" => call'[c].woken
    BY <1>2 DEF IInv, TypeInv
  <1>5. NoLostWakeup'
    BY <1>4 DEF NoLostWakeup
  <1>. QED  BY <1>1, <1>3, <1>5, CallQuiet

LEMMA EndStep ==
    ASSUME IInv, NEW failure, ReceiveEnds(failure)
    PROVE  IInv'
  <1>1. UNCHANGED <<dev, net, acks, last, dropping, queue, count, call, taken, overtaken>>
        /\ rx = "wait" /\ rx' = "notify"
    BY DEF ReceiveEnds, CameraKeep
  <1>2. NoLostWakeup'
    BY <1>1 DEF NoLostWakeup
  <1>. QED  BY <1>1, <1>2, CallQuiet DEF IInv, TypeInv

\* A caller that registers or gives up.
LEMMA CallerStep ==
    ASSUME IInv, NEW c \in Callers, recv(c) \/ Wake(c) \/ Cancel(c)
    PROVE  IInv'
  <1>1. UNCHANGED <<dev, net, acks, rx, last, dropping, queue, failed, ended, count, taken, overtaken>>
    BY DEF recv, Wake, Cancel, CallKeep
  <1>2. PICK step \in {"idle", "registered"} : call' = [call EXCEPT ![c] = [pc |-> step, woken |-> FALSE]]
    BY DEF recv, Wake, Cancel, Quiet
  <1>3. /\ call' \in [Callers -> [pc : {"idle", "registered", "waiting"}, woken : BOOLEAN]]
        /\ call'[c].pc # "waiting" /\ \A e \in Callers : e # c => call'[e] = call[e]
    BY <1>2 DEF IInv, TypeInv
  <1>4. NoLostWakeup'
    BY <1>1, <1>3 DEF IInv, NoLostWakeup
  <1>. QED  BY <1>1, <1>3, <1>4, CallQuiet

LEMMA DropStep ==
    ASSUME IInv, DropSocket
    PROVE  IInv'
  <1>1. UNCHANGED <<dev, net, acks, rx, last, dropping, queue, failed, ended, count, call, taken, overtaken>>
    BY DEF DropSocket
  <1>2. NoLostWakeup'
    BY <1>1 DEF IInv, NoLostWakeup
  <1>. QED  BY <1>1, <1>2, CallQuiet DEF IInv, TypeInv

\* A caller looks at the queue: it waits only if there is nothing in it.
LEMMA TakeStep ==
    ASSUME IInv, NEW c \in Callers, try_take(c)
    PROVE  IInv'
  <1>1. /\ UNCHANGED <<dev, net, acks, rx, last, dropping, ended, count, overtaken>>
        /\ call' = [call EXCEPT ![c].pc = IF queue # <<>> \/ failed \/ ended THEN "idle" ELSE "waiting"]
    BY DEF try_take, CallKeep
  <1>2. /\ call' \in [Callers -> [pc : {"idle", "registered", "waiting"}, woken : BOOLEAN]]
        /\ call'[c].pc = (IF queue # <<>> \/ failed \/ ended THEN "idle" ELSE "waiting")
        /\ \A e \in Callers : e # c => call'[e] = call[e]
    BY <1>1 DEF IInv, TypeInv
  <1>3. CASE queue = <<>>
    <2>1. UNCHANGED <<queue, taken>> /\ failed' = FALSE
      BY <1>3 DEF try_take
    <2>2. NoLostWakeup'
      BY <1>1, <1>2, <1>3, <2>1 DEF IInv, NoLostWakeup
    <2>. QED  BY <1>1, <1>2, <2>1, <2>2, CallQuiet
  <1>4. CASE queue # <<>>
    <2>1. queue' = Tail(queue) /\ taken' = Append(taken, Head(queue)) /\ failed' = failed
      BY <1>4 DEF try_take
    <2>2. NoLostWakeup'
      BY <1>1, <1>2, <1>4, <2>1 DEF IInv, NoLostWakeup
    <2>3. queue \in Seq(Event) /\ taken \in Seq(Event)
      BY DEF IInv, TypeInv
    <2>4. /\ queue' \in Seq(Event) /\ Len(queue') = Len(queue) - 1 /\ DOMAIN queue' = 1..Len(queue) - 1
          /\ \A i \in 1..Len(queue) - 1 : queue'[i] = queue[i + 1]
          /\ Head(queue) = queue[1] /\ queue[1] \in Event
          /\ DOMAIN queue = 1..Len(queue) /\ Len(queue) \in Nat /\ Len(queue) > 0
      BY <1>4, <2>1, <2>3, TailIs
    <2>5. /\ taken' \in Seq(Event) /\ Len(taken') = Len(taken) + 1
          /\ DOMAIN taken' = 1..Len(taken) + 1 /\ DOMAIN taken = 1..Len(taken) /\ Len(taken) \in Nat
          /\ \A i \in 1..Len(taken) : taken'[i] = taken[i]
          /\ taken'[Len(taken) + 1] = queue[1]
      BY <2>1, <2>3, <2>4, AppendIs
    <2>6. TypeInv'
      BY <1>1, <1>2, <2>4, <2>5 DEF IInv, TypeInv
    <2>7. Range(taken') \cup Range(queue') = Range(taken) \cup Range(queue)
      <3>1. ASSUME NEW i \in DOMAIN queue PROVE queue[i] \in Range(taken') \cup Range(queue')
        <4>1. CASE i = 1
          BY <2>5, <4>1 DEF Range
        <4>2. CASE i # 1
          <5>1. i - 1 \in DOMAIN queue' /\ queue'[i - 1] = queue[i]
            BY <2>4, <4>2
          <5>. QED  BY <5>1 DEF Range
        <4>. QED  BY <4>1, <4>2
      <3>2. ASSUME NEW i \in DOMAIN taken PROVE taken[i] \in Range(taken')
        BY <2>5 DEF Range
      <3>3. ASSUME NEW i \in DOMAIN queue' PROVE queue'[i] \in Range(queue)
        BY <2>4 DEF Range
      <3>4. ASSUME NEW i \in DOMAIN taken' PROVE taken'[i] \in Range(taken) \cup Range(queue)
        BY <2>4, <2>5 DEF Range
      <3>5. Range(taken') \subseteq Range(taken) \cup Range(queue) /\ Range(queue') \subseteq Range(queue)
        BY <3>3, <3>4 DEF Range
      <3>6. Range(taken) \subseteq Range(taken') /\ Range(queue) \subseteq Range(taken') \cup Range(queue')
        BY <3>1, <3>2 DEF Range
      <3>. QED  BY <3>5, <3>6
    <2>8. Lost' \subseteq Lost
      <3>1. Heard' = Heard
        BY <1>1 DEF Heard
      <3>2. InHand' = InHand
        BY <1>1 DEF InHand
      <3>. QED  BY <2>7, <3>1, <3>2, LostShrinks
    <2>9. Accounted'
      <3>0. Uncounted' = Uncounted
        BY <1>1 DEF Uncounted
      <3>1. count'.events + Uncounted' = Len(taken') + Len(queue') + count'.dropped + dropping'
        BY <1>1, <2>4, <2>5, <3>0 DEF IInv, TypeInv, Accounted
      <3>. QED  BY <1>1, <2>8, <3>1, StillAccounted
    <2>10. ASSUME ~overtaken' PROVE NetInOrder' /\ EventsInOrder'
      <3>1. NetInOrder /\ EventsInOrder
        BY <1>1, <2>10 DEF IInv
      <3>2. NetInOrder'
        BY <1>1, <3>1 DEF NetInOrder, Heard
      <3>3. ASSUME NEW i \in DOMAIN queue'
            PROVE  i \in Int /\ i + 1 \in DOMAIN queue /\ queue'[i] = queue[i + 1] /\ 1 \in DOMAIN queue /\ 1 < i + 1
        BY <2>4
      <3>4. InOrder(queue')
        <4>. SUFFICES ASSUME NEW i \in DOMAIN queue', NEW j \in DOMAIN queue', i < j
                      PROVE  Before(queue'[i], queue'[j])
          BY DEF InOrder
        <4>1. i + 1 < j + 1
          BY <3>3
        <4>. QED  BY <3>1, <3>3, <4>1 DEF EventsInOrder, InOrder
      <3>5. ASSUME NEW i \in DOMAIN taken', i # Len(taken) + 1
            PROVE  i \in Int /\ i \in DOMAIN taken /\ taken'[i] = taken[i] /\ i < Len(taken) + 1
        BY <2>5, <3>5
      <3>6. InOrder(taken')
        <4>. SUFFICES ASSUME NEW i \in DOMAIN taken', NEW j \in DOMAIN taken', i < j
                      PROVE  Before(taken'[i], taken'[j])
          BY DEF InOrder
        <4>1. i # Len(taken) + 1
          BY <2>5
        <4>2. CASE j = Len(taken) + 1
          BY <2>4, <2>5, <3>1, <3>5, <4>1, <4>2 DEF EventsInOrder
        <4>3. CASE j # Len(taken) + 1
          BY <3>1, <3>5, <4>1, <4>3 DEF EventsInOrder, InOrder
        <4>. QED  BY <4>2, <4>3
      <3>7. ASSUME NEW i \in DOMAIN taken', NEW j \in DOMAIN queue' PROVE Before(taken'[i], queue'[j])
        <4>1. CASE i = Len(taken) + 1
          BY <2>5, <3>1, <3>3, <4>1 DEF EventsInOrder, InOrder
        <4>2. CASE i # Len(taken) + 1
          BY <3>1, <3>3, <3>5, <4>2 DEF EventsInOrder
        <4>. QED  BY <4>1, <4>2
      <3>0. Queued' = Queued
        BY <1>1 DEF Queued, InHand
      <3>8. ASSUME NEW i \in DOMAIN taken' PROVE taken'[i][1] \in Queued'
        <4>1. CASE i = Len(taken) + 1
          BY <1>1, <2>4, <2>5, <3>0, <3>1, <4>1 DEF EventsInOrder
        <4>2. CASE i # Len(taken) + 1
          BY <1>1, <3>0, <3>1, <3>5, <4>2 DEF EventsInOrder
        <4>. QED  BY <4>1, <4>2
      <3>9. \A i \in DOMAIN queue' : queue'[i][1] \in Queued'
        BY <1>1, <3>0, <3>1, <3>3 DEF EventsInOrder
      <3>10. ASSUME NEW e \in Lost', NEW k \in DOMAIN queue' PROVE Before(e, queue'[k])
        <4>. HIDE DEF Lost
        <4>. QED  BY <2>8, <3>1, <3>3 DEF EventsInOrder
      <3>. QED  BY <3>2, <3>4, <3>6, <3>7, <3>8, <3>9, <3>10 DEF EventsInOrder, InOrder
    <2>. QED  BY <2>2, <2>6, <2>9, <2>10 DEF IInv
  <1>. QED  BY <1>3, <1>4

-----------------------------------------------------------------------------
(* A datagram. *)

\* What the datagrams behind the first are, and what is heard with it.
LEMMA DatagramIs ==
    ASSUME IInv, net # <<>>, net' = Tail(net), last' = Head(net), dev' = dev,
           acks' = acks \/ acks' = acks \cup {Head(net)}
    PROVE  /\ Head(net) \in Messages /\ net' \in Seq(Messages) /\ acks' \subseteq Messages
           /\ Heard' \subseteq Heard \cup {Head(net)}
           /\ ~overtaken => NetInOrder' /\ last <= Head(net)
  <1>1. /\ net' \in Seq(Messages) /\ DOMAIN net' = 1..Len(net) - 1 /\ DOMAIN net = 1..Len(net) /\ Len(net) \in Nat
        /\ (\A i \in 1..Len(net) - 1 : net'[i] = net[i + 1]) /\ Len(net) > 0
        /\ Head(net) = net[1] /\ net[1] \in Messages
    BY TailIs DEF IInv, TypeInv
  <1>2. acks' \subseteq Messages
    BY <1>1 DEF IInv, TypeInv
  <1>3. Heard' \subseteq Heard \cup {Head(net)}
    BY DEF Heard
  <1>4. ASSUME ~overtaken PROVE NetInOrder' /\ last <= Head(net)
    <2>1. NetInOrder
      BY <1>4 DEF IInv
    <2>2. ASSUME NEW i \in DOMAIN net'
          PROVE  i \in Int /\ i + 1 \in DOMAIN net /\ net'[i] = net[i + 1] /\ 1 \in DOMAIN net /\ 1 < i + 1
      BY <1>1
    <2>3. ASSUME NEW i \in DOMAIN net', NEW j \in DOMAIN net', i < j PROVE net'[i] <= net'[j]
      <3>1. i + 1 < j + 1
        BY <2>2, <2>3
      <3>. QED  BY <2>1, <2>2, <3>1 DEF NetInOrder
    <2>4. \A i \in DOMAIN net' : last' <= net'[i] /\ net'[i] <= dev'.at
      BY <1>1, <2>1, <2>2 DEF NetInOrder
    <2>5. 1 \in DOMAIN net
      BY <1>1
    <2>6. last <= Head(net) /\ last' <= dev'.at
      BY <1>1, <2>1, <2>5 DEF NetInOrder
    <2>7. ASSUME NEW m \in Heard' PROVE m <= last'
      <3>1. CASE m = Head(net)
        <4>1. m \in Nat
          BY <1>1, <3>1, MessageNumbers
        <4>. QED  BY <3>1, <4>1
      <3>2. CASE m # Head(net)
        <4>1. m \in Heard /\ m <= last
          BY <1>3, <2>1, <3>2 DEF NetInOrder
        <4>2. m \in Nat /\ last \in Nat /\ Head(net) \in Nat
          <5>1. Heard \subseteq Messages
            BY DEF Heard, IInv, TypeInv
          <5>2. last \in Nat
            BY MessageNumbers DEF IInv, TypeInv
          <5>. QED  BY <1>1, <4>1, <5>1, <5>2, MessageNumbers
        <4>. QED  BY <2>6, <4>1, <4>2
      <3>. QED  BY <3>1, <3>2
    <2>. QED  BY <2>3, <2>4, <2>6, <2>7 DEF NetInOrder
  <1>. QED  BY <1>1, <1>2, <1>3, <1>4

\* The queue before a message and its events, and what Enqueue leaves of them.
LEMMA EnqueueIs ==
    ASSUME IInv, NEW m \in Messages, Enqueue(m)
    PROVE  \E all, excess :
             /\ all \in Seq(Event) /\ excess \in Nat /\ excess <= Len(all)
             /\ DOMAIN all = 1..Len(all) /\ Len(all) \in Nat /\ Len(all) = Len(queue) + EventCounts[m]
             /\ \A i \in 1..Len(all) : \/ i \in DOMAIN queue /\ all[i] = queue[i]
                                       \/ i > Len(queue) /\ all[i] = <<m, i - Len(queue)>>
             /\ Range(queue) \cup EventsOf({m}) \subseteq Range(all)
             /\ queue' \in Seq(Event) /\ Len(queue') = Len(all) - excess /\ DOMAIN queue' = 1..Len(all) - excess
             /\ \A i \in 1..Len(all) - excess : i + excess \in 1..Len(all) /\ queue'[i] = all[i + excess]
             /\ dropping' = excess
  <1>. DEFINE n == EventCounts[m]
              evs == events(m)
              all == queue \o evs
              excess == IF Len(all) > Capacity THEN Len(all) - Capacity ELSE 0
  <1>1. n \in Nat /\ m \in Nat
    BY MessageNumbers
  <1>2. evs \in Seq(Event) /\ Len(evs) = n /\ \A i \in 1..n : evs[i] = <<m, i>>
    <2>1. evs \in [1..n -> Event]
      BY <1>1 DEF events, Event
    <2>2. \A i \in 1..n : evs[i] = <<m, i>>
      BY DEF events
    <2>. HIDE DEF evs, n
    <2>. QED  BY <1>1, <2>1, <2>2
  <1>3. queue \in Seq(Event)
    BY DEF IInv, TypeInv
  <1>. HIDE DEF evs, n
  <1>4. /\ all \in Seq(Event) /\ Len(all) = Len(queue) + n /\ DOMAIN all = 1..Len(queue) + n
        /\ DOMAIN queue = 1..Len(queue) /\ Len(queue) \in Nat
        /\ \A i \in 1..Len(queue) : all[i] = queue[i]
        /\ \A i \in 1..Len(queue) + n : i > Len(queue) => i - Len(queue) \in 1..n /\ all[i] = evs[i - Len(queue)]
        /\ \A i \in 1..n : i + Len(queue) \in 1..Len(queue) + n /\ all[i + Len(queue)] = evs[i]
    <2>. DEFINE Is(s, t, u) ==
            /\ u \in Seq(Event) /\ Len(u) = Len(s) + Len(t) /\ DOMAIN u = 1..Len(s) + Len(t)
            /\ DOMAIN s = 1..Len(s) /\ Len(s) \in Nat
            /\ \A i \in 1..Len(s) : u[i] = s[i]
            /\ \A i \in 1..Len(s) + Len(t) : i > Len(s) => i - Len(s) \in 1..Len(t) /\ u[i] = t[i - Len(s)]
            /\ \A i \in 1..Len(t) : i + Len(s) \in 1..Len(s) + Len(t) /\ u[i + Len(s)] = t[i]
    <2>1. \A s, t \in Seq(Event) : Is(s, t, s \o t)
      BY ConcatIs
    <2>. HIDE DEF Is
    <2>2. Is(queue, evs, all)
      BY <1>2, <1>3, <2>1
    <2>. HIDE DEF all
    <2>. QED  BY <1>2, <2>2 DEF Is
  <1>5. excess \in Nat /\ excess <= Len(all) /\ excess \in 0..Len(all) /\ Len(all) \in Nat
    BY <1>1, <1>4, MessageAssumption
  <1>6. queue' = SubSeq(all, excess + 1, Len(all)) /\ dropping' = excess
    BY DEF Enqueue, evs, n
  <1>. HIDE DEF all, excess
  <1>7. /\ queue' \in Seq(Event) /\ Len(queue') = Len(all) - excess /\ DOMAIN queue' = 1..Len(all) - excess
        /\ \A i \in 1..Len(all) - excess : i + excess \in 1..Len(all) /\ queue'[i] = all[i + excess]
    BY SMTT(30), <1>4, <1>5, <1>6, RestIs
  <1>8. ASSUME NEW i \in 1..Len(all)
        PROVE  \/ i \in DOMAIN queue /\ all[i] = queue[i]
               \/ i > Len(queue) /\ all[i] = <<m, i - Len(queue)>>
    <2>1. CASE i <= Len(queue)
      <3>1. i \in 1..Len(queue)
        BY <1>4, <2>1
      <3>. QED  BY <1>4, <3>1
    <2>2. CASE i > Len(queue)
      <3>1. i \in 1..Len(queue) + n
        BY <1>4
      <3>2. i - Len(queue) \in 1..n /\ all[i] = evs[i - Len(queue)]
        BY <1>4, <2>2, <3>1
      <3>. QED  BY <1>2, <2>2, <3>2
    <2>. QED  BY <1>4, <2>1, <2>2
  <1>9. Range(queue) \subseteq Range(all)
    <2>1. \A i \in DOMAIN queue : i \in DOMAIN all /\ all[i] = queue[i]
      BY <1>1, <1>4
    <2>. QED  BY <2>1 DEF Range
  <1>10. ASSUME NEW i \in 1..n PROVE <<m, i>> \in Range(all)
    <2>1. i + Len(queue) \in DOMAIN all /\ all[i + Len(queue)] = <<m, i>>
      BY <1>2, <1>4
    <2>. QED  BY <2>1 DEF Range
  <1>11. EventsOf({m}) \subseteq Range(all)
    BY <1>10 DEF EventsOf, n
  <1>12. DOMAIN all = 1..Len(all) /\ Len(all) = Len(queue) + EventCounts[m]
    BY <1>4 DEF n
  <1>. QED  BY <1>4, <1>5, <1>6, <1>7, <1>8, <1>9, <1>11, <1>12 DEF n

\* The message in hand is queued.
LEMMA EnqueueStep ==
    ASSUME IInv, queue_events
    PROVE  IInv'
  <1>. DEFINE m == last
  <1>0. /\ Enqueue(m) /\ rx = "queue" /\ rx' = "count"
        /\ UNCHANGED <<dev, net, acks, last, count, taken, overtaken, call, failed, ended>>
    BY DEF queue_events, ReceiverKeep, CameraKeep
  <1>9. /\ m \in Messages /\ last' = m /\ taken' = taken /\ overtaken' = overtaken /\ dropping = 0
        /\ InHand = {m} /\ InHand' = {} /\ Uncounted = 0 /\ Uncounted' = EventCounts[m] /\ Heard' = Heard
    <2>1. m \in Messages /\ dropping = 0
      BY <1>0 DEF IInv, TypeInv
    <2>2. last' = m /\ taken' = taken /\ overtaken' = overtaken
      BY <1>0
    <2>3. InHand = {m} /\ InHand' = {} /\ Uncounted = 0 /\ Uncounted' = EventCounts[m] /\ Heard' = Heard
      BY <1>0 DEF InHand, Uncounted, Heard
    <2>. QED  BY <2>1, <2>2, <2>3
  <1>10. ~overtaken => NetInOrder' /\ EventsInOrder /\ NetInOrder
    BY <1>0, <1>9 DEF IInv, NetInOrder
  <1>. HIDE DEF m
  <1>1. PICK all, excess :
             /\ all \in Seq(Event) /\ excess \in Nat /\ excess <= Len(all)
             /\ DOMAIN all = 1..Len(all) /\ Len(all) \in Nat /\ Len(all) = Len(queue) + EventCounts[m]
             /\ \A i \in 1..Len(all) : \/ i \in DOMAIN queue /\ all[i] = queue[i]
                                       \/ i > Len(queue) /\ all[i] = <<m, i - Len(queue)>>
             /\ Range(queue) \cup EventsOf({m}) \subseteq Range(all)
             /\ queue' \in Seq(Event) /\ Len(queue') = Len(all) - excess /\ DOMAIN queue' = 1..Len(all) - excess
             /\ \A i \in 1..Len(all) - excess : i + excess \in 1..Len(all) /\ queue'[i] = all[i + excess]
             /\ dropping' = excess
    BY <1>0, <1>9, EnqueueIs
  <1>11. TypeInv'
    BY <1>0, <1>1, <1>9 DEF IInv, TypeInv, m
  <1>. DEFINE Gone == {all[i] : i \in 1..excess}
  <1>2. Lost' \subseteq Lost \cup Gone
    <2>1. ASSUME NEW e \in Range(all) PROVE e \in Gone \cup Range(queue')
      <3>1. PICK i \in 1..Len(all) : e = all[i]
        BY <1>1 DEF Range
      <3>2. CASE i <= excess
        BY <1>1, <3>1, <3>2
      <3>3. CASE i > excess
        <4>1. i - excess \in DOMAIN queue' /\ (i - excess) + excess = i
          BY <1>1, <3>3
        <4>2. queue'[i - excess] = all[i]
          BY <1>1, <4>1
        <4>. QED  BY <3>1, <4>1, <4>2 DEF Range
      <3>. QED  BY <1>1, <3>2, <3>3
    <2>. HIDE DEF Gone
    <2>. QED  BY <1>1, <1>9, <2>1 DEF Lost
  <1>3. IsFiniteSet(Gone) /\ Cardinality(Gone) <= excess /\ Cardinality(Gone) \in Nat
    BY <1>1, FirstBounded
  <1>4. count' = count /\ count.events \in Nat /\ count.dropped \in Nat
    BY <1>0 DEF IInv, TypeInv
  <1>5. Accounted'
    <2>1. IsFiniteSet(Lost) /\ Cardinality(Lost) <= count.dropped
          /\ count.events = Len(taken) + Len(queue) + count.dropped
      <3>1. /\ IsFiniteSet(Lost) /\ Cardinality(Lost) <= count.dropped + 0
            /\ count.events + 0 = Len(taken) + Len(queue) + count.dropped + 0
        BY <1>9 DEF IInv, Accounted
      <3>2. Len(taken) \in Nat /\ Len(queue) \in Nat
        BY QueueLengths DEF IInv
      <3>. HIDE DEF Lost
      <3>. QED  BY <1>4, <3>1, <3>2
    <2>. HIDE DEF Gone, Lost
    <2>2. /\ IsFiniteSet(Lost \cup Gone)
          /\ Cardinality(Lost \cup Gone) = Cardinality(Lost) + Cardinality(Gone) - Cardinality(Lost \cap Gone)
      BY <1>3, <2>1, FS_Union
    <2>3. IsFiniteSet(Lost \cap Gone)
      <3>1. Lost \cap Gone \in SUBSET Lost
        OBVIOUS
      <3>. QED  BY <2>1, <3>1, FS_Subset
    <2>4. IsFiniteSet(Lost') /\ Cardinality(Lost') <= Cardinality(Lost \cup Gone)
      BY <1>2, <2>2, FS_Subset
    <2>5. /\ Cardinality(Lost) \in Nat /\ Cardinality(Lost \cup Gone) \in Nat
          /\ Cardinality(Lost \cap Gone) \in Nat /\ Cardinality(Lost') \in Nat
      BY <2>1, <2>2, <2>3, <2>4, FS_CardinalityType
    <2>6. Cardinality(Lost') <= count'.dropped + dropping'
      <3>. DEFINE a == Cardinality(Lost)
                  b == Cardinality(Gone)
                  d == Cardinality(Lost \cap Gone)
                  u == Cardinality(Lost \cup Gone)
                  l == Cardinality(Lost')
      <3>1. /\ a \in Nat /\ b \in Nat /\ d \in Nat /\ u \in Nat /\ l \in Nat /\ a <= count.dropped
            /\ b <= excess /\ u = a + b - d /\ l <= u
        BY <1>3, <2>1, <2>2, <2>4, <2>5
      <3>. HIDE DEF a, b, d, u, l
      <3>2. l <= count.dropped + excess
        BY <1>1, <1>4, <3>1
      <3>. QED  BY <1>1, <1>4, <3>2 DEF l
    <2>7. count'.events + Uncounted' = Len(taken') + Len(queue') + count'.dropped + dropping'
      <3>1. Len(taken) \in Nat /\ Len(queue) \in Nat /\ EventCounts[m] \in Nat
        <4>1. Len(taken) \in Nat /\ Len(queue) \in Nat
          BY QueueLengths DEF IInv
        <4>2. EventCounts[m] \in Nat
          BY <1>9, MessageNumbers, SMTT(60) DEF IInv, TypeInv
        <4>. QED  BY <4>1, <4>2
      <3>2. Len(queue') = Len(queue) + EventCounts[m] - excess
        BY <1>1, <3>1
      <3>3. taken' = taken /\ Uncounted' = EventCounts[m] /\ dropping' = excess
        BY <1>1, <1>9
      <3>. DEFINE t == Len(taken)
                  q == Len(queue)
                  r == Len(queue')
                  n == EventCounts[m]
                  k == count.events
                  d == count.dropped
      <3>4. /\ t \in Nat /\ q \in Nat /\ n \in Nat /\ k \in Nat /\ d \in Nat /\ r = q + n - excess
            /\ k = t + q + d /\ count'.events = k /\ count'.dropped = d
        BY <1>4, <2>1, <3>1, <3>2
      <3>0. excess \in Nat
        BY <1>1
      <3>. HIDE DEF t, q, r, n, k, d
      <3>5. k + n = t + r + d + excess
        BY <3>0, <3>4
      <3>. QED  BY <3>3, <3>4, <3>5 DEF t, r, n
    <2>. QED  BY <2>4, <2>6, <2>7 DEF Accounted
  <1>6. NoLostWakeup'
    BY <1>0 DEF NoLostWakeup
  <1>7. ASSUME ~overtaken PROVE EventsInOrder'
    <2>1. EventsInOrder /\ NetInOrder /\ last = m /\ m \in Nat
      BY <1>7, <1>9, <1>10, MessageNumbers DEF m
    <2>0. /\ \A h \in Queued : h < m
          /\ \A h \in Nat : h <= m => h \in Queued'
      BY <1>9, <2>1 DEF Queued
    <2>2. queue \in Seq(Event) /\ taken \in Seq(Event)
      BY DEF IInv, TypeInv
    <2>3. ASSUME NEW e \in Event, e[1] < m, NEW i \in Int PROVE Before(e, <<m, i>>)
      <3>1. e[1] \in Nat
        BY DEF Event
      <3>. QED  BY <2>1, <2>3, <3>1 DEF Before
    <2>4. InOrder(all)
      <3>. SUFFICES ASSUME NEW i \in 1..Len(all), NEW j \in 1..Len(all), i < j PROVE Before(all[i], all[j])
        BY <1>1 DEF InOrder
      <3>1. CASE j \in DOMAIN queue /\ all[j] = queue[j]
        <4>1. i \in DOMAIN queue /\ all[i] = queue[i]
          <5>1. DOMAIN queue = 1..Len(queue) /\ Len(queue) \in Nat
            BY <2>2
          <5>2. ~(i > Len(queue))
            BY <1>1, <3>1, <5>1
          <5>. QED  BY <1>1, <5>2
        <4>. QED  BY <2>1, <3>1, <4>1 DEF EventsInOrder, InOrder
      <3>2. CASE all[j] = <<m, j - Len(queue)>>
        <4>0. Len(queue) \in Nat /\ i \in Int /\ j \in Int
          BY <1>1, <2>2
        <4>1. CASE i \in DOMAIN queue /\ all[i] = queue[i]
          <5>1. queue[i] \in Event /\ queue[i][1] < m
            <6>1. queue[i] \in Event /\ queue[i][1] \in Queued
              BY <2>1, <2>2, <4>1 DEF EventsInOrder
            <6>. QED  BY <2>0, <6>1 DEF Event
          <5>2. j - Len(queue) \in Int
            BY <4>0
          <5>. QED  BY <2>3, <3>2, <4>1, <5>1, <5>2
        <4>2. CASE all[i] = <<m, i - Len(queue)>>
          <5>1. i - Len(queue) < j - Len(queue)
            BY <4>0
          <5>. QED  BY <3>2, <4>2, <5>1 DEF Before
        <4>. QED  BY <1>1, <4>1, <4>2
      <3>. QED  BY <1>1, <3>1, <3>2
    <2>5. ASSUME NEW i \in DOMAIN queue'
          PROVE  i \in Int /\ i >= 1 /\ i + excess \in 1..Len(all) /\ queue'[i] = all[i + excess]
      BY <1>1
    <2>6. InOrder(queue')
      <3>. SUFFICES ASSUME NEW i \in DOMAIN queue', NEW j \in DOMAIN queue', i < j
                    PROVE  Before(queue'[i], queue'[j])
        BY DEF InOrder
      <3>1. i + excess < j + excess
        BY <1>1, <2>5
      <3>. QED  BY <1>1, <2>4, <2>5, <3>1 DEF InOrder
    <2>7. ASSUME NEW e \in Event, e[1] < m, \A k \in DOMAIN queue : Before(e, queue[k]),
                 NEW j \in DOMAIN queue'
          PROVE  Before(e, queue'[j])
      <3>1. PICK i \in 1..Len(all) : queue'[j] = all[i]
        BY <2>5
      <3>2. CASE i \in DOMAIN queue /\ all[i] = queue[i]
        BY <2>7, <3>1, <3>2
      <3>3. CASE all[i] = <<m, i - Len(queue)>>
        <4>1. i - Len(queue) \in Int
          BY <1>1, <2>2
        <4>. QED  BY <2>3, <2>7, <3>1, <3>3, <4>1
      <3>. QED  BY <1>1, <3>2, <3>3
    <2>8. \A i \in DOMAIN taken', j \in DOMAIN queue' : Before(taken'[i], queue'[j])
      <3>1. ASSUME NEW i \in DOMAIN taken
            PROVE  taken[i] \in Event /\ taken[i][1] < m /\ \A k \in DOMAIN queue : Before(taken[i], queue[k])
        <4>1. taken[i] \in Event /\ taken[i][1] \in Queued /\ \A k \in DOMAIN queue : Before(taken[i], queue[k])
          BY <2>1, <2>2 DEF EventsInOrder
        <4>. QED  BY <2>0, <4>1 DEF Event
      <3>. QED  BY <1>9, <2>7, <3>1
    <2>9. \A i \in DOMAIN taken' : taken'[i][1] \in Queued'
      <3>1. ASSUME NEW i \in DOMAIN taken PROVE taken[i][1] \in Queued'
        <4>1. taken[i] \in Event /\ taken[i][1] \in Queued
          BY <2>1, <2>2 DEF EventsInOrder
        <4>2. taken[i][1] \in Nat
          BY <4>1 DEF Event
        <4>. QED  BY <2>0, <2>1, <4>1, <4>2
      <3>. QED  BY <1>9, <3>1
    <2>10. \A i \in DOMAIN queue' : queue'[i][1] \in Queued'
      <3>1. ASSUME NEW i \in DOMAIN queue PROVE queue[i][1] <= m /\ queue[i][1] \in Nat
        <4>1. queue[i] \in Event /\ queue[i][1] \in Queued
          BY <2>1, <2>2 DEF EventsInOrder
        <4>2. queue[i][1] \in Nat
          BY <4>1 DEF Event
        <4>. QED  BY <2>0, <2>1, <4>1, <4>2
      <3>2. ASSUME NEW i \in 1..Len(all) PROVE all[i][1] <= m /\ all[i][1] \in Nat
        <4>1. CASE i \in DOMAIN queue /\ all[i] = queue[i]
          BY <3>1, <4>1
        <4>2. CASE all[i] = <<m, i - Len(queue)>>
          <5>1. all[i][1] = m
            BY <4>2
          <5>. QED  BY <2>1, <5>1
        <4>. QED  BY <1>1, <4>1, <4>2
      <3>3. \A i \in 1..Len(all) : all[i][1] \in Queued'
        BY <2>0, <3>2
      <3>. QED  BY <2>5, <3>3
    <2>11. ASSUME NEW e \in Lost', NEW k \in DOMAIN queue' PROVE Before(e, queue'[k])
      <3>1. CASE e \in Gone
        <4>1. PICK i \in 1..excess : e = all[i]
          BY <3>1
        <4>2. i \in 1..Len(all) /\ i < k + excess
          BY <1>1, <2>5, <4>1
        <4>. QED  BY <1>1, <2>4, <2>5, <4>1, <4>2 DEF InOrder
      <3>2. CASE e \in Lost
        <4>0. PICK h \in Heard : \E i \in 1..EventCounts[h] : e = <<h, i>>
          BY <3>2 DEF Lost, EventsOf
        <4>1. PICK i \in 1..EventCounts[h] : e = <<h, i>>
          BY <4>0
        <4>2. h \in Messages
          BY DEF Heard, IInv, TypeInv
        <4>3. h \in Nat /\ i \in Nat /\ h <= m /\ h # m
          <5>1. e \notin EventsOf({m})
            BY <1>9, <3>2 DEF Lost
          <5>2. h # m
            BY <4>1, <5>1 DEF EventsOf
          <5>. QED  BY <2>1, <4>2, <5>2, MessageNumbers DEF NetInOrder
        <4>4. e \in Event /\ e[1] < m
          BY <2>1, <4>1, <4>3 DEF Event
        <4>5. \A j \in DOMAIN queue : Before(e, queue[j])
          <5>. HIDE DEF Lost
          <5>. QED  BY <2>1, <3>2 DEF EventsInOrder
        <4>. QED  BY <2>7, <4>4, <4>5
      <3>. HIDE DEF Lost, Gone
      <3>. QED  BY <1>2, <3>1, <3>2
    <2>12. InOrder(taken')
      BY <1>9, <2>1 DEF EventsInOrder
    <2>. HIDE DEF Lost, Gone
    <2>. QED  BY <2>6, <2>8, <2>9, <2>10, <2>11, <2>12 DEF EventsInOrder, InOrder
  <1>. QED  BY <1>5, <1>6, <1>7, <1>9, <1>10, <1>11 DEF IInv

\* The counters follow, one after the other.
LEMMA CountStep ==
    ASSUME IInv, count_events \/ count_dropped
    PROVE  IInv'
  <1>1. /\ UNCHANGED <<dev, net, acks, last, queue, taken, overtaken, call, failed, ended>>
        /\ rx \in {"count", "count_dropped"} /\ rx' \in {"count_dropped", "notify"}
    BY DEF count_events, count_dropped, ReceiverKeep, CameraKeep
  <1>2. /\ count \in [events : Nat, dropped : Nat, retransmissions : Nat] /\ dropping \in Nat
        /\ rx = "count" => last \in Messages
    BY DEF IInv, TypeInv
  <1>3. /\ count' \in [events : Nat, dropped : Nat, retransmissions : Nat] /\ dropping' \in Nat
        /\ count'.events + Uncounted' = count.events + Uncounted
        /\ count'.dropped + dropping' = count.dropped + dropping
        /\ rx' = "notify" => dropping' = 0
    <2>1. CASE count_events
      <3>. DEFINE x == count.events + EventCounts[last]
      <3>1. /\ count' = [count EXCEPT !.events = x] /\ dropping' = dropping /\ rx = "count"
            /\ rx' = IF dropping > 0 THEN "count_dropped" ELSE "notify"
        BY <2>1 DEF count_events
      <3>2. x \in Nat /\ EventCounts[last] \in Nat
        BY <1>2, <3>1, MessageNumbers
      <3>3. Uncounted = EventCounts[last] /\ Uncounted' = 0
        BY <3>1 DEF Uncounted
      <3>4. x + 0 = count.events + EventCounts[last]
        BY <3>2
      <3>. HIDE DEF x
      <3>5. count' \in [events : Nat, dropped : Nat, retransmissions : Nat] /\ count'.events = x
            /\ count'.dropped = count.dropped
        BY <1>2, <3>1, <3>2
      <3>. QED  BY <1>2, <3>1, <3>3, <3>4, <3>5
    <2>2. CASE count_dropped
      <3>. DEFINE y == count.dropped + dropping
      <3>1. /\ count' = [count EXCEPT !.dropped = y] /\ dropping' = 0 /\ rx = "count_dropped" /\ rx' = "notify"
        BY <2>2 DEF count_dropped
      <3>2. y \in Nat
        BY <1>2
      <3>3. Uncounted = 0 /\ Uncounted' = 0
        BY <3>1 DEF Uncounted
      <3>4. y + 0 = count.dropped + dropping
        BY <3>2
      <3>. HIDE DEF y
      <3>5. count' \in [events : Nat, dropped : Nat, retransmissions : Nat] /\ count'.events = count.events
            /\ count'.dropped = y
        BY <1>2, <3>1, <3>2
      <3>. QED  BY <1>2, <3>1, <3>3, <3>4, <3>5
    <2>. QED  BY <2>1, <2>2
  <1>4. TypeInv'
    BY <1>1, <1>3 DEF IInv, TypeInv
  <1>5. InHand' = InHand /\ Heard' = Heard
    BY <1>1 DEF InHand, Heard
  <1>6. NoLostWakeup'
    BY <1>1 DEF NoLostWakeup
  <1>7. ~overtaken' => ~overtaken /\ NetInOrder'
    BY <1>1, <1>5 DEF IInv, NetInOrder
  <1>. QED  BY <1>1, <1>3, <1>4, <1>5, <1>6, <1>7, QueueQuiet

LEMMA DatagramStep ==
    ASSUME IInv, NEW sent, handle_datagram(sent)
    PROVE  IInv'
  <1>. DEFINE m == Head(net)
  <1>1. /\ net # <<>> /\ net' = Tail(net) /\ last' = Head(net) /\ acks' \in {acks, acks \cup {Head(net)}}
        /\ UNCHANGED <<dev, taken, overtaken, call, failed, ended, queue, dropping>>
        /\ rx = "wait" /\ rx' = IF Repeats(m) THEN "wait" ELSE "queue"
    BY DEF handle_datagram, ReceiverKeep, CameraKeep
  <1>2. /\ m \in Messages /\ net' \in Seq(Messages) /\ acks' \subseteq Messages
        /\ Heard' \subseteq Heard \cup {m}
        /\ ~overtaken => NetInOrder' /\ last <= m
    BY <1>1, DatagramIs
  <1>3. /\ count' \in [events : Nat, dropped : Nat, retransmissions : Nat]
        /\ count'.events = count.events /\ count'.dropped = count.dropped
    <2>. DEFINE x == IF Repeats(m) THEN count.retransmissions + 1 ELSE count.retransmissions
    <2>1. count' = [count EXCEPT !.retransmissions = x]
      BY DEF handle_datagram
    <2>2. count \in [events : Nat, dropped : Nat, retransmissions : Nat]
      BY DEF IInv, TypeInv
    <2>3. x \in Nat
      BY <2>2
    <2>. HIDE DEF x
    <2>. QED  BY <2>1, <2>2, <2>3
  <1>. HIDE DEF m
  <1>4. TypeInv'
    BY <1>1, <1>2, <1>3 DEF IInv, TypeInv, m
  <1>5. NoLostWakeup'
    BY <1>1 DEF IInv, NoLostWakeup
  <1>6. Uncounted' = Uncounted /\ InHand = {}
    BY <1>1 DEF Uncounted, InHand
  <1>7. CASE Repeats(m)
    <2>1. m = last /\ last # 0
      BY <1>2, <1>7, MessageNumbers DEF Repeats
    <2>2. Heard' \subseteq Heard /\ last' = last
      BY <1>1, <1>2, <2>1 DEF Heard, m
    <2>3. InHand' = InHand
      BY <1>1, <1>7 DEF InHand
    <2>. QED  BY <1>1, <1>2, <1>3, <1>4, <1>5, <1>6, <2>2, <2>3, QueueQuiet
  <1>8. CASE ~Repeats(m)
    <2>1. InHand' = {m} /\ m # last /\ last' = m
      BY <1>1, <1>8 DEF InHand, Repeats, m
    <2>2. Lost' \subseteq Lost
      <3>1. EventsOf(Heard') \subseteq EventsOf(Heard) \cup EventsOf({m})
        BY <1>2 DEF EventsOf
      <3>2. EventsOf({}) = {}
        BY DEF EventsOf
      <3>. QED  BY <1>1, <1>6, <2>1, <3>1, <3>2 DEF Lost
    <2>3. Accounted'
      <3>1. count.events + Uncounted = Len(taken) + Len(queue) + count.dropped + dropping
        BY DEF IInv, Accounted
      <3>. QED  BY <1>1, <1>3, <1>6, <2>2, <3>1, StillAccounted
    <2>4. ASSUME ~overtaken PROVE NetInOrder' /\ EventsInOrder'
      <3>1. NetInOrder' /\ last <= m /\ EventsInOrder
        BY <1>2, <2>4 DEF IInv
      <3>2. last \in Nat /\ m \in Nat
        BY <1>2, MessageNumbers DEF IInv, TypeInv
      <3>3. \A h \in Queued : h \in Queued'
        BY <2>1, <3>1, <3>2 DEF Queued
      <3>4. /\ \A i \in DOMAIN taken : taken[i][1] \in Nat
            /\ \A i \in DOMAIN queue : queue[i][1] \in Nat
        BY DEF IInv, TypeInv, Event
      <3>5. /\ \A i \in DOMAIN taken : taken[i][1] \in Queued
            /\ \A i \in DOMAIN queue : queue[i][1] \in Queued
        BY <3>1 DEF EventsInOrder
      <3>6. /\ \A i \in DOMAIN taken : taken[i][1] \in Queued'
            /\ \A i \in DOMAIN queue : queue[i][1] \in Queued'
        BY <1>1, <3>3, <3>4, <3>5
      <3>. HIDE DEF Lost
      <3>. QED  BY <1>1, <2>2, <3>1, <3>6 DEF EventsInOrder, InOrder
    <2>. QED  BY <1>1, <1>4, <1>5, <2>3, <2>4 DEF IInv
  <1>. QED  BY <1>7, <1>8

-----------------------------------------------------------------------------
(* The specification. *)

LEMMA InitHolds ==
    ASSUME Init
    PROVE  IInv
  <1>1. /\ dev = [at |-> 1, copies |-> 0, acked |-> {}] /\ net = <<>> /\ acks = {} /\ last = 0 /\ rx = "wait" /\ dropping = 0
        /\ queue = <<>> /\ taken = <<>> /\ overtaken = FALSE
        /\ count = [events |-> 0, dropped |-> 0, retransmissions |-> 0]
        /\ call = [c \in Callers |-> Quiet] /\ ~failed /\ ~ended
    BY DEF Init
  <1>2. TypeInv
    <2>1. dev \in [at : Nat, copies : Nat, acked : SUBSET Messages]
      BY <1>1
    <2>2. net \in Seq(Messages) /\ queue \in Seq(Event) /\ taken \in Seq(Event)
      BY <1>1
    <2>3. count \in [events : Nat, dropped : Nat, retransmissions : Nat]
      BY <1>1
    <2>4. Quiet \in [pc : {"idle", "registered", "waiting"}, woken : BOOLEAN]
      BY DEF Quiet
    <2>5. call \in [Callers -> [pc : {"idle", "registered", "waiting"}, woken : BOOLEAN]]
      BY <1>1, <2>4
    <2>6. acks \subseteq Messages /\ last \in {0} \cup Messages /\ overtaken \in BOOLEAN
      BY <1>1
    <2>. QED  BY <1>1, <2>1, <2>2, <2>3, <2>5, <2>6 DEF TypeInv
  <1>3. Heard = {}
    BY <1>1 DEF Heard
  <1>4. Lost = {}
    BY <1>3 DEF Lost, EventsOf
  <1>5. Accounted
    <2>1. IsFiniteSet(Lost) /\ Cardinality(Lost) = 0
      BY <1>4, FS_EmptySet
    <2>2. /\ Len(taken) = 0 /\ Len(queue) = 0 /\ count.events = 0 /\ count.dropped = 0
          /\ dropping = 0 /\ Uncounted = 0
      BY <1>1 DEF Uncounted
    <2>. QED  BY <2>1, <2>2 DEF Accounted
  <1>6. NoLostWakeup
    BY <1>1 DEF NoLostWakeup
  <1>7. DOMAIN net = {} /\ DOMAIN queue = {} /\ DOMAIN taken = {} /\ last = 0 /\ dev.at = 1
    BY <1>1
  <1>8. NetInOrder
    BY <1>3, <1>7 DEF NetInOrder
  <1>9. EventsInOrder
    BY <1>7 DEF EventsInOrder, InOrder
  <1>. QED  BY <1>2, <1>5, <1>6, <1>8, <1>9 DEF IInv

LEMMA NextKeeps ==
    ASSUME IInv, [Next]_vars
    PROVE  IInv'
  <1>1. CASE UNCHANGED vars
    <2>1. UNCHANGED <<dev, net, acks, rx, last, dropping, queue, failed, ended, count, call, taken, overtaken>>
      BY <1>1 DEF vars
    <2>2. NoLostWakeup'
      BY <2>1 DEF IInv, NoLostWakeup
    <2>. QED  BY <2>1, <2>2, CallQuiet DEF IInv, TypeInv
  <1>2. CASE Camera
    BY <1>2, SendStep, SendNextStep, AckArrivesStep, LoseAckStep DEF Camera
  <1>3. CASE Receiver
    BY <1>3, DatagramStep, EnqueueStep, CountStep, NotifyStep, EndStep DEF Receiver
  <1>4. ASSUME NEW c \in Callers, recv(c) \/ try_take(c) \/ Wake(c) \/ Cancel(c) PROVE IInv'
    BY <1>4, CallerStep, TakeStep
  <1>. QED  BY <1>1, <1>2, <1>3, <1>4, LoseDatagramStep, OvertakeStep, DropStep DEF Next

\* Every reachable state has the inductive invariant.
LEMMA Invariance == Spec => []IInv
  BY InitHolds, NextKeeps, PTL DEF Spec

\* However many tasks call recv, none sleeps on an event, a failure or the end.
THEOREM WakeupNeverLost == Spec => []NoLostWakeup
  <1>1. IInv => NoLostWakeup
    BY DEF IInv
  <1>. QED  BY <1>1, Invariance, PTL

\* Events are delivered once and in the camera's order, for any messages, any capacity
\* and any losses and retransmissions, unless a datagram was overtaken.
THEOREM EventsOnceInOrder == Spec => []OnceInOrder
  <1>1. IInv => OnceInOrder
    <2>. SUFFICES ASSUME IInv, ~overtaken,
                         NEW i \in DOMAIN (taken \o queue), NEW j \in DOMAIN (taken \o queue), i < j
                  PROVE  Before((taken \o queue)[i], (taken \o queue)[j])
      BY DEF OnceInOrder
    <2>. DEFINE seen == taken \o queue
    <2>1. EventsInOrder
      BY DEF IInv
    <2>2. \A s, t \in Seq(Event) :
             /\ DOMAIN (s \o t) = 1..Len(s) + Len(t) /\ DOMAIN s = 1..Len(s) /\ DOMAIN t = 1..Len(t)
             /\ Len(s) \in Nat /\ Len(t) \in Nat
             /\ \A k \in 1..Len(s) : (s \o t)[k] = s[k]
             /\ \A k \in 1..Len(s) + Len(t) : k > Len(s) => k - Len(s) \in 1..Len(t) /\ (s \o t)[k] = t[k - Len(s)]
      BY ConcatIs
    <2>3. taken \in Seq(Event) /\ queue \in Seq(Event)
      BY DEF IInv, TypeInv
    <2>4. /\ DOMAIN seen = 1..Len(taken) + Len(queue) /\ DOMAIN taken = 1..Len(taken) /\ DOMAIN queue = 1..Len(queue)
          /\ Len(taken) \in Nat /\ Len(queue) \in Nat
          /\ \A k \in 1..Len(taken) : seen[k] = taken[k]
          /\ \A k \in 1..Len(taken) + Len(queue) :
                k > Len(taken) => k - Len(taken) \in 1..Len(queue) /\ seen[k] = queue[k - Len(taken)]
      BY <2>2, <2>3, Zenon
    <2>5. i \in DOMAIN seen /\ j \in DOMAIN seen
      OBVIOUS
    <2>. HIDE DEF seen
    <2>6. Before(seen[i], seen[j])
      <3>1. CASE j <= Len(taken)
        BY <2>1, <2>4, <2>5, <3>1 DEF EventsInOrder, InOrder
      <3>2. CASE i <= Len(taken) /\ j > Len(taken)
        BY <2>1, <2>4, <2>5, <3>2 DEF EventsInOrder
      <3>3. CASE i > Len(taken)
        <4>1. /\ i - Len(taken) \in DOMAIN queue /\ seen[i] = queue[i - Len(taken)]
              /\ j - Len(taken) \in DOMAIN queue /\ seen[j] = queue[j - Len(taken)]
              /\ i - Len(taken) < j - Len(taken)
          BY <2>4, <2>5, <3>3
        <4>. QED  BY <2>1, <4>1 DEF EventsInOrder, InOrder
      <3>. QED  BY <2>4, <2>5, <3>1, <3>2, <3>3
    <2>. QED  BY <2>6 DEF seen
  <1>. QED  BY <1>1, Invariance, PTL

\* What the camera saw acknowledged is in the receive thread's hands or was queued whole:
\* every event of it is taken, queued, or among the oldest that a full queue dropped, and
\* the drops are counted before the thread reads another datagram.
THEOREM AckedIsKept == Spec => []AckedIsAccounted
  <1>1. IInv => AckedIsAccounted
    <2>. SUFFICES ASSUME IInv PROVE AckedIsAccounted
      OBVIOUS
    <2>. DEFINE seen == Range(taken \o queue)
                inHand == IF rx = "queue" THEN {last} ELSE {}
                sent == UNION {{<<m, i>> : i \in 1..EventCounts[m]} : m \in dev.acked \ inHand}
                lost == sent \ seen
    <2>1. Range(taken) \cup Range(queue) \subseteq seen
      <3>1. taken \in Seq(Event) /\ queue \in Seq(Event)
        BY DEF IInv, TypeInv
      <3>2. \A s, t \in Seq(Event) : Range(s) \cup Range(t) \subseteq Range(s \o t)
        <4>. SUFFICES ASSUME NEW s \in Seq(Event), NEW t \in Seq(Event)
                      PROVE  Range(s) \cup Range(t) \subseteq Range(s \o t)
          OBVIOUS
        <4>. DEFINE u == s \o t
        <4>1. /\ DOMAIN u = 1..Len(s) + Len(t) /\ DOMAIN s = 1..Len(s) /\ DOMAIN t = 1..Len(t)
              /\ Len(s) \in Nat /\ Len(t) \in Nat
              /\ \A k \in 1..Len(s) : u[k] = s[k]
              /\ \A k \in 1..Len(t) : k + Len(s) \in 1..Len(s) + Len(t) /\ u[k + Len(s)] = t[k]
          BY ConcatIs
        <4>. HIDE DEF u
        <4>2. \A k \in DOMAIN s : k \in DOMAIN u /\ u[k] = s[k]
          BY <4>1
        <4>3. \A k \in DOMAIN t : k + Len(s) \in DOMAIN u /\ u[k + Len(s)] = t[k]
          BY <4>1
        <4>4. Range(s) \subseteq Range(u) /\ Range(t) \subseteq Range(u)
          BY <4>2, <4>3 DEF Range
        <4>. QED  BY <4>4 DEF u
      <3>. QED  BY <3>1, <3>2
    <2>2. lost \subseteq Lost
      <3>. HIDE DEF seen
      <3>1. dev.acked \subseteq Heard /\ inHand = InHand
        BY DEF Heard, InHand
      <3>2. ASSUME NEW e \in lost PROVE e \in EventsOf(Heard) \ EventsOf(InHand) /\ e \notin seen
        <4>1. PICK h \in dev.acked \ inHand : e \in {<<h, i>> : i \in 1..EventCounts[h]}
          OBVIOUS
        <4>2. e \notin seen
          <5>. HIDE DEF sent
          <5>. QED  OBVIOUS
        <4>. HIDE DEF lost, inHand
        <4>3. \E h2 \in Heard : e \in {<<h2, i>> : i \in 1..EventCounts[h2]}
          BY <3>1, <4>1
        <4>4. e \in EventsOf(Heard)
          BY <4>3, Zenon DEF EventsOf
        <4>5. e[1] = h /\ h \notin InHand
          BY <3>1, <4>1
        <4>6. \A f \in EventsOf(InHand) : f[1] \in InHand
          BY DEF EventsOf
        <4>. QED  BY <4>2, <4>4, <4>5, <4>6
      <3>. HIDE DEF lost
      <3>. QED  BY <2>1, <3>2 DEF Lost
    <2>. HIDE DEF lost
    <2>3. Cardinality(lost) <= count.dropped + dropping
      <3>1. /\ IsFiniteSet(Lost) /\ Cardinality(Lost) <= count.dropped + dropping
            /\ count.dropped \in Nat /\ dropping \in Nat
        BY DEF IInv, Accounted, TypeInv
      <3>. HIDE DEF Lost
      <3>2. IsFiniteSet(lost) /\ Cardinality(lost) <= Cardinality(Lost)
        BY <2>2, <3>1, FS_Subset
      <3>3. Cardinality(lost) \in Nat /\ Cardinality(Lost) \in Nat
        BY <3>1, <3>2, FS_CardinalityType
      <3>. QED  BY <3>1, <3>2, <3>3
    <2>4. \A e \in lost, k \in DOMAIN queue : ~overtaken => Before(e, queue[k])
      <3>. HIDE DEF Lost
      <3>. QED  BY <2>2 DEF IInv, EventsInOrder
    <2>5. ASSUME rx \in {"wait", "notify", "ended"}
          PROVE  count.events = Len(taken) + Len(queue) + count.dropped /\ Cardinality(lost) <= count.dropped
      <3>1. dropping = 0 /\ Uncounted = 0 /\ count.dropped + 0 = count.dropped /\ count.events + 0 = count.events
        BY <2>5 DEF IInv, TypeInv, Uncounted
      <3>2. count.events + Uncounted = Len(taken) + Len(queue) + count.dropped + dropping
        BY DEF IInv, Accounted
      <3>3. Len(taken) \in Nat /\ Len(queue) \in Nat /\ count.dropped \in Nat
        BY QueueLengths DEF IInv, TypeInv
      <3>. QED  BY <2>3, <3>1, <3>2, <3>3
    <2>. QED  BY <2>3, <2>4, <2>5 DEF AckedIsAccounted, lost
  <1>. QED  BY <1>1, Invariance, PTL
=============================================================================
