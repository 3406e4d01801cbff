--------------------------- MODULE U3vStreamProofs ---------------------------
(***************************************************************************)
(* Proofs about the USB3 Vision stream, for every layout, every number of   *)
(* transfers in flight and every sequence of faults: a frame delivered as   *)
(* complete is one block's payload, every block is delivered or counted as  *)
(* missed, and a block is lost only for a cause.                            *)
(***************************************************************************)
EXTENDS U3vStream, SequenceTheorems, WellFoundedInduction, TLAPS

-----------------------------------------------------------------------------
(* The order in which the device sends. *)

Packet == Nat \X Nat

\* y is sent at least k packets after x, counted within one block.
Apart(x, y, k) == x[1] < y[1] \/ (x[1] = y[1] /\ x[2] + k <= y[2])

\* Packets in the order they were sent, none of them twice.
Spread(ps) == \A i, j \in 1..Len(ps) : i < j => Apart(ps[i], ps[j], j - i)

\* The packet the device sends next.
Coming == <<Sending, dev.i>>

\* Data that is in transfers, and what is still to be sent.
Ahead(ts, next) == (UNION {{ts[j].data[k] : k \in 1..Len(ts[j].data)} : j \in 1..Len(ts)}) \cup {next}

-----------------------------------------------------------------------------
(* Types. *)

Statuses  == {"open", "ok", "cancelled", "failed", "gone"}
Transfers == [len : Int, data : Seq(Packet), status : Statuses]
Block     == [id : Nat, payload : Seq(Packet), ended : BOOLEAN]
Frame     == [id : Nat, payload : Seq(Packet), valid : Int]
Plan      == [at : Int, len : Int]
Stream    == [planned : Seq(Plan), next : Int, block : Block, ready : Seq(Frame),
              skipped : Nat, errors : Nat, failures : Nat]
Delivered == [id : Nat, payload : Seq(Packet), status : {"TrailerMissing", "Incomplete", "Complete"}]

TypeInv ==
    /\ u \in Stream
    /\ at \in Steps
    /\ pending \in Seq(Transfers)
    /\ dev \in [lens : Seq(Nat), i : Nat]
    /\ usb \in [present : BOOLEAN, listed : BOOLEAN]
    /\ faults \in Nat
    /\ reader \in [last : Nat, first : Nat, missed : Nat, out : Seq(Delivered)]

-----------------------------------------------------------------------------
(* The inductive invariant. *)

\* The endpoint's transfers hold what was sent in the order it was sent; a transfer that
\* is open is the last one with data.
BusInOrder(ts, next) ==
    /\ \A j \in 1..Len(ts) :
          /\ Spread(ts[j].data)
          /\ \A k \in 1..Len(ts[j].data) : ts[j].data[k][1] # 0 /\ Apart(ts[j].data[k], next, 1)
    /\ \A i, j \in 1..Len(ts) : i < j =>
          /\ ts[i].status = "open" => ts[j].data = <<>>
          /\ \A k \in 1..Len(ts[i].data), m \in 1..Len(ts[j].data) : Apart(ts[i].data[k], ts[j].data[m], 1)

\* The leader of block n was sent before p.
Led(n, p) == n = 0 \/ Apart(<<n, 0>>, p, 1)

\* A block is known by its leader, its payload follows it in order, and all of it was
\* sent before what is to come, Y.
BlockInOrder(b, Y) ==
    b.id # 0 =>
        /\ Spread(b.payload)
        /\ \A i \in 1..Len(b.payload) : Apart(<<b.id, 0>>, b.payload[i], i)
        /\ \A y \in Y : Led(b.id, y) /\ \A i \in 1..Len(b.payload) : Apart(b.payload[i], y, 1)

Whole(lens, n) == [i \in 1..lens[n] |-> <<n, i>>]

\* A frame that is as long as its trailer says is its block's payload.
Truthful(f, lens) ==
    /\ f.id \in 1..Len(lens)
    /\ f.valid # -1 => f.valid = lens[f.id]
    /\ f.valid # -1 /\ Len(f.payload) >= f.valid => f.payload = Whole(lens, f.id)

\* Frames that wait are newer than the last one delivered, in order, and older than the
\* open block; all are older than what is to come.
ReadyInOrder(b, rd, last, Y) ==
    /\ \A i, j \in 1..Len(rd) : i < j => rd[i].id < rd[j].id
    /\ \A i \in 1..Len(rd) :
          /\ last < rd[i].id
          /\ b.id # 0 => rd[i].id < b.id
    /\ b.id # 0 => last < b.id
    /\ \A y \in Y : Led(last, y) /\ \A i \in 1..Len(rd) : Led(rd[i].id, y)

StreamInv(b, rd, lens, last, Y) ==
    /\ b.id <= Len(lens)
    /\ BlockInOrder(b, Y)
    /\ ReadyInOrder(b, rd, last, Y)
    /\ \A i \in 1..Len(rd) : Truthful(rd[i], lens)

\* Frames delivered, up to block `last`.
OutInOrder(out, last, lens) ==
    /\ \A k \in 1..Len(out) : out[k].id <= last /\ out[k].id \in 1..Len(lens)
    /\ \A j, k \in 1..Len(out) : j < k => out[j].id < out[k].id
    /\ \A k \in 1..Len(out) : out[k].status = "Complete" => out[k].payload = Whole(lens, out[k].id)

\* n frames delivered, and the blocks missed between them.
Tallied(n, last, first, missed) ==
    /\ n = 0 <=> last = 0
    /\ last = 0 => missed = 0 /\ first = 0
    /\ last # 0 => first # 0 /\ n + missed = last - first + 1

ReaderInv(r, lens) ==
    /\ OutInOrder(r.out, r.last, lens)
    /\ Tallied(Len(r.out), r.last, r.first, r.missed)

IInv ==
    /\ TypeInv
    /\ BusInOrder(pending, Coming)
    /\ StreamInv(u.block, u.ready, dev.lens, reader.last, Ahead(pending, Coming))
    /\ ReaderInv(reader, dev.lens)

-----------------------------------------------------------------------------
(* Lemmas about the order of packets. *)

\* Distances within the order of packets add up.
LEMMA ApartTrans ==
    ASSUME NEW x \in Packet, NEW y \in Packet, NEW z \in Packet, NEW k \in Int, NEW m \in Int,
           Apart(x, y, k), Apart(y, z, m)
    PROVE  Apart(x, z, k + m)
  BY DEF Apart, Packet

\* What is so far apart is less far apart too.
LEMMA ApartLess ==
    ASSUME NEW x \in Packet, NEW y \in Packet, NEW k \in Int, NEW m \in Int, m <= k, Apart(x, y, k)
    PROVE  Apart(x, y, m)
  BY DEF Apart, Packet

\* Two stretches in order, one before the other, are in order together.
LEMMA SpreadConcat ==
    ASSUME NEW s \in Seq(Packet), NEW t \in Seq(Packet), Spread(s), Spread(t),
           \A i \in 1..Len(s), j \in 1..Len(t) : Apart(s[i], t[j], 1)
    PROVE  /\ Spread(s \o t)
           /\ s \o t \in Seq(Packet)
           /\ Len(s \o t) = Len(s) + Len(t)
           /\ \A i \in 1..Len(s) : (s \o t)[i] = s[i]
           /\ \A i \in 1..Len(t) : (s \o t)[Len(s) + i] = t[i]
  <1>. DEFINE c == s \o t
              n == Len(s)
  <1>1. /\ c \in Seq(Packet) /\ n \in Nat /\ Len(t) \in Nat
        /\ Len(c) = n + Len(t)
        /\ \A i \in 1..n : c[i] = s[i]
        /\ \A i \in 1..Len(t) : c[n + i] = t[i]
        /\ \A i \in 1..n : s[i] \in Packet
        /\ \A i \in 1..Len(t) : t[i] \in Packet
    BY ConcatProperties
  <1>2. ASSUME NEW i \in 1..Len(c), NEW j \in 1..Len(c), i < j
        PROVE  Apart(c[i], c[j], j - i)
    <2>1. CASE j <= n
      BY <1>1, <1>2, <2>1 DEF Spread
    <2>2. CASE i > n
      <3>1. i - n \in 1..Len(t) /\ j - n \in 1..Len(t) /\ i - n < j - n /\ (j - n) - (i - n) = j - i
        BY <1>1, <1>2, <2>2
      <3>2. c[i] = t[i - n] /\ c[j] = t[j - n]
        <4>1. n + (i - n) = i /\ n + (j - n) = j
          BY <1>1
        <4>. QED  BY <1>1, <3>1, <4>1
      <3>. HIDE DEF c, n
      <3>. QED  BY <3>1, <3>2 DEF Spread
    <2>3. CASE i <= n /\ j > n
      <3>. DEFINE m == j - n
      <3>1. m \in 1..Len(t) /\ i \in 1..n /\ n \in 1..n /\ 1 \in 1..Len(t) /\ n + m = j
        BY <1>1, <1>2, <2>3
      <3>2. c[i] = s[i] /\ c[j] = t[m]
        BY <1>1, <3>1
      <3>3. Apart(s[i], t[1], n - i + 1)
        <4>1. CASE i = n
          BY <1>1, <3>1, <4>1
        <4>2. CASE i < n
          <5>1. Apart(s[i], s[n], n - i) /\ Apart(s[n], t[1], 1)
            BY <3>1, <4>2 DEF Spread
          <5>. QED  BY <5>1, <1>1, <3>1, ApartTrans
        <4>. QED  BY <3>1, <4>1, <4>2
      <3>4. Apart(s[i], t[m], n - i + m)
        <4>1. CASE m = 1
          BY <3>3, <4>1
        <4>2. CASE m > 1
          <5>1. Apart(t[1], t[m], m - 1)
            BY <3>1, <4>2 DEF Spread
          <5>2. s[i] \in Packet /\ t[1] \in Packet /\ t[m] \in Packet
            BY <3>1, <1>1
          <5>. DEFINE e == n - i + 1
                      f == m - 1
          <5>3. e \in Int /\ f \in Int /\ e + f = n - i + m
            BY <3>1, <1>1
          <5>4. Apart(s[i], t[1], e) /\ Apart(t[1], t[m], f)
            BY <5>1, <3>3
          <5>. HIDE DEF e, f, m, n
          <5>5. Apart(s[i], t[m], e + f)
            BY <5>2, <5>3, <5>4, ApartTrans
          <5>. QED  BY <5>3, <5>5
        <4>. QED  BY <3>1, <4>1, <4>2
      <3>5. n - i + m = j - i
        BY <3>1, <1>1
      <3>. QED  BY <3>2, <3>4, <3>5
    <2>. QED  BY <1>1, <2>1, <2>2, <2>3
  <1>. QED  BY <1>1, <1>2 DEF Spread

\* The beginning of a stretch in order is in order.
LEMMA SpreadPrefix ==
    ASSUME NEW s \in Seq(Packet), NEW n \in 0..Len(s), Spread(s)
    PROVE  /\ SubSeq(s, 1, n) \in Seq(Packet)
           /\ Len(SubSeq(s, 1, n)) = n
           /\ \A i \in 1..n : SubSeq(s, 1, n)[i] = s[i]
           /\ Spread(SubSeq(s, 1, n))
  <1>. DEFINE r == SubSeq(s, 1, n)
  <1>1. r \in Seq(Packet) /\ Len(r) = n /\ \A i \in 1..n : r[i] = s[i]
    OBVIOUS
  <1>. QED  BY <1>1 DEF Spread

\* A packet sent after a stretch in order goes on it in order.
LEMMA SpreadAppend ==
    ASSUME NEW s \in Seq(Packet), NEW p \in Packet, Spread(s), \A i \in 1..Len(s) : Apart(s[i], p, 1)
    PROVE  Spread(Append(s, p))
  <1>1. <<p>> \in Seq(Packet) /\ Len(<<p>>) = 1 /\ <<p>>[1] = p
    OBVIOUS
  <1>2. Spread(<<p>>)
    BY <1>1 DEF Spread
  <1>3. Append(s, p) = s \o <<p>>
    OBVIOUS
  <1>. DEFINE t == <<p>>
  <1>4. t \in Seq(Packet) /\ Spread(t) /\ \A i \in 1..Len(s), j \in 1..Len(t) : Apart(s[i], t[j], 1)
    BY <1>1, <1>2
  <1>5. Spread(s \o t)
    <2>. HIDE DEF t
    <2>. QED  BY <1>4, SpreadConcat
  <1>. QED  BY <1>3, <1>5

-----------------------------------------------------------------------------
(* Lemmas about the endpoint. *)

\* What is ahead: the packet to come, and what transfers hold.
LEMMA AheadIs ==
    ASSUME NEW ts, NEW next, NEW y
    PROVE  y \in Ahead(ts, next) <=> \/ y = next
                                     \/ \E j \in 1..Len(ts) : \E k \in 1..Len(ts[j].data) : y = ts[j].data[k]
  BY DEF Ahead

\* A transfer of the endpoint holds packets.
LEMMA DataType ==
    ASSUME NEW ts \in Seq(Transfers), NEW j \in 1..Len(ts)
    PROVE  /\ ts[j] \in Transfers /\ ts[j].data \in Seq(Packet) /\ ts[j].status \in Statuses
           /\ \A k \in 1..Len(ts[j].data) : ts[j].data[k] \in Packet
  <1>1. ts[j] \in Transfers
    OBVIOUS
  <1>2. ts[j].data \in Seq(Packet) /\ ts[j].status \in Statuses
    BY <1>1 DEF Transfers
  <1>. QED  BY <1>1, <1>2

\* What is ahead are packets.
LEMMA AheadPackets ==
    ASSUME NEW ts \in Seq(Transfers), NEW next \in Packet
    PROVE  Ahead(ts, next) \subseteq Packet
  BY DataType, AheadIs

\* Transfers with the same data are the same ahead.
LEMMA SameAhead ==
    ASSUME NEW ts, NEW us, NEW next, Len(us) = Len(ts), \A j \in 1..Len(ts) : us[j].data = ts[j].data
    PROVE  Ahead(us, next) = Ahead(ts, next)
  <1>1. \A y : y \in Ahead(us, next) <=> y \in Ahead(ts, next)
    BY AheadIs
  <1>. QED  BY <1>1

\* Transfers that end, with the data they have.
LEMMA BusEnds ==
    ASSUME NEW ts, NEW us, NEW next, BusInOrder(ts, next), Len(us) = Len(ts),
           \A j \in 1..Len(ts) : us[j].data = ts[j].data /\ (us[j].status = "open" => ts[j].status = "open")
    PROVE  BusInOrder(us, next) /\ Ahead(us, next) = Ahead(ts, next)
  <1>1. BusInOrder(us, next)
    BY DEF BusInOrder
  <1>. QED  BY <1>1, SameAhead

\* The oldest transfer comes back.
LEMMA BusTail ==
    ASSUME NEW ts \in Seq(Transfers), NEW next \in Packet, BusInOrder(ts, next), ts # <<>>
    PROVE  /\ BusInOrder(Tail(ts), next)
           /\ Ahead(Tail(ts), next) \subseteq Ahead(ts, next)
           /\ Head(ts) \in Transfers
           /\ Spread(Head(ts).data)
           /\ \A k \in 1..Len(Head(ts).data) :
                 /\ Head(ts).data[k] \in Ahead(ts, next) /\ Head(ts).data[k][1] # 0
                 /\ \A y \in Ahead(Tail(ts), next) : Apart(Head(ts).data[k], y, 1)
  <1>. DEFINE us == Tail(ts)
  <1>1. /\ Len(us) \in Nat /\ Len(ts) = Len(us) + 1
        /\ \A j \in 1..Len(us) : us[j] = ts[j + 1] /\ j + 1 \in 1..Len(ts)
        /\ 1 \in 1..Len(ts) /\ Head(ts) = ts[1] /\ ts[1] \in Transfers
    OBVIOUS
  <1>. HIDE DEF us
  <1>2. BusInOrder(us, next)
    <2>1. ASSUME NEW j \in 1..Len(us)
          PROVE  /\ Spread(us[j].data)
                 /\ \A k \in 1..Len(us[j].data) : us[j].data[k][1] # 0 /\ Apart(us[j].data[k], next, 1)
      BY <1>1 DEF BusInOrder
    <2>2. ASSUME NEW i \in 1..Len(us), NEW j \in 1..Len(us), i < j
          PROVE  /\ us[i].status = "open" => us[j].data = <<>>
                 /\ \A k \in 1..Len(us[i].data), m \in 1..Len(us[j].data) : Apart(us[i].data[k], us[j].data[m], 1)
      <3>. DEFINE h == i + 1
                  l == j + 1
      <3>1. h \in 1..Len(ts) /\ l \in 1..Len(ts) /\ h < l /\ us[i] = ts[h] /\ us[j] = ts[l]
        BY <1>1, <2>2
      <3>. HIDE DEF h, l
      <3>2. /\ ts[h].status = "open" => ts[l].data = <<>>
            /\ \A k \in 1..Len(ts[h].data), m \in 1..Len(ts[l].data) : Apart(ts[h].data[k], ts[l].data[m], 1)
        BY <3>1 DEF BusInOrder
      <3>. QED  BY <3>1, <3>2
    <2>. QED  BY <2>1, <2>2 DEF BusInOrder
  <1>3. Ahead(us, next) \subseteq Ahead(ts, next)
    <2>1. ASSUME NEW y \in Ahead(us, next) PROVE y \in Ahead(ts, next)
      <3>1. CASE y = next
        BY <3>1, AheadIs
      <3>2. CASE \E j \in 1..Len(us) : \E k \in 1..Len(us[j].data) : y = us[j].data[k]
        BY <3>2, <1>1, AheadIs
      <3>. QED  BY <3>1, <3>2, AheadIs
    <2>. QED  BY <2>1
  <1>4. ASSUME NEW k \in 1..Len(ts[1].data)
        PROVE  /\ ts[1].data[k] \in Ahead(ts, next) /\ ts[1].data[k][1] # 0
               /\ \A y \in Ahead(us, next) : Apart(ts[1].data[k], y, 1)
    <2>1. ts[1].data[k] \in Ahead(ts, next)
      BY <1>1, AheadIs
    <2>2. ts[1].data[k][1] # 0 /\ Apart(ts[1].data[k], next, 1)
      BY <1>1 DEF BusInOrder
    <2>3. ASSUME NEW y \in Ahead(us, next) PROVE Apart(ts[1].data[k], y, 1)
      <3>1. CASE \E j \in 1..Len(us) : \E m \in 1..Len(us[j].data) : y = us[j].data[m]
        <4>1. PICK j \in 1..Len(us) : \E m \in 1..Len(us[j].data) : y = us[j].data[m]
          BY <3>1
        <4>2. j + 1 \in 1..Len(ts) /\ 1 < j + 1 /\ us[j] = ts[j + 1]
          BY <1>1
        <4>3. \A m \in 1..Len(us[j].data) : Apart(ts[1].data[k], us[j].data[m], 1)
          BY <4>2, <1>1 DEF BusInOrder
        <4>. QED  BY <4>1, <4>3
      <3>. QED  BY <2>2, <3>1, AheadIs
    <2>. QED  BY <2>1, <2>2, <2>3
  <1>5. Spread(ts[1].data)
    BY <1>1 DEF BusInOrder
  <1>. QED  BY <1>1, <1>2, <1>3, <1>4, <1>5 DEF us

\* What is to be sent next lies further on.
LEMMA BusAdvances ==
    ASSUME NEW ts \in Seq(Transfers), NEW next \in Packet, NEW after \in Packet,
           BusInOrder(ts, next), Apart(next, after, 0)
    PROVE  /\ BusInOrder(ts, after)
           /\ \A z \in Ahead(ts, after) : \E y \in Ahead(ts, next) : Apart(y, z, 0)
  <1>1. \A j \in 1..Len(ts) : \A k \in 1..Len(ts[j].data) : ts[j].data[k] \in Packet
    BY DataType
  <1>2. ASSUME NEW x \in Packet, Apart(x, next, 1) PROVE Apart(x, after, 1)
    BY <1>2 DEF Apart, Packet
  <1>3. BusInOrder(ts, after)
    BY <1>1, <1>2 DEF BusInOrder
  <1>4. \A x \in Packet : Apart(x, x, 0)
    BY DEF Apart, Packet
  <1>5. ASSUME NEW z \in Ahead(ts, after) PROVE \E y \in Ahead(ts, next) : Apart(y, z, 0)
    <2>1. CASE z = after
      BY <2>1, AheadIs
    <2>2. CASE \E j \in 1..Len(ts) : \E k \in 1..Len(ts[j].data) : z = ts[j].data[k]
      BY <2>2, <1>1, <1>4, AheadIs
    <2>. QED  BY <2>1, <2>2, AheadIs
  <1>. QED  BY <1>3, <1>5

-----------------------------------------------------------------------------
(* Lemmas about the stream. *)

\* It is kept when what is to come is less, or further on.
LEMMA StreamAdvances ==
    ASSUME NEW b \in Block, NEW rd \in Seq(Frame), NEW lens, NEW last \in Nat,
           NEW Y \in SUBSET Packet, NEW Z \in SUBSET Packet, StreamInv(b, rd, lens, last, Y),
           \A z \in Z : \E y \in Y : Apart(y, z, 0)
    PROVE  StreamInv(b, rd, lens, last, Z)
  <1>1. /\ b.id \in Nat /\ b.payload \in Seq(Packet)
        /\ \A i \in 1..Len(b.payload) : b.payload[i] \in Packet
    BY DEF Block
  <1>2. ASSUME NEW i \in 1..Len(rd) PROVE rd[i].id \in Nat
    <2>1. rd[i] \in Frame
      OBVIOUS
    <2>. QED  BY <2>1 DEF Frame
  <1>3. ASSUME NEW y \in Packet, NEW z \in Packet, Apart(y, z, 0)
        PROVE  /\ \A x \in Packet : Apart(x, y, 1) => Apart(x, z, 1)
               /\ \A n \in Nat : Led(n, y) => Led(n, z)
    BY <1>3 DEF Apart, Packet, Led
  <1>4. BlockInOrder(b, Z)
    <2>1. CASE b.id = 0
      BY <2>1 DEF BlockInOrder
    <2>2. CASE b.id # 0
      <3>1. ASSUME NEW z \in Z PROVE Led(b.id, z) /\ \A i \in 1..Len(b.payload) : Apart(b.payload[i], z, 1)
        <4>1. PICK y \in Y : Apart(y, z, 0)
          OBVIOUS
        <4>2. Led(b.id, y) /\ \A i \in 1..Len(b.payload) : Apart(b.payload[i], y, 1)
          BY <2>2 DEF StreamInv, BlockInOrder
        <4>3. y \in Packet /\ z \in Packet
          OBVIOUS
        <4>. QED  BY <1>1, <1>3, <4>1, <4>2, <4>3
      <3>. QED  BY <2>2, <3>1 DEF StreamInv, BlockInOrder
    <2>. QED  BY <2>1, <2>2
  <1>5. ReadyInOrder(b, rd, last, Z)
    <2>1. ASSUME NEW z \in Z PROVE Led(last, z) /\ \A i \in 1..Len(rd) : Led(rd[i].id, z)
      <3>1. PICK y \in Y : Apart(y, z, 0)
        OBVIOUS
      <3>2. Led(last, y) /\ \A i \in 1..Len(rd) : Led(rd[i].id, y)
        BY DEF StreamInv, ReadyInOrder
      <3>3. y \in Packet /\ z \in Packet
        OBVIOUS
      <3>. QED  BY <1>2, <1>3, <3>1, <3>2, <3>3
    <2>. QED  BY <2>1 DEF StreamInv, ReadyInOrder
  <1>. QED  BY <1>4, <1>5 DEF StreamInv

\* It is kept when less is to come.
LEMMA StreamSubset ==
    ASSUME NEW b, NEW rd, NEW lens, NEW last, NEW Y, NEW Z \in SUBSET Y, StreamInv(b, rd, lens, last, Y)
    PROVE  StreamInv(b, rd, lens, last, Z)
  BY DEF StreamInv, BlockInOrder, ReadyInOrder

\* A frame of the open block goes to those that wait.
LEMMA BlockToReady ==
    ASSUME NEW b \in Block, NEW rd \in Seq(Frame), NEW lens, NEW last \in Nat, NEW Y, NEW f \in Frame,
           StreamInv(b, rd, lens, last, Y), b.id # 0, f.id = b.id, Truthful(f, lens), Len(lens) \in Nat
    PROVE  StreamInv(NoBlock, Append(rd, f), lens, last, Y)
  <1>. DEFINE rs == Append(rd, f)
              n == Len(rd)
  <1>1. /\ n \in Nat /\ Len(rs) = n + 1 /\ rs[n + 1] = f
        /\ \A i \in 1..n : rs[i] = rd[i]
        /\ \A i \in 1..Len(rs) : i \in 1..n \/ i = n + 1
    OBVIOUS
  <1>2. NoBlock.id = 0
    BY DEF NoBlock
  <1>3. ReadyInOrder(b, rd, last, Y) /\ BlockInOrder(b, Y) /\ \A i \in 1..n : Truthful(rd[i], lens)
    BY DEF StreamInv
  <1>. HIDE DEF rs, n
  <1>4. \A i, j \in 1..Len(rs) : i < j => rs[i].id < rs[j].id
    <2>1. ASSUME NEW i \in 1..Len(rs), NEW j \in 1..Len(rs), i < j PROVE rs[i].id < rs[j].id
      <3>1. i \in 1..n
        BY <1>1, <2>1
      <3>2. CASE j \in 1..n
        BY <1>1, <1>3, <2>1, <3>1, <3>2 DEF ReadyInOrder, n
      <3>3. CASE j = n + 1
        BY <1>1, <1>3, <2>1, <3>1, <3>3 DEF ReadyInOrder, n
      <3>. QED  BY <1>1, <3>2, <3>3
    <2>. QED  BY <2>1
  <1>5. ASSUME NEW i \in 1..Len(rs)
        PROVE  /\ last < rs[i].id /\ Truthful(rs[i], lens)
               /\ \A y \in Y : Led(rs[i].id, y)
    <2>1. CASE i \in 1..n
      BY <1>1, <1>3, <2>1 DEF ReadyInOrder, n
    <2>2. CASE i = n + 1
      <3>1. \A y \in Y : Led(b.id, y)
        BY <1>3 DEF BlockInOrder
      <3>2. last < b.id
        BY <1>3 DEF ReadyInOrder
      <3>. QED  BY <1>1, <2>2, <3>1, <3>2
    <2>. QED  BY <1>1, <2>1, <2>2
  <1>6. \A y \in Y : Led(last, y)
    BY <1>3 DEF ReadyInOrder
  <1>7. ReadyInOrder(NoBlock, rs, last, Y)
    BY <1>2, <1>4, <1>5, <1>6 DEF ReadyInOrder
  <1>8. BlockInOrder(NoBlock, Y)
    BY <1>2 DEF BlockInOrder
  <1>9. NoBlock.id <= Len(lens)
    BY <1>2
  <1>. QED  BY <1>5, <1>7, <1>8, <1>9 DEF StreamInv, rs

\* No block is open.
LEMMA NoBlockType == NoBlock \in Block /\ NoBlock.id = 0
  BY DEF NoBlock, Block

\* The stream's fields.
LEMMA StreamFields ==
    ASSUME NEW s \in Stream
    PROVE  /\ s.block \in Block /\ s.ready \in Seq(Frame) /\ s.planned \in Seq(Plan)
           /\ s.block.id \in Nat /\ s.block.payload \in Seq(Packet) /\ s.block.ended \in BOOLEAN
           /\ s.skipped \in Nat /\ s.errors \in Nat /\ s.failures \in Nat
  <1>1. s.block \in Block /\ s.ready \in Seq(Frame) /\ s.planned \in Seq(Plan)
    BY DEF Stream
  <1>2. s.skipped \in Nat /\ s.errors \in Nat /\ s.failures \in Nat
    BY DEF Stream
  <1>. QED  BY <1>1, <1>2 DEF Block

\* Another count of failures changes nothing about the blocks.
LEMMA FailuresSet ==
    ASSUME NEW s \in Stream, NEW v \in Nat
    PROVE  /\ [s EXCEPT !.failures = v] \in Stream
           /\ [s EXCEPT !.failures = v].block = s.block /\ [s EXCEPT !.failures = v].ready = s.ready
  BY DEF Stream

\* Nor does another count of errors,
LEMMA ErrorsSet ==
    ASSUME NEW s \in Stream, NEW v \in Nat
    PROVE  /\ [s EXCEPT !.errors = v] \in Stream
           /\ [s EXCEPT !.errors = v].block = s.block /\ [s EXCEPT !.errors = v].ready = s.ready
  BY DEF Stream

\* or of skipped transfers,
LEMMA SkippedSet ==
    ASSUME NEW s \in Stream, NEW v \in Nat
    PROVE  /\ [s EXCEPT !.skipped = v] \in Stream
           /\ [s EXCEPT !.skipped = v].block = s.block /\ [s EXCEPT !.skipped = v].ready = s.ready
  BY DEF Stream

\* or another cursor,
LEMMA NextSet ==
    ASSUME NEW s \in Stream, NEW v \in Int
    PROVE  /\ [s EXCEPT !.next = v] \in Stream
           /\ [s EXCEPT !.next = v].block = s.block /\ [s EXCEPT !.next = v].ready = s.ready
  BY DEF Stream

\* or another plan.
LEMMA PlannedSet ==
    ASSUME NEW s \in Stream, NEW v \in Seq(Plan)
    PROVE  /\ [s EXCEPT !.planned = v] \in Stream
           /\ [s EXCEPT !.planned = v].block = s.block /\ [s EXCEPT !.planned = v].ready = s.ready
  BY DEF Stream

\* Another block is open.
LEMMA BlockSet ==
    ASSUME NEW s \in Stream, NEW b \in Block
    PROVE  /\ [s EXCEPT !.block = b] \in Stream
           /\ [s EXCEPT !.block = b].block = b /\ [s EXCEPT !.block = b].ready = s.ready
  BY DEF Stream

\* The stream with its block closed by the frame f.
LEMMA Closed ==
    ASSUME NEW s \in Stream, NEW f \in Frame
    PROVE  LET r == [s EXCEPT !.ready = Append(@, f), !.block = NoBlock]
           IN  r \in Stream /\ r.block = NoBlock /\ r.ready = Append(s.ready, f)
  <1>. DEFINE r == [s EXCEPT !.ready = Append(@, f), !.block = NoBlock]
              rs == Append(s.ready, f)
  <1>1. rs \in Seq(Frame)
    BY StreamFields
  <1>2. NoBlock \in Block
    BY NoBlockType
  <1>3. r = [s EXCEPT !.ready = rs, !.block = NoBlock]
    BY DEF Stream
  <1>. HIDE DEF rs
  <1>4. r \in Stream /\ r.block = NoBlock /\ r.ready = rs
    BY <1>1, <1>2, <1>3 DEF Stream
  <1>. QED  BY <1>4 DEF rs

\* abandon hands the open block out as it is.
LEMMA AbandonKeeps ==
    ASSUME NEW s \in Stream, NEW last \in Nat, NEW lens \in Seq(Nat), NEW Y,
           StreamInv(s.block, s.ready, lens, last, Y)
    PROVE  /\ abandon(s) \in Stream /\ abandon(s).block.id = 0
           /\ StreamInv(abandon(s).block, abandon(s).ready, lens, last, Y)
  <1>1. CASE s.block.id = 0
    BY <1>1 DEF abandon
  <1>2. CASE s.block.id # 0
    <2>. DEFINE f == [id |-> s.block.id, payload |-> s.block.payload, valid |-> -1]
                r == [s EXCEPT !.ready = Append(@, f), !.block = NoBlock]
    <2>1. f \in Frame /\ f.id = s.block.id /\ f.valid = -1
      BY StreamFields DEF Frame
    <2>2. abandon(s) = r
      BY <1>2 DEF abandon
    <2>. HIDE DEF f
    <2>3. r \in Stream /\ r.block = NoBlock /\ r.ready = Append(s.ready, f)
      BY <2>1, Closed
    <2>4. s.block.id \in 1..Len(lens) /\ Len(lens) \in Nat
      BY <1>2, StreamFields DEF StreamInv
    <2>5. Truthful(f, lens)
      BY <2>1, <2>4 DEF Truthful
    <2>6. StreamInv(NoBlock, Append(s.ready, f), lens, last, Y)
      BY <1>2, <2>1, <2>4, <2>5, StreamFields, BlockToReady
    <2>. QED  BY <2>2, <2>3, <2>6, NoBlockType
  <1>. QED  BY <1>1, <1>2

\* A payload that lies between its leader and the trailer of the same block, and is as
\* long as the block, is the block's.
LEMMA PayloadIsWhole ==
    ASSUME NEW ps \in Seq(Packet), NEW n \in Nat, NEW len \in Nat, Spread(ps), Len(ps) >= len,
           \A i \in 1..Len(ps) : Apart(<<n, 0>>, ps[i], i) /\ Apart(ps[i], <<n, len + 1>>, 1)
    PROVE  Len(ps) = len /\ ps = [i \in 1..len |-> <<n, i>>]
  <1>. DEFINE m == Len(ps)
  <1>1. m \in Nat /\ \A i \in 1..m : ps[i] \in Packet
    OBVIOUS
  <1>2. ASSUME NEW i \in 1..m
        PROVE  ps[i][1] = n /\ ps[i][2] >= i /\ ps[i][2] <= len /\ ps[i][2] \in Nat
    <2>1. Apart(<<n, 0>>, ps[i], i) /\ Apart(ps[i], <<n, len + 1>>, 1) /\ ps[i] \in Packet
      BY <1>1
    <2>. QED  BY <2>1 DEF Apart, Packet
  <1>3. m = len
    <2>1. CASE m = 0
      BY <2>1
    <2>2. CASE m # 0
      <3>1. m \in 1..m
        BY <2>2
      <3>2. ps[m][2] >= m /\ ps[m][2] <= len /\ ps[m][2] \in Nat
        BY <3>1, <1>2
      <3>. QED  BY <3>2
    <2>. QED  BY <2>1, <2>2
  <1>4. ASSUME NEW i \in 1..m PROVE ps[i] = <<n, i>>
    <2>1. m \in 1..m
      OBVIOUS
    <2>2. /\ ps[i][1] = n /\ ps[i][2] >= i /\ ps[i][2] \in Nat
          /\ ps[m][1] = n /\ ps[m][2] <= m /\ ps[m][2] \in Nat
      BY <1>2, <1>3, <2>1
    <2>3. CASE i = m
      BY <1>1, <2>2, <2>3 DEF Packet
    <2>4. CASE i < m
      <3>1. Apart(ps[i], ps[m], m - i)
        BY <2>1, <2>4 DEF Spread
      <3>2. ps[i][2] = i
        BY <2>2, <3>1 DEF Apart
      <3>. QED  BY <1>1, <2>2, <3>2 DEF Packet
    <2>. QED  BY <1>1, <2>3, <2>4
  <1>5. ps = [i \in 1..m |-> <<n, i>>]
    <2>1. DOMAIN ps = 1..m /\ ps = [i \in DOMAIN ps |-> ps[i]]
      OBVIOUS
    <2>. QED  BY <2>1, <1>4
  <1>. QED  BY <1>3, <1>5

\* The trailer of block n closes it.
LEMMA FinishKeeps ==
    ASSUME NEW s \in Stream, NEW last \in Nat, dev.lens \in Seq(Nat), NEW Y, NEW n \in Nat,
           StreamInv(s.block, s.ready, dev.lens, last, Y), s.block.id # 0,
           \A i \in 1..Len(s.block.payload) : Apart(s.block.payload[i], <<n, Len_(n) + 1>>, 1)
    PROVE  /\ finish(s, n) \in Stream
           /\ StreamInv(finish(s, n).block, finish(s, n).ready, dev.lens, last, Y)
  <1>1. CASE n # s.block.id
    BY <1>1, AbandonKeeps DEF finish
  <1>2. CASE n = s.block.id
    <2>. DEFINE ps == s.block.payload
                len == Len_(n)
                payload == IF Len(ps) > len THEN SubSeq(ps, 1, len) ELSE ps
                f == [id |-> n, payload |-> payload, valid |-> len]
                r == [s EXCEPT !.ready = Append(@, f), !.block = NoBlock]
    <2>1. finish(s, n) = [s EXCEPT !.ready = Append(@, f), !.block = NoBlock, !.failures = 0]
      BY <1>2 DEF finish
    <2>2. n \in 1..Len(dev.lens) /\ len \in Nat /\ len = dev.lens[n] /\ ps \in Seq(Packet) /\ Len(ps) \in Nat
      <3>1. n <= Len(dev.lens) /\ n # 0
        BY <1>2 DEF StreamInv
      <3>2. n \in 1..Len(dev.lens)
        BY <3>1
      <3>3. len = dev.lens[n] /\ len \in Nat
        BY <3>2 DEF Len_
      <3>4. ps \in Seq(Packet)
        BY StreamFields
      <3>. QED  BY <3>2, <3>3, <3>4
    <2>3. /\ Spread(ps)
          /\ \A i \in 1..Len(ps) : Apart(<<n, 0>>, ps[i], i) /\ Apart(ps[i], <<n, len + 1>>, 1)
      BY <1>2 DEF StreamInv, BlockInOrder
    <2>. HIDE DEF len, ps
    <2>4. Len(ps) >= len => Len(ps) = len /\ ps = [i \in 1..len |-> <<n, i>>]
      BY <2>2, <2>3, PayloadIsWhole
    <2>5. payload = ps
      BY <2>2, <2>4
    <2>6. f \in Frame /\ f.id = n /\ f.valid = len /\ f.payload = ps
      BY <2>2, <2>5 DEF Frame
    <2>. HIDE DEF f
    <2>7. Truthful(f, dev.lens)
      BY <2>2, <2>4, <2>6 DEF Truthful, Whole
    <2>8. StreamInv(NoBlock, Append(s.ready, f), dev.lens, last, Y)
      BY <1>2, <2>2, <2>6, <2>7, StreamFields, BlockToReady
    <2>9. r \in Stream /\ r.block = NoBlock /\ r.ready = Append(s.ready, f)
      BY <2>6, Closed
    <2>10. finish(s, n) = [r EXCEPT !.failures = 0]
      BY <2>1 DEF Stream
    <2>. HIDE DEF r
    <2>11. finish(s, n) \in Stream /\ finish(s, n).block = NoBlock /\ finish(s, n).ready = Append(s.ready, f)
      <3>1. r \in Stream /\ 0 \in Nat
        BY <2>9
      <3>2. /\ [r EXCEPT !.failures = 0] \in Stream
            /\ [r EXCEPT !.failures = 0].block = r.block /\ [r EXCEPT !.failures = 0].ready = r.ready
        BY <3>1, FailuresSet
      <3>. QED  BY <2>9, <2>10, <3>2
    <2>. QED  BY <2>8, <2>11
  <1>. QED  BY <1>1, <1>2

\* A leader, after every leader and packet taken in so far, opens a block.
LEMMA LeaderOpens ==
    ASSUME NEW rd \in Seq(Frame), NEW lens \in Seq(Nat), NEW last \in Nat, NEW Y \in SUBSET Packet,
           NEW b \in Block, StreamInv(NoBlock, rd, lens, last, Y), b.payload = <<>>,
           NEW p \in Packet, p[2] = 0, p[1] # 0, b.id = p[1], b.id <= Len(lens),
           Led(last, p), \A i \in 1..Len(rd) : Led(rd[i].id, p),
           \A y \in Y : Apart(p, y, 1)
    PROVE  StreamInv(b, rd, lens, last, Y)
  <1>1. p = <<b.id, 0>> /\ b.id \in Nat
    BY DEF Packet
  <1>2. Len(b.payload) = 0 /\ Spread(b.payload)
    BY DEF Spread
  <1>3. \A y \in Y : Led(b.id, y)
    BY <1>1 DEF Led
  <1>4. BlockInOrder(b, Y)
    BY <1>2, <1>3 DEF BlockInOrder
  <1>5. ASSUME NEW n \in Nat, Led(n, p) PROVE n < b.id
    BY <1>1, <1>5 DEF Led, Apart
  <1>6. ASSUME NEW i \in 1..Len(rd) PROVE rd[i].id \in Nat
    <2>1. rd[i] \in Frame
      OBVIOUS
    <2>. QED  BY <2>1 DEF Frame
  <1>7. last < b.id /\ \A i \in 1..Len(rd) : rd[i].id < b.id
    BY <1>5, <1>6
  <1>8. ReadyInOrder(b, rd, last, Y)
    BY <1>7 DEF StreamInv, ReadyInOrder
  <1>. QED  BY <1>4, <1>8 DEF StreamInv

\* Payload goes to the open block.
LEMMA PayloadJoins ==
    ASSUME NEW b \in Block, NEW c \in Block, NEW rd, NEW lens, NEW last, NEW Y \in SUBSET Packet,
           StreamInv(b, rd, lens, last, Y), b.id # 0, c.id = b.id,
           NEW ps \in Seq(Packet), c.payload = b.payload \o ps, Spread(ps),
           \A k \in 1..Len(ps) : /\ Led(b.id, ps[k])
                                 /\ \A i \in 1..Len(b.payload) : Apart(b.payload[i], ps[k], 1)
                                 /\ \A y \in Y : Apart(ps[k], y, 1)
    PROVE  StreamInv(c, rd, lens, last, Y)
  <1>. DEFINE qs == b.payload
              n == Len(qs)
              m == Len(ps)
              all == c.payload
  <1>1. qs \in Seq(Packet) /\ b.id \in Nat /\ n \in Nat /\ m \in Nat
    BY DEF Block
  <1>2. BlockInOrder(b, Y) /\ ReadyInOrder(b, rd, last, Y)
    BY DEF StreamInv
  <1>3. /\ Spread(qs) /\ \A i \in 1..n : Apart(<<b.id, 0>>, qs[i], i)
        /\ \A y \in Y : Led(b.id, y) /\ \A i \in 1..n : Apart(qs[i], y, 1)
    BY <1>2 DEF BlockInOrder
  <1>4. \A i \in 1..n, k \in 1..m : Apart(qs[i], ps[k], 1)
    OBVIOUS
  <1>. HIDE DEF qs
  <1>5. /\ Spread(qs \o ps) /\ Len(qs \o ps) = n + m
        /\ \A i \in 1..n : (qs \o ps)[i] = qs[i]
        /\ \A i \in 1..m : (qs \o ps)[n + i] = ps[i]
    BY <1>1, <1>3, <1>4, SpreadConcat
  <1>6. all = qs \o ps
    BY DEF qs
  <1>. HIDE DEF all, n, m
  <1>7. ASSUME NEW i \in 1..Len(all)
        PROVE  Apart(<<b.id, 0>>, all[i], i) /\ \A y \in Y : Apart(all[i], y, 1)
    <2>1. CASE i <= n
      <3>1. i \in 1..n /\ all[i] = qs[i]
        BY <1>1, <1>5, <1>6, <2>1
      <3>. QED  BY <1>3, <3>1
    <2>2. CASE i > n
      <3>. DEFINE k == i - n
      <3>1. k \in 1..m /\ n + k = i /\ 1 \in 1..m
        BY <1>1, <1>5, <1>6, <2>2
      <3>2. all[i] = ps[k]
        BY <1>5, <1>6, <3>1
      <3>3. \A y \in Y : Apart(ps[k], y, 1)
        BY <3>1 DEF m
      <3>4. ps[1] \in Packet /\ ps[k] \in Packet /\ <<b.id, 0>> \in Packet
        <4>1. <<b.id, 0>> \in Packet
          BY <1>1 DEF Packet
        <4>2. ps[1] \in Packet /\ ps[k] \in Packet
          BY <3>1 DEF m
        <4>. QED  BY <4>1, <4>2
      <3>. HIDE DEF k
      <3>5. Apart(<<b.id, 0>>, ps[1], n + 1)
        <4>1. CASE n = 0
          <5>1. Led(b.id, ps[1])
            BY <3>1 DEF m
          <5>. QED  BY <5>1, <4>1 DEF Led
        <4>2. CASE n # 0
          <5>1. n \in 1..n
            BY <1>1, <4>2
          <5>2. Apart(<<b.id, 0>>, qs[n], n) /\ Apart(qs[n], ps[1], 1) /\ qs[n] \in Packet
            <6>1. Apart(<<b.id, 0>>, qs[n], n) /\ Apart(qs[n], ps[1], 1)
              BY <1>3, <1>4, <3>1, <5>1
            <6>2. qs[n] \in Packet
              BY <1>1, <5>1 DEF n
            <6>. QED  BY <6>1, <6>2
          <5>. QED  BY <1>1, <3>4, <5>2, ApartTrans
        <4>. QED  BY <4>1, <4>2
      <3>6. CASE k = 1
        BY <3>2, <3>3, <3>5, <3>6, <3>1
      <3>7. CASE k > 1
        <4>. DEFINE d == k - 1
                    e == n + 1
        <4>1. Apart(ps[1], ps[k], d)
          BY <3>1, <3>7 DEF Spread, m
        <4>2. e \in Int /\ d \in Int /\ e + d = i /\ Apart(<<b.id, 0>>, ps[1], e)
          BY <1>1, <3>1, <3>5
        <4>. HIDE DEF d, e
        <4>3. Apart(<<b.id, 0>>, ps[k], e + d)
          BY <3>4, <4>1, <4>2, ApartTrans
        <4>. QED  BY <3>2, <3>3, <4>2, <4>3
      <3>. QED  BY <1>1, <3>1, <3>6, <3>7
    <2>. QED  BY <1>1, <2>1, <2>2
  <1>8. BlockInOrder(c, Y)
    BY <1>3, <1>5, <1>6, <1>7 DEF BlockInOrder, all
  <1>9. ReadyInOrder(c, rd, last, Y)
    BY <1>2 DEF ReadyInOrder
  <1>. QED  BY <1>8, <1>9 DEF StreamInv

\* What a transfer brought is taken in: it came before all that is still to come, and
\* after all that was taken in.
LEMMA AbsorbKeeps ==
    ASSUME NEW s \in Stream, NEW last \in Nat, dev.lens \in Seq(Nat), NEW data \in Seq(Packet),
           NEW requested \in Int, NEW X \in SUBSET Packet, NEW Y \in SUBSET X,
           StreamInv(s.block, s.ready, dev.lens, last, X), Spread(data),
           \A k \in 1..Len(data) : /\ data[k] \in X /\ data[k][1] \in 1..Len(dev.lens)
                                   /\ \A y \in Y : Apart(data[k], y, 1)
    PROVE  /\ absorb(s, data, requested) \in Stream
           /\ StreamInv(absorb(s, data, requested).block, absorb(s, data, requested).ready, dev.lens, last, Y)
  <1>. DEFINE r == absorb(s, data, requested)
              room == capacity - Len(s.block.payload)
              over == Len(data) > room
  <1>0. /\ s.block \in Block /\ s.ready \in Seq(Frame) /\ s.skipped \in Nat
        /\ s.block.id \in Nat /\ s.block.payload \in Seq(Packet) /\ capacity \in Nat /\ Len(data) \in Nat
    BY StreamFields, U3vAssumption DEF capacity
  <1>1. StreamInv(s.block, s.ready, dev.lens, last, Y)
    BY StreamSubset
  <1>2. CASE IsLeader(data)
    <2>. DEFINE b == [id |-> data[1][1], payload |-> <<>>, ended |-> capacity = 0]
                a == abandon(s)
    <2>1. Len(data) = 1 /\ data[1][2] = 0 /\ data[1] \in Packet /\ data[1] \in X
      BY <1>2 DEF IsLeader
    <2>2. data[1][1] \in 1..Len(dev.lens) /\ data[1][1] # 0 /\ \A y \in Y : Apart(data[1], y, 1)
      BY <2>1
    <2>3. (capacity = 0) \in BOOLEAN
      OBVIOUS
    <2>4. b \in Block /\ b.payload = <<>> /\ b.id = data[1][1]
      BY <2>1, <2>2, <2>3 DEF Block
    <2>5. r = [a EXCEPT !.block = b]
      BY <1>2 DEF absorb
    <2>6. a \in Stream /\ a.block.id = 0 /\ StreamInv(a.block, a.ready, dev.lens, last, X)
      BY AbandonKeeps
    <2>. HIDE DEF a, b
    <2>7. /\ Led(last, data[1]) /\ \A i \in 1..Len(a.ready) : Led(a.ready[i].id, data[1])
      BY <2>1, <2>6 DEF StreamInv, ReadyInOrder
    <2>8. StreamInv(NoBlock, a.ready, dev.lens, last, Y)
      <3>1. StreamInv(a.block, a.ready, dev.lens, last, Y)
        BY <2>6, StreamSubset
      <3>2. NoBlock.id = 0
        BY NoBlockType
      <3>. QED  BY <2>6, <3>1, <3>2 DEF StreamInv, ReadyInOrder, BlockInOrder
    <2>9. a.ready \in Seq(Frame) /\ b.id <= Len(dev.lens) /\ Y \in SUBSET Packet
      BY <2>2, <2>4, <2>6, StreamFields
    <2>10. StreamInv(b, a.ready, dev.lens, last, Y)
      BY <2>1, <2>2, <2>4, <2>7, <2>8, <2>9, LeaderOpens
    <2>11. r \in Stream /\ r.block = b /\ r.ready = a.ready
      BY <2>4, <2>5, <2>6, BlockSet
    <2>. QED  BY <2>10, <2>11
  <1>3. CASE ~IsLeader(data) /\ s.block.id # 0 /\ IsTrailer(data)
    <2>1. Len(data) = 1 /\ data[1][2] = Len_(data[1][1]) + 1 /\ data[1] \in Packet /\ data[1] \in X
      BY <1>3 DEF IsTrailer
    <2>2. r = finish(s, data[1][1])
      BY <1>3 DEF absorb
    <2>. DEFINE n == data[1][1]
    <2>3. n \in Nat /\ data[1] = <<n, Len_(n) + 1>>
      BY <2>1 DEF Packet
    <2>4. \A i \in 1..Len(s.block.payload) : Apart(s.block.payload[i], <<n, Len_(n) + 1>>, 1)
      BY <1>3, <2>1, <2>3 DEF StreamInv, BlockInOrder
    <2>. HIDE DEF n
    <2>. QED  BY <1>1, <1>3, <2>2, <2>3, <2>4, FinishKeeps DEF n
  <1>4. CASE ~IsLeader(data) /\ ~(s.block.id # 0 /\ IsTrailer(data)) /\ AtPayload(s)
    <2>. DEFINE len == IF over THEN room ELSE Len(data)
                ps == SubSeq(data, 1, len)
                e == Len(data) < requested \/ Len(data) >= room
                b == s.block
                c == [b EXCEPT !.payload = @ \o ps, !.ended = e]
                k == IF over THEN s.skipped + 1 ELSE s.skipped
                q == [s EXCEPT !.block = c]
    <2>1. r = [s EXCEPT !.block.payload = @ \o ps, !.block.ended = e, !.skipped = IF over THEN @ + 1 ELSE @]
      BY <1>4 DEF absorb
    <2>2. r = [q EXCEPT !.skipped = k]
      BY <2>1 DEF Stream, Block
    <2>3. s.block.id # 0 /\ Len(b.payload) < capacity /\ Len(b.payload) \in Nat
      BY <1>0, <1>4 DEF AtPayload
    <2>4. len \in 0..Len(data) /\ k \in Nat
      BY <1>0, <2>3
    <2>5. e \in BOOLEAN
      OBVIOUS
    <2>. HIDE DEF len, e, k
    <2>6. ps \in Seq(Packet) /\ Len(ps) = len /\ Spread(ps) /\ \A i \in 1..len : ps[i] = data[i]
      BY <2>4, SpreadPrefix
    <2>. HIDE DEF ps
    <2>7. c \in Block /\ c.id = b.id /\ c.payload = b.payload \o ps
      <3>. DEFINE all == b.payload \o ps
      <3>1. all \in Seq(Packet)
        BY <1>0, <2>6
      <3>2. c = [b EXCEPT !.payload = all, !.ended = e]
        BY <1>0 DEF Block
      <3>3. b \in Block
        BY <1>0
      <3>. HIDE DEF all, b, c
      <3>4. c \in Block /\ c.id = b.id /\ c.payload = all
        BY <2>5, <3>1, <3>2, <3>3 DEF Block
      <3>. QED  BY <3>4 DEF all
    <2>8. ASSUME NEW i \in 1..Len(ps)
          PROVE  /\ Led(b.id, ps[i])
                 /\ \A j \in 1..Len(b.payload) : Apart(b.payload[j], ps[i], 1)
                 /\ \A y \in Y : Apart(ps[i], y, 1)
      <3>1. i \in 1..Len(data) /\ ps[i] = data[i]
        BY <2>4, <2>6
      <3>2. data[i] \in X /\ \A y \in Y : Apart(data[i], y, 1)
        BY <3>1
      <3>3. Led(b.id, data[i]) /\ \A j \in 1..Len(b.payload) : Apart(b.payload[j], data[i], 1)
        BY <2>3, <3>2 DEF StreamInv, BlockInOrder
      <3>. QED  BY <3>1, <3>2, <3>3
    <2>. HIDE DEF c
    <2>9. StreamInv(c, s.ready, dev.lens, last, Y)
      <3>1. b \in Block /\ Y \in SUBSET Packet /\ b.id # 0
        BY <1>0, <2>3
      <3>2. StreamInv(b, s.ready, dev.lens, last, Y)
        BY <1>1
      <3>. HIDE DEF b
      <3>. QED  BY <2>6, <2>7, <2>8, <3>1, <3>2, PayloadJoins
    <2>10. q \in Stream /\ q.block = c /\ q.ready = s.ready
      BY <2>7, BlockSet
    <2>. HIDE DEF q
    <2>11. [q EXCEPT !.skipped = k] \in Stream /\ [q EXCEPT !.skipped = k].block = c
           /\ [q EXCEPT !.skipped = k].ready = s.ready
      BY <2>4, <2>10, SkippedSet
    <2>. QED  BY <2>2, <2>9, <2>11
  <1>5. CASE ~IsLeader(data) /\ ~(s.block.id # 0 /\ IsTrailer(data)) /\ ~AtPayload(s)
    <2>. DEFINE k == s.skipped + 1
    <2>1. r = [s EXCEPT !.skipped = k]
      BY <1>5 DEF absorb, Stream
    <2>2. k \in Nat
      BY <1>0
    <2>. HIDE DEF k
    <2>3. [s EXCEPT !.skipped = k] \in Stream /\ [s EXCEPT !.skipped = k].block = s.block
          /\ [s EXCEPT !.skipped = k].ready = s.ready
      BY <2>2, SkippedSet
    <2>. QED  BY <1>1, <2>1, <2>3
  <1>. QED  BY <1>2, <1>3, <1>4, <1>5

-----------------------------------------------------------------------------
(* Steps of the device and the bus. *)

\* The invariant holds at the start.
LEMMA InitInv ==
    ASSUME Init
    PROVE  IInv
  <1>1. u \in Stream /\ u.block = NoBlock /\ u.ready = <<>>
    BY NoBlockType DEF Init, NewStream, Stream, Leader
  <1>2. /\ dev.lens = <<>> /\ dev.i = 0 /\ pending = <<>> /\ reader.last = 0 /\ reader.out = <<>>
        /\ reader.missed = 0 /\ reader.first = 0
    BY DEF Init
  <1>3. TypeInv
    BY <1>1 DEF Init, TypeInv, Steps
  <1>4. BusInOrder(pending, Coming)
    BY <1>2 DEF BusInOrder
  <1>5. Ahead(pending, Coming) = {Coming}
    BY <1>2 DEF Ahead
  <1>6. StreamInv(u.block, u.ready, dev.lens, reader.last, Ahead(pending, Coming))
    BY <1>1, <1>2, <1>5, NoBlockType DEF StreamInv, BlockInOrder, ReadyInOrder, Led
  <1>7. ReaderInv(reader, dev.lens)
    BY <1>2 DEF ReaderInv, OutInOrder, Tallied
  <1>. QED  BY <1>3, <1>4, <1>6, <1>7 DEF IInv

\* The device's state.
LEMMA DevType ==
    ASSUME TypeInv
    PROVE  dev.lens \in Seq(Nat) /\ Sending \in Nat /\ dev.i \in Nat /\ Coming \in Packet
           /\ Coming[1] = Sending /\ Coming[2] = dev.i
  BY DEF TypeInv, Sending, Coming, Packet

\* Faults are counted.
LEMMA FaultType ==
    ASSUME TypeInv, Fault
    PROVE  faults' \in Nat
  BY DEF TypeInv, Fault

\* Blocks that the device begins change nothing about the earlier ones.
LEMMA LensGrow ==
    ASSUME NEW lens \in Seq(Nat), NEW len \in Nat, NEW b \in Block, NEW rd \in Seq(Frame), NEW last, NEW Y,
           StreamInv(b, rd, lens, last, Y)
    PROVE  StreamInv(b, rd, Append(lens, len), last, Y)
  <1>. DEFINE ls == Append(lens, len)
  <1>1. /\ Len(ls) = Len(lens) + 1 /\ Len(lens) \in Nat
        /\ \A n \in 1..Len(lens) : ls[n] = lens[n] /\ n \in 1..Len(ls)
    OBVIOUS
  <1>. HIDE DEF ls
  <1>2. ASSUME NEW f, Truthful(f, lens) PROVE Truthful(f, ls)
    BY <1>1, <1>2 DEF Truthful, Whole
  <1>3. b.id <= Len(ls)
    BY <1>1 DEF StreamInv, Block
  <1>4. StreamInv(b, rd, ls, last, Y)
    BY <1>2, <1>3 DEF StreamInv
  <1>. QED  BY <1>4 DEF ls

\* Nor about the frames delivered.
LEMMA ReaderLens ==
    ASSUME NEW lens \in Seq(Nat), NEW len \in Nat, NEW r, ReaderInv(r, lens)
    PROVE  ReaderInv(r, Append(lens, len))
  <1>. DEFINE ls == Append(lens, len)
  <1>1. /\ Len(ls) = Len(lens) + 1 /\ Len(lens) \in Nat
        /\ \A n \in 1..Len(lens) : ls[n] = lens[n] /\ n \in 1..Len(ls)
    OBVIOUS
  <1>. HIDE DEF ls
  <1>2. \A n \in 1..Len(lens) : Whole(ls, n) = Whole(lens, n)
    BY <1>1 DEF Whole
  <1>3. ReaderInv(r, ls)
    BY <1>1, <1>2 DEF ReaderInv, OutInOrder
  <1>. QED  BY <1>3 DEF ls

\* The device goes on, with transfers as they are.
LEMMA DeviceMoves ==
    ASSUME IInv, TypeInv', u'.block = u.block, u'.ready = u.ready, UNCHANGED <<pending, reader>>,
           Apart(Coming, Coming', 0),
           dev'.lens = dev.lens \/ \E len \in Nat : dev'.lens = Append(dev.lens, len)
    PROVE  IInv'
  <1>1. TypeInv /\ BusInOrder(pending, Coming)
        /\ StreamInv(u.block, u.ready, dev.lens, reader.last, Ahead(pending, Coming)) /\ ReaderInv(reader, dev.lens)
    BY DEF IInv
  <1>2. /\ pending \in Seq(Transfers) /\ Coming \in Packet /\ Coming' \in Packet /\ reader.last \in Nat
        /\ u.block \in Block /\ u.ready \in Seq(Frame) /\ dev.lens \in Seq(Nat)
    BY <1>1, DevType, StreamFields DEF TypeInv, Coming, Sending, Packet
  <1>. DEFINE X == Ahead(pending, Coming)
              Y == Ahead(pending, Coming')
  <1>3. BusInOrder(pending, Coming') /\ \A y \in Y : \E x \in X : Apart(x, y, 0)
    BY <1>1, <1>2, BusAdvances
  <1>4. X \in SUBSET Packet /\ Y \in SUBSET Packet
    BY <1>2, AheadPackets
  <1>5. StreamInv(u.block, u.ready, dev.lens, reader.last, Y)
    <2>. HIDE DEF X, Y
    <2>1. StreamInv(u.block, u.ready, dev.lens, reader.last, X)
      BY <1>1 DEF X
    <2>. QED  BY <1>2, <1>3, <1>4, <2>1, StreamAdvances
  <1>6. StreamInv(u.block, u.ready, dev'.lens, reader.last, Y) /\ ReaderInv(reader, dev'.lens)
    BY <1>1, <1>2, <1>5, LensGrow, ReaderLens
  <1>. QED  BY <1>3, <1>6 DEF IInv

\* The device begins a block.
LEMMA BeginBlockKeeps ==
    ASSUME IInv, NEW len \in Lengths, BeginBlock(len)
    PROVE  IInv'
  <1>1. TypeInv /\ len \in Nat
    BY U3vAssumption DEF IInv
  <1>2. dev' = [lens |-> Append(dev.lens, len), i |-> 0] /\ UNCHANGED <<u, at, pending, usb, reader>>
    BY DEF BeginBlock
  <1>3. faults' \in Nat
    BY <1>1, FaultType DEF BeginBlock, TypeInv
  <1>4. dev.lens \in Seq(Nat) /\ dev'.lens = Append(dev.lens, len) /\ dev'.i = 0
    BY <1>1, <1>2, DevType
  <1>5. TypeInv'
    BY <1>1, <1>2, <1>3, <1>4 DEF TypeInv
  <1>6. Coming = <<Len(dev.lens), dev.i>> /\ Coming' = <<Len(dev.lens) + 1, 0>>
    BY <1>1, <1>4 DEF Coming, Sending
  <1>7. Apart(Coming, Coming', 0)
    BY <1>4, <1>6 DEF Apart
  <1>. QED  BY <1>1, <1>2, <1>4, <1>5, <1>7, DeviceMoves

\* There is an oldest open transfer.
LEMMA OldestOpen ==
    ASSUME pending \in Seq(Transfers), Open # {}
    PROVE  Min(Open) \in Open /\ \A k \in Open : Min(Open) <= k
  <1>1. Open \subseteq Nat
    BY DEF Open
  <1>2. \E x \in Open : \A y \in Open : ~(<<y, x>> \in OpToRel(<, Nat))
    BY Zenon, <1>1, WFMin, NatLessThanWellFounded
  <1>3. PICK x \in Open : \A y \in Open : ~(<<y, x>> \in OpToRel(<, Nat))
    BY Zenon, <1>2
  <1>4. \A y \in Open : ~(y < x)
    <2>1. ASSUME NEW y \in Nat, NEW z \in Nat, y < z PROVE <<y, z>> \in OpToRel(<, Nat)
      <3>1. <<y, z>> \in Nat \X Nat /\ <<y, z>>[1] = y /\ <<y, z>>[2] = z
        OBVIOUS
      <3>. DEFINE ss == <<y, z>>
      <3>2. ss \in Nat \X Nat /\ ss[1] < ss[2]
        BY <2>1, <3>1
      <3>. HIDE DEF ss
      <3>3. ss \in OpToRel(<, Nat)
        BY Zenon, <3>2 DEF OpToRel
      <3>. QED  BY Zenon, <3>3 DEF ss
    <2>. QED  BY Zenon, <1>1, <1>3, <2>1
  <1>5. \A y \in Open : x <= y
    BY <1>1, <1>4
  <1>. HIDE DEF Open
  <1>. QED  BY <1>5 DEF Min

\* A packet goes to the oldest open transfer.
LEMMA BusFills ==
    ASSUME NEW ts \in Seq(Transfers), NEW us \in Seq(Transfers), NEW j \in 1..Len(ts),
           NEW p \in Packet, NEW after \in Packet, BusInOrder(ts, p), p[1] # 0, Apart(p, after, 1),
           ts[j].status = "open", \A k \in 1..Len(ts) : ts[k].status = "open" => j <= k,
           Len(us) = Len(ts), \A k \in 1..Len(ts) : k # j => us[k] = ts[k],
           us[j].data = Append(ts[j].data, p)
    PROVE  /\ BusInOrder(us, after)
           /\ \A z \in Ahead(us, after) : \E y \in Ahead(ts, p) : Apart(y, z, 0)
  <1>. DEFINE d == ts[j].data
              e == us[j].data
              n == Len(d)
  <1>1. /\ d \in Seq(Packet) /\ e \in Seq(Packet) /\ n \in Nat /\ Len(e) = n + 1 /\ e[n + 1] = p
        /\ \A k \in 1..n : e[k] = d[k] /\ d[k] \in Packet
        /\ \A k \in 1..Len(e) : k \in 1..n \/ k = n + 1
    BY DataType
  <1>2. Spread(d) /\ \A k \in 1..n : d[k][1] # 0 /\ Apart(d[k], p, 1)
    BY DEF BusInOrder
  <1>3. Spread(e)
    BY <1>1, <1>2, SpreadAppend
  <1>4. ASSUME NEW x \in Packet, Apart(x, p, 1) PROVE Apart(x, after, 1)
    BY <1>4 DEF Apart, Packet
  <1>5. \A k \in 1..Len(e) : e[k] \in Packet /\ e[k][1] # 0 /\ Apart(e[k], after, 1)
    <2>. HIDE DEF d, e, n
    <2>1. \A k \in 1..n : e[k] \in Packet /\ e[k][1] # 0 /\ Apart(e[k], after, 1)
      BY <1>1, <1>2, <1>4
    <2>. QED  BY <1>1, <2>1
  <1>6. ASSUME NEW k \in 1..Len(us)
        PROVE  /\ Spread(us[k].data)
               /\ \A i \in 1..Len(us[k].data) : us[k].data[i][1] # 0 /\ Apart(us[k].data[i], after, 1)
    <2>1. CASE k = j
      BY <1>3, <1>5, <2>1
    <2>2. CASE k # j
      <3>1. us[k] = ts[k] /\ k \in 1..Len(ts)
        BY <2>2
      <3>2. \A i \in 1..Len(ts[k].data) : ts[k].data[i] \in Packet
        BY <3>1, DataType
      <3>3. /\ Spread(ts[k].data)
            /\ \A i \in 1..Len(ts[k].data) : ts[k].data[i][1] # 0 /\ Apart(ts[k].data[i], p, 1)
        BY <3>1 DEF BusInOrder
      <3>. QED  BY <1>4, <3>1, <3>2, <3>3
    <2>. QED  BY <2>1, <2>2
  <1>7. \A k \in 1..Len(ts) : j < k => us[k].data = <<>>
    BY DEF BusInOrder
  <1>8. ASSUME NEW h \in 1..Len(us), NEW k \in 1..Len(us), h < k
        PROVE  /\ us[h].status = "open" => us[k].data = <<>>
               /\ \A i \in 1..Len(us[h].data), m \in 1..Len(us[k].data) : Apart(us[h].data[i], us[k].data[m], 1)
    <2>1. CASE h # j /\ k # j
      <3>1. us[h] = ts[h] /\ us[k] = ts[k] /\ h \in 1..Len(ts) /\ k \in 1..Len(ts)
        BY <2>1
      <3>2. /\ ts[h].status = "open" => ts[k].data = <<>>
            /\ \A i \in 1..Len(ts[h].data), m \in 1..Len(ts[k].data) : Apart(ts[h].data[i], ts[k].data[m], 1)
        BY <1>8, <3>1 DEF BusInOrder
      <3>. QED  BY <3>1, <3>2
    <2>2. CASE h = j
      <3>1. us[k].data = <<>>
        BY <1>7, <1>8, <2>2
      <3>. QED  BY <3>1
    <2>3. CASE k = j
      <3>1. us[h] = ts[h] /\ h \in 1..Len(ts) /\ us[h].status # "open"
        BY <1>8, <2>3
      <3>2. \A i \in 1..Len(ts[h].data) : Apart(ts[h].data[i], p, 1) /\ \A m \in 1..n : Apart(ts[h].data[i], d[m], 1)
        BY <1>8, <2>3, <3>1 DEF BusInOrder
      <3>3. \A i \in 1..Len(ts[h].data), m \in 1..Len(e) : Apart(ts[h].data[i], e[m], 1)
        <4>. HIDE DEF d, e, n
        <4>. QED  BY <1>1, <3>2
      <3>. QED  BY <2>3, <3>1, <3>3
    <2>. QED  BY <2>1, <2>2, <2>3
  <1>9. BusInOrder(us, after)
    BY <1>6, <1>8 DEF BusInOrder
  <1>10. \A x \in Packet : Apart(x, x, 0)
    BY DEF Apart, Packet
  <1>11. ASSUME NEW z \in Ahead(us, after) PROVE \E y \in Ahead(ts, p) : Apart(y, z, 0)
    <2>0. p \in Ahead(ts, p)
      BY AheadIs
    <2>1. CASE z = after
      <3>1. Apart(p, after, 0)
        BY ApartLess
      <3>. QED  BY <2>0, <2>1, <3>1
    <2>2. CASE \E k \in 1..Len(us) : \E i \in 1..Len(us[k].data) : z = us[k].data[i]
      <3>1. PICK k \in 1..Len(us) : \E i \in 1..Len(us[k].data) : z = us[k].data[i]
        BY <2>2
      <3>2. PICK i \in 1..Len(us[k].data) : z = us[k].data[i]
        BY <3>1
      <3>3. CASE k # j
        <4>1. z \in Ahead(ts, p) /\ z \in Packet
          <5>1. us[k] = ts[k] /\ k \in 1..Len(ts)
            BY <3>3
          <5>2. i \in 1..Len(ts[k].data) /\ z = ts[k].data[i]
            BY <3>2, <5>1
          <5>. QED  BY <5>1, <5>2, AheadIs, DataType
        <4>. QED  BY <4>1, <1>10
      <3>4. CASE k = j /\ i \in 1..n
        <4>1. z = d[i] /\ z \in Packet
          BY <1>1, <3>2, <3>4
        <4>2. z \in Ahead(ts, p)
          BY <3>4, <4>1, AheadIs
        <4>. QED  BY <4>1, <4>2, <1>10
      <3>5. CASE k = j /\ i = n + 1
        <4>1. z = p
          BY <1>1, <3>2, <3>5
        <4>. QED  BY <2>0, <4>1, <1>10
      <3>. QED  BY <1>1, <3>2, <3>3, <3>4, <3>5
    <2>. QED  BY <2>1, <2>2, AheadIs
  <1>. QED  BY <1>9, <1>11

\* The device sends a packet.
LEMMA TransmitKeeps ==
    ASSUME IInv, Transmit
    PROVE  IInv'
  <1>. DEFINE j == Min(Open)
              p == Coming
              status == IF ShortPacket(p) \/ Len(Append(pending[j].data, p)) = pending[j].len THEN "ok" ELSE "open"
              data == Append(pending[j].data, p)
              t == [[pending[j] EXCEPT !.data = data] EXCEPT !.status = status]
  <1>1. TypeInv /\ BusInOrder(pending, Coming)
        /\ StreamInv(u.block, u.ready, dev.lens, reader.last, Ahead(pending, Coming)) /\ ReaderInv(reader, dev.lens)
    BY DEF IInv
  <1>2. /\ pending \in Seq(Transfers) /\ p \in Packet /\ p[1] = Sending /\ reader.last \in Nat
        /\ u.block \in Block /\ u.ready \in Seq(Frame)
        /\ dev.lens \in Seq(Nat) /\ dev.i \in Nat /\ Sending \in Nat
    BY <1>1, DevType, StreamFields DEF TypeInv
  <1>3. Open # {} /\ ~Idle /\ UNCHANGED <<u, at, usb, faults, reader>> /\ dev' = [dev EXCEPT !.i = @ + 1]
    BY DEF Transmit
  <1>4. p[1] # 0
    BY <1>2, <1>3 DEF Idle
  <1>5. j \in Open /\ \A k \in Open : j <= k
    BY <1>2, <1>3, OldestOpen
  <1>6. j \in 1..Len(pending) /\ pending[j].status = "open" /\ \A k \in 1..Len(pending) : pending[k].status = "open" => j <= k
    BY <1>2, <1>5 DEF Open
  <1>7. pending' = [pending EXCEPT ![j] = t]
    <2>1. pending' = [pending EXCEPT ![j] = [[pending[j] EXCEPT !.data = Append(@, p)] EXCEPT !.status =
                        IF ShortPacket(p) \/ Len([pending[j] EXCEPT !.data = Append(@, p)].data) = [pending[j] EXCEPT !.data = Append(@, p)].len
                        THEN "ok" ELSE "open"]]
      BY DEF Transmit, Coming
    <2>2. pending[j] \in Transfers
      BY <1>2, <1>6, DataType
    <2>3. /\ [pending[j] EXCEPT !.data = Append(@, p)] = [pending[j] EXCEPT !.data = data]
          /\ [pending[j] EXCEPT !.data = data].data = data
          /\ [pending[j] EXCEPT !.data = data].len = pending[j].len
      BY <2>2 DEF Transfers
    <2>. QED  BY <2>1, <2>3
  <1>8. pending[j] \in Transfers /\ data \in Seq(Packet) /\ status \in Statuses
    BY <1>2, <1>6, DataType DEF Statuses
  <1>. HIDE DEF j, p, status, data
  <1>9. t \in Transfers /\ t.data = data
    BY <1>8 DEF Transfers
  <1>. HIDE DEF t
  <1>10. /\ pending' \in Seq(Transfers) /\ Len(pending') = Len(pending)
         /\ \A k \in 1..Len(pending) : k # j => pending'[k] = pending[k]
         /\ pending'[j].data = Append(pending[j].data, p)
    BY <1>2, <1>6, <1>7, <1>9 DEF data
  <1>11. dev' \in [lens : Seq(Nat), i : Nat] /\ dev'.lens = dev.lens /\ dev'.i = dev.i + 1
    <2>. DEFINE i == dev.i + 1
    <2>1. dev \in [lens : Seq(Nat), i : Nat] /\ dev' = [dev EXCEPT !.i = i] /\ i \in Nat
      BY <1>1, <1>2, <1>3 DEF TypeInv
    <2>. HIDE DEF i
    <2>2. dev' \in [lens : Seq(Nat), i : Nat] /\ dev'.lens = dev.lens /\ dev'.i = i
      BY <2>1
    <2>. QED  BY <2>2 DEF i
  <1>12. Coming' \in Packet /\ Apart(p, Coming', 1)
    BY <1>2, <1>11 DEF Coming, Sending, Packet, Apart, p
  <1>13. TypeInv'
    BY <1>1, <1>3, <1>10, <1>11 DEF TypeInv
  <1>. DEFINE X == Ahead(pending, Coming)
              Y == Ahead(pending', Coming')
  <1>14. BusInOrder(pending', Coming') /\ \A y \in Y : \E x \in X : Apart(x, y, 0)
    BY <1>1, <1>2, <1>4, <1>6, <1>10, <1>12, BusFills DEF p
  <1>15. X \in SUBSET Packet /\ Y \in SUBSET Packet
    BY <1>2, <1>10, <1>12, AheadPackets DEF p
  <1>16. StreamInv(u.block, u.ready, dev.lens, reader.last, Y)
    <2>. HIDE DEF X, Y
    <2>1. StreamInv(u.block, u.ready, dev.lens, reader.last, X)
      BY <1>1 DEF X
    <2>. QED  BY <1>2, <1>14, <1>15, <2>1, StreamAdvances
  <1>. QED  BY <1>1, <1>3, <1>11, <1>13, <1>14, <1>16 DEF IInv

\* Transfers end, with the data they have.
LEMMA TransfersEnd ==
    ASSUME IInv, UNCHANGED <<u, at, dev, reader>>, pending' \in Seq(Transfers), Len(pending') = Len(pending),
           \A j \in 1..Len(pending) :
              pending'[j].data = pending[j].data /\ (pending'[j].status = "open" => pending[j].status = "open"),
           usb' \in [present : BOOLEAN, listed : BOOLEAN], faults' \in Nat
    PROVE  IInv'
  <1>1. BusInOrder(pending', Coming) /\ Ahead(pending', Coming) = Ahead(pending, Coming)
    BY BusEnds DEF IInv
  <1>2. Coming' = Coming
    BY DEF Coming, Sending
  <1>3. TypeInv'
    BY DEF IInv, TypeInv
  <1>. QED  BY <1>1, <1>2, <1>3 DEF IInv

\* A transfer fails.
LEMMA TransferFailsKeeps ==
    ASSUME IInv, NEW status \in {"failed", "cancelled"}, TransferFails(status)
    PROVE  IInv'
  <1>1. TypeInv /\ pending \in Seq(Transfers) /\ usb \in [present : BOOLEAN, listed : BOOLEAN]
    BY DEF IInv, TypeInv
  <1>. DEFINE j == Min(Open)
              t == [pending[j] EXCEPT !.status = status]
  <1>2. /\ Open # {} /\ pending' = [pending EXCEPT ![j].status = status]
        /\ UNCHANGED <<u, at, dev, usb, reader>>
    BY DEF TransferFails
  <1>3. faults' \in Nat
    BY <1>1, FaultType DEF TransferFails
  <1>4. j \in 1..Len(pending)
    BY <1>1, <1>2, OldestOpen DEF Open
  <1>5. pending[j] \in Transfers /\ pending' = [pending EXCEPT ![j] = t]
    BY <1>1, <1>2, <1>4
  <1>. HIDE DEF j
  <1>6. t \in Transfers /\ t.data = pending[j].data /\ t.status # "open"
    BY <1>5 DEF Transfers, Statuses
  <1>. HIDE DEF t
  <1>7. /\ pending' \in Seq(Transfers) /\ Len(pending') = Len(pending)
        /\ \A k \in 1..Len(pending) : pending'[k] = IF k = j THEN t ELSE pending[k]
    BY <1>1, <1>4, <1>5, <1>6
  <1>. QED  BY <1>1, <1>2, <1>3, <1>6, <1>7, TransfersEnd

\* The open transfers of ts, ended with `status`.
EndOpen(ts, status) ==
    [j \in DOMAIN ts |-> IF ts[j].status = "open" THEN [ts[j] EXCEPT !.status = status] ELSE ts[j]]

\* Ended transfers keep their data.
LEMMA EndOpenIs ==
    ASSUME NEW ts \in Seq(Transfers), NEW status \in Statuses \ {"open"}
    PROVE  /\ EndOpen(ts, status) \in Seq(Transfers) /\ Len(EndOpen(ts, status)) = Len(ts)
           /\ \A j \in 1..Len(ts) : /\ EndOpen(ts, status)[j].data = ts[j].data
                                    /\ EndOpen(ts, status)[j].status = "open" => ts[j].status = "open"
  <1>. DEFINE F(j) == IF ts[j].status = "open" THEN [ts[j] EXCEPT !.status = status] ELSE ts[j]
              us == EndOpen(ts, status)
  <1>1. ASSUME NEW j \in 1..Len(ts) PROVE F(j) \in Transfers /\ F(j).data = ts[j].data /\ F(j).status # "open"
    <2>1. ts[j] \in Transfers
      OBVIOUS
    <2>. QED  BY <2>1 DEF Transfers
  <1>2. us = [j \in 1..Len(ts) |-> F(j)] /\ Len(ts) \in Nat
    BY DEF EndOpen
  <1>. HIDE DEF F, us
  <1>3. us \in Seq(Transfers) /\ Len(us) = Len(ts) /\ \A j \in 1..Len(ts) : us[j] = F(j)
    BY <1>1, <1>2
  <1>. QED  BY <1>1, <1>3 DEF us

\* The device is unplugged.
LEMMA UnplugKeeps ==
    ASSUME IInv, NEW status \in {"failed", "gone"}, Unplug(status)
    PROVE  IInv'
  <1>1. TypeInv /\ pending \in Seq(Transfers) /\ usb \in [present : BOOLEAN, listed : BOOLEAN]
    BY DEF IInv, TypeInv
  <1>2. UNCHANGED <<u, at, dev, reader>> /\ usb' = [usb EXCEPT !.present = FALSE]
    BY DEF Unplug
  <1>3. faults' \in Nat /\ usb' \in [present : BOOLEAN, listed : BOOLEAN]
    BY <1>1, <1>2, FaultType DEF Unplug
  <1>4. pending' = EndOpen(pending, status)
    BY <1>1 DEF Unplug, Open, EndOpen
  <1>5. status \in Statuses \ {"open"}
    BY DEF Statuses
  <1>. QED  BY <1>1, <1>2, <1>3, <1>4, <1>5, EndOpenIs, TransfersEnd

\* The system no longer lists the device.
LEMMA DelistKeeps ==
    ASSUME IInv, Delist
    PROVE  IInv'
  <1>1. TypeInv /\ usb \in [present : BOOLEAN, listed : BOOLEAN]
    BY DEF IInv, TypeInv
  <1>2. usb' \in [present : BOOLEAN, listed : BOOLEAN] /\ UNCHANGED <<u, at, pending, dev, faults, reader>>
    BY <1>1 DEF Delist
  <1>3. TypeInv'
    BY <1>1, <1>2 DEF TypeInv
  <1>. QED  BY <1>2, <1>3 DEF IInv, Coming, Sending

-----------------------------------------------------------------------------
(* Steps of the host. *)

\* A transfer's size and the cursor after it are numbers.
LEMMA SlotType ==
    ASSUME NEW c \in Int
    PROVE  slot(c).len \in Int /\ slot(c).next \in Int
  <1>. DEFINE full == Size * Count
              q == c \div Size
              end == IF c < full THEN (q + 1) * Size ELSE capacity
  <1>1. Size \in Nat /\ Count \in Nat /\ Final \in Nat /\ Size > 0
    BY U3vAssumption
  <1>2. full \in Int /\ q \in Int /\ capacity \in Int
    BY <1>1 DEF capacity
  <1>3. slot(c) = CASE c = Leader  -> [len |-> 1, next |-> IF capacity = 0 THEN Trailer ELSE 0]
                    [] c = Trailer -> [len |-> 1, next |-> Leader]
                    [] OTHER       -> [len |-> end - c, next |-> IF end >= capacity THEN Trailer ELSE end]
    BY DEF slot
  <1>. HIDE DEF full, q
  <1>4. end \in Int
    BY <1>1, <1>2
  <1>. HIDE DEF end
  <1>5. Leader \in Int /\ Trailer \in Int /\ Leader # Trailer
    BY DEF Leader, Trailer
  <1>6. CASE c = Leader
    <2>1. slot(c) = [len |-> 1, next |-> IF capacity = 0 THEN Trailer ELSE 0]
      BY <1>3, <1>5, <1>6
    <2>. QED  BY <1>5, <2>1
  <1>7. CASE c = Trailer
    <2>1. slot(c) = [len |-> 1, next |-> Leader]
      BY <1>3, <1>5, <1>7
    <2>. QED  BY <1>5, <2>1
  <1>8. CASE c # Leader /\ c # Trailer
    <2>1. slot(c) = [len |-> end - c, next |-> IF end >= capacity THEN Trailer ELSE end]
      BY <1>3, <1>8
    <2>. QED  BY <1>4, <1>5, <2>1
  <1>. QED  BY <1>6, <1>7, <1>8

\* So is the cursor.
LEMMA CursorType ==
    ASSUME NEW s \in Stream
    PROVE  cursor(s) \in Int
  BY StreamFields DEF cursor, Leader, Trailer

\* A transfer is queued.
LEMMA FillKeeps ==
    ASSUME IInv, fill
    PROVE  IInv'
  <1>1. /\ TypeInv /\ u \in Stream /\ u.next \in Int /\ u.planned \in Seq(Plan) /\ pending \in Seq(Transfers)
        /\ at \in Steps /\ UNCHANGED <<dev, usb, faults, reader>> /\ Coming' = Coming
    BY DEF IInv, TypeInv, fill, Stream, Coming, Sending
  <1>2. CASE Len(pending) < InFlight
    <2>. DEFINE l == slot(u.next).len
                x == slot(u.next).next
                t == Transfer(l)
                plan == Append(u.planned, [at |-> u.next, len |-> l])
    <2>1. pending' = Append(pending, t) /\ u' = [u EXCEPT !.planned = Append(@, [at |-> u.next, len |-> l]), !.next = x] /\ at' = at
      BY <1>2 DEF fill
    <2>2. l \in Int /\ x \in Int
      BY <1>1, SlotType
    <2>. HIDE DEF l, x
    <2>3. t \in Transfers /\ t.data = <<>> /\ t.status = "open"
      BY <2>2 DEF Transfer, Transfers, Statuses
    <2>4. plan \in Seq(Plan)
      <3>1. [at |-> u.next, len |-> l] \in Plan
        BY <1>1, <2>2 DEF Plan
      <3>. QED  BY <1>1, <3>1
    <2>5. u' = [[u EXCEPT !.planned = plan] EXCEPT !.next = x]
      BY <1>1, <2>1 DEF Stream
    <2>. HIDE DEF t, plan
    <2>. DEFINE v == [u EXCEPT !.planned = plan]
    <2>6. v \in Stream /\ v.block = u.block /\ v.ready = u.ready
      BY <1>1, <2>4, PlannedSet
    <2>. HIDE DEF v
    <2>7. [v EXCEPT !.next = x] \in Stream /\ [v EXCEPT !.next = x].block = v.block /\ [v EXCEPT !.next = x].ready = v.ready
      BY <2>2, <2>6, NextSet
    <2>8. u' \in Stream /\ u'.block = u.block /\ u'.ready = u.ready
      BY <2>5, <2>6, <2>7 DEF v
    <2>. DEFINE n == Len(pending)
    <2>9. /\ pending' \in Seq(Transfers) /\ n \in Nat /\ Len(pending') = n + 1 /\ pending'[n + 1] = t
          /\ \A j \in 1..n : pending'[j] = pending[j]
          /\ \A j \in 1..Len(pending') : j \in 1..n \/ j = n + 1
      BY <1>1, <2>1, <2>3
    <2>10. BusInOrder(pending, Coming) /\ Spread(<<>>)
      BY DEF IInv, Spread
    <2>11. BusInOrder(pending', Coming)
      <3>1. ASSUME NEW j \in 1..Len(pending')
            PROVE  /\ Spread(pending'[j].data)
                   /\ \A k \in 1..Len(pending'[j].data) :
                         pending'[j].data[k][1] # 0 /\ Apart(pending'[j].data[k], Coming, 1)
        <4>1. CASE j \in 1..n
          BY <2>9, <2>10, <4>1 DEF BusInOrder
        <4>2. CASE j = n + 1
          BY <2>3, <2>9, <2>10, <4>2
        <4>. QED  BY <2>9, <4>1, <4>2
      <3>2. ASSUME NEW i \in 1..Len(pending'), NEW j \in 1..Len(pending'), i < j
            PROVE  /\ pending'[i].status = "open" => pending'[j].data = <<>>
                   /\ \A k \in 1..Len(pending'[i].data), m \in 1..Len(pending'[j].data) :
                         Apart(pending'[i].data[k], pending'[j].data[m], 1)
        <4>1. CASE j \in 1..n
          <5>1. i \in 1..n /\ pending'[i] = pending[i] /\ pending'[j] = pending[j]
            BY <2>9, <3>2, <4>1
          <5>. QED  BY <2>10, <3>2, <4>1, <5>1 DEF BusInOrder
        <4>2. CASE j = n + 1
          BY <2>3, <2>9, <4>2
        <4>. QED  BY <2>9, <4>1, <4>2
      <3>. QED  BY <3>1, <3>2 DEF BusInOrder
    <2>12. Ahead(pending', Coming) \subseteq Ahead(pending, Coming)
      <3>1. ASSUME NEW y, NEW j \in 1..Len(pending'), NEW k \in 1..Len(pending'[j].data), y = pending'[j].data[k]
            PROVE  y \in Ahead(pending, Coming)
        <4>1. CASE j \in 1..n
          BY <2>9, <3>1, <4>1, AheadIs
        <4>2. CASE j = n + 1
          BY <2>3, <2>9, <3>1, <4>2
        <4>. QED  BY <2>9, <4>1, <4>2
      <3>2. Coming \in Ahead(pending, Coming)
        BY AheadIs
      <3>. QED  BY <3>1, <3>2, AheadIs
    <2>13. StreamInv(u.block, u.ready, dev.lens, reader.last, Ahead(pending', Coming))
      BY <2>12, StreamSubset DEF IInv
    <2>14. TypeInv'
      BY <1>1, <2>1, <2>8, <2>9 DEF TypeInv
    <2>. QED  BY <1>1, <2>8, <2>11, <2>13, <2>14 DEF IInv
  <1>3. CASE ~(Len(pending) < InFlight)
    <2>1. at' = "wait" /\ UNCHANGED <<u, pending>>
      BY <1>3 DEF fill
    <2>2. TypeInv'
      BY <1>1, <2>1 DEF TypeInv, Steps
    <2>. QED  BY <1>1, <2>1, <2>2 DEF IInv
  <1>. QED  BY <1>2, <1>3

\* The stream changes, the rest stays.
LEMMA StreamMoves ==
    ASSUME IInv, UNCHANGED <<pending, dev, usb, reader>>, at' \in Steps, faults' \in Nat, u' \in Stream,
           StreamInv(u'.block, u'.ready, dev.lens, reader.last, Ahead(pending, Coming))
    PROVE  IInv'
  <1>1. Coming' = Coming
    BY DEF Coming, Sending
  <1>2. TypeInv'
    BY DEF IInv, TypeInv
  <1>. QED  BY <1>1, <1>2 DEF IInv

\* Nothing completed in time.
LEMMA IdleOutKeeps ==
    ASSUME IInv, NEW stalled \in BOOLEAN, IdleOut(stalled)
    PROVE  IInv'
  <1>1. TypeInv /\ u \in Stream /\ faults \in Nat /\ reader.last \in Nat /\ dev.lens \in Seq(Nat)
        /\ StreamInv(u.block, u.ready, dev.lens, reader.last, Ahead(pending, Coming))
    BY DevType DEF IInv, TypeInv
  <1>2. UNCHANGED <<pending, dev, usb, reader>> /\ at' \in Steps
    BY DEF IdleOut, Steps
  <1>3. faults' \in Nat
    <2>1. CASE stalled
      BY <1>1, <2>1, FaultType DEF IdleOut
    <2>2. CASE ~stalled
      BY <1>1, <2>2 DEF IdleOut
    <2>. QED  BY <2>1, <2>2
  <1>4. u' = u \/ u' = abandon(u)
    BY DEF IdleOut
  <1>5. u' \in Stream /\ StreamInv(u'.block, u'.ready, dev.lens, reader.last, Ahead(pending, Coming))
    BY <1>1, <1>4, AbandonKeeps
  <1>. QED  BY <1>2, <1>3, <1>5, StreamMoves

\* The oldest transfer comes back, and the others may be cancelled.
LEMMA HeadTaken ==
    ASSUME IInv, pending # <<>>, UNCHANGED <<dev, usb, faults, reader>>, at' \in Steps, u' \in Stream,
           pending' \in {Tail(pending), cancel_all(Tail(pending))},
           StreamInv(u'.block, u'.ready, dev.lens, reader.last, Ahead(Tail(pending), Coming))
    PROVE  IInv'
  <1>. DEFINE ts == Tail(pending)
  <1>1. TypeInv /\ pending \in Seq(Transfers) /\ Coming \in Packet /\ BusInOrder(pending, Coming) /\ Coming' = Coming
    BY DevType DEF IInv, TypeInv, Coming, Sending
  <1>2. ts \in Seq(Transfers) /\ BusInOrder(ts, Coming)
    BY <1>1, BusTail
  <1>. HIDE DEF ts
  <1>3. cancel_all(ts) = EndOpen(ts, "cancelled") /\ "cancelled" \in Statuses \ {"open"}
    BY DEF cancel_all, EndOpen, Statuses
  <1>4. pending' = ts \/ pending' = EndOpen(ts, "cancelled")
    BY <1>3 DEF ts
  <1>5. pending' \in Seq(Transfers) /\ Len(pending') = Len(ts)
        /\ \A j \in 1..Len(ts) : pending'[j].data = ts[j].data /\ (pending'[j].status = "open" => ts[j].status = "open")
    BY <1>2, <1>3, <1>4, EndOpenIs
  <1>6. BusInOrder(pending', Coming) /\ Ahead(pending', Coming) = Ahead(ts, Coming)
    BY <1>2, <1>5, BusEnds
  <1>7. TypeInv'
    BY <1>1, <1>5 DEF TypeInv
  <1>. QED  BY <1>1, <1>6, <1>7 DEF IInv, ts

\* What is taken from the head of the queue keeps the stream in order.
LEMMA HeadIs ==
    ASSUME IInv, pending # <<>>
    PROVE  /\ Unplanned \in Stream
           /\ StreamInv(Unplanned.block, Unplanned.ready, dev.lens, reader.last, Ahead(Tail(pending), Coming))
           /\ LET s == absorb(Unplanned, Head(pending).data, Requested)
              IN  s \in Stream /\ StreamInv(s.block, s.ready, dev.lens, reader.last, Ahead(Tail(pending), Coming))
  <1>. DEFINE X == Ahead(pending, Coming)
              Y == Ahead(Tail(pending), Coming)
              t == Head(pending)
              plan == IF u.planned = <<>> THEN u.planned ELSE Tail(u.planned)
              w == Unplanned
  <1>1. /\ TypeInv /\ pending \in Seq(Transfers) /\ Coming \in Packet /\ BusInOrder(pending, Coming)
        /\ u \in Stream /\ u.planned \in Seq(Plan) /\ reader.last \in Nat /\ dev.lens \in Seq(Nat)
        /\ Coming[1] = Len(dev.lens) /\ StreamInv(u.block, u.ready, dev.lens, reader.last, X)
    <2>1. TypeInv /\ BusInOrder(pending, Coming) /\ StreamInv(u.block, u.ready, dev.lens, reader.last, X)
      BY DEF IInv
    <2>2. pending \in Seq(Transfers) /\ u \in Stream /\ reader.last \in Nat
      BY <2>1 DEF TypeInv
    <2>. QED  BY <2>1, <2>2, DevType, StreamFields DEF Sending
  <1>2. X \in SUBSET Packet
    BY <1>1, AheadPackets
  <1>3. /\ Y \in SUBSET X /\ t \in Transfers /\ Spread(t.data)
        /\ \A k \in 1..Len(t.data) : /\ t.data[k] \in X /\ t.data[k][1] # 0
                                     /\ \A y \in Y : Apart(t.data[k], y, 1)
    BY <1>1, BusTail
  <1>4. t.data \in Seq(Packet)
    BY <1>3 DEF Transfers
  <1>5. Coming \in Y
    BY AheadIs
  <1>. HIDE DEF X, Y, t
  <1>6. ASSUME NEW k \in 1..Len(t.data) PROVE t.data[k][1] \in 1..Len(dev.lens)
    <2>1. t.data[k] \in Packet /\ t.data[k][1] # 0 /\ Apart(t.data[k], Coming, 1)
      BY <1>3, <1>4, <1>5
    <2>2. Len(dev.lens) \in Nat
      BY <1>1
    <2>. QED  BY <1>1, <2>1, <2>2 DEF Packet, Apart
  <1>7. plan \in Seq(Plan) /\ w = [u EXCEPT !.planned = plan]
    BY <1>1 DEF Unplanned, Stream
  <1>. HIDE DEF plan
  <1>8. w \in Stream /\ w.block = u.block /\ w.ready = u.ready
    <2>. HIDE DEF w
    <2>. QED  BY <1>1, <1>7, PlannedSet
  <1>9. Requested \in Int
    <2>1. CASE u.planned = <<>>
      BY <1>4, <2>1 DEF Requested, t
    <2>2. CASE u.planned # <<>>
      <3>1. Head(u.planned) \in Plan
        BY <1>1, <2>2
      <3>2. Head(u.planned).len \in Int
        BY <3>1 DEF Plan
      <3>. QED  BY <2>2, <3>2 DEF Requested
    <2>. QED  BY <2>1, <2>2
  <1>10. StreamInv(w.block, w.ready, dev.lens, reader.last, X)
    BY <1>1, <1>8
  <1>11. StreamInv(w.block, w.ready, dev.lens, reader.last, Y)
    BY <1>3, <1>10, StreamSubset
  <1>. DEFINE r == absorb(w, t.data, Requested)
  <1>12. r \in Stream /\ StreamInv(r.block, r.ready, dev.lens, reader.last, Y)
    <2>. HIDE DEF w
    <2>. QED  BY <1>1, <1>2, <1>3, <1>4, <1>6, <1>8, <1>9, <1>10, AbsorbKeeps
  <1>. QED  BY <1>8, <1>11, <1>12 DEF Y, t

\* recover gives the block up.
LEMMA RecoveringIs ==
    ASSUME NEW s \in Stream, NEW last \in Nat, dev.lens \in Seq(Nat), NEW Y,
           StreamInv(s.block, s.ready, dev.lens, last, Y), Recovering(s)
    PROVE  /\ u' \in Stream /\ StreamInv(u'.block, u'.ready, dev.lens, last, Y)
           /\ at' \in Steps /\ pending' = cancel_all(Tail(pending))
  <1>. DEFINE a == abandon(s)
              e == a.errors + 1
              k == a.failures + 1
              b == [a EXCEPT !.errors = e]
              failed == [a EXCEPT !.errors = @ + 1, !.failures = @ + 1]
  <1>1. a \in Stream /\ StreamInv(a.block, a.ready, dev.lens, last, Y)
    BY AbandonKeeps
  <1>2. e \in Nat /\ k \in Nat
    BY <1>1, StreamFields
  <1>3. at' \in Steps /\ pending' = cancel_all(Tail(pending)) /\ u' \in {s, failed}
    BY DEF Recovering, Steps
  <1>. HIDE DEF a
  <1>4. failed = [b EXCEPT !.failures = k]
    BY <1>1 DEF Stream
  <1>. HIDE DEF e, k, failed
  <1>5. b \in Stream /\ b.block = a.block /\ b.ready = a.ready
    BY <1>1, <1>2, ErrorsSet
  <1>. HIDE DEF b
  <1>6. [b EXCEPT !.failures = k] \in Stream /\ [b EXCEPT !.failures = k].block = b.block
        /\ [b EXCEPT !.failures = k].ready = b.ready
    BY <1>2, <1>5, FailuresSet
  <1>7. failed \in Stream /\ failed.block = a.block /\ failed.ready = a.ready
    BY <1>4, <1>5, <1>6
  <1>. QED  BY <1>1, <1>3, <1>7

\* A transfer completed.
LEMMA WaitNextKeeps ==
    ASSUME IInv, WaitNext
    PROVE  IInv'
  <1>. DEFINE Y == Ahead(Tail(pending), Coming)
              t == Head(pending)
              w == Unplanned
              r == absorb(w, t.data, Requested)
              Fits(s) == s \in Stream /\ StreamInv(s.block, s.ready, dev.lens, reader.last, Y)
  <1>1. pending # <<>> /\ t.status # "open" /\ UNCHANGED <<dev, usb, faults, reader>>
    BY DEF WaitNext, Completed
  <1>2. Fits(w) /\ Fits(r)
    BY <1>1, HeadIs
  <1>3. reader.last \in Nat /\ dev.lens \in Seq(Nat) /\ t.status \in Statuses
    <2>1. TypeInv /\ pending \in Seq(Transfers)
      BY DEF IInv, TypeInv
    <2>2. t \in Transfers
      BY <1>1, <2>1
    <2>. QED  BY <2>1, <2>2, DevType DEF TypeInv, Transfers
  <1>4. CASE t.status = "ok"
    <2>1. Onward(r)
      BY <1>4 DEF WaitNext
    <2>. HIDE DEF r, t, w
    <2>2. at' \in Steps /\ pending' \in {Tail(pending), cancel_all(Tail(pending))}
          /\ u' \in {r, [r EXCEPT !.next = cursor(r)]}
      BY <2>1 DEF Onward, Steps
    <2>. DEFINE c == cursor(r)
    <2>3. c \in Int
      BY <1>2, CursorType
    <2>. HIDE DEF c
    <2>4. [r EXCEPT !.next = c] \in Stream /\ [r EXCEPT !.next = c].block = r.block /\ [r EXCEPT !.next = c].ready = r.ready
      BY <1>2, <2>3, NextSet
    <2>5. Fits(u')
      BY <1>2, <2>2, <2>4 DEF c
    <2>. QED  BY <1>1, <2>2, <2>5, HeadTaken
  <1>5. CASE t.status = "cancelled"
    <2>1. Recovering(r)
      BY <1>5 DEF WaitNext
    <2>. HIDE DEF r, t, w
    <2>2. Fits(u') /\ at' \in Steps /\ pending' = cancel_all(Tail(pending))
      BY <1>2, <1>3, <2>1, RecoveringIs
    <2>. QED  BY <1>1, <2>2, HeadTaken
  <1>6. CASE t.status = "failed"
    <2>1. Recovering(w)
      BY <1>6 DEF WaitNext
    <2>. HIDE DEF r, t, w
    <2>2. Fits(u') /\ at' \in Steps /\ pending' = cancel_all(Tail(pending))
      BY <1>2, <1>3, <2>1, RecoveringIs
    <2>. QED  BY <1>1, <2>2, HeadTaken
  <1>7. CASE t.status = "gone"
    <2>1. u' = w /\ at' = "ended" /\ pending' = Tail(pending)
      BY <1>7 DEF WaitNext
    <2>. HIDE DEF r, t, w
    <2>2. Fits(u') /\ at' \in Steps
      BY <1>2, <2>1 DEF Steps
    <2>. QED  BY <1>1, <2>1, <2>2, HeadTaken
  <1>. QED  BY <1>1, <1>3, <1>4, <1>5, <1>6, <1>7 DEF Statuses

\* A transfer comes back while replanning.
LEMMA ReplanDrainKeeps ==
    ASSUME IInv, ReplanDrain
    PROVE  IInv'
  <1>. DEFINE Y == Ahead(Tail(pending), Coming)
              t == Head(pending)
              w == Unplanned
              r == absorb(w, t.data, Requested)
              Fits(s) == s \in Stream /\ StreamInv(s.block, s.ready, dev.lens, reader.last, Y)
  <1>1. pending # <<>> /\ at \in Steps /\ UNCHANGED <<dev, usb, faults, reader>>
    BY DEF ReplanDrain, Steps
  <1>2. Fits(w) /\ Fits(r)
    BY <1>1, HeadIs
  <1>3. reader.last \in Nat /\ dev.lens \in Seq(Nat)
    BY DevType DEF IInv, TypeInv
  <1>4. CASE t.status = "failed"
    <2>1. Recovering(w)
      BY <1>4 DEF ReplanDrain
    <2>. HIDE DEF r, t, w
    <2>2. Fits(u') /\ at' \in Steps /\ pending' = cancel_all(Tail(pending))
      BY <1>2, <1>3, <2>1, RecoveringIs
    <2>. QED  BY <1>1, <2>2, HeadTaken
  <1>5. CASE t.status = "gone"
    <2>1. u' = w /\ at' = "ended" /\ pending' = Tail(pending)
      BY <1>5 DEF ReplanDrain
    <2>. HIDE DEF r, t, w
    <2>2. Fits(u') /\ at' \in Steps
      BY <1>2, <2>1 DEF Steps
    <2>. QED  BY <1>1, <2>1, <2>2, HeadTaken
  <1>6. CASE t.status \notin {"failed", "gone"}
    <2>1. u' \in {w, r} /\ at' = at /\ pending' = Tail(pending)
      BY <1>6 DEF ReplanDrain
    <2>. HIDE DEF r, t, w
    <2>2. Fits(u') /\ at' \in Steps
      BY <1>1, <1>2, <2>1
    <2>. QED  BY <1>1, <2>1, <2>2, HeadTaken
  <1>. QED  BY <1>4, <1>5, <1>6

\* The plan is dropped, and begins again at c.
LEMMA PlanDropped ==
    ASSUME NEW s \in Stream, NEW c \in Int
    PROVE  LET r == [s EXCEPT !.planned = <<>>, !.next = c]
           IN  r \in Stream /\ r.block = s.block /\ r.ready = s.ready
  <1>. DEFINE p == [s EXCEPT !.planned = <<>>]
  <1>1. <<>> \in Seq(Plan)
    OBVIOUS
  <1>2. p \in Stream /\ p.block = s.block /\ p.ready = s.ready
    BY <1>1, PlannedSet
  <1>3. [s EXCEPT !.planned = <<>>, !.next = c] = [p EXCEPT !.next = c]
    BY DEF Stream
  <1>. HIDE DEF p
  <1>4. [p EXCEPT !.next = c] \in Stream /\ [p EXCEPT !.next = c].block = p.block /\ [p EXCEPT !.next = c].ready = p.ready
    BY <1>2, NextSet
  <1>. QED  BY <1>2, <1>3, <1>4

\* Replanning is over.
LEMMA ReplanDoneKeeps ==
    ASSUME IInv, NEW late \in BOOLEAN, ReplanDone(late)
    PROVE  IInv'
  <1>1. TypeInv /\ u \in Stream /\ faults \in Nat
        /\ StreamInv(u.block, u.ready, dev.lens, reader.last, Ahead(pending, Coming))
    BY DEF IInv, TypeInv
  <1>. DEFINE c == cursor(u)
  <1>2. u' = [u EXCEPT !.planned = <<>>, !.next = c] /\ at' \in Steps /\ UNCHANGED <<pending, dev, usb, reader>>
    BY DEF ReplanDone, Steps
  <1>3. faults' \in Nat
    BY <1>1, FaultType DEF ReplanDone
  <1>4. c \in Int
    BY <1>1, CursorType
  <1>. HIDE DEF c
  <1>5. u' \in Stream /\ u'.block = u.block /\ u'.ready = u.ready
    BY <1>1, <1>2, <1>4, PlanDropped
  <1>. QED  BY <1>1, <1>2, <1>3, <1>5, StreamMoves

\* A transfer comes back while recovering.
LEMMA RecoverDrainKeeps ==
    ASSUME IInv, RecoverDrain
    PROVE  IInv'
  <1>1. pending # <<>> /\ at' \in Steps /\ pending' = Tail(pending) /\ UNCHANGED <<u, dev, usb, faults, reader>>
    BY DEF RecoverDrain, Steps
  <1>2. TypeInv /\ u \in Stream /\ pending \in Seq(Transfers) /\ Coming \in Packet /\ BusInOrder(pending, Coming)
        /\ StreamInv(u.block, u.ready, dev.lens, reader.last, Ahead(pending, Coming))
    BY DevType DEF IInv, TypeInv
  <1>3. StreamInv(u.block, u.ready, dev.lens, reader.last, Ahead(Tail(pending), Coming))
    BY <1>1, <1>2, BusTail, StreamSubset
  <1>. QED  BY <1>1, <1>2, <1>3, HeadTaken

\* The endpoint is reset.
LEMMA ResetKeeps ==
    ASSUME IInv, NEW i \in Nat, NEW late \in BOOLEAN, Reset(i, late)
    PROVE  IInv'
  <1>1. /\ TypeInv /\ u \in Stream /\ faults \in Nat /\ dev \in [lens : Seq(Nat), i : Nat]
        /\ StreamInv(u.block, u.ready, dev.lens, reader.last, Ahead(pending, Coming))
    BY DEF IInv, TypeInv
  <1>2. UNCHANGED <<pending, usb, reader>>
    BY DEF Reset
  <1>3. faults' \in Nat
    BY <1>1, FaultType DEF Reset
  <1>4. CASE ~usb.present
    <2>1. at' \in Steps /\ UNCHANGED <<u, dev>>
      BY <1>4 DEF Reset, Steps
    <2>. QED  BY <1>1, <1>2, <1>3, <2>1, StreamMoves
  <1>5. CASE usb.present
    <2>1. /\ u' = [u EXCEPT !.planned = <<>>, !.next = Leader] /\ at' \in Steps /\ dev' = [dev EXCEPT !.i = i]
          /\ i \in IF Idle THEN {dev.i} ELSE dev.i..(Len_(Sending) + 2)
      BY <1>5 DEF Reset, Steps
    <2>2. dev.i \in Nat /\ i >= dev.i
      <3>1. dev.i \in Nat
        BY <1>1
      <3>2. CASE Idle
        BY <2>1, <3>1, <3>2
      <3>3. CASE ~Idle
        BY <2>1, <3>1, <3>3
      <3>. QED  BY <3>1, <3>2, <3>3
    <2>3. Leader \in Int
      BY DEF Leader
    <2>4. u' \in Stream /\ u'.block = u.block /\ u'.ready = u.ready
      BY <1>1, <2>1, <2>3, PlanDropped
    <2>5. dev' \in [lens : Seq(Nat), i : Nat] /\ dev'.lens = dev.lens /\ dev'.i = i
      BY <1>1, <2>1
    <2>6. TypeInv'
      BY <1>1, <1>2, <1>3, <2>1, <2>4, <2>5 DEF TypeInv
    <2>7. Coming = <<Len(dev.lens), dev.i>> /\ Coming' = <<Len(dev.lens), i>> /\ Len(dev.lens) \in Nat
      BY <1>1, <2>5 DEF Coming, Sending
    <2>8. Apart(Coming, Coming', 0)
      BY <2>2, <2>7 DEF Apart
    <2>. QED  BY <1>1, <1>2, <2>4, <2>5, <2>6, <2>8, DeviceMoves
  <1>. QED  BY <1>4, <1>5

\* A gap is counted, and the frame after it.
LEMMA TallyTakes ==
    ASSUME NEW n \in Nat, NEW last \in Nat, NEW first \in Nat, NEW missed \in Nat, NEW id \in Nat,
           Tallied(n, last, first, missed), last < id
    PROVE  LET m == missed + MissedBetween(last, id)
               g == IF first = 0 THEN id ELSE first
           IN  m \in Nat /\ g \in Nat /\ Tallied(n + 1, id, g, m)
  <1>1. CASE last = 0
    BY <1>1 DEF Tallied, MissedBetween
  <1>2. CASE last # 0
    <2>1. MissedBetween(last, id) = id - last - 1
      BY <1>2 DEF MissedBetween
    <2>2. first # 0 /\ n + missed = last - first + 1
      BY <1>2 DEF Tallied
    <2>. QED  BY <2>1, <2>2 DEF Tallied
  <1>. QED  BY <1>1, <1>2

\* One frame more is delivered.
LEMMA OutTakes ==
    ASSUME NEW out \in Seq(Delivered), NEW last \in Nat, NEW lens \in Seq(Nat), OutInOrder(out, last, lens),
           NEW d \in Delivered, last < d.id, d.id \in 1..Len(lens),
           d.status = "Complete" => d.payload = Whole(lens, d.id)
    PROVE  OutInOrder(Append(out, d), d.id, lens)
  <1>. DEFINE os == Append(out, d)
              n == Len(out)
  <1>1. /\ n \in Nat /\ Len(os) = n + 1 /\ os[n + 1] = d /\ \A k \in 1..n : os[k] = out[k]
    OBVIOUS
  <1>. HIDE DEF os
  <1>2. \A k \in 1..Len(os) : k \in 1..n \/ k = n + 1
    BY <1>1
  <1>3. \A k \in 1..n : out[k].id < d.id /\ out[k].id \in 1..Len(lens)
    <2>1. ASSUME NEW k \in 1..n PROVE out[k].id < d.id /\ out[k].id \in 1..Len(lens)
      <3>1. out[k].id <= last /\ out[k].id \in 1..Len(lens)
        BY DEF OutInOrder
      <3>. QED  BY <3>1
    <2>. QED  BY <2>1
  <1>4. \A k \in 1..Len(os) : os[k].id <= d.id /\ os[k].id \in 1..Len(lens)
    <2>1. ASSUME NEW k \in 1..n PROVE os[k].id <= d.id /\ os[k].id \in 1..Len(lens)
      <3>1. os[k] = out[k] /\ out[k].id < d.id /\ out[k].id \in 1..Len(lens)
        BY <1>1, <1>3
      <3>2. out[k].id <= d.id
        BY <3>1
      <3>. QED  BY <3>1, <3>2
    <2>2. os[n + 1].id <= d.id /\ os[n + 1].id \in 1..Len(lens)
      BY <1>1
    <2>. QED  BY <1>2, <2>1, <2>2
  <1>5. ASSUME NEW j \in 1..Len(os), NEW k \in 1..Len(os), j < k PROVE os[j].id < os[k].id
    <2>1. j \in 1..n
      BY <1>1, <1>5
    <2>2. CASE k \in 1..n
      <3>1. out[j].id < out[k].id
        BY <1>5, <2>1, <2>2 DEF OutInOrder
      <3>. QED  BY <1>1, <2>1, <2>2, <3>1
    <2>3. CASE k = n + 1
      BY <1>1, <1>3, <2>1, <2>3
    <2>. QED  BY <1>2, <2>2, <2>3
  <1>6. ASSUME NEW k \in 1..Len(os), os[k].status = "Complete" PROVE os[k].payload = Whole(lens, os[k].id)
    <2>1. CASE k \in 1..n
      BY <1>1, <1>6, <2>1 DEF OutInOrder
    <2>2. CASE k = n + 1
      BY <1>1, <1>6, <2>2
    <2>. QED  BY <1>2, <2>1, <2>2
  <1>7. OutInOrder(os, d.id, lens)
    BY <1>4, <1>5, <1>6 DEF OutInOrder
  <1>. QED  BY <1>7 DEF os

\* What the frame is delivered as.
LEMMA FrameStatus ==
    ASSUME NEW f \in Frame, NEW lens, Truthful(f, lens)
    PROVE  LET d == [id |-> f.id, payload |-> f.payload, status |-> Status(f)]
           IN  /\ d \in Delivered /\ d.id = f.id /\ f.id \in Nat /\ f.id \in 1..Len(lens)
               /\ d.status = "Complete" => d.payload = Whole(lens, d.id)
  <1>1. f.id \in Nat /\ f.payload \in Seq(Packet) /\ f.valid \in Int
    BY DEF Frame
  <1>2. Status(f) \in {"TrailerMissing", "Incomplete", "Complete"}
    BY DEF Status
  <1>3. ASSUME Status(f) = "Complete" PROVE f.payload = Whole(lens, f.id)
    <2>1. f.valid # -1 /\ ~(Len(f.payload) < f.valid)
      BY <1>3 DEF Status
    <2>2. Len(f.payload) >= f.valid
      BY <1>1, <2>1
    <2>. QED  BY <2>1, <2>2 DEF Truthful
  <1>4. f.id \in 1..Len(lens)
    BY DEF Truthful
  <1>. DEFINE d == [id |-> f.id, payload |-> f.payload, status |-> Status(f)]
  <1>5. d \in Delivered /\ d.id = f.id /\ d.payload = f.payload /\ d.status = Status(f)
    BY <1>1, <1>2 DEF Delivered
  <1>. HIDE DEF d
  <1>6. d.status = "Complete" => d.payload = Whole(lens, d.id)
    BY <1>3, <1>5
  <1>. QED  BY <1>1, <1>4, <1>5, <1>6 DEF d

\* The reader thread takes a frame.
LEMMA ReadLoopKeeps ==
    ASSUME IInv, ReadLoop
    PROVE  IInv'
  <1>. DEFINE f == Head(u.ready)
              rs == Tail(u.ready)
              Y == Ahead(pending, Coming)
              Readers == [last : Nat, first : Nat, missed : Nat, out : Seq(Delivered)]
  <1>1. /\ TypeInv /\ u \in Stream /\ reader \in Readers /\ ReaderInv(reader, dev.lens) /\ dev.lens \in Seq(Nat)
        /\ StreamInv(u.block, u.ready, dev.lens, reader.last, Y) /\ u.ready \in Seq(Frame) /\ u.block \in Block
    BY DevType, StreamFields DEF IInv, TypeInv
  <1>2. /\ u.ready # <<>> /\ u' = [u EXCEPT !.ready = Tail(@)] /\ UNCHANGED <<at, pending, dev, usb, faults>>
        /\ reader' = [last |-> f.id, first |-> IF reader.first = 0 THEN f.id ELSE reader.first,
                      missed |-> reader.missed + MissedBetween(reader.last, f.id),
                      out |-> Append(reader.out, [id |-> f.id, payload |-> f.payload, status |-> Status(f)])]
    BY DEF ReadLoop
  <1>3. /\ f \in Frame /\ f = u.ready[1] /\ 1 \in 1..Len(u.ready) /\ rs \in Seq(Frame)
        /\ Len(rs) \in Nat /\ Len(u.ready) = Len(rs) + 1
        /\ \A i \in 1..Len(rs) : rs[i] = u.ready[i + 1] /\ i + 1 \in 1..Len(u.ready) /\ 1 < i + 1
    <2>. DEFINE ready == u.ready
    <2>1. ready \in Seq(Frame) /\ ready # <<>>
      BY <1>1, <1>2
    <2>. HIDE DEF ready
    <2>2. /\ Head(ready) \in Frame /\ Head(ready) = ready[1] /\ 1 \in 1..Len(ready) /\ Tail(ready) \in Seq(Frame)
          /\ Len(Tail(ready)) \in Nat /\ Len(ready) = Len(Tail(ready)) + 1
      BY <2>1
    <2>3. \A i \in 1..Len(Tail(ready)) : Tail(ready)[i] = ready[i + 1] /\ i + 1 \in 1..Len(ready) /\ 1 < i + 1
      BY <2>1, <2>2
    <2>. QED  BY <2>2, <2>3 DEF ready
  <1>. HIDE DEF f, rs, Y
  <1>4. Truthful(f, dev.lens) /\ reader.last < f.id
    BY <1>1, <1>3 DEF StreamInv, ReadyInOrder
  <1>5. reader' \in Readers /\ ReaderInv(reader', dev.lens) /\ reader'.last = f.id
    <2>. DEFINE d == [id |-> f.id, payload |-> f.payload, status |-> Status(f)]
                out == Append(reader.out, d)
                n == Len(reader.out)
                m == reader.missed + MissedBetween(reader.last, f.id)
                g == IF reader.first = 0 THEN f.id ELSE reader.first
    <2>1. reader' = [last |-> f.id, first |-> g, missed |-> m, out |-> out]
      BY <1>2
    <2>2. d \in Delivered /\ d.id = f.id /\ f.id \in Nat /\ f.id \in 1..Len(dev.lens)
          /\ (d.status = "Complete" => d.payload = Whole(dev.lens, d.id))
      BY <1>3, <1>4, FrameStatus
    <2>3. reader.out \in Seq(Delivered) /\ reader.last \in Nat /\ reader.first \in Nat /\ reader.missed \in Nat
          /\ n \in Nat
      BY <1>1
    <2>4. OutInOrder(reader.out, reader.last, dev.lens) /\ Tallied(n, reader.last, reader.first, reader.missed)
      BY <1>1 DEF ReaderInv
    <2>5. m \in Nat /\ g \in Nat /\ Tallied(n + 1, f.id, g, m)
      BY <1>4, <2>2, <2>3, <2>4, TallyTakes
    <2>. HIDE DEF d, m, g
    <2>6. out \in Seq(Delivered) /\ Len(out) = n + 1
      BY <2>2, <2>3
    <2>7. OutInOrder(out, f.id, dev.lens)
      BY <1>1, <1>4, <2>2, <2>3, <2>4, OutTakes
    <2>. HIDE DEF out, n
    <2>8. reader' \in Readers /\ reader'.last = f.id /\ reader'.first = g /\ reader'.missed = m /\ reader'.out = out
      BY <2>1, <2>2, <2>5, <2>6
    <2>. QED  BY <2>5, <2>6, <2>7, <2>8 DEF ReaderInv
  <1>6. u' \in Stream /\ u'.block = u.block /\ u'.ready = rs
    <2>1. u' = [u EXCEPT !.ready = rs]
      BY <1>1, <1>2 DEF rs, Stream
    <2>. QED  BY <1>1, <1>3, <2>1 DEF Stream
  <1>7. ReadyInOrder(u.block, u.ready, reader.last, Y)
    BY <1>1 DEF StreamInv
  <1>8. ReadyInOrder(u.block, rs, f.id, Y)
    <2>1. ASSUME NEW i \in 1..Len(rs), NEW j \in 1..Len(rs), i < j PROVE rs[i].id < rs[j].id
      <3>. DEFINE h == i + 1
                  l == j + 1
      <3>1. h \in 1..Len(u.ready) /\ l \in 1..Len(u.ready) /\ h < l /\ rs[i] = u.ready[h] /\ rs[j] = u.ready[l]
        BY <1>3, <2>1
      <3>. HIDE DEF h, l
      <3>. QED  BY <1>7, <3>1 DEF ReadyInOrder
    <2>2. ASSUME NEW i \in 1..Len(rs)
          PROVE  /\ f.id < rs[i].id
                 /\ u.block.id # 0 => rs[i].id < u.block.id
                 /\ \A y \in Y : Led(rs[i].id, y)
      <3>. DEFINE h == i + 1
      <3>1. h \in 1..Len(u.ready) /\ 1 < h /\ rs[i] = u.ready[h]
        BY <1>3
      <3>. HIDE DEF h
      <3>. QED  BY <1>3, <1>7, <3>1 DEF ReadyInOrder
    <2>3. (u.block.id # 0 => f.id < u.block.id) /\ \A y \in Y : Led(f.id, y)
      BY <1>3, <1>7 DEF ReadyInOrder
    <2>. QED  BY <2>1, <2>2, <2>3 DEF ReadyInOrder
  <1>9. \A i \in 1..Len(rs) : Truthful(rs[i], dev.lens)
    BY <1>1, <1>3 DEF StreamInv
  <1>10. StreamInv(u.block, rs, dev.lens, f.id, Y)
    BY <1>1, <1>8, <1>9 DEF StreamInv
  <1>11. TypeInv' /\ Coming' = Coming
    BY <1>1, <1>2, <1>5, <1>6 DEF TypeInv, Coming, Sending
  <1>12. BusInOrder(pending, Coming)
    BY DEF IInv
  <1>. QED  BY <1>2, <1>5, <1>6, <1>10, <1>11, <1>12 DEF IInv, Y

-----------------------------------------------------------------------------
(* The theorems. *)

\* Every step keeps the invariant.
LEMMA NextKeeps ==
    ASSUME IInv, [Next]_vars
    PROVE  IInv'
  <1>1. CASE UNCHANGED vars
    <2>1. UNCHANGED <<u, at, pending, dev, usb, faults, reader>>
      BY <1>1 DEF vars
    <2>. QED  BY <2>1 DEF IInv, TypeInv, Coming, Sending
  <1>2. CASE fill
    BY <1>2, FillKeeps
  <1>3. CASE WaitNext
    BY <1>3, WaitNextKeeps
  <1>4. CASE ReplanDrain
    BY <1>4, ReplanDrainKeeps
  <1>5. CASE RecoverDrain
    BY <1>5, RecoverDrainKeeps
  <1>6. CASE ReadLoop
    BY <1>6, ReadLoopKeeps
  <1>7. ASSUME NEW stalled \in BOOLEAN, IdleOut(stalled) PROVE IInv'
    BY <1>7, IdleOutKeeps
  <1>8. ASSUME NEW late \in BOOLEAN, ReplanDone(late) PROVE IInv'
    BY <1>8, ReplanDoneKeeps
  <1>9. ASSUME NEW i \in 0..(Max(Lengths) + 2), NEW late \in BOOLEAN, Reset(i, late) PROVE IInv'
    <2>1. i \in Nat
      OBVIOUS
    <2>. QED  BY <1>9, <2>1, ResetKeeps
  <1>10. ASSUME NEW len \in Lengths, BeginBlock(len) PROVE IInv'
    BY <1>10, BeginBlockKeeps
  <1>11. CASE Transmit
    BY <1>11, TransmitKeeps
  <1>12. CASE Delist
    BY <1>12, DelistKeeps
  <1>13. ASSUME NEW status \in {"failed", "cancelled"}, TransferFails(status) PROVE IInv'
    BY <1>13, TransferFailsKeeps
  <1>14. ASSUME NEW status \in {"failed", "gone"}, Unplug(status) PROVE IInv'
    BY <1>14, UnplugKeeps
  <1>. QED
    BY <1>1, <1>2, <1>3, <1>4, <1>5, <1>6, <1>7, <1>8, <1>9, <1>10, <1>11, <1>12, <1>13, <1>14
    DEF Next, Host, Device

\* The invariant holds of every behaviour: transfers, the open block, the frames that wait
\* and the frames delivered are in the order in which the device sent.
THEOREM Inductive == Spec => []IInv
  <1>1. Init => IInv
    BY InitInv
  <1>2. IInv /\ [Next]_vars => IInv'
    BY NextKeeps
  <1>. QED  BY <1>1, <1>2, PTL DEF Spec

\* However transfers are cancelled, replanned, reset or fail, and whatever the layout:
\* a frame that next_frame_within completes is the payload of one block, whole and in
\* order.
THEOREM CompleteIsWhole == Spec => []CompleteIsOneBlock
  <1>1. IInv => CompleteIsOneBlock
    <2>. SUFFICES ASSUME IInv, NEW k \in DOMAIN Out, Out[k].status = "Complete"
                  PROVE  Out[k].payload = [i \in 1..Len_(Out[k].id) |-> <<Out[k].id, i>>]
      BY DEF CompleteIsOneBlock
    <2>1. reader.out \in Seq(Delivered) /\ ReaderInv(reader, dev.lens)
      BY DEF IInv, TypeInv
    <2>2. k \in 1..Len(reader.out)
      BY <2>1 DEF Out
    <2>. QED  BY <2>1, <2>2 DEF ReaderInv, OutInOrder, Out, Whole, Len_
  <1>. QED  BY <1>1, Inductive, PTL

\* The reader thread delivers blocks in the device's order, and those it delivered and
\* those it counted as missed add up to what was sent from the first to the newest.
THEOREM EveryBlockCounted == Spec => []DeliveredOrMissed
  <1>1. IInv => DeliveredOrMissed
    <2>. SUFFICES ASSUME IInv PROVE DeliveredOrMissed
      OBVIOUS
    <2>1. reader.out \in Seq(Delivered) /\ ReaderInv(reader, dev.lens)
      BY DEF IInv, TypeInv
    <2>2. \A j, k \in DOMAIN Out : j < k => Out[j].id < Out[k].id
      BY <2>1 DEF ReaderInv, OutInOrder, Out
    <2>3. Len(Out) + reader.missed = IF Out = <<>> THEN 0 ELSE reader.last - reader.first + 1
      BY <2>1 DEF ReaderInv, Tallied, Out
    <2>. QED  BY <2>2, <2>3 DEF DeliveredOrMissed
  <1>. QED  BY <1>1, Inductive, PTL

-----------------------------------------------------------------------------
(* What becomes of blocks that nothing happened to. *)

\* The last packet of data.
Ends(data, p) == Len(data) > 0 /\ data[Len(data)] = p

\* The trailer of block n.
End(lens, n) == <<n, lens[n] + 1>>

Short(lens, p) == p[2] \in {0, lens[p[1]] + 1} \/ (p[2] = lens[p[1]] /\ lens[p[1]] # capacity)

\* Blocks that no fault touched, and that did not lose their place.
Sound(lens, bad) == (1..Len(lens)) \ bad

\* Packet i of block n is the last that was taken in.
Kept(b, lens, n, i) == b.id = n /\ Len(b.payload) = i /\ (b.ended => i = lens[n])

\* Packet i of block n ends a transfer before the j-th, or was taken in last.
Before(ts, j, b, lens, n, i) == (\E h \in 1..(j - 1) : Ends(ts[h].data, <<n, i>>)) \/ Kept(b, lens, n, i)

\* The data of a transfer that holds packets of block n: framing is alone, and what
\* came before the first packet is accounted for.
Chained(ts, b, lens, n) ==
    \A j \in 1..Len(ts) : Len(ts[j].data) > 0 /\ ts[j].data[1][1] = n =>
        LET i == ts[j].data[1][2]
            e == i + Len(ts[j].data) - 1
        IN  /\ e <= lens[n] + 1
            /\ i = 0 \/ e = lens[n] + 1 => Len(ts[j].data) = 1
            /\ i # 0 => Before(ts, j, b, lens, n, i - 1)

\* So is what came before the packet to come.
NextChained(ts, b, lens, next, n) ==
    next[1] = n /\ 1 <= next[2] /\ next[2] <= lens[n] + 1 => Before(ts, Len(ts) + 1, b, lens, n, next[2] - 1)

\* Block n waits for the reader thread, or was passed by it.
Handed(rd, last, n) == n <= last \/ \E k \in 1..Len(rd) : rd[k].id = n

\* A sound block fits, is handed out when its trailer has come, with all of it behind it,
\* and whole.
Fits(lens, n) == lens[n] >= 1 /\ lens[n] <= capacity

Ended(ts, rd, lens, last, next, n) ==
    Apart(End(lens, n), next, 1) => Handed(rd, last, n) \/ \E j \in 1..Len(ts) : Ends(ts[j].data, End(lens, n))

Behind(ts, rd, lens, last, next, n) ==
    Handed(rd, last, n) => \A y \in Ahead(ts, next) : Apart(End(lens, n), y, 1)

Filled(rd, lens, n) == \A k \in 1..Len(rd) : rd[k].id = n => rd[k].valid = lens[n] /\ Len(rd[k].payload) >= lens[n]

\* A transfer that failed lies before the leader or after the trailer of a sound block.
Dead(t, step) == t.status \in {"failed", "gone"} \/ (t.status = "cancelled" /\ step \in {"top", "wait"})

Beside(ts, j, rd, lens, last, next, n) ==
    \/ Handed(rd, last, n)
    \/ \E h \in 1..(j - 1) : Ends(ts[h].data, End(lens, n))
    \/ next = <<n, 0>>
    \/ \E h \in (j + 1)..Len(ts) : Ends(ts[h].data, <<n, 0>>)

Spared(ts, step, rd, lens, last, next, n) ==
    \A j \in 1..Len(ts) : Dead(ts[j], step) => Beside(ts, j, rd, lens, last, next, n)

Fares(ts, step, b, rd, lens, last, next, n) ==
    /\ Chained(ts, b, lens, n)
    /\ NextChained(ts, b, lens, next, n)
    /\ Fits(lens, n)
    /\ Ended(ts, rd, lens, last, next, n)
    /\ Behind(ts, rd, lens, last, next, n)
    /\ Filled(rd, lens, n)
    /\ Spared(ts, step, rd, lens, last, next, n)

\* A transfer holds packets of one block that follow one another. One that is open can
\* take the packet to come; one that is full, or ends with a short packet, is done.
Run(data) == \A k \in 1..Len(data) : data[k] = <<data[1][1], data[1][2] + k - 1>>

Shape(t, lens, next) ==
    /\ Run(t.data)
    /\ t.status = "open" /\ Len(t.data) > 0 =>
          Ends(t.data, <<next[1], next[2] - 1>>) /\ 2 <= next[2] /\ next[2] <= lens[next[1]] + 1
    /\ t.status = "ok" => Len(t.data) > 0 /\ (Len(t.data) = t.len \/ Short(lens, t.data[Len(t.data)]))
    /\ Len(t.data) > 0 /\ Short(lens, t.data[Len(t.data)]) => t.status = "ok"

Shaped(ts, lens, next) ==
    /\ \A i, j \in 1..Len(ts) : i < j /\ ts[i].status = "open" => ts[j].status = "open"
    /\ \A j \in 1..Len(ts) : Shape(ts[j], lens, next)

\* Each transfer has its place in the plan; while the queue is drained, none is open.
Planned(ts, step, planned) ==
    step \in {"top", "wait", "replan"} =>
        Len(planned) = Len(ts) /\ \A j \in 1..Len(ts) : planned[j].len = ts[j].len

Drained(ts, step, b) ==
    /\ step \in {"replan", "recover"} => \A j \in 1..Len(ts) : ts[j].status # "open"
    /\ step = "recover" => b.id = 0

\* The stream goes on, and no drain was given up.
Steady == at # "ended" /\ ~(1..MaxBlocks \subseteq harmed)

\* Sound blocks that the reader thread passed were delivered.
Delivers(lens, bad, r) ==
    \A n \in Sound(lens, bad) : r.first <= n /\ n <= r.last =>
        \E k \in 1..Len(r.out) : r.out[k].id = n /\ r.out[k].status = "Complete"

Undisturbed ==
    /\ Shaped(pending, dev.lens, Coming)
    /\ Planned(pending, at, u.planned)
    /\ Drained(pending, at, u.block)
    /\ \A n \in Sound(dev.lens, harmed \cup cut) :
          Fares(pending, at, u.block, u.ready, dev.lens, reader.last, Coming, n)

LossInv ==
    /\ Sending <= MaxBlocks
    /\ Delivers(dev.lens, harmed \cup cut, reader)
    /\ Steady => Undisturbed

-----------------------------------------------------------------------------
(* Lemmas about sound blocks. *)

\* What the first invariant says of the bus, the open block and the frames that wait.
InOrder(ts, b, rd, lens, last, next) ==
    /\ ts \in Seq(Transfers) /\ b \in Block /\ rd \in Seq(Frame) /\ lens \in Seq(Nat) /\ last \in Nat
    /\ next \in Packet /\ next[1] = Len(lens)
    /\ BusInOrder(ts, next)
    /\ StreamInv(b, rd, lens, last, Ahead(ts, next))

\* The first invariant says it.
LEMMA InvInOrder ==
    ASSUME IInv
    PROVE  InOrder(pending, u.block, u.ready, dev.lens, reader.last, Coming)
  <1>1. TypeInv /\ BusInOrder(pending, Coming)
        /\ StreamInv(u.block, u.ready, dev.lens, reader.last, Ahead(pending, Coming))
    BY DEF IInv
  <1>2. pending \in Seq(Transfers) /\ u \in Stream /\ reader.last \in Nat
    BY <1>1 DEF TypeInv
  <1>. QED  BY <1>1, <1>2, DevType, StreamFields DEF InOrder, Sending

\* The packet that ends a transfer is one of its packets.
LEMMA EndHeld ==
    ASSUME NEW ts \in Seq(Transfers), NEW j \in 1..Len(ts), NEW p, NEW next, Ends(ts[j].data, p)
    PROVE  /\ Len(ts[j].data) \in 1..Len(ts[j].data) /\ ts[j].data[Len(ts[j].data)] = p
           /\ p \in Ahead(ts, next) /\ p \in Packet
  <1>1. ts[j].data \in Seq(Packet) /\ Len(ts[j].data) \in Nat
    BY DataType
  <1>2. Len(ts[j].data) \in 1..Len(ts[j].data) /\ ts[j].data[Len(ts[j].data)] = p
    BY <1>1 DEF Ends
  <1>3. p \in Packet
    BY <1>1, <1>2
  <1>. QED  BY <1>2, <1>3, AheadIs

\* The block that is open was not handed out, and its leader is behind.
LEMMA OpenIsLed ==
    ASSUME NEW ts, NEW b, NEW rd, NEW lens, NEW last, NEW next, InOrder(ts, b, rd, lens, last, next), b.id # 0
    PROVE  /\ ~Handed(rd, last, b.id) /\ b.id \in 1..Len(lens)
           /\ \A y \in Ahead(ts, next) : Apart(<<b.id, 0>>, y, 1)
  <1>1. /\ ReadyInOrder(b, rd, last, Ahead(ts, next)) /\ BlockInOrder(b, Ahead(ts, next)) /\ b.id <= Len(lens)
        /\ b.id \in Nat /\ last \in Nat /\ Len(lens) \in Nat
    BY DEF InOrder, StreamInv, Block
  <1>2. ASSUME NEW k \in 1..Len(rd) PROVE rd[k].id \in Nat
    <2>1. rd[k] \in Frame
      BY DEF InOrder
    <2>. QED  BY <2>1 DEF Frame
  <1>3. ~Handed(rd, last, b.id)
    BY <1>1, <1>2 DEF Handed, ReadyInOrder
  <1>4. \A y \in Ahead(ts, next) : Apart(<<b.id, 0>>, y, 1)
    BY <1>1 DEF BlockInOrder, Led
  <1>5. b.id \in 1..Len(lens)
    BY <1>1
  <1>. QED  BY <1>3, <1>4, <1>5

\* Packets on the bus: before the packet to come.
LEMMA HeldBefore ==
    ASSUME NEW ts, NEW b, NEW rd, NEW lens, NEW last, NEW next, InOrder(ts, b, rd, lens, last, next),
           NEW j \in 1..Len(ts), NEW k \in 1..Len(ts[j].data)
    PROVE  /\ ts[j].data[k] \in Packet /\ ts[j].data[k] \in Ahead(ts, next)
           /\ Apart(ts[j].data[k], next, 1) /\ ts[j].data[k][1] \in 1..Len(lens)
           /\ ts[j].data \in Seq(Packet) /\ Len(ts[j].data) \in Nat
           /\ \A h \in 1..Len(ts) : \A m \in 1..Len(ts[h].data) : j < h => Apart(ts[j].data[k], ts[h].data[m], 1)
  <1>1. ts \in Seq(Transfers) /\ next \in Packet /\ next[1] = Len(lens) /\ BusInOrder(ts, next) /\ Len(lens) \in Nat
    BY DEF InOrder
  <1>2. ts[j].data \in Seq(Packet) /\ ts[j].data[k] \in Packet /\ Len(ts[j].data) \in Nat
    BY <1>1, DataType
  <1>3. ts[j].data[k] \in Ahead(ts, next)
    BY AheadIs
  <1>4. ts[j].data[k][1] # 0 /\ Apart(ts[j].data[k], next, 1)
    BY <1>1 DEF BusInOrder
  <1>5. ts[j].data[k][1] \in 1..Len(lens)
    BY <1>1, <1>2, <1>4, SMTT(60) DEF Packet, Apart
  <1>6. \A h \in 1..Len(ts) : \A m \in 1..Len(ts[h].data) : j < h => Apart(ts[j].data[k], ts[h].data[m], 1)
    BY <1>1 DEF BusInOrder
  <1>. QED  BY <1>2, <1>3, <1>4, <1>5, <1>6

\* All data of a run is of one block.
LEMMA RunIs ==
    ASSUME NEW d \in Seq(Packet), Run(d), Len(d) > 0
    PROVE  /\ 1 \in 1..Len(d) /\ Len(d) \in 1..Len(d) /\ d[1] \in Packet /\ d[Len(d)] \in Packet
           /\ d[Len(d)] = <<d[1][1], d[1][2] + Len(d) - 1>>
           /\ \A k \in 1..Len(d) : d[k][1] = d[1][1]
  <1>1. 1 \in 1..Len(d) /\ Len(d) \in 1..Len(d)
    OBVIOUS
  <1>2. d[Len(d)] = <<d[1][1], d[1][2] + Len(d) - 1>>
    BY <1>1 DEF Run
  <1>3. \A k \in 1..Len(d) : d[k][1] = d[1][1]
    BY DEF Run
  <1>. QED  BY <1>1, <1>2, <1>3

\* What is known of a transfer with packets of block n.
LEMMA ChainedAt ==
    ASSUME NEW ts, NEW b, NEW lens, NEW n, Chained(ts, b, lens, n), NEW j \in 1..Len(ts),
           Len(ts[j].data) > 0, ts[j].data[1][1] = n
    PROVE  /\ ts[j].data[1][2] + Len(ts[j].data) - 1 <= lens[n] + 1
           /\ ts[j].data[1][2] = 0 \/ ts[j].data[1][2] + Len(ts[j].data) - 1 = lens[n] + 1 => Len(ts[j].data) = 1
           /\ ts[j].data[1][2] # 0 => Before(ts, j, b, lens, n, ts[j].data[1][2] - 1)
  BY Zenon DEF Chained

\* While a sound block is open, the oldest transfer has nothing but packets of it.
LEMMA HeadBelongs ==
    ASSUME NEW ts, NEW b, NEW rd, NEW lens, NEW last, NEW next, InOrder(ts, b, rd, lens, last, next),
           b.id # 0, Ended(ts, rd, lens, last, next, b.id), Chained(ts, b, lens, b.id), Len(ts) > 0,
           Len(ts[1].data) > 0, Run(ts[1].data)
    PROVE  ts[1].data[1][1] = b.id
  <1>. DEFINE n == b.id
              d == ts[1].data
              p == d[1]
              e == End(lens, n)
  <1>1. /\ ts \in Seq(Transfers) /\ next \in Packet /\ next[1] = Len(lens) /\ Len(lens) \in Nat /\ Len(ts) \in Nat
        /\ lens \in Seq(Nat)
    BY DEF InOrder
  <1>2. n \in 1..Len(lens) /\ ~Handed(rd, last, n) /\ \A y \in Ahead(ts, next) : Apart(<<n, 0>>, y, 1)
    BY OpenIsLed
  <1>3. 1 \in 1..Len(ts) /\ 1 \in 1..Len(d) /\ d \in Seq(Packet)
    BY <1>1, DataType
  <1>4. p \in Packet /\ p \in Ahead(ts, next) /\ p[1] \in 1..Len(lens)
    BY <1>3, HeldBefore
  <1>5. p[1] >= n
    BY <1>2, <1>4 DEF Apart, Packet
  <1>6. ASSUME p[1] > n PROVE FALSE
    <2>1. Apart(e, next, 1)
      BY <1>1, <1>2, <1>4, <1>6 DEF Apart, End
    <2>2. PICK j \in 1..Len(ts) : Ends(ts[j].data, e)
      BY <1>2, <2>1 DEF Ended
    <2>3. Len(ts[j].data) \in 1..Len(ts[j].data) /\ ts[j].data[Len(ts[j].data)] = e
      BY <1>1, <2>2, EndHeld, ZenonT(60)
    <2>4. CASE j = 1
      <3>1. e = <<p[1], p[2] + Len(d) - 1>>
        BY <1>3, <2>3, <2>4, RunIs
      <3>2. e[1] = n
        BY DEF End
      <3>3. e[1] = p[1]
        BY <3>1
      <3>. QED  BY <1>2, <1>4, <1>6, <3>2, <3>3
    <2>5. CASE j # 1
      <3>1. Apart(p, e, 1)
        BY <1>3, <2>3, <2>5, HeldBefore
      <3>. QED  BY <1>2, <1>4, <1>6, <3>1 DEF Apart, End
    <2>. QED  BY <2>4, <2>5
  <1>. QED  BY <1>2, <1>4, <1>5, <1>6

\* No sound block is open when a failed transfer comes back.
LEMMA DeadHead ==
    ASSUME NEW ts, NEW b, NEW rd, NEW lens, NEW last, NEW next, InOrder(ts, b, rd, lens, last, next),
           b.id # 0, Len(ts) > 0, Beside(ts, 1, rd, lens, last, next, b.id)
    PROVE  FALSE
  <1>1. ts \in Seq(Transfers) /\ next \in Packet /\ Len(ts) \in Nat
    BY DEF InOrder
  <1>2. ~Handed(rd, last, b.id) /\ \A y \in Ahead(ts, next) : Apart(<<b.id, 0>>, y, 1)
    BY OpenIsLed
  <1>3. b.id \in Nat
    BY DEF InOrder, Block
  <1>4. <<b.id, 0>> \notin Ahead(ts, next)
    BY <1>2, <1>3 DEF Apart
  <1>5. ~(next = <<b.id, 0>>)
    BY <1>4, AheadIs
  <1>6. ASSUME NEW h \in 2..Len(ts), Ends(ts[h].data, <<b.id, 0>>) PROVE FALSE
    <2>1. h \in 1..Len(ts)
      BY <1>1
    <2>. QED  BY <1>1, <1>4, <1>6, <2>1, EndHeld
  <1>. QED  BY <1>2, <1>5, <1>6 DEF Beside

\* A failed transfer has no packet of a sound block.
LEMMA DeadHasNone ==
    ASSUME NEW ts, NEW b, NEW rd, NEW lens, NEW last, NEW next, InOrder(ts, b, rd, lens, last, next),
           NEW n \in 1..Len(lens), NEW j \in 1..Len(ts), Beside(ts, j, rd, lens, last, next, n),
           Chained(ts, b, lens, n), Behind(ts, rd, lens, last, next, n), Run(ts[j].data), Len(ts[j].data) > 0
    PROVE  ts[j].data[1][1] # n
  <1>. SUFFICES ASSUME ts[j].data[1][1] = n PROVE FALSE
    OBVIOUS
  <1>. DEFINE d == ts[j].data
              p == d[1]
              e == End(lens, n)
  <1>1. /\ ts \in Seq(Transfers) /\ next \in Packet /\ Len(ts) \in Nat
        /\ lens \in Seq(Nat) /\ lens[n] \in Nat
    BY DEF InOrder
  <1>2. d \in Seq(Packet) /\ 1 \in 1..Len(d) /\ p \in Packet /\ p \in Ahead(ts, next) /\ Apart(p, next, 1)
    <2>1. d \in Seq(Packet) /\ 1 \in 1..Len(d)
      BY <1>1, DataType
    <2>. QED  BY <2>1, HeldBefore
  <1>3. p[1] = n /\ p[2] \in Nat /\ p[2] <= lens[n] + 1
    <2>1. p[2] + Len(d) - 1 <= lens[n] + 1
      BY ChainedAt
    <2>2. Len(d) \in Nat /\ Len(d) > 0 /\ p[2] \in Nat
      BY <1>2 DEF Packet
    <2>. HIDE DEF d, p
    <2>3. p[2] <= lens[n] + 1
      BY <1>1, <2>1, <2>2
    <2>. QED  BY <2>2, <2>3 DEF p, d
  <1>4. ~Apart(e, p, 1)
    <2>1. e[1] = n /\ e[2] = lens[n] + 1
      BY DEF End
    <2>. HIDE DEF e, p
    <2>. QED  BY <1>1, <1>3, <2>1 DEF Apart
  <1>5. ~Apart(p, <<n, 0>>, 1)
    BY <1>3 DEF Apart
  <1>6. ~Handed(rd, last, n)
    BY <1>2, <1>4 DEF Behind
  <1>7. ~(next = <<n, 0>>)
    BY <1>2, <1>5
  <1>8. ASSUME NEW h \in 1..(j - 1), Ends(ts[h].data, e) PROVE FALSE
    <2>1. h \in 1..Len(ts) /\ h < j
      BY <1>1
    <2>2. Len(ts[h].data) \in 1..Len(ts[h].data) /\ ts[h].data[Len(ts[h].data)] = e
      BY <1>1, <1>8, <2>1, EndHeld
    <2>3. Apart(e, p, 1)
      BY <1>2, <2>1, <2>2, HeldBefore
    <2>. QED  BY <1>4, <2>3
  <1>9. ASSUME NEW h \in (j + 1)..Len(ts), Ends(ts[h].data, <<n, 0>>) PROVE FALSE
    <2>1. h \in 1..Len(ts) /\ j < h
      BY <1>1
    <2>2. Len(ts[h].data) \in 1..Len(ts[h].data) /\ ts[h].data[Len(ts[h].data)] = <<n, 0>>
      BY <1>1, <1>9, <2>1, EndHeld
    <2>3. Apart(p, <<n, 0>>, 1)
      BY <1>2, <2>1, <2>2, HeldBefore
    <2>. QED  BY <1>5, <2>3
  <1>. QED  BY <1>6, <1>7, <1>8, <1>9 DEF Beside

\* What transfers hold stays when they end or when the block that is open is given up:
\* a block that this does not concern fares on.
LEMMA FaresOn ==
    ASSUME NEW ts, NEW us, Len(us) = Len(ts), \A j \in 1..Len(ts) : us[j].data = ts[j].data,
           NEW step, NEW stop, NEW b, NEW c, NEW rd, NEW rs, NEW lens, NEW last, NEW next, NEW n,
           Fares(ts, step, b, rd, lens, last, next, n), Ahead(us, next) = Ahead(ts, next), Len(ts) \in Nat,
           \A j \in 1..Len(ts) : Dead(us[j], stop) => Dead(ts[j], step) \/ Beside(ts, j, rd, lens, last, next, n),
           \A i : Kept(b, lens, n, i) => Kept(c, lens, n, i),
           Handed(rs, last, n) <=> Handed(rd, last, n), Filled(rs, lens, n)
    PROVE  Fares(us, stop, c, rs, lens, last, next, n)
  <1>1. ASSUME NEW j \in 1..(Len(ts) + 1), NEW i, Before(ts, j, b, lens, n, i) PROVE Before(us, j, c, lens, n, i)
    <2>1. \A h \in 1..(j - 1) : h \in 1..Len(ts)
      OBVIOUS
    <2>. QED  BY <1>1, <2>1 DEF Before
  <1>2. Chained(us, c, lens, n)
    <2>1. ASSUME NEW j \in 1..Len(ts), NEW i, Before(ts, j, b, lens, n, i) PROVE Before(us, j, c, lens, n, i)
      <3>1. j \in 1..(Len(ts) + 1)
        OBVIOUS
      <3>. QED  BY <1>1, <2>1, <3>1
    <2>. QED  BY <2>1, Zenon DEF Chained, Fares
  <1>3. NextChained(us, c, lens, next, n)
    <2>1. Len(ts) + 1 \in 1..(Len(ts) + 1)
      OBVIOUS
    <2>. QED  BY <1>1, <2>1 DEF NextChained, Fares
  <1>4. Fits(lens, n) /\ Ended(us, rs, lens, last, next, n) /\ Behind(us, rs, lens, last, next, n)
    BY DEF Fares, Ended, Behind
  <1>5. Spared(us, stop, rs, lens, last, next, n)
    <2>. SUFFICES ASSUME NEW j \in 1..Len(us), Dead(us[j], stop) PROVE Beside(us, j, rs, lens, last, next, n)
      BY DEF Spared
    <2>1. Beside(ts, j, rd, lens, last, next, n)
      BY DEF Fares, Spared
    <2>2. \A h \in 1..(j - 1) : h \in 1..Len(ts)
      OBVIOUS
    <2>3. \A h \in (j + 1)..Len(ts) : h \in 1..Len(ts)
      OBVIOUS
    <2>. QED  BY <2>1, <2>2, <2>3 DEF Beside
  <1>. QED  BY <1>2, <1>3, <1>4, <1>5 DEF Fares

\* The same when only how transfers ended has changed.
LEMMA FaresEnded ==
    ASSUME NEW ts, NEW us, Len(us) = Len(ts), \A j \in 1..Len(ts) : us[j].data = ts[j].data,
           NEW step, NEW stop, NEW b, NEW rd, NEW lens, NEW last, NEW next, NEW n,
           Fares(ts, step, b, rd, lens, last, next, n), Ahead(us, next) = Ahead(ts, next), Len(ts) \in Nat,
           \A j \in 1..Len(ts) : Dead(us[j], stop) => Dead(ts[j], step) \/ Beside(ts, j, rd, lens, last, next, n)
    PROVE  Fares(us, stop, b, rd, lens, last, next, n)
  <1>1. Filled(rd, lens, n)
    BY DEF Fares
  <1>2. \A i : Kept(b, lens, n, i) => Kept(b, lens, n, i)
    OBVIOUS
  <1>3. Handed(rd, last, n) <=> Handed(rd, last, n)
    OBVIOUS
  <1>. QED  BY <1>1, <1>2, <1>3, FaresOn, SMTT(60)

\* Open transfers are ended, and keep their shape.
LEMMA ShapedEnd ==
    ASSUME NEW ts \in Seq(Transfers), NEW lens, NEW next, Shaped(ts, lens, next),
           NEW status \in Statuses \ {"open", "ok"}
    PROVE  /\ Shaped(EndOpen(ts, status), lens, next)
           /\ \A j \in 1..Len(ts) : EndOpen(ts, status)[j].status # "open"
           /\ \A j \in 1..Len(ts) : /\ EndOpen(ts, status)[j].len = ts[j].len
                                    /\ ts[j].status # "open" => EndOpen(ts, status)[j] = ts[j]
                                    /\ ts[j].status = "open" => EndOpen(ts, status)[j].status = status
  <1>. DEFINE F(j) == IF ts[j].status = "open" THEN [ts[j] EXCEPT !.status = status] ELSE ts[j]
              us == EndOpen(ts, status)
  <1>1. us = [j \in 1..Len(ts) |-> F(j)] /\ Len(ts) \in Nat
    BY DEF EndOpen
  <1>2. Len(us) = Len(ts) /\ us \in Seq(Transfers)
    BY EndOpenIs
  <1>3. ASSUME NEW j \in 1..Len(ts)
        PROVE  /\ us[j].data = ts[j].data /\ us[j].len = ts[j].len /\ us[j].status # "open"
               /\ ts[j].status # "open" => us[j] = ts[j]
               /\ ts[j].status = "open" => us[j].status = status
    <2>1. ts[j] \in Transfers
      OBVIOUS
    <2>2. us[j] = F(j)
      BY <1>1
    <2>. QED  BY <2>1, <2>2 DEF Transfers
  <1>. HIDE DEF F, us
  <1>4. ASSUME NEW j \in 1..Len(us) PROVE Shape(us[j], lens, next)
    <2>1. Shape(ts[j], lens, next) /\ j \in 1..Len(ts)
      BY <1>2 DEF Shaped
    <2>2. CASE ts[j].status # "open"
      BY <1>3, <2>1, <2>2
    <2>3. CASE ts[j].status = "open"
      BY <1>3, <2>1, <2>3 DEF Shape
    <2>. QED  BY <2>2, <2>3
  <1>5. Shaped(us, lens, next)
    BY <1>2, <1>3, <1>4 DEF Shaped
  <1>. QED  BY <1>3, <1>5 DEF us

\* The transfers behind the oldest have their shape.
LEMMA ShapedTail ==
    ASSUME NEW ts \in Seq(Transfers), NEW lens, NEW next, Shaped(ts, lens, next), ts # <<>>
    PROVE  /\ Shaped(Tail(ts), lens, next) /\ Shape(ts[1], lens, next) /\ Head(ts) = ts[1]
           /\ 1 \in 1..Len(ts) /\ Len(ts) \in Nat /\ Len(Tail(ts)) \in Nat /\ Len(ts) = Len(Tail(ts)) + 1
           /\ Tail(ts) \in Seq(Transfers)
           /\ \A j \in 1..Len(Tail(ts)) : Tail(ts)[j] = ts[j + 1] /\ j + 1 \in 1..Len(ts)
  <1>. DEFINE us == Tail(ts)
  <1>1. /\ Len(us) \in Nat /\ Len(ts) = Len(us) + 1 /\ Len(ts) \in Nat /\ us \in Seq(Transfers)
        /\ \A j \in 1..Len(us) : us[j] = ts[j + 1] /\ j + 1 \in 1..Len(ts)
        /\ 1 \in 1..Len(ts) /\ Head(ts) = ts[1]
    OBVIOUS
  <1>. HIDE DEF us
  <1>2. \A j \in 1..Len(us) : Shape(us[j], lens, next)
    BY <1>1 DEF Shaped
  <1>3. ASSUME NEW i \in 1..Len(us), NEW j \in 1..Len(us), i < j, us[i].status = "open" PROVE us[j].status = "open"
    <2>. DEFINE h == i + 1
                l == j + 1
    <2>1. h \in 1..Len(ts) /\ l \in 1..Len(ts) /\ h < l /\ us[i] = ts[h] /\ us[j] = ts[l]
      BY <1>1, <1>3
    <2>. HIDE DEF h, l
    <2>. QED  BY <1>3, <2>1 DEF Shaped
  <1>4. Shaped(us, lens, next) /\ Shape(ts[1], lens, next)
    BY <1>1, <1>2, <1>3 DEF Shaped
  <1>. QED  BY <1>1, <1>4 DEF us

\* The oldest transfer is gone: what it held of a sound block was taken in.
LEMMA HeadGone ==
    ASSUME NEW ts, NEW b, NEW rd, NEW lens, NEW last, NEW next, InOrder(ts, b, rd, lens, last, next),
           NEW n \in 1..Len(lens), NEW step, Fares(ts, step, b, rd, lens, last, next, n), ts # <<>>, Run(ts[1].data),
           NEW c, NEW rs,
           \A i \in Nat : i <= lens[n] =>
              /\ Ends(ts[1].data, <<n, i>>) => Kept(c, lens, n, i)
              /\ Kept(b, lens, n, i) /\ ~(Len(ts[1].data) > 0 /\ ts[1].data[1][1] = n) => Kept(c, lens, n, i),
           Handed(rd, last, n) \/ Ends(ts[1].data, End(lens, n)) => Handed(rs, last, n),
           Filled(rs, lens, n), Behind(Tail(ts), rs, lens, last, next, n)
    PROVE  Fares(Tail(ts), step, c, rs, lens, last, next, n)
  <1>. DEFINE us == Tail(ts)
              d == ts[1].data
  <1>1. /\ ts \in Seq(Transfers) /\ next \in Packet /\ lens \in Seq(Nat) /\ lens[n] \in Nat /\ n \in Nat /\ n # 0
    BY DEF InOrder
  <1>2. /\ Len(us) \in Nat /\ Len(ts) = Len(us) + 1 /\ Len(ts) \in Nat /\ us \in Seq(Transfers)
        /\ \A j \in 1..Len(us) : us[j] = ts[j + 1] /\ j + 1 \in 1..Len(ts)
        /\ 1 \in 1..Len(ts)
    BY <1>1
  <1>3. d \in Seq(Packet) /\ Len(d) \in Nat
    BY <1>1, <1>2, DataType
  <1>. HIDE DEF us
  <1>4. ASSUME NEW j \in 1..(Len(us) + 1), NEW i \in Nat, i <= lens[n], Before(ts, j + 1, b, lens, n, i),
               Len(d) > 0 => Apart(d[1], <<n, i + 1>>, 1)
        PROVE  Before(us, j, c, lens, n, i)
    <2>1. ASSUME NEW h \in 1..((j + 1) - 1), Ends(ts[h].data, <<n, i>>) PROVE Before(us, j, c, lens, n, i)
      <3>1. CASE h = 1
        BY <1>4, <2>1, <3>1 DEF Before
      <3>2. CASE h # 1
        <4>. DEFINE k == h - 1
        <4>1. k \in 1..(j - 1) /\ k \in 1..Len(us) /\ k + 1 = h
          BY <1>2, <3>2
        <4>. HIDE DEF k
        <4>2. us[k] = ts[h]
          BY <1>2, <4>1
        <4>. QED  BY <2>1, <4>1, <4>2 DEF Before
      <3>. QED  BY <3>1, <3>2
    <2>2. CASE Kept(b, lens, n, i)
      <3>1. ASSUME Len(d) > 0, d[1][1] = n PROVE FALSE
        <4>1. b.id = n /\ b.id # 0 /\ Len(b.payload) = i
          BY <1>1, <2>2 DEF Kept
        <4>2. 1 \in 1..Len(d) /\ d[1] \in Packet /\ d[1] \in Ahead(ts, next)
          BY <1>2, <1>3, <3>1, HeldBefore
        <4>3. Apart(<<n, 0>>, d[1], 1)
          BY <4>1, <4>2, OpenIsLed
        <4>4. d[1][2] \in Nat /\ d[1][2] >= 1
          BY <1>1, <3>1, <4>2, <4>3 DEF Apart, Packet
        <4>5. Before(ts, 1, b, lens, n, d[1][2] - 1)
          BY <1>2, <3>1, <4>4, ChainedAt, SMTT(60) DEF Fares
        <4>6. Kept(b, lens, n, d[1][2] - 1)
          BY <4>5 DEF Before
        <4>7. d[1][2] = i + 1
          BY <4>1, <4>4, <4>6, SMTT(60) DEF Kept
        <4>8. Apart(d[1], <<n, i + 1>>, 1)
          BY <1>4, <3>1
        <4>. QED  BY <1>1, <3>1, <4>7, <4>8 DEF Apart
      <3>. QED  BY <1>4, <2>2, <3>1 DEF Before
    <2>. QED  BY <1>4, <2>1, <2>2 DEF Before
  <1>5. Chained(us, c, lens, n)
    <2>1. ASSUME NEW j \in 1..Len(us), Len(us[j].data) > 0, us[j].data[1][1] = n
          PROVE  LET i == us[j].data[1][2]
                     e == i + Len(us[j].data) - 1
                 IN  /\ e <= lens[n] + 1
                     /\ i = 0 \/ e = lens[n] + 1 => Len(us[j].data) = 1
                     /\ i # 0 => Before(us, j, c, lens, n, i - 1)
      <3>. DEFINE m == j + 1
                  f == ts[m].data
                  i == f[1][2]
      <3>1. m \in 1..Len(ts) /\ us[j] = ts[m] /\ j \in 1..(Len(us) + 1) /\ 1 < m
        BY <1>2
      <3>. HIDE DEF m
      <3>2. /\ i + Len(f) - 1 <= lens[n] + 1
            /\ i = 0 \/ i + Len(f) - 1 = lens[n] + 1 => Len(f) = 1
            /\ i # 0 => Before(ts, m, b, lens, n, i - 1)
        <4>1. Chained(ts, b, lens, n)
          BY DEF Fares
        <4>2. m \in 1..Len(ts) /\ Len(ts[m].data) > 0 /\ ts[m].data[1][1] = n
          BY <2>1, <3>1
        <4>3. /\ ts[m].data[1][2] + Len(ts[m].data) - 1 <= lens[n] + 1
              /\ ts[m].data[1][2] = 0 \/ ts[m].data[1][2] + Len(ts[m].data) - 1 = lens[n] + 1 => Len(ts[m].data) = 1
              /\ ts[m].data[1][2] # 0 => Before(ts, m, b, lens, n, ts[m].data[1][2] - 1)
          BY <4>1, <4>2, ChainedAt
        <4>. QED  BY <4>3
      <3>3. f \in Seq(Packet) /\ Len(f) \in Nat /\ 1 \in 1..Len(f) /\ f[1] \in Packet
        <4>1. f \in Seq(Packet)
          BY <1>1, <3>1, DataType
        <4>2. Len(f) > 0
          BY <2>1, <3>1
        <4>. HIDE DEF f
        <4>. QED  BY <4>1, <4>2
      <3>4. f[1] = <<n, i>> /\ i \in Nat
        <4>. DEFINE q == f[1]
        <4>1. q \in Nat \X Nat
          BY <3>3 DEF Packet
        <4>2. q[1] = n
          BY <2>1, <3>1
        <4>. HIDE DEF q
        <4>3. q = <<q[1], q[2]>> /\ q[2] \in Nat
          BY <4>1
        <4>4. q = <<n, q[2]>>
          BY <4>2, <4>3
        <4>. QED  BY <4>3, <4>4 DEF q
      <3>5. ASSUME i # 0 PROVE Before(us, j, c, lens, n, i - 1)
        <4>. DEFINE k == i - 1
        <4>1. k \in Nat /\ k <= lens[n] /\ k + 1 = i
          <5>. DEFINE l == Len(f)
                      z == lens[n]
          <5>1. i + l - 1 <= z + 1 /\ l > 0 /\ l \in Nat /\ z \in Nat /\ i \in Nat /\ i # 0
            BY <1>1, <2>1, <3>1, <3>2, <3>3, <3>4, <3>5
          <5>. HIDE DEF i, l, z
          <5>2. i - 1 \in Nat /\ i - 1 <= z /\ (i - 1) + 1 = i
            BY <5>1
          <5>. QED  BY <5>2 DEF z
        <4>2. ASSUME Len(d) > 0 PROVE Apart(d[1], f[1], 1)
          <5>1. 1 \in 1..Len(d)
            BY <1>3, <4>2
          <5>. QED  BY <1>2, <3>1, <3>3, <5>1, HeldBefore
        <4>3. m = j + 1
          BY DEF m
        <4>. HIDE DEF i, f, d
        <4>4. Before(ts, j + 1, b, lens, n, k)
          BY <3>2, <3>5, <4>3
        <4>. HIDE DEF k
        <4>. QED  BY <1>4, <3>1, <3>4, <4>1, <4>2, <4>4 DEF k
      <3>. HIDE DEF i
      <3>6. us[j].data = f /\ us[j].data[1][2] = i
        BY <3>1 DEF i
      <3>. HIDE DEF f
      <3>. QED  BY <3>2, <3>5, <3>6
    <2>. QED  BY <2>1, Zenon DEF Chained
  <1>6. NextChained(us, c, lens, next, n)
    <2>. SUFFICES ASSUME next[1] = n, 1 <= next[2], next[2] <= lens[n] + 1
                  PROVE  Before(us, Len(us) + 1, c, lens, n, next[2] - 1)
      BY DEF NextChained
    <2>. DEFINE k == next[2] - 1
                j == Len(us) + 1
    <2>1. k \in Nat /\ k <= lens[n] /\ k + 1 = next[2] /\ next = <<n, k + 1>>
      BY <1>1, SMTT(60) DEF Packet
    <2>2. Before(ts, Len(ts) + 1, b, lens, n, k)
      BY DEF Fares, NextChained
    <2>3. j \in 1..(Len(us) + 1) /\ j + 1 = Len(ts) + 1
      BY <1>2
    <2>4. Len(d) > 0 => Apart(d[1], <<n, k + 1>>, 1)
      <3>1. ASSUME Len(d) > 0 PROVE Apart(d[1], next, 1)
        <4>1. 1 \in 1..Len(d)
          BY <1>3, <3>1
        <4>. QED  BY <1>2, <4>1, HeldBefore
      <3>. QED  BY <2>1, <3>1
    <2>. HIDE DEF k, j, d
    <2>5. Before(us, j, c, lens, n, k)
      BY <1>4, <2>1, <2>2, <2>3, <2>4
    <2>. QED  BY <2>5 DEF j, k
  <1>7. ASSUME NEW h \in 1..Len(ts), NEW p, Ends(ts[h].data, p)
        PROVE  Ends(d, p) \/ (h # 1 /\ h - 1 \in 1..Len(us) /\ Ends(us[h - 1].data, p))
    <2>1. CASE h = 1
      BY <1>7, <2>1
    <2>2. CASE h # 1
      <3>1. h - 1 \in 1..Len(us) /\ (h - 1) + 1 = h
        BY <1>2, <2>2
      <3>2. us[h - 1] = ts[h]
        BY <1>2, <3>1
      <3>. QED  BY <1>7, <2>2, <3>1, <3>2
    <2>. QED  BY <2>1, <2>2
  <1>8. Ended(us, rs, lens, last, next, n)
    <2>. SUFFICES ASSUME Apart(End(lens, n), next, 1)
                  PROVE  Handed(rs, last, n) \/ \E j \in 1..Len(us) : Ends(us[j].data, End(lens, n))
      BY DEF Ended
    <2>1. Handed(rd, last, n) \/ \E j \in 1..Len(ts) : Ends(ts[j].data, End(lens, n))
      BY DEF Fares, Ended
    <2>. QED  BY <1>7, <2>1
  <1>9. Spared(us, step, rs, lens, last, next, n)
    <2>. SUFFICES ASSUME NEW j \in 1..Len(us), Dead(us[j], step) PROVE Beside(us, j, rs, lens, last, next, n)
      BY DEF Spared
    <2>. DEFINE m == j + 1
    <2>1. m \in 1..Len(ts) /\ us[j] = ts[m] /\ m - 1 = j
      BY <1>2
    <2>. HIDE DEF m
    <2>2. Beside(ts, m, rd, lens, last, next, n)
      BY <2>1 DEF Fares, Spared
    <2>3. ASSUME NEW h \in 1..(m - 1), Ends(ts[h].data, End(lens, n)) PROVE Beside(us, j, rs, lens, last, next, n)
      <3>1. h \in 1..Len(ts)
        BY <1>2, <2>1
      <3>2. CASE Ends(d, End(lens, n))
        BY <3>2 DEF Beside
      <3>3. CASE h # 1 /\ h - 1 \in 1..Len(us) /\ Ends(us[h - 1].data, End(lens, n))
        <4>1. h - 1 \in 1..(j - 1)
          BY <2>1, <3>1, <3>3
        <4>. QED  BY <3>3, <4>1 DEF Beside
      <3>. QED  BY <1>7, <2>3, <3>1, <3>2, <3>3
    <2>4. ASSUME NEW h \in (m + 1)..Len(ts), Ends(ts[h].data, <<n, 0>>) PROVE Beside(us, j, rs, lens, last, next, n)
      <3>. DEFINE g == h - 1
      <3>1. g \in 1..Len(us) /\ g + 1 = h /\ g \in (j + 1)..Len(us)
        BY <1>2, <2>1
      <3>. HIDE DEF g
      <3>2. us[g] = ts[h]
        BY <1>2, <3>1
      <3>. QED  BY <2>4, <3>1, <3>2 DEF Beside
    <2>5. CASE Handed(rd, last, n)
      BY <2>5 DEF Beside
    <2>6. CASE next = <<n, 0>>
      BY <2>6 DEF Beside
    <2>. QED  BY <2>2, <2>3, <2>4, <2>5, <2>6 DEF Beside
  <1>10. Fits(lens, n) /\ Behind(us, rs, lens, last, next, n)
    BY DEF Fares, us
  <1>. HIDE DEF d
  <1>11. Fares(us, step, c, rs, lens, last, next, n)
    BY <1>5, <1>6, <1>8, <1>9, <1>10 DEF Fares
  <1>. QED  BY <1>11 DEF us

\* A frame of another block.
LEMMA OtherFrame ==
    ASSUME NEW rd \in Seq(Frame), NEW f, NEW n, f.id # n, NEW last
    PROVE  /\ Handed(Append(rd, f), last, n) <=> Handed(rd, last, n)
           /\ \A lens : Filled(rd, lens, n) => Filled(Append(rd, f), lens, n)
  <1>. DEFINE rs == Append(rd, f)
              m == Len(rd)
  <1>1. /\ m \in Nat /\ Len(rs) = m + 1 /\ rs[m + 1] = f
        /\ \A k \in 1..m : rs[k] = rd[k]
        /\ \A k \in 1..Len(rs) : k \in 1..m \/ k = m + 1
        /\ \A k \in 1..m : k \in 1..Len(rs)
    OBVIOUS
  <1>. HIDE DEF rs, m
  <1>2. \A k \in 1..Len(rs) : rs[k].id = n => k \in 1..m /\ rs[k] = rd[k]
    BY <1>1
  <1>3. Handed(rs, last, n) <=> Handed(rd, last, n)
    <2>1. (\E k \in 1..Len(rs) : rs[k].id = n) <=> (\E k \in 1..m : rd[k].id = n)
      BY <1>1, <1>2
    <2>. QED  BY <2>1 DEF Handed, m
  <1>4. \A lens : Filled(rd, lens, n) => Filled(rs, lens, n)
    BY <1>2 DEF Filled, m
  <1>. QED  BY <1>3, <1>4 DEF rs

\* abandon and finish are about the open block.
LEMMA ClosedOther ==
    ASSUME NEW s \in Stream, NEW n, s.block.id # n, NEW last
    PROVE  /\ abandon(s) \in Stream /\ abandon(s).block.id = 0 /\ abandon(s).planned = s.planned
           /\ Handed(abandon(s).ready, last, n) <=> Handed(s.ready, last, n)
           /\ \A lens : Filled(s.ready, lens, n) => Filled(abandon(s).ready, lens, n)
  <1>1. CASE s.block.id = 0
    BY <1>1 DEF abandon
  <1>2. CASE s.block.id # 0
    <2>. DEFINE f == [id |-> s.block.id, payload |-> s.block.payload, valid |-> -1]
                r == [s EXCEPT !.ready = Append(@, f), !.block = NoBlock]
    <2>1. f \in Frame /\ f.id = s.block.id
      BY StreamFields DEF Frame
    <2>2. abandon(s) = r
      BY <1>2 DEF abandon
    <2>. HIDE DEF f
    <2>3. r \in Stream /\ r.block = NoBlock /\ r.ready = Append(s.ready, f)
      BY <2>1, Closed
    <2>4. r.planned = s.planned
      BY DEF Stream
    <2>5. s.ready \in Seq(Frame)
      BY StreamFields
    <2>6. f.id # n
      BY <2>1
    <2>7. Handed(Append(s.ready, f), last, n) <=> Handed(s.ready, last, n)
      BY <2>5, <2>6, OtherFrame
    <2>8. \A lens : Filled(s.ready, lens, n) => Filled(Append(s.ready, f), lens, n)
      BY <2>5, <2>6, OtherFrame
    <2>. HIDE DEF r
    <2>. QED  BY <2>2, <2>3, <2>4, <2>7, <2>8, NoBlockType
  <1>. QED  BY <1>1, <1>2

\* The plan is left alone by abandon and finish.
LEMMA PlanStays ==
    ASSUME NEW s \in Stream, NEW m
    PROVE  abandon(s).planned = s.planned /\ finish(s, m).planned = s.planned
  BY DEF abandon, finish, Stream

\* What a trailer does.
LEMMA FinishIs ==
    ASSUME NEW s \in Stream, NEW n, n = s.block.id, Len_(n) \in Nat, Len(s.block.payload) <= Len_(n)
    PROVE  LET f == [id |-> n, payload |-> s.block.payload, valid |-> Len_(n)]
               r == finish(s, n)
           IN  f \in Frame /\ r.block = NoBlock /\ r.ready = Append(s.ready, f)
  <1>. DEFINE ps == s.block.payload
              len == Len_(n)
              f == [id |-> n, payload |-> ps, valid |-> len]
              r == [s EXCEPT !.ready = Append(@, f), !.block = NoBlock]
  <1>1. ps \in Seq(Packet) /\ n \in Nat
    BY StreamFields
  <1>2. ~(Len(ps) > len)
    <2>1. Len(ps) \in Nat
      BY <1>1
    <2>. QED  BY <2>1
  <1>3. finish(s, n) = [s EXCEPT !.ready = Append(@, f), !.block = NoBlock, !.failures = 0]
    BY <1>2 DEF finish
  <1>4. f \in Frame
    BY <1>1 DEF Frame
  <1>. HIDE DEF f
  <1>5. r \in Stream /\ r.block = NoBlock /\ r.ready = Append(s.ready, f)
    BY <1>4, Closed
  <1>6. finish(s, n) = [r EXCEPT !.failures = 0]
    BY <1>3 DEF Stream
  <1>. HIDE DEF r
  <1>7. finish(s, n).block = r.block /\ finish(s, n).ready = r.ready
    BY <1>5, <1>6, FailuresSet
  <1>. QED  BY <1>4, <1>5, <1>7 DEF f

\* Payload goes on the payload before it, as far as there is room.
LEMMA AbsorbPays ==
    ASSUME NEW s \in Stream, NEW data \in Seq(Packet), NEW requested,
           ~IsLeader(data), ~(s.block.id # 0 /\ IsTrailer(data)), AtPayload(s)
    PROVE  LET r == absorb(s, data, requested)
               room == capacity - Len(s.block.payload)
               len == IF Len(data) > room THEN room ELSE Len(data)
           IN  /\ r.planned = s.planned
               /\ r.block.id = s.block.id /\ r.ready = s.ready
               /\ r.block.payload = s.block.payload \o SubSeq(data, 1, len)
               /\ r.block.ended = (Len(data) < requested \/ Len(data) >= room)
  <1>. DEFINE r == absorb(s, data, requested)
              room == capacity - Len(s.block.payload)
              over == Len(data) > room
              len == IF over THEN room ELSE Len(data)
              ps == SubSeq(data, 1, len)
              e == Len(data) < requested \/ Len(data) >= room
              b == s.block
              c == [b EXCEPT !.payload = @ \o ps, !.ended = e]
              k == IF over THEN s.skipped + 1 ELSE s.skipped
  <1>1. r = [s EXCEPT !.block.payload = @ \o ps, !.block.ended = e, !.skipped = IF over THEN @ + 1 ELSE @]
    BY DEF absorb
  <1>2. r = [[s EXCEPT !.block = c] EXCEPT !.skipped = k]
    BY <1>1 DEF Stream, Block
  <1>. HIDE DEF ps, e, k
  <1>3. c.id = b.id /\ c.payload = b.payload \o ps /\ c.ended = e
    BY StreamFields DEF Block
  <1>. HIDE DEF c, b
  <1>4. r.block = c /\ r.ready = s.ready /\ r.planned = s.planned
    BY <1>2 DEF Stream
  <1>. QED  BY <1>3, <1>4 DEF ps, e, b

\* What absorb does, case by case.
LEMMA AbsorbIs ==
    ASSUME NEW s \in Stream, NEW data \in Seq(Packet), NEW requested
    PROVE  LET r == absorb(s, data, requested)
               room == capacity - Len(s.block.payload)
               len == IF Len(data) > room THEN room ELSE Len(data)
           IN  /\ r.planned = s.planned
               /\ IsLeader(data) => /\ r.block = [id |-> data[1][1], payload |-> <<>>, ended |-> capacity = 0]
                                    /\ r.ready = abandon(s).ready
               /\ ~IsLeader(data) /\ s.block.id # 0 /\ IsTrailer(data) => r = finish(s, data[1][1])
               /\ ~IsLeader(data) /\ ~(s.block.id # 0 /\ IsTrailer(data)) /\ AtPayload(s) =>
                     /\ r.block.id = s.block.id /\ r.ready = s.ready
                     /\ r.block.payload = s.block.payload \o SubSeq(data, 1, len)
                     /\ r.block.ended = (Len(data) < requested \/ Len(data) >= room)
               /\ ~IsLeader(data) /\ ~(s.block.id # 0 /\ IsTrailer(data)) /\ ~AtPayload(s) =>
                     r.block = s.block /\ r.ready = s.ready
  <1>. DEFINE r == absorb(s, data, requested)
              room == capacity - Len(s.block.payload)
              over == Len(data) > room
              len == IF over THEN room ELSE Len(data)
  <1>1. CASE IsLeader(data)
    <2>. DEFINE b == [id |-> data[1][1], payload |-> <<>>, ended |-> capacity = 0]
                a == abandon(s)
    <2>1. r = [a EXCEPT !.block = b]
      BY <1>1 DEF absorb
    <2>2. a \in Stream /\ a.planned = s.planned
      <3>1. CASE s.block.id = 0
        BY <3>1 DEF abandon
      <3>2. CASE s.block.id # 0
        BY <3>2, ClosedOther
      <3>. QED  BY <3>1, <3>2
    <2>. HIDE DEF a, b
    <2>3. r.block = b /\ r.ready = a.ready /\ r.planned = a.planned
      BY <2>1, <2>2 DEF Stream
    <2>. QED  BY <1>1, <2>2, <2>3 DEF a, b
  <1>2. CASE ~IsLeader(data) /\ s.block.id # 0 /\ IsTrailer(data)
    <2>1. r = finish(s, data[1][1])
      BY <1>2 DEF absorb
    <2>. QED  BY <1>2, <2>1, PlanStays
  <1>3. CASE ~IsLeader(data) /\ ~(s.block.id # 0 /\ IsTrailer(data)) /\ AtPayload(s)
    BY <1>3, AbsorbPays
  <1>4. CASE ~IsLeader(data) /\ ~(s.block.id # 0 /\ IsTrailer(data)) /\ ~AtPayload(s)
    <2>1. r = [s EXCEPT !.skipped = @ + 1]
      BY <1>4 DEF absorb
    <2>2. r.block = s.block /\ r.ready = s.ready /\ r.planned = s.planned
      BY <2>1 DEF Stream
    <2>. QED  BY <1>4, <2>2
  <1>. QED  BY <1>1, <1>2, <1>3, <1>4

\* Data of another block goes past block n.
LEMMA AbsorbOther ==
    ASSUME NEW s \in Stream, NEW data \in Seq(Packet), NEW requested, NEW n, n # 0, s.block.id # n, NEW last,
           ~(Len(data) > 0 /\ data[1][1] = n)
    PROVE  LET r == absorb(s, data, requested)
           IN  /\ r.block.id # n
               /\ Handed(r.ready, last, n) <=> Handed(s.ready, last, n)
               /\ \A lens : Filled(s.ready, lens, n) => Filled(r.ready, lens, n)
  <1>. DEFINE r == absorb(s, data, requested)
  <1>1. CASE IsLeader(data)
    <2>0. r.block = [id |-> data[1][1], payload |-> <<>>, ended |-> capacity = 0] /\ r.ready = abandon(s).ready
      BY <1>1, AbsorbIs
    <2>. HIDE DEF r
    <2>1. r.block.id = data[1][1] /\ r.ready = abandon(s).ready
      BY <2>0
    <2>2. data[1][1] # n
      BY <1>1 DEF IsLeader
    <2>. DEFINE a == abandon(s)
    <2>3. Handed(a.ready, last, n) <=> Handed(s.ready, last, n)
      BY ClosedOther
    <2>4. \A lens : Filled(s.ready, lens, n) => Filled(a.ready, lens, n)
      BY ClosedOther
    <2>5. r.ready = a.ready /\ r.block.id # n
      BY <2>1, <2>2
    <2>. HIDE DEF a
    <2>. QED  BY <2>3, <2>4, <2>5 DEF r
  <1>2. CASE ~IsLeader(data) /\ s.block.id # 0 /\ IsTrailer(data)
    <2>1. r = finish(s, data[1][1])
      BY <1>2, AbsorbIs
    <2>. DEFINE m == data[1][1]
    <2>2. CASE m # s.block.id
      <3>1. finish(s, m) = abandon(s)
        BY <2>2 DEF finish
      <3>. HIDE DEF r, m
      <3>2. r = abandon(s)
        BY <2>1, <3>1 DEF m
      <3>. DEFINE a == abandon(s)
      <3>3. a.block.id # n
        BY ClosedOther
      <3>4. Handed(a.ready, last, n) <=> Handed(s.ready, last, n)
        BY ClosedOther
      <3>5. \A lens : Filled(s.ready, lens, n) => Filled(a.ready, lens, n)
        BY ClosedOther
      <3>6. r = a
        BY <3>2
      <3>. HIDE DEF a
      <3>. QED  BY <3>3, <3>4, <3>5, <3>6 DEF r
    <2>3. CASE m = s.block.id
      <3>. DEFINE payload == IF Len(s.block.payload) > Len_(m) THEN SubSeq(s.block.payload, 1, Len_(m)) ELSE s.block.payload
                  f == [id |-> m, payload |-> payload, valid |-> Len_(m)]
      <3>1. finish(s, m) = [s EXCEPT !.ready = Append(@, f), !.block = NoBlock, !.failures = 0]
        BY <2>3 DEF finish
      <3>. HIDE DEF payload
      <3>2. f.id = m /\ s.ready \in Seq(Frame)
        BY StreamFields
      <3>. HIDE DEF f
      <3>3. r.block = NoBlock /\ r.ready = Append(s.ready, f)
        BY <2>1, <3>1 DEF Stream
      <3>4. Handed(Append(s.ready, f), last, n) <=> Handed(s.ready, last, n)
        BY <2>3, <3>2, OtherFrame
      <3>5. \A lens : Filled(s.ready, lens, n) => Filled(Append(s.ready, f), lens, n)
        BY <2>3, <3>2, OtherFrame
      <3>. QED  BY <3>3, <3>4, <3>5, NoBlockType
    <2>. QED  BY <2>2, <2>3
  <1>3. CASE ~IsLeader(data) /\ ~(s.block.id # 0 /\ IsTrailer(data))
    <2>1. r.block.id = s.block.id /\ r.ready = s.ready
      BY <1>3, AbsorbIs
    <2>. QED  BY <2>1
  <1>. QED  BY <1>1, <1>2, <1>3

\* The oldest transfer says nothing of block n, nor does the open block.
LEMMA HeadPasses ==
    ASSUME NEW ts, NEW b, NEW rd, NEW lens, NEW last, NEW next, InOrder(ts, b, rd, lens, last, next),
           NEW n \in 1..Len(lens), NEW step, Fares(ts, step, b, rd, lens, last, next, n), ts # <<>>, Run(ts[1].data),
           b.id # n, ~(Len(ts[1].data) > 0 /\ ts[1].data[1][1] = n),
           NEW c, NEW rs, Handed(rs, last, n) <=> Handed(rd, last, n), Filled(rs, lens, n)
    PROVE  Fares(Tail(ts), step, c, rs, lens, last, next, n)
  <1>1. ts \in Seq(Transfers) /\ next \in Packet /\ BusInOrder(ts, next)
    BY DEF InOrder
  <1>2. 1 \in 1..Len(ts)
    BY <1>1
  <1>3. ts[1].data \in Seq(Packet)
    BY <1>1, <1>2, DataType
  <1>4. ASSUME NEW i, Ends(ts[1].data, <<n, i>>) PROVE FALSE
    <2>. DEFINE d == ts[1].data
    <2>1. Len(d) > 0 /\ d[Len(d)] = <<n, i>>
      BY <1>4 DEF Ends
    <2>2. d[Len(d)] = <<d[1][1], d[1][2] + Len(d) - 1>>
      BY <1>3, <2>1, RunIs
    <2>. HIDE DEF d
    <2>3. d[1][1] = n
      BY <2>1, <2>2
    <2>. QED  BY <2>1, <2>3 DEF d
  <1>5. \A i : ~Kept(b, lens, n, i)
    BY DEF Kept
  <1>6. Behind(Tail(ts), rs, lens, last, next, n)
    <2>1. Ahead(Tail(ts), next) \subseteq Ahead(ts, next)
      BY <1>1, BusTail
    <2>2. Behind(ts, rd, lens, last, next, n)
      BY DEF Fares
    <2>. QED  BY <2>1, <2>2 DEF Behind
  <1>7. ~Ends(ts[1].data, End(lens, n))
    BY <1>4 DEF End
  <1>8. \A i \in Nat : i <= lens[n] =>
              /\ Ends(ts[1].data, <<n, i>>) => Kept(c, lens, n, i)
              /\ Kept(b, lens, n, i) /\ ~(Len(ts[1].data) > 0 /\ ts[1].data[1][1] = n) => Kept(c, lens, n, i)
    BY <1>4, <1>5
  <1>9. Handed(rd, last, n) \/ Ends(ts[1].data, End(lens, n)) => Handed(rs, last, n)
    BY <1>7
  <1>. QED  BY <1>6, <1>8, <1>9, HeadGone

\* The packets of block n that the oldest transfer has.
LEMMA HeadOf ==
    ASSUME NEW ts, NEW b, NEW rd, NEW lens, NEW last, NEW next, InOrder(ts, b, rd, lens, last, next),
           NEW n \in 1..Len(lens), Chained(ts, b, lens, n), ts # <<>>, Run(ts[1].data),
           Len(ts[1].data) > 0, ts[1].data[1][1] = n
    PROVE  LET d == ts[1].data
               i == d[1][2]
           IN  /\ d \in Seq(Packet) /\ Len(d) \in Nat /\ Len(d) >= 1 /\ i \in Nat /\ d[1] = <<n, i>>
               /\ d[Len(d)] = <<n, i + Len(d) - 1>>
               /\ \A k : Ends(d, <<n, k>>) => k = i + Len(d) - 1
               /\ i + Len(d) - 1 <= lens[n] + 1
               /\ i = 0 \/ i + Len(d) - 1 = lens[n] + 1 => Len(d) = 1
               /\ i # 0 => Kept(b, lens, n, i - 1)
               /\ d[1] \in Ahead(ts, next) /\ \A y \in Ahead(Tail(ts), next) : Apart(d[1], y, 1)
               /\ lens[n] \in Nat /\ n # 0
  <1>. DEFINE d == ts[1].data
              i == d[1][2]
  <1>1. ts \in Seq(Transfers) /\ next \in Packet /\ BusInOrder(ts, next) /\ lens \in Seq(Nat)
    BY DEF InOrder
  <1>2. 1 \in 1..Len(ts) /\ Head(ts) = ts[1]
    BY <1>1
  <1>3. d \in Seq(Packet) /\ Len(d) \in Nat
    BY <1>1, <1>2, DataType
  <1>4. Len(d) >= 1 /\ 1 \in 1..Len(d)
    BY <1>3
  <1>5. d[1] \in Packet /\ d[Len(d)] = <<n, i + Len(d) - 1>>
    BY <1>3, RunIs
  <1>6. i \in Nat /\ d[1] = <<n, i>>
    <2>. HIDE DEF d
    <2>1. d[1][1] = n
      BY DEF d
    <2>. QED  BY <1>5, <2>1 DEF Packet
  <1>7. /\ i + Len(d) - 1 <= lens[n] + 1
        /\ i = 0 \/ i + Len(d) - 1 = lens[n] + 1 => Len(d) = 1
        /\ i # 0 => Before(ts, 1, b, lens, n, i - 1)
    BY <1>2, ChainedAt
  <1>8. i # 0 => Kept(b, lens, n, i - 1)
    BY <1>7 DEF Before
  <1>9. d[1] \in Ahead(ts, next) /\ \A y \in Ahead(Tail(ts), next) : Apart(d[1], y, 1)
    BY <1>1, <1>2, <1>4, BusTail
  <1>. HIDE DEF i, d
  <1>10. ASSUME NEW k, Ends(d, <<n, k>>) PROVE k = i + Len(d) - 1
    BY <1>5, <1>10 DEF Ends
  <1>11. lens[n] \in Nat /\ n # 0
    BY <1>1
  <1>. QED  BY <1>3, <1>4, <1>5, <1>6, <1>7, <1>8, <1>9, <1>10, <1>11 DEF i, d

\* The oldest transfer is the leader of a sound block.
LEMMA HeadLeads ==
    ASSUME NEW ts, NEW s \in Stream, dev.lens \in Seq(Nat), NEW last, NEW next,
           InOrder(ts, s.block, s.ready, dev.lens, last, next),
           NEW n \in 1..Len(dev.lens), NEW step, Fares(ts, step, s.block, s.ready, dev.lens, last, next, n),
           ts # <<>>, Run(ts[1].data), Len(ts[1].data) > 0, ts[1].data[1] = <<n, 0>>, NEW requested
    PROVE  LET r == absorb(s, ts[1].data, requested)
           IN  Fares(Tail(ts), step, r.block, r.ready, dev.lens, last, next, n)
  <1>. DEFINE d == ts[1].data
              r == absorb(s, d, requested)
              lens == dev.lens
              a == abandon(s)
  <1>1. Chained(ts, s.block, lens, n) /\ Fits(lens, n) /\ Filled(s.ready, lens, n)
        /\ Behind(ts, s.ready, lens, last, next, n)
    BY DEF Fares
  <1>2. d[1][1] = n /\ d[1][2] = 0
    OBVIOUS
  <1>3. /\ d \in Seq(Packet) /\ Len(d) = 1 /\ lens[n] \in Nat /\ n # 0 /\ d[1] \in Ahead(ts, next)
        /\ \A k : Ends(d, <<n, k>>) => k = 0
    <2>1. /\ d \in Seq(Packet) /\ Len(d) = 1 /\ lens[n] \in Nat /\ n # 0 /\ d[1] \in Ahead(ts, next)
          /\ \A k : Ends(d, <<n, k>>) => k = 0 + Len(d) - 1
      BY <1>1, <1>2, HeadOf
    <2>. HIDE DEF d
    <2>. QED  BY <2>1
  <1>4. s.block.id # n
    <2>1. ASSUME s.block.id = n PROVE FALSE
      <3>1. Apart(<<n, 0>>, d[1], 1)
        BY <1>3, <2>1, OpenIsLed
      <3>. QED  BY <1>2, <3>1, <1>3 DEF Apart
    <2>. QED  BY <2>1
  <1>5. r.block = [id |-> d[1][1], payload |-> <<>>, ended |-> capacity = 0] /\ r.ready = a.ready
    <2>1. IsLeader(d)
      BY <1>2, <1>3 DEF IsLeader
    <2>. QED  BY <1>3, <2>1, AbsorbIs
  <1>6. Handed(a.ready, last, n) <=> Handed(s.ready, last, n)
    BY <1>4, ClosedOther
  <1>7. Filled(a.ready, lens, n)
    BY <1>1, <1>4, ClosedOther
  <1>. HIDE DEF a, r, d
  <1>8. Kept(r.block, lens, n, 0)
    <2>1. r.block.id = n /\ Len(r.block.payload) = 0 /\ r.block.ended = (capacity = 0)
      BY <1>2, <1>5
    <2>2. capacity # 0
      BY <1>1, <1>3 DEF Fits
    <2>. QED  BY <2>1, <2>2 DEF Kept
  <1>9. \A i \in Nat : i <= lens[n] =>
              /\ Ends(d, <<n, i>>) => Kept(r.block, lens, n, i)
              /\ Kept(s.block, lens, n, i) /\ ~(Len(d) > 0 /\ d[1][1] = n) => Kept(r.block, lens, n, i)
    BY <1>2, <1>3, <1>8
  <1>10. ~Ends(d, End(lens, n))
    <2>1. lens[n] + 1 # 0
      BY <1>3
    <2>. QED  BY <1>3, <2>1 DEF End
  <1>11. Behind(Tail(ts), r.ready, lens, last, next, n)
    <2>1. ts \in Seq(Transfers) /\ next \in Packet /\ BusInOrder(ts, next)
      BY DEF InOrder
    <2>2. Ahead(Tail(ts), next) \subseteq Ahead(ts, next)
      BY <2>1, BusTail
    <2>. QED  BY <1>1, <1>5, <1>6, <2>2 DEF Behind
  <1>12. Handed(s.ready, last, n) \/ Ends(d, End(lens, n)) => Handed(r.ready, last, n)
    BY <1>5, <1>6, <1>10
  <1>13. Filled(r.ready, lens, n)
    BY <1>5, <1>7
  <1>14. Fares(Tail(ts), step, r.block, r.ready, lens, last, next, n)
    BY <1>9, <1>11, <1>12, <1>13, HeadGone DEF d
  <1>. QED  BY <1>14 DEF r, d

\* The oldest transfer is the trailer of a sound block.
LEMMA HeadTrails ==
    ASSUME NEW ts, NEW s \in Stream, dev.lens \in Seq(Nat), NEW last, NEW next,
           InOrder(ts, s.block, s.ready, dev.lens, last, next),
           NEW n \in 1..Len(dev.lens), NEW step, Fares(ts, step, s.block, s.ready, dev.lens, last, next, n),
           ts # <<>>, Run(ts[1].data), Len(ts[1].data) > 0, ts[1].data[1] = <<n, Len_(n) + 1>>, NEW requested
    PROVE  LET r == absorb(s, ts[1].data, requested)
           IN  Fares(Tail(ts), step, r.block, r.ready, dev.lens, last, next, n)
  <1>. DEFINE d == ts[1].data
              r == absorb(s, d, requested)
              lens == dev.lens
              len == lens[n]
              rd == s.ready
              f == [id |-> n, payload |-> s.block.payload, valid |-> Len_(n)]
  <1>1. Chained(ts, s.block, lens, n) /\ Filled(rd, lens, n)
    BY DEF Fares
  <1>2. len \in Nat /\ n \in Nat /\ n # 0
    OBVIOUS
  <1>3. d[1][1] = n /\ d[1][2] = len + 1 /\ d[1] = End(lens, n)
    BY DEF Len_, End
  <1>4. /\ d \in Seq(Packet) /\ Len(d) = 1 /\ Kept(s.block, lens, n, len)
        /\ \A k : Ends(d, <<n, k>>) => k = len + 1
        /\ \A y \in Ahead(Tail(ts), next) : Apart(End(lens, n), y, 1)
    <2>. DEFINE i == d[1][2]
    <2>0. d[1][1] = n
      BY <1>3
    <2>10. Len(d) > 0 /\ n \in 1..Len(lens) /\ InOrder(ts, s.block, s.ready, lens, last, next) /\ ts # <<>> /\ Run(d)
      OBVIOUS
    <2>11. d \in Seq(Packet) /\ Len(d) \in Nat /\ Len(d) >= 1 /\ i \in Nat
      BY <1>1, <2>0, HeadOf
    <2>12. i + Len(d) - 1 <= lens[n] + 1
      BY <1>1, <2>0, HeadOf
    <2>13. i + Len(d) - 1 = lens[n] + 1 => Len(d) = 1
      BY <1>1, <2>0, HeadOf, SMTT(60)
    <2>14. i + Len(d) - 1 <= len + 1 /\ (i + Len(d) - 1 = len + 1 => Len(d) = 1)
      <3>1. len = lens[n]
        OBVIOUS
      <3>. HIDE DEF i, d, len
      <3>. QED  BY <2>12, <2>13, <3>1
    <2>15. i # 0 => Kept(s.block, lens, n, i - 1)
      BY <1>1, <2>0, <2>10, HeadOf
    <2>16. \A k : Ends(d, <<n, k>>) => k = i + Len(d) - 1
      BY <1>1, <2>0, HeadOf
    <2>17. \A y \in Ahead(Tail(ts), next) : Apart(d[1], y, 1)
      BY <1>1, <2>0, HeadOf
    <2>2. i = len + 1
      BY <1>3
    <2>3. \A y \in Ahead(Tail(ts), next) : Apart(End(lens, n), y, 1)
      BY <1>3, <2>17
    <2>. HIDE DEF d, i, len
    <2>4. Len(d) = 1
      BY <1>2, <2>11, <2>14, <2>2
    <2>5. i # 0 /\ i - 1 = len
      BY <1>2, <2>2
    <2>6. \A k : Ends(d, <<n, k>>) => k = len + 1
      <3>1. i + Len(d) - 1 = len + 1
        BY <1>2, <2>2, <2>4
      <3>. QED  BY <2>16, <3>1
    <2>7. Kept(s.block, lens, n, len)
      BY <2>15, <2>5
    <2>. QED  BY <2>11, <2>3, <2>4, <2>6, <2>7
  <1>5. s.block.id = n /\ Len(s.block.payload) = len
    BY <1>4 DEF Kept
  <1>6. r = finish(s, d[1][1])
    <2>1. ~IsLeader(d)
      <3>1. d[1][2] # 0
        BY <1>2, <1>3
      <3>. QED  BY <3>1 DEF IsLeader
    <2>2. IsTrailer(d)
      BY <1>3, <1>4 DEF IsTrailer, Len_
    <2>3. s.block.id # 0 /\ d \in Seq(Packet)
      BY <1>2, <1>4, <1>5
    <2>. QED  BY <2>1, <2>2, <2>3 DEF absorb
  <1>7. f \in Frame /\ r.block = NoBlock /\ r.ready = Append(rd, f)
    <2>1. n = s.block.id /\ Len_(n) \in Nat /\ Len(s.block.payload) <= Len_(n)
      BY <1>2, <1>5 DEF Len_
    <2>2. r = finish(s, n)
      BY <1>3, <1>6
    <2>. HIDE DEF r
    <2>. QED  BY <2>1, <2>2, FinishIs
  <1>8. f.id = n /\ f.valid = len /\ Len(f.payload) >= len
    BY <1>2, <1>5 DEF Len_
  <1>. HIDE DEF f, r, d
  <1>9. ~Handed(rd, last, n)
    BY <1>2, <1>5, OpenIsLed
  <1>10. rd \in Seq(Frame)
    BY StreamFields
  <1>. DEFINE rs == Append(rd, f)
              m == Len(rd)
  <1>11. /\ m \in Nat /\ Len(rs) = m + 1 /\ rs[m + 1] = f
         /\ \A k \in 1..m : rs[k] = rd[k]
         /\ \A k \in 1..Len(rs) : k \in 1..m \/ k = m + 1
         /\ m + 1 \in 1..Len(rs)
    BY <1>10
  <1>. HIDE DEF rs, m
  <1>12. Handed(rs, last, n)
    BY <1>8, <1>11 DEF Handed
  <1>13. Filled(rs, lens, n)
    <2>. HIDE DEF len
    <2>1. ASSUME NEW k \in 1..Len(rs), rs[k].id = n PROVE rs[k] = f
      <3>1. CASE k \in 1..m
        <4>1. rd[k].id = n
          BY <1>11, <2>1, <3>1
        <4>. QED  BY <1>9, <3>1, <4>1 DEF Handed, m
      <3>2. CASE k = m + 1
        BY <1>11, <3>2
      <3>. QED  BY <1>11, <3>1, <3>2
    <2>. QED  BY <1>8, <2>1 DEF Filled, len
  <1>14. Behind(Tail(ts), rs, lens, last, next, n)
    BY <1>4 DEF Behind
  <1>15. \A i \in Nat : i <= lens[n] =>
              /\ Ends(d, <<n, i>>) => Kept(r.block, lens, n, i)
              /\ Kept(s.block, lens, n, i) /\ ~(Len(d) > 0 /\ d[1][1] = n) => Kept(r.block, lens, n, i)
    <2>1. ASSUME NEW i \in Nat, i <= lens[n], Ends(d, <<n, i>>) PROVE FALSE
      <3>1. i = len + 1
        BY <1>4, <2>1
      <3>. QED  BY <1>2, <2>1, <3>1
    <2>2. Len(d) > 0
      BY <1>4
    <2>. QED  BY <1>3, <2>1, <2>2
  <1>16. r.ready = rs
    BY <1>7 DEF rs
  <1>17. Fares(Tail(ts), step, r.block, rs, lens, last, next, n)
    BY <1>12, <1>13, <1>14, <1>15, HeadGone DEF d
  <1>. QED  BY <1>16, <1>17 DEF r, d

\* Block n has grown, up to packet e.
Grown(c, b, n, e) == c.id = n /\ Len(c.payload) = e /\ c.payload # b.payload

\* The oldest transfer has payload of a sound block: it goes on the payload before it.
LEMMA HeadPays ==
    ASSUME NEW ts, NEW s \in Stream, dev.lens \in Seq(Nat), NEW last, NEW next,
           InOrder(ts, s.block, s.ready, dev.lens, last, next),
           NEW n \in 1..Len(dev.lens), Chained(ts, s.block, dev.lens, n), Fits(dev.lens, n),
           ts # <<>>, Run(ts[1].data), Len(ts[1].data) > 0, ts[1].data[1][1] = n,
           ts[1].data[1][2] # 0, ts[1].data[1] # <<n, Len_(n) + 1>>, NEW requested \in Int
    PROVE  LET d == ts[1].data
               r == absorb(s, d, requested)
               e == d[Len(d)][2]
           IN  /\ s.block.id = n /\ e \in 1..dev.lens[n] /\ d[Len(d)] = <<n, e>>
               /\ \A k : Ends(d, <<n, k>>) => k = e
               /\ r.ready = s.ready /\ Grown(r.block, s.block, n, e)
               /\ r.block.ended => e = dev.lens[n] \/ Len(d) < requested
  <1>. DEFINE d == ts[1].data
              r == absorb(s, d, requested)
              lens == dev.lens
              len == lens[n]
              i == d[1][2]
              l == Len(d)
              e == i + l - 1
              b == s.block
              room == capacity - Len(b.payload)
              some == IF Len(d) > room THEN room ELSE Len(d)
  <1>1. d[1][1] = n /\ i # 0 /\ d[1] # <<n, len + 1>>
    BY DEF Len_
  <1>2. /\ d \in Seq(Packet) /\ l \in Nat /\ l >= 1 /\ i \in Nat /\ d[1] = <<n, i>> /\ d[l] = <<n, e>>
        /\ \A k : Ends(d, <<n, k>>) => k = e
        /\ e <= len + 1
        /\ e = len + 1 => l = 1
        /\ i # 0 => Kept(b, lens, n, i - 1)
        /\ len \in Nat /\ n # 0
    <2>1. d \in Seq(Packet) /\ l \in Nat /\ l >= 1 /\ i \in Nat /\ d[1] = <<n, i>>
      BY <1>1, HeadOf, SMTT(60)
    <2>2. d[l] = <<n, e>>
      BY <1>1, HeadOf
    <2>3. \A k : Ends(d, <<n, k>>) => k = e
      BY <1>1, HeadOf
    <2>4. e <= len + 1
      BY <1>1, HeadOf
    <2>5. e = len + 1 => l = 1
      BY <1>1, HeadOf
    <2>6. i # 0 => Kept(b, lens, n, i - 1)
      BY <1>1, HeadOf
    <2>7. len \in Nat /\ n # 0
      BY <1>1, HeadOf
    <2>. HIDE DEF d, l, i, e, len, b, lens
    <2>. QED  BY <2>1, <2>2, <2>3, <2>4, <2>5, <2>6, <2>7
  <1>3. b.payload \in Seq(Packet) /\ Len(b.payload) \in Nat
    <2>1. b.payload \in Seq(Packet)
      BY StreamFields
    <2>. QED  BY <2>1
  <1>4. len <= capacity
    BY DEF Fits
  <1>5. b.id = n /\ Len(b.payload) = i - 1 /\ (b.ended => i - 1 = len)
    BY <1>1, <1>2 DEF Kept
  <1>. HIDE DEF len, i, l, b, d, lens
  <1>6. i # len + 1
    BY <1>1, <1>2
  <1>7. e <= len /\ e >= i /\ i >= 1
    <2>. HIDE DEF e
    <2>1. e = i + l - 1
      BY DEF e
    <2>. QED  BY <1>1, <1>2, <1>6, <2>1
  <1>8. capacity \in Int
    BY U3vAssumption DEF capacity
  <1>9. room \in Int /\ room = capacity - (i - 1) /\ l <= room /\ room >= 1
    BY <1>1, <1>2, <1>4, <1>5, <1>7, <1>8
  <1>10. ~b.ended /\ Len(b.payload) < capacity
    BY <1>1, <1>2, <1>4, <1>5, <1>7, <1>8, SMTT(60)
  <1>11. some = l
    BY <1>2, <1>9 DEF l
  <1>. HIDE DEF room, some
  <1>12. r.block.id = b.id /\ r.ready = s.ready /\ r.block.payload = b.payload \o SubSeq(d, 1, some)
         /\ r.block.ended = (Len(d) < requested \/ Len(d) >= room)
    <2>1. ~IsLeader(d)
      BY <1>1 DEF IsLeader, i
    <2>2. ~IsTrailer(d)
      <3>1. d[1][2] # Len_(d[1][1]) + 1
        BY <1>1, <1>6 DEF i, len, Len_, lens
      <3>. QED  BY <3>1 DEF IsTrailer
    <2>3. AtPayload(s)
      BY <1>2, <1>5, <1>10 DEF AtPayload, b
    <2>4. d \in Seq(Packet)
      BY <1>2
    <2>5. r.block.id = b.id /\ r.ready = s.ready
      BY <2>1, <2>2, <2>3, <2>4, AbsorbPays DEF b
    <2>6. r.block.payload = b.payload \o SubSeq(d, 1, some)
      BY <2>1, <2>2, <2>3, <2>4, AbsorbPays DEF b, some, room
    <2>7. r.block.ended = (Len(d) < requested \/ Len(d) >= room)
      BY <2>1, <2>2, <2>3, <2>4, AbsorbPays DEF b, room
    <2>. QED  BY <2>5, <2>6, <2>7
  <1>. HIDE DEF r
  <1>13. SubSeq(d, 1, some) = d
    BY <1>2, <1>11 DEF l
  <1>14. r.block.payload = b.payload \o d
    BY <1>12, <1>13
  <1>15. Len(r.block.payload) = Len(b.payload) + Len(d)
    BY <1>2, <1>3, <1>14
  <1>16. Len(r.block.payload) = e
    BY <1>2, <1>5, <1>15 DEF l
  <1>17. r.block.payload # b.payload
    <2>1. Len(r.block.payload) # Len(b.payload)
      BY <1>2, <1>3, <1>15 DEF l
    <2>. QED  BY <2>1
  <1>18. r.block.ended => e = len \/ Len(d) < requested
    <2>1. ASSUME Len(d) >= room PROVE e = len
      <3>1. l >= room
        BY <2>1 DEF l
      <3>. QED  BY <1>2, <1>4, <1>7, <1>8, <1>9, <3>1
    <2>. QED  BY <1>12, <2>1
  <1>19. e \in 1..len
    <2>1. e \in Int
      BY <1>2
    <2>. HIDE DEF e
    <2>. QED  BY <1>2, <1>7, <2>1
  <1>. HIDE DEF e
  <1>20. /\ b.id = n /\ e \in 1..len /\ d[l] = <<n, e>> /\ \A k : Ends(d, <<n, k>>) => k = e
    BY <1>2, <1>5, <1>19
  <1>21. r.block.id = n
    BY <1>5, <1>12
  <1>22. e = d[l][2]
    BY <1>20
  <1>. DEFINE g == d[l][2]
  <1>23. /\ b.id = n /\ g \in 1..len /\ d[l] = <<n, g>> /\ \A k : Ends(d, <<n, k>>) => k = g
         /\ r.ready = s.ready /\ Grown(r.block, b, n, g)
         /\ r.block.ended => g = len \/ Len(d) < requested
    BY <1>12, <1>16, <1>17, <1>18, <1>20, <1>21, <1>22 DEF Grown
  <1>. QED  BY <1>23 DEF d, r, b, len, l, lens

\* The oldest transfer is done, and is taken in: a sound block fares on.
LEMMA HeadTakenIn ==
    ASSUME NEW ts, NEW s \in Stream, dev.lens \in Seq(Nat), NEW last, NEW next,
           InOrder(ts, s.block, s.ready, dev.lens, last, next),
           NEW n \in 1..Len(dev.lens), NEW step, Fares(ts, step, s.block, s.ready, dev.lens, last, next, n),
           ts # <<>>, Shape(ts[1], dev.lens, next), ts[1].status = "ok"
    PROVE  LET r == absorb(s, ts[1].data, ts[1].len)
           IN  Fares(Tail(ts), step, r.block, r.ready, dev.lens, last, next, n)
  <1>. DEFINE d == ts[1].data
              lens == dev.lens
              r == absorb(s, d, ts[1].len)
  <1>1. /\ Run(d) /\ Len(d) > 0 /\ (Len(d) = ts[1].len \/ Short(lens, d[Len(d)]))
    BY DEF Shape
  <1>2. Chained(ts, s.block, lens, n) /\ Fits(lens, n) /\ Filled(s.ready, lens, n)
        /\ Behind(ts, s.ready, lens, last, next, n)
    BY DEF Fares
  <1>3. ts \in Seq(Transfers) /\ next \in Packet /\ BusInOrder(ts, next) /\ Len(ts) > 0 /\ n # 0
    BY DEF InOrder
  <1>4. ts[1] \in Transfers /\ ts[1].len \in Int /\ d \in Seq(Packet)
    <2>1. 1 \in 1..Len(ts)
      BY <1>3
    <2>2. ts[1] \in Transfers /\ d \in Seq(Packet)
      BY <1>3, <2>1, DataType
    <2>. QED  BY <2>2 DEF Transfers
  <1>5. CASE d[1][1] # n
    <2>1. s.block.id # n
      <3>1. ASSUME s.block.id = n PROVE FALSE
        <4>1. s.block.id # 0 /\ Ended(ts, s.ready, lens, last, next, s.block.id) /\ Chained(ts, s.block, lens, s.block.id)
          BY <1>3, <3>1 DEF Fares
        <4>2. d[1][1] = s.block.id
          BY <1>1, <1>3, <4>1, HeadBelongs
        <4>. QED  BY <1>5, <3>1, <4>2
      <3>. QED  BY <3>1
    <2>2. Handed(r.ready, last, n) <=> Handed(s.ready, last, n)
      BY <1>3, <1>4, <1>5, <2>1, AbsorbOther
    <2>3. Filled(r.ready, lens, n)
      BY <1>2, <1>3, <1>4, <1>5, <2>1, AbsorbOther
    <2>4. ~(Len(d) > 0 /\ d[1][1] = n)
      BY <1>5
    <2>. HIDE DEF r
    <2>5. Fares(Tail(ts), step, r.block, r.ready, lens, last, next, n)
      BY <1>1, <2>1, <2>2, <2>3, <2>4, HeadPasses
    <2>. QED  BY <2>5 DEF r
  <1>6. CASE d[1][1] = n /\ d[1][2] = 0
    <2>1. d[1] \in Packet
      BY <1>1, <1>4, RunIs
    <2>2. d[1] = <<n, 0>>
      BY <1>6, <2>1 DEF Packet
    <2>. QED  BY <1>1, <2>2, HeadLeads
  <1>7. CASE d[1] = <<n, Len_(n) + 1>>
    BY <1>1, <1>7, HeadTrails
  <1>8. CASE d[1][1] = n /\ d[1][2] # 0 /\ d[1] # <<n, Len_(n) + 1>>
    <2>. DEFINE e == d[Len(d)][2]
    <2>1. /\ s.block.id = n /\ e \in 1..lens[n] /\ d[Len(d)] = <<n, e>>
          /\ \A k : Ends(d, <<n, k>>) => k = e
          /\ r.block.id = n /\ r.ready = s.ready /\ Len(r.block.payload) = e
          /\ r.block.ended => e = lens[n] \/ Len(d) < ts[1].len
      <3>1. s.block.id = n /\ e \in 1..lens[n] /\ d[Len(d)] = <<n, e>>
        <4>1. 0 \in Int
          OBVIOUS
        <4>2. s.block.id = n
          BY <1>1, <1>2, <1>8, <4>1, HeadPays
        <4>3. e \in 1..lens[n]
          BY <1>1, <1>2, <1>8, <4>1, HeadPays
        <4>4. d[Len(d)] = <<n, e>>
          BY <1>1, <1>2, <1>8, <4>1, HeadPays, ZenonT(60)
        <4>. QED  BY <4>2, <4>3, <4>4
      <3>2. \A k : Ends(d, <<n, k>>) => k = e
        BY <1>1, <1>2, <1>4, <1>8, HeadPays
      <3>. DEFINE q == ts[1].len
                  v == absorb(s, d, q)
      <3>3. q \in Int
        BY <1>4
      <3>4. r = v
        OBVIOUS
      <3>. HIDE DEF q, r
      <3>5. v.ready = s.ready
        BY <1>1, <1>2, <1>8, <3>3, HeadPays
      <3>7. Grown(v.block, s.block, n, e)
        BY <1>1, <1>2, <1>8, <3>3, HeadPays, ZenonT(60)
      <3>6. v.block.ended => e = lens[n] \/ Len(d) < q
        BY <1>1, <1>2, <1>8, <3>3, HeadPays
      <3>. HIDE DEF d, e, v
      <3>. QED  BY <3>1, <3>2, <3>4, <3>5, <3>6, <3>7 DEF q, Grown
    <2>. HIDE DEF e, r
    <2>2. lens[n] \in Nat
      OBVIOUS
    <2>3. ASSUME Short(lens, d[Len(d)]) PROVE e = lens[n]
      <3>. DEFINE p == d[Len(d)]
      <3>1. p[1] = n /\ p[2] = e
        BY <2>1
      <3>. HIDE DEF p, d
      <3>2. e \in {0, lens[n] + 1} \/ e = lens[n]
        BY <2>3, <3>1 DEF Short, p
      <3>3. e # 0 /\ e # lens[n] + 1
        BY <2>1, <2>2
      <3>. QED  BY <3>2, <3>3
    <2>4. r.block.ended => e = lens[n]
      <3>1. Len(d) < ts[1].len => Len(d) # ts[1].len
        BY <1>4
      <3>. QED  BY <1>1, <2>1, <2>3, <3>1
    <2>5. Kept(r.block, lens, n, e)
      BY <2>1, <2>4 DEF Kept
    <2>6. \A i \in Nat : i <= lens[n] =>
              /\ Ends(d, <<n, i>>) => Kept(r.block, lens, n, i)
              /\ Kept(s.block, lens, n, i) /\ ~(Len(d) > 0 /\ d[1][1] = n) => Kept(r.block, lens, n, i)
      BY <1>1, <1>8, <2>1, <2>5
    <2>7. ~Ends(d, End(lens, n))
      <3>1. e # lens[n] + 1
        BY <2>1, <2>2
      <3>. QED  BY <2>1, <3>1 DEF End
    <2>8. Behind(Tail(ts), r.ready, lens, last, next, n)
      <3>1. Ahead(Tail(ts), next) \subseteq Ahead(ts, next)
        BY <1>3, BusTail
      <3>. QED  BY <1>2, <2>1, <3>1 DEF Behind
    <2>9. Handed(s.ready, last, n) \/ Ends(d, End(lens, n)) => Handed(r.ready, last, n)
      BY <2>1, <2>7
    <2>10. Filled(r.ready, lens, n)
      BY <1>2, <2>1
    <2>11. Fares(Tail(ts), step, r.block, r.ready, lens, last, next, n)
      BY <1>1, <2>6, <2>8, <2>9, <2>10, HeadGone
    <2>. QED  BY <2>11 DEF r
  <1>. QED  BY <1>5, <1>6, <1>7, <1>8

\* The oldest transfer was cancelled with payload of a sound block: replanning cuts it.
LEMMA HeadCut ==
    ASSUME NEW ts, NEW s \in Stream, dev.lens \in Seq(Nat), NEW last, NEW next,
           InOrder(ts, s.block, s.ready, dev.lens, last, next),
           NEW n \in 1..Len(dev.lens), NEW step, Fares(ts, step, s.block, s.ready, dev.lens, last, next, n),
           ts # <<>>, Shape(ts[1], dev.lens, next), ts[1].status # "ok", Len(ts[1].data) > 0, ts[1].data[1][1] = n,
           NEW requested \in Int
    PROVE  LET r == absorb(s, ts[1].data, requested)
           IN  r.block.id = n /\ n # 0 /\ r.block.payload # s.block.payload
  <1>. DEFINE d == ts[1].data
              lens == dev.lens
              r == absorb(s, d, requested)
              l == Len(d)
  <1>1. Run(d) /\ ~Short(lens, d[l]) /\ Chained(ts, s.block, lens, n) /\ Fits(lens, n) /\ n # 0
    BY DEF Shape, Fares
  <1>2. /\ d[l] = <<n, d[1][2] + l - 1>>
        /\ d[1][2] = 0 => l = 1
        /\ d[1][2] \in Nat
    BY <1>1, HeadOf
  <1>3. d[1][2] # 0
    <2>1. ASSUME d[1][2] = 0 PROVE FALSE
      <3>1. d[l] = d[1]
        BY <1>2, <2>1
      <3>2. d[l][2] = 0
        BY <2>1, <3>1
      <3>. QED  BY <1>1, <3>2 DEF Short
    <2>. QED  BY <2>1
  <1>4. d[1] # <<n, Len_(n) + 1>>
    <2>1. ASSUME d[1] = <<n, Len_(n) + 1>> PROVE FALSE
      <3>1. d[1][2] = lens[n] + 1 /\ d[1][1] = n
        BY <2>1 DEF Len_
      <3>2. l = 1
        <4>1. /\ d[1][2] + l - 1 <= lens[n] + 1 /\ l \in Nat /\ l >= 1 /\ lens[n] \in Nat
          BY <1>1, <3>1, HeadOf
        <4>. HIDE DEF d, l
        <4>. QED  BY <3>1, <4>1
      <3>3. Short(lens, d[l])
        BY <3>1, <3>2 DEF Short
      <3>. QED  BY <1>1, <3>3
    <2>. QED  BY <2>1
  <1>5. Grown(r.block, s.block, n, d[l][2])
    BY <1>1, <1>3, <1>4, HeadPays, ZenonT(60)
  <1>. QED  BY <1>1, <1>5 DEF Grown

-----------------------------------------------------------------------------
(* The steps. *)

\* Unless a block is added to what the device sends, it is enough that a stream that goes
\* on is undisturbed.
LEMMA LossKeeps ==
    ASSUME LossInv, dev'.lens = dev.lens, reader' = reader, harmed \subseteq harmed', cut \subseteq cut',
           at = "ended" => at' = "ended",
           Steady' /\ Undisturbed => Undisturbed'
    PROVE  LossInv'
  <1>1. Sending' <= MaxBlocks
    BY DEF LossInv, Sending
  <1>2. Delivers(dev'.lens, harmed' \cup cut', reader')
    BY DEF LossInv, Delivers, Sound
  <1>3. Steady' => Steady
    BY DEF Steady
  <1>4. Steady => Undisturbed
    BY DEF LossInv
  <1>5. Steady' => Undisturbed'
    BY <1>3, <1>4
  <1>. QED  BY <1>1, <1>2, <1>5 DEF LossInv

\* A block is sound now that is sound after the step.
LEMMA SoundBefore ==
    ASSUME dev'.lens = dev.lens, harmed \subseteq harmed', cut \subseteq cut',
           NEW n \in Sound(dev.lens, harmed' \cup cut')
    PROVE  n \in Sound(dev.lens, harmed \cup cut) /\ n \notin harmed' /\ n \notin cut'
           /\ n \in 1..Len(dev.lens)
  BY DEF Sound

\* One transfer more is queued.
LEMMA FaresAppend ==
    ASSUME NEW ts \in Seq(Transfers), NEW t, t.data = <<>>, t.status = "open", NEW step,
           NEW b, NEW rd, NEW lens, NEW last, NEW next, NEW n, Fares(ts, step, b, rd, lens, last, next, n)
    PROVE  Fares(Append(ts, t), step, b, rd, lens, last, next, n)
  <1>. DEFINE us == Append(ts, t)
              l == Len(ts)
  <1>1. /\ l \in Nat /\ Len(us) = l + 1 /\ us[l + 1] = t
        /\ \A j \in 1..l : us[j] = ts[j] /\ j \in 1..Len(us)
        /\ \A j \in 1..Len(us) : j \in 1..l \/ j = l + 1
    OBVIOUS
  <1>2. Len(t.data) = 0
    OBVIOUS
  <1>. HIDE DEF us, l
  <1>3. ASSUME NEW j \in 1..(l + 1), NEW k \in 1..(l + 2), j <= k, NEW i, Before(ts, j, b, lens, n, i)
        PROVE  Before(us, k, b, lens, n, i)
    <2>1. \A h \in 1..(j - 1) : h \in 1..l /\ h \in 1..(k - 1)
      BY <1>1, <1>3
    <2>2. \A h \in 1..l : us[h] = ts[h]
      BY <1>1
    <2>. QED  BY <1>3, <2>1, <2>2 DEF Before
  <1>4. Chained(us, b, lens, n)
    <2>1. \A j \in 1..Len(us) : Len(us[j].data) > 0 => j \in 1..l /\ us[j] = ts[j]
      BY <1>1, <1>2
    <2>2. ASSUME NEW j \in 1..l, NEW i, Before(ts, j, b, lens, n, i) PROVE Before(us, j, b, lens, n, i)
      <3>1. j \in 1..(l + 1) /\ j \in 1..(l + 2) /\ j <= j
        BY <1>1
      <3>. QED  BY <1>3, <2>2, <3>1
    <2>3. Chained(ts, b, lens, n)
      BY DEF Fares
    <2>. QED  BY <2>1, <2>2, <2>3, Zenon DEF Chained, l
  <1>5. NextChained(us, b, lens, next, n)
    <2>1. l + 1 \in 1..(l + 1) /\ l + 2 \in 1..(l + 2) /\ l + 1 <= l + 2 /\ Len(us) + 1 = l + 2
      BY <1>1
    <2>2. NextChained(ts, b, lens, next, n)
      BY DEF Fares
    <2>. QED  BY <1>3, <2>1, <2>2 DEF NextChained, l
  <1>6. Ended(us, rd, lens, last, next, n)
    <2>1. \A j \in 1..l : us[j] = ts[j] /\ j \in 1..Len(us)
      BY <1>1
    <2>. QED  BY <2>1 DEF Fares, Ended, l
  <1>7. Behind(us, rd, lens, last, next, n)
    <2>1. \A j \in 1..Len(us) : \A k \in 1..Len(us[j].data) : j \in 1..l /\ us[j] = ts[j]
      BY <1>1, <1>2
    <2>2. ASSUME NEW y \in Ahead(us, next) PROVE y \in Ahead(ts, next)
      BY <2>1, AheadIs DEF l
    <2>. QED  BY <2>2 DEF Fares, Behind
  <1>8. Spared(us, step, rd, lens, last, next, n)
    <2>. SUFFICES ASSUME NEW j \in 1..Len(us), Dead(us[j], step) PROVE Beside(us, j, rd, lens, last, next, n)
      BY DEF Spared
    <2>1. j \in 1..l /\ us[j] = ts[j]
      BY <1>1 DEF Dead
    <2>2. Beside(ts, j, rd, lens, last, next, n)
      BY <2>1 DEF Fares, Spared, l
    <2>3. \A h \in 1..(j - 1) : us[h] = ts[h]
      BY <1>1, <2>1
    <2>4. \A h \in (j + 1)..l : us[h] = ts[h] /\ h \in (j + 1)..Len(us)
      BY <1>1, <2>1
    <2>. QED  BY <2>2, <2>3, <2>4 DEF Beside, l
  <1>9. Fits(lens, n) /\ Filled(rd, lens, n)
    BY DEF Fares
  <1>10. Fares(us, step, b, rd, lens, last, next, n)
    BY <1>4, <1>5, <1>6, <1>7, <1>8, <1>9 DEF Fares
  <1>. QED  BY <1>10 DEF us

\* A transfer that is queued has its shape.
LEMMA ShapedAppend ==
    ASSUME NEW ts \in Seq(Transfers), NEW t, t.data = <<>>, t.status = "open", NEW lens, NEW next,
           Shaped(ts, lens, next)
    PROVE  Shaped(Append(ts, t), lens, next)
  <1>. DEFINE us == Append(ts, t)
              l == Len(ts)
  <1>1. /\ l \in Nat /\ Len(us) = l + 1 /\ us[l + 1] = t
        /\ \A j \in 1..l : us[j] = ts[j]
        /\ \A j \in 1..Len(us) : j \in 1..l \/ j = l + 1
    OBVIOUS
  <1>2. Len(t.data) = 0
    OBVIOUS
  <1>. HIDE DEF us, l
  <1>3. Shape(t, lens, next)
    BY <1>2 DEF Shape, Run
  <1>4. \A j \in 1..Len(us) : Shape(us[j], lens, next)
    BY <1>1, <1>3 DEF Shaped, l
  <1>5. ASSUME NEW i \in 1..Len(us), NEW j \in 1..Len(us), i < j, us[i].status = "open" PROVE us[j].status = "open"
    <2>1. CASE j = l + 1
      BY <1>1, <2>1
    <2>2. CASE j \in 1..l
      <3>1. i \in 1..l
        BY <1>1, <1>5, <2>2
      <3>. QED  BY <1>1, <1>5, <2>2, <3>1 DEF Shaped, l
    <2>. QED  BY <1>1, <2>1, <2>2
  <1>6. Shaped(us, lens, next)
    BY <1>4, <1>5 DEF Shaped
  <1>. QED  BY <1>6 DEF us

\* A transfer is queued, or the stream waits.
LEMMA FillLoses ==
    ASSUME IInv, LossInv, fill
    PROVE  LossInv'
  <1>1. /\ at = "top" /\ UNCHANGED <<dev, usb, faults, reader, harmed, cut>> /\ Coming' = Coming
    BY DEF fill, Coming, Sending
  <1>2. pending \in Seq(Transfers) /\ u \in Stream /\ Len(pending) \in Nat
    BY DEF IInv, TypeInv
  <1>3. ASSUME Undisturbed PROVE Undisturbed'
    <2>1. CASE ~(Len(pending) < InFlight)
      <3>1. at' = "wait" /\ u' = u /\ pending' = pending
        BY <2>1 DEF fill
      <3>2. Planned(pending', at', u'.planned) /\ Drained(pending', at', u'.block)
        BY <1>1, <1>3, <3>1 DEF Undisturbed, Planned, Drained
      <3>3. ASSUME NEW n \in Sound(dev.lens, harmed \cup cut)
            PROVE  Fares(pending, "wait", u.block, u.ready, dev.lens, reader.last, Coming, n)
        <4>1. Fares(pending, "top", u.block, u.ready, dev.lens, reader.last, Coming, n)
          BY <1>1, <1>3 DEF Undisturbed
        <4>2. \A j \in 1..Len(pending) : Dead(pending[j], "wait") => Dead(pending[j], "top")
          BY DEF Dead
        <4>3. Filled(u.ready, dev.lens, n)
          BY <4>1 DEF Fares
        <4>. QED  BY <1>2, <4>1, <4>2, <4>3, FaresOn
      <3>. QED  BY <1>1, <1>3, <3>1, <3>2, <3>3 DEF Undisturbed
    <2>2. CASE Len(pending) < InFlight
      <3>. DEFINE s == slot(u.next)
                  t == Transfer(s.len)
                  q == [at |-> u.next, len |-> s.len]
      <3>1. pending' = Append(pending, t) /\ u' = [u EXCEPT !.planned = Append(@, q)  , !.next = s.next] /\ at' = at
        BY <2>2 DEF fill
      <3>2. t.data = <<>> /\ t.status = "open" /\ t.len = s.len /\ q.len = s.len
        BY DEF Transfer
      <3>. HIDE DEF s, t, q
      <3>3. u'.block = u.block /\ u'.ready = u.ready /\ u'.planned = Append(u.planned, q)
        BY <1>2, <3>1 DEF Stream
      <3>4. u.planned \in Seq(Plan)
        BY <1>2, StreamFields
      <3>5. Planned(pending', at', u'.planned)
        <4>. DEFINE ps == u.planned
                    l == Len(pending)
        <4>1. Len(ps) = l /\ \A j \in 1..l : ps[j].len = pending[j].len
          BY <1>1, <1>3 DEF Undisturbed, Planned
        <4>2. /\ Len(Append(ps, q)) = l + 1 /\ Append(ps, q)[l + 1] = q
              /\ \A j \in 1..l : Append(ps, q)[j] = ps[j]
          BY <3>4, <4>1
        <4>3. /\ Len(Append(pending, t)) = l + 1 /\ Append(pending, t)[l + 1] = t
              /\ \A j \in 1..l : Append(pending, t)[j] = pending[j]
          BY <1>2
        <4>4. \A j \in 1..(l + 1) : j \in 1..l \/ j = l + 1
          BY <1>2
        <4>. DEFINE A == Append(ps, q)
                    B == Append(pending, t)
        <4>5. \A j \in 1..(l + 1) : A[j].len = B[j].len
          <5>. HIDE DEF ps, l, A, B
          <5>1. \A j \in 1..l : A[j].len = B[j].len
            BY <4>1, <4>2, <4>3 DEF A, B
          <5>2. A[l + 1].len = B[l + 1].len
            BY <3>2, <4>2, <4>3 DEF A, B
          <5>. QED  BY <4>4, <5>1, <5>2
        <4>. QED  BY <3>1, <3>3, <4>2, <4>3, <4>5 DEF Planned
      <3>6. Shaped(pending', dev.lens, Coming)
        BY <1>2, <1>3, <3>1, <3>2, ShapedAppend DEF Undisturbed
      <3>7. \A n \in Sound(dev.lens, harmed \cup cut) :
                Fares(pending', at, u.block, u.ready, dev.lens, reader.last, Coming, n)
        BY <1>2, <1>3, <3>1, <3>2, FaresAppend DEF Undisturbed
      <3>8. Drained(pending', at', u'.block)
        BY <1>1, <3>1 DEF Drained
      <3>. QED  BY <1>1, <3>1, <3>3, <3>5, <3>6, <3>7, <3>8 DEF Undisturbed
    <2>. QED  BY <2>1, <2>2
  <1>. QED  BY <1>1, <1>3, LossKeeps

\* A block that has been quiet for too long is given up.
LEMMA IdleOutLoses ==
    ASSUME IInv, LossInv, NEW stalled \in BOOLEAN, IdleOut(stalled)
    PROVE  LossInv'
  <1>1. /\ at = "wait" /\ at' = "top" /\ UNCHANGED <<pending, dev, usb, reader, cut>> /\ Coming' = Coming
        /\ u' = IF stalled THEN abandon(u) ELSE u
        /\ harmed' = IF stalled THEN harmed \cup {u.block.id} ELSE harmed
        /\ stalled => u.block.id # 0
    BY DEF IdleOut, Coming, Sending
  <1>2. pending \in Seq(Transfers) /\ u \in Stream /\ Len(pending) \in Nat
    BY DEF IInv, TypeInv
  <1>3. ASSUME Undisturbed PROVE Undisturbed'
    <2>1. u'.planned = u.planned
      BY <1>1, <1>2, PlanStays
    <2>2. Planned(pending', at', u'.planned) /\ Drained(pending', at', u'.block)
      BY <1>1, <1>3, <2>1 DEF Undisturbed, Planned, Drained
    <2>3. harmed \subseteq harmed' /\ cut \subseteq cut' /\ dev'.lens = dev.lens
      BY <1>1
    <2>4. ASSUME NEW n \in Sound(dev.lens, harmed' \cup cut')
          PROVE  Fares(pending, "top", u'.block, u'.ready, dev.lens, reader.last, Coming, n)
      <3>1. n \in Sound(dev.lens, harmed \cup cut) /\ n \notin harmed'
        BY <2>3, SoundBefore
      <3>2. Fares(pending, "wait", u.block, u.ready, dev.lens, reader.last, Coming, n)
        BY <1>1, <1>3, <3>1 DEF Undisturbed
      <3>3. \A j \in 1..Len(pending) : Dead(pending[j], "top") => Dead(pending[j], "wait")
        BY DEF Dead
      <3>4. Filled(u.ready, dev.lens, n)
        BY <3>2 DEF Fares
      <3>5. CASE ~stalled
        <4>1. u' = u
          BY <1>1, <3>5
        <4>. QED  BY <1>2, <3>2, <3>3, <3>4, <4>1, FaresOn
      <3>6. CASE stalled
        <4>1. u.block.id # n /\ u' = abandon(u)
          BY <1>1, <3>1, <3>6
        <4>2. Handed(abandon(u).ready, reader.last, n) <=> Handed(u.ready, reader.last, n)
          BY <1>2, <4>1, ClosedOther
        <4>3. Filled(abandon(u).ready, dev.lens, n)
          BY <1>2, <3>4, <4>1, ClosedOther
        <4>4. \A i : ~Kept(u.block, dev.lens, n, i)
          BY <4>1 DEF Kept
        <4>. DEFINE a == abandon(u)
        <4>. HIDE DEF a
        <4>5. Fares(pending, "top", a.block, a.ready, dev.lens, reader.last, Coming, n)
          BY <1>2, <3>2, <3>3, <4>2, <4>3, <4>4, FaresOn DEF a
        <4>. QED  BY <4>1, <4>5 DEF a
      <3>. QED  BY <3>5, <3>6
    <2>. QED  BY <1>1, <1>3, <2>2, <2>4 DEF Undisturbed
  <1>4. harmed \subseteq harmed'
    BY <1>1
  <1>. QED  BY <1>1, <1>3, <1>4, LossKeeps

\* A transfer that is open has no packet of a block that was sent before, and comes after
\* its trailer.
LEMMA OpenBeside ==
    ASSUME NEW ts, NEW b, NEW rd, NEW lens, NEW last, NEW next, InOrder(ts, b, rd, lens, last, next),
           Shaped(ts, lens, next), NEW n \in 1..Len(lens), n # next[1], Ended(ts, rd, lens, last, next, n),
           NEW j \in 1..Len(ts), ts[j].status = "open"
    PROVE  Beside(ts, j, rd, lens, last, next, n)
  <1>1. ts \in Seq(Transfers) /\ next \in Packet /\ next[1] = Len(lens) /\ Len(ts) \in Nat
    BY DEF InOrder
  <1>2. Apart(End(lens, n), next, 1)
    BY <1>1 DEF Apart, End
  <1>3. CASE Handed(rd, last, n)
    BY <1>3 DEF Beside
  <1>4. CASE \E h \in 1..Len(ts) : Ends(ts[h].data, End(lens, n))
    <2>1. PICK h \in 1..Len(ts) : Ends(ts[h].data, End(lens, n))
      BY <1>4
    <2>2. ASSUME ts[h].status = "open" PROVE FALSE
      <3>1. Len(ts[h].data) > 0
        BY <2>1 DEF Ends
      <3>2. Ends(ts[h].data, <<next[1], next[2] - 1>>)
        BY <2>2, <3>1 DEF Shaped, Shape
      <3>3. End(lens, n) = <<next[1], next[2] - 1>>
        BY <2>1, <3>2 DEF Ends
      <3>. QED  BY <3>3 DEF End
    <2>3. h < j
      <3>1. CASE j < h
        <4>1. ts[h].status = "open"
          BY <3>1 DEF Shaped
        <4>. QED  BY <2>2, <4>1
      <3>2. CASE j = h
        BY <2>2, <3>2
      <3>. QED  BY <3>1, <3>2
    <2>4. h \in 1..(j - 1)
      BY <2>3
    <2>. QED  BY <2>1, <2>4 DEF Beside
  <1>. QED  BY <1>2, <1>3, <1>4 DEF Ended

\* Transfers end, and with them the chances of the block that the device sends.
LEMMA EndsLose ==
    ASSUME IInv, LossInv, UNCHANGED <<u, at, dev, reader, cut>>, harmed \subseteq harmed',
           {Sending} \ {0} \subseteq harmed', Len(pending') = Len(pending),
           \A j \in 1..Len(pending) : pending'[j] = pending[j] \/ /\ pending[j].status = "open"
                                                                  /\ pending'[j].data = pending[j].data
                                                                  /\ pending'[j].len = pending[j].len
                                                                  /\ pending'[j].status \notin {"open", "ok"},
           \A i, j \in 1..Len(pending) : i < j /\ pending'[i].status = "open" => pending'[j].status = "open"
    PROVE  LossInv'
  <1>1. /\ pending \in Seq(Transfers) /\ Len(pending) \in Nat /\ BusInOrder(pending, Coming)
        /\ InOrder(pending, u.block, u.ready, dev.lens, reader.last, Coming)
        /\ Coming' = Coming /\ Coming[1] = Sending /\ Sending = Len(dev.lens)
    BY InvInOrder, DevType DEF IInv, TypeInv, Coming, Sending
  <1>2. ASSUME Undisturbed PROVE Undisturbed'
    <2>1. /\ Shaped(pending, dev.lens, Coming) /\ Planned(pending, at, u.planned) /\ Drained(pending, at, u.block)
      BY <1>2 DEF Undisturbed
    <2>2. Shaped(pending', dev.lens, Coming)
      <3>1. ASSUME NEW j \in 1..Len(pending) PROVE Shape(pending'[j], dev.lens, Coming)
        <4>1. Shape(pending[j], dev.lens, Coming)
          BY <2>1 DEF Shaped
        <4>2. CASE pending'[j] = pending[j]
          BY <4>1, <4>2
        <4>3. CASE pending[j].status = "open" /\ pending'[j].data = pending[j].data /\ pending'[j].status \notin {"open", "ok"}
          BY <4>1, <4>3 DEF Shape
        <4>. QED  BY <4>2, <4>3
      <3>. QED  BY <3>1 DEF Shaped
    <2>3. Planned(pending', at, u.planned)
      BY <2>1 DEF Planned
    <2>4. Drained(pending', at, u.block)
      BY <2>1 DEF Drained
    <2>5. Ahead(pending', Coming) = Ahead(pending, Coming)
      BY <1>1, BusEnds, SMTT(60)
    <2>6. ASSUME NEW n \in Sound(dev.lens, harmed' \cup cut')
          PROVE  Fares(pending', at, u.block, u.ready, dev.lens, reader.last, Coming, n)
      <3>1. n \in Sound(dev.lens, harmed \cup cut) /\ n \notin harmed' /\ n \in 1..Len(dev.lens)
        BY SoundBefore
      <3>2. Fares(pending, at, u.block, u.ready, dev.lens, reader.last, Coming, n)
        BY <1>2, <3>1 DEF Undisturbed
      <3>3. n # Sending
        BY <3>1
      <3>4. ASSUME NEW j \in 1..Len(pending), Dead(pending'[j], at)
            PROVE  Dead(pending[j], at) \/ Beside(pending, j, u.ready, dev.lens, reader.last, Coming, n)
        <4>1. CASE pending'[j] = pending[j]
          BY <3>4, <4>1
        <4>2. CASE pending[j].status = "open"
          <5>1. Ended(pending, u.ready, dev.lens, reader.last, Coming, n)
            BY <3>2 DEF Fares
          <5>2. n # Coming[1]
            BY <1>1, <3>3
          <5>. QED  BY <1>1, <2>1, <3>1, <4>2, <5>1, <5>2, OpenBeside
        <4>. QED  BY <4>1, <4>2
      <3>6. \A j \in 1..Len(pending) : pending'[j].data = pending[j].data
        OBVIOUS
      <3>. DEFINE us == pending'
      <3>7. Len(us) = Len(pending) /\ Ahead(us, Coming) = Ahead(pending, Coming)
        BY <2>5
      <3>8. \A j \in 1..Len(pending) : us[j].data = pending[j].data
        BY <3>6
      <3>9. \A j \in 1..Len(pending) :
               Dead(us[j], at) => Dead(pending[j], at) \/ Beside(pending, j, u.ready, dev.lens, reader.last, Coming, n)
        BY <3>4
      <3>. HIDE DEF us
      <3>10. Fares(us, at, u.block, u.ready, dev.lens, reader.last, Coming, n)
        BY <1>1, <3>2, <3>7, <3>8, <3>9, FaresEnded, ZenonT(60)
      <3>. QED  BY <3>10 DEF us
    <2>. QED  BY <1>1, <2>2, <2>3, <2>4, <2>6 DEF Undisturbed
  <1>. QED  BY <1>2, LossKeeps

\* A transfer fails.
LEMMA TransferFailsLoses ==
    ASSUME IInv, LossInv, NEW status \in {"failed", "cancelled"}, TransferFails(status)
    PROVE  LossInv'
  <1>1. pending \in Seq(Transfers)
    BY DEF IInv, TypeInv
  <1>. DEFINE j == Min(Open)
              t == [pending[j] EXCEPT !.status = status]
  <1>2. /\ Open # {} /\ pending' = [pending EXCEPT ![j].status = status]
        /\ UNCHANGED <<u, at, dev, usb, reader, cut>> /\ harmed' = harmed \cup Touched(j)
    BY DEF TransferFails
  <1>3. harmed \subseteq harmed' /\ {Sending} \ {0} \subseteq harmed'
    BY <1>2 DEF Touched
  <1>4. j \in 1..Len(pending) /\ pending[j].status = "open" /\ \A k \in 1..Len(pending) : pending[k].status = "open" => j <= k
    <2>1. j \in Open /\ \A k \in Open : j <= k
      BY <1>1, <1>2, OldestOpen
    <2>. HIDE DEF j
    <2>. QED  BY <1>1, <2>1 DEF Open
  <1>5. pending[j] \in Transfers /\ pending' = [pending EXCEPT ![j] = t]
    BY <1>1, <1>2, <1>4
  <1>. HIDE DEF j
  <1>6. t.data = pending[j].data /\ t.len = pending[j].len /\ t.status \notin {"open", "ok"}
    BY <1>5 DEF Transfers
  <1>. HIDE DEF t
  <1>7. /\ Len(pending') = Len(pending)
        /\ \A k \in 1..Len(pending) : pending'[k] = IF k = j THEN t ELSE pending[k]
    BY <1>1, <1>4, <1>5
  <1>8. \A k \in 1..Len(pending) : pending'[k] = pending[k] \/ /\ pending[k].status = "open"
                                                               /\ pending'[k].data = pending[k].data
                                                               /\ pending'[k].len = pending[k].len
                                                               /\ pending'[k].status \notin {"open", "ok"}
    BY <1>4, <1>6, <1>7
  <1>9. CASE Shaped(pending, dev.lens, Coming)
    <2>1. \A i, k \in 1..Len(pending) : i < k /\ pending'[i].status = "open" => pending'[k].status = "open"
      <3>. SUFFICES ASSUME NEW i \in 1..Len(pending), NEW k \in 1..Len(pending), i < k, pending'[i].status = "open"
                    PROVE  pending'[k].status = "open"
        OBVIOUS
      <3>1. i # j /\ pending'[i] = pending[i]
        BY <1>6, <1>7
      <3>2. j <= i /\ pending[k].status = "open"
        BY <1>4, <1>9, <3>1 DEF Shaped
      <3>3. k # j
        BY <1>4, <3>2
      <3>. QED  BY <1>7, <3>2, <3>3
    <2>. QED  BY <1>2, <1>3, <1>7, <1>8, <2>1, EndsLose
  <1>10. CASE ~Shaped(pending, dev.lens, Coming)
    <2>1. ~Undisturbed
      BY <1>10 DEF Undisturbed
    <2>. QED  BY <1>2, <1>3, <2>1, LossKeeps
  <1>. QED  BY <1>9, <1>10

\* The device is unplugged.
LEMMA UnplugLoses ==
    ASSUME IInv, LossInv, NEW status \in {"failed", "gone"}, Unplug(status)
    PROVE  LossInv'
  <1>1. pending \in Seq(Transfers)
    BY DEF IInv, TypeInv
  <1>2. UNCHANGED <<u, at, dev, reader, cut>> /\ harmed' = harmed \cup ({Sending} \ {0})
    BY DEF Unplug
  <1>3. pending' = EndOpen(pending, status)
    BY <1>1 DEF Unplug, Open, EndOpen
  <1>4. status \in Statuses \ {"open", "ok"} /\ status \in Statuses \ {"open"}
    BY DEF Statuses
  <1>5. CASE Shaped(pending, dev.lens, Coming)
    <2>1. /\ \A j \in 1..Len(pending) : pending'[j].status # "open"
          /\ \A j \in 1..Len(pending) : /\ pending'[j].len = pending[j].len
                                        /\ pending[j].status # "open" => pending'[j] = pending[j]
                                        /\ pending[j].status = "open" => pending'[j].status = status
      BY <1>1, <1>3, <1>4, <1>5, ShapedEnd
    <2>2. Len(pending') = Len(pending) /\ \A j \in 1..Len(pending) : pending'[j].data = pending[j].data
      BY <1>1, <1>3, <1>4, EndOpenIs
    <2>3. \A j \in 1..Len(pending) : pending'[j] = pending[j] \/ /\ pending[j].status = "open"
                                                                 /\ pending'[j].data = pending[j].data
                                                                 /\ pending'[j].len = pending[j].len
                                                                 /\ pending'[j].status \notin {"open", "ok"}
      BY <1>4, <2>1, <2>2
    <2>. QED  BY <1>2, <2>1, <2>2, <2>3, EndsLose
  <1>6. CASE ~Shaped(pending, dev.lens, Coming)
    <2>1. ~Undisturbed
      BY <1>6 DEF Undisturbed
    <2>2. harmed \subseteq harmed'
      BY <1>2
    <2>. QED  BY <1>2, <2>1, <2>2, LossKeeps
  <1>. QED  BY <1>5, <1>6

\* The system no longer lists the device.
LEMMA DelistLoses ==
    ASSUME LossInv, Delist
    PROVE  LossInv'
  <1>1. UNCHANGED <<u, at, pending, dev, reader, harmed, cut>>
    BY DEF Delist
  <1>2. Undisturbed => Undisturbed'
    BY <1>1 DEF Undisturbed, Coming, Sending
  <1>. QED  BY <1>1, <1>2, LossKeeps

\* What becomes of the plan when the oldest transfer comes back.
LEMMA PlanTail ==
    ASSUME NEW ts \in Seq(Transfers), NEW planned \in Seq(Plan), ts # <<>>, Len(planned) = Len(ts),
           \A j \in 1..Len(ts) : planned[j].len = ts[j].len
    PROVE  /\ planned # <<>> /\ Head(planned).len = ts[1].len
           /\ Len(Tail(planned)) = Len(Tail(ts))
           /\ \A j \in 1..Len(Tail(ts)) : Tail(planned)[j].len = Tail(ts)[j].len
  <1>. DEFINE us == Tail(ts)
              ps == Tail(planned)
  <1>1. /\ Len(us) \in Nat /\ Len(ts) = Len(us) + 1 /\ 1 \in 1..Len(ts)
        /\ \A j \in 1..Len(us) : us[j] = ts[j + 1] /\ j + 1 \in 1..Len(ts)
    OBVIOUS
  <1>2. planned # <<>> /\ Head(planned) = planned[1] /\ Len(ps) = Len(us)
    BY <1>1
  <1>3. \A j \in 1..Len(us) : ps[j] = planned[j + 1]
    BY <1>1, <1>2
  <1>. HIDE DEF us, ps
  <1>4. \A j \in 1..Len(us) : ps[j].len = us[j].len
    BY <1>1, <1>3
  <1>. QED  BY <1>1, <1>2, <1>4 DEF us, ps

\* The oldest transfer is taken from the plan, which knows how long it is.
LEMMA Unplanning ==
    ASSUME IInv, pending # <<>>
    PROVE  /\ Unplanned \in Stream /\ Unplanned.block = u.block /\ Unplanned.ready = u.ready
           /\ at \in {"wait", "replan"} /\ Planned(pending, at, u.planned) =>
                 /\ Requested = pending[1].len
                 /\ \A step : Planned(Tail(pending), step, Unplanned.planned)
  <1>1. pending \in Seq(Transfers) /\ u \in Stream /\ u.planned \in Seq(Plan)
    BY StreamFields DEF IInv, TypeInv
  <1>2. Unplanned \in Stream
    BY HeadIs
  <1>3. Unplanned.block = u.block /\ Unplanned.ready = u.ready
        /\ Unplanned.planned = IF u.planned = <<>> THEN u.planned ELSE Tail(u.planned)
    BY <1>1 DEF Unplanned, Stream
  <1>4. ASSUME at \in {"wait", "replan"}, Planned(pending, at, u.planned)
        PROVE  Requested = pending[1].len /\ \A step : Planned(Tail(pending), step, Unplanned.planned)
    <2>1. Len(u.planned) = Len(pending) /\ \A j \in 1..Len(pending) : u.planned[j].len = pending[j].len
      BY <1>4 DEF Planned
    <2>2. /\ u.planned # <<>> /\ Head(u.planned).len = pending[1].len
          /\ Len(Tail(u.planned)) = Len(Tail(pending))
          /\ \A j \in 1..Len(Tail(pending)) : Tail(u.planned)[j].len = Tail(pending)[j].len
      BY <1>1, <2>1, PlanTail
    <2>3. Unplanned.planned = Tail(u.planned)
      BY <1>3, <2>2
    <2>4. Requested = pending[1].len
      BY <2>2 DEF Requested
    <2>. QED  BY <2>2, <2>3, <2>4 DEF Planned
  <1>. QED  BY <1>2, <1>3, <1>4

\* The oldest transfer comes back dead: it concerns no sound block, open or not.
LEMMA DeadConcerns ==
    ASSUME NEW ts, NEW b, NEW rd, NEW lens, NEW last, NEW next, InOrder(ts, b, rd, lens, last, next),
           NEW n \in 1..Len(lens), NEW step, Fares(ts, step, b, rd, lens, last, next, n), ts # <<>>, Run(ts[1].data),
           Dead(ts[1], step)
    PROVE  b.id # n /\ ~(Len(ts[1].data) > 0 /\ ts[1].data[1][1] = n)
  <1>1. Len(ts) > 0 /\ 1 \in 1..Len(ts) /\ n # 0
    BY DEF InOrder
  <1>2. Beside(ts, 1, rd, lens, last, next, n)
    BY <1>1 DEF Fares, Spared
  <1>3. b.id # n
    <2>1. ASSUME b.id = n PROVE FALSE
      <3>1. b.id # 0 /\ Beside(ts, 1, rd, lens, last, next, b.id)
        BY <1>1, <1>2, <2>1
      <3>. QED  BY <1>1, <3>1, DeadHead
    <2>. QED  BY <2>1
  <1>4. ~(Len(ts[1].data) > 0 /\ ts[1].data[1][1] = n)
    <2>1. Chained(ts, b, lens, n) /\ Behind(ts, rd, lens, last, next, n)
      BY DEF Fares
    <2>. QED  BY <1>1, <1>2, <2>1, DeadHasNone
  <1>. QED  BY <1>3, <1>4

\* All that is open is cancelled.
LEMMA CancelledFares ==
    ASSUME NEW ts \in Seq(Transfers), NEW step, NEW stop \in {"replan", "recover"},
           NEW b, NEW rd, NEW lens, NEW last, NEW next, NEW n,
           BusInOrder(ts, next), Shaped(ts, lens, next), Fares(ts, step, b, rd, lens, last, next, n)
    PROVE  Fares(EndOpen(ts, "cancelled"), stop, b, rd, lens, last, next, n)
  <1>. DEFINE us == EndOpen(ts, "cancelled")
  <1>1. "cancelled" \in Statuses \ {"open"} /\ "cancelled" \in Statuses \ {"open", "ok"}
    BY DEF Statuses
  <1>2. /\ us \in Seq(Transfers) /\ Len(us) = Len(ts) /\ Len(ts) \in Nat
        /\ \A j \in 1..Len(ts) : us[j].data = ts[j].data /\ (us[j].status = "open" => ts[j].status = "open")
    BY <1>1, EndOpenIs
  <1>3. \A j \in 1..Len(ts) : /\ ts[j].status # "open" => us[j] = ts[j]
                              /\ ts[j].status = "open" => us[j].status = "cancelled"
    BY <1>1, ShapedEnd
  <1>. HIDE DEF us
  <1>4. Ahead(us, next) = Ahead(ts, next)
    <2>1. Len(us) = Len(ts) /\ (\A j \in 1..Len(ts) : us[j].data = ts[j].data)
      BY <1>2
    <2>. QED  BY <2>1, SameAhead, SMTT(60)
  <1>5. \A j \in 1..Len(ts) : Dead(us[j], stop) => Dead(ts[j], step)
    <2>1. ASSUME NEW j \in 1..Len(ts), Dead(us[j], stop) PROVE Dead(ts[j], step)
      <3>1. us[j].status \in {"failed", "gone"}
        BY <2>1 DEF Dead
      <3>2. us[j] = ts[j]
        BY <1>3, <3>1
      <3>. QED  BY <3>1, <3>2 DEF Dead
    <2>. QED  BY <2>1
  <1>6. Filled(rd, lens, n)
    BY DEF Fares
  <1>7. Fares(us, stop, b, rd, lens, last, next, n)
    BY <1>2, <1>4, <1>5, <1>6, FaresOn
  <1>. QED  BY <1>7 DEF us

\* The stream recovers: what is left of the open block is handed out, and all that is
\* open is cancelled.
LEMMA RecoveringLoses ==
    ASSUME IInv, LossInv, pending # <<>>, NEW s \in Stream, Recovering(s), at # "ended",
           UNCHANGED <<dev, reader>>, harmed \subseteq harmed', cut \subseteq cut', Dead(pending[1], at),
           \A n \in Sound(dev.lens, harmed \cup cut) :
              Undisturbed /\ u.block.id # n /\ ~(Len(pending[1].data) > 0 /\ pending[1].data[1][1] = n) =>
                 /\ s.block.id # n
                 /\ Handed(s.ready, reader.last, n) <=> Handed(u.ready, reader.last, n)
                 /\ Filled(s.ready, dev.lens, n)
    PROVE  LossInv'
  <1>1. /\ pending \in Seq(Transfers) /\ Len(pending) \in Nat /\ BusInOrder(pending, Coming) /\ Coming \in Packet
        /\ InOrder(pending, u.block, u.ready, dev.lens, reader.last, Coming)
        /\ Coming' = Coming
    BY InvInOrder, DevType DEF IInv, TypeInv, Coming, Sending
  <1>2. pending' = EndOpen(Tail(pending), "cancelled")
    BY DEF Recovering, cancel_all, EndOpen
  <1>3. Tail(pending) \in Seq(Transfers) /\ BusInOrder(Tail(pending), Coming)
    BY <1>1, BusTail
  <1>4. ASSUME Steady', Undisturbed PROVE Undisturbed'
    <2>. DEFINE a == abandon(s)
    <2>1. at' = "recover" /\ usb.listed
      BY <1>4 DEF Recovering, Steady
    <2>2. u' = [a EXCEPT !.errors = @ + 1, !.failures = @ + 1]
      BY <2>1 DEF Recovering
    <2>3. a \in Stream /\ a.block.id = 0
      <3>1. CASE s.block.id = 0
        BY <3>1 DEF abandon
      <3>2. CASE s.block.id # 0
        BY <3>2, ClosedOther
      <3>. QED  BY <3>1, <3>2
    <2>. HIDE DEF a
    <2>4. u'.block = a.block /\ u'.ready = a.ready
      BY <2>2, <2>3 DEF Stream
    <2>5. Shaped(pending, dev.lens, Coming)
      BY <1>4 DEF Undisturbed
    <2>6. Shaped(Tail(pending), dev.lens, Coming) /\ Run(pending[1].data)
      BY <1>1, <2>5, ShapedTail DEF Shape
    <2>7. "cancelled" \in Statuses \ {"open", "ok"} /\ "cancelled" \in Statuses \ {"open"}
      BY DEF Statuses
    <2>8. Shaped(pending', dev.lens, Coming) /\ \A j \in 1..Len(pending') : pending'[j].status # "open"
      <3>1. /\ Shaped(EndOpen(Tail(pending), "cancelled"), dev.lens, Coming)
            /\ \A j \in 1..Len(Tail(pending)) : EndOpen(Tail(pending), "cancelled")[j].status # "open"
        BY <1>3, <2>6, <2>7, ShapedEnd
      <3>2. Len(EndOpen(Tail(pending), "cancelled")) = Len(Tail(pending))
        BY <1>3, <2>7, EndOpenIs
      <3>. QED  BY <1>2, <3>1, <3>2
    <2>9. Planned(pending', at', u'.planned) /\ Drained(pending', at', u'.block)
      BY <2>1, <2>3, <2>4, <2>8 DEF Planned, Drained
    <2>10. ASSUME NEW n \in Sound(dev.lens, harmed' \cup cut')
           PROVE  Fares(pending', at', u'.block, u'.ready, dev.lens, reader.last, Coming, n)
      <3>1. n \in Sound(dev.lens, harmed \cup cut) /\ n \in 1..Len(dev.lens)
        BY SoundBefore
      <3>2. Fares(pending, at, u.block, u.ready, dev.lens, reader.last, Coming, n)
        BY <1>4, <3>1 DEF Undisturbed
      <3>3. u.block.id # n /\ ~(Len(pending[1].data) > 0 /\ pending[1].data[1][1] = n)
        BY <1>1, <2>6, <3>1, <3>2, DeadConcerns
      <3>4. /\ s.block.id # n
            /\ Handed(s.ready, reader.last, n) <=> Handed(u.ready, reader.last, n)
            /\ Filled(s.ready, dev.lens, n)
        BY <1>4, <3>1, <3>3
      <3>5. Handed(a.ready, reader.last, n) <=> Handed(s.ready, reader.last, n)
        BY <3>4, ClosedOther DEF a
      <3>6. Filled(a.ready, dev.lens, n)
        BY <3>4, ClosedOther DEF a
      <3>7. Fares(Tail(pending), at, a.block, a.ready, dev.lens, reader.last, Coming, n)
        BY <1>1, <2>6, <3>1, <3>2, <3>3, <3>4, <3>5, <3>6, HeadPasses
      <3>8. Fares(EndOpen(Tail(pending), "cancelled"), "recover", a.block, a.ready, dev.lens, reader.last, Coming, n)
        BY <1>3, <2>6, <3>7, CancelledFares
      <3>. QED  BY <1>2, <2>1, <2>4, <3>8
    <2>. QED  BY <1>1, <2>8, <2>9, <2>10 DEF Undisturbed
  <1>. QED  BY <1>4, LossKeeps

\* What a dead transfer had is taken in all the same: it is not about a sound block.
LEMMA DeadAbsorbed ==
    ASSUME IInv, LossInv, pending # <<>>, NEW n \in Sound(dev.lens, harmed \cup cut), Steady, u.block.id # n,
           ~(Len(pending[1].data) > 0 /\ pending[1].data[1][1] = n), NEW s,
           s \in {Unplanned, absorb(Unplanned, pending[1].data, Requested)}
    PROVE  /\ s.block.id # n
           /\ Handed(s.ready, reader.last, n) <=> Handed(u.ready, reader.last, n)
           /\ Filled(s.ready, dev.lens, n)
  <1>1. pending \in Seq(Transfers) /\ 1 \in 1..Len(pending) /\ n # 0
    BY DEF IInv, TypeInv, Sound
  <1>2. pending[1].data \in Seq(Packet)
    BY <1>1, DataType
  <1>3. Unplanned \in Stream /\ Unplanned.block = u.block /\ Unplanned.ready = u.ready
    BY Unplanning
  <1>4. Filled(u.ready, dev.lens, n)
    BY DEF LossInv, Undisturbed, Fares
  <1>5. CASE s = Unplanned
    BY <1>3, <1>4, <1>5
  <1>6. CASE s = absorb(Unplanned, pending[1].data, Requested)
    <2>. DEFINE v == Unplanned
                d == pending[1].data
                q == Requested
    <2>1. v \in Stream /\ v.block.id # n /\ Filled(v.ready, dev.lens, n) /\ ~(Len(d) > 0 /\ d[1][1] = n)
          /\ d \in Seq(Packet) /\ s = absorb(v, d, q)
      BY <1>2, <1>3, <1>4, <1>6
    <2>2. v.ready = u.ready
      BY <1>3
    <2>. HIDE DEF v, d, q
    <2>3. s.block.id # n
      BY <1>1, <2>1, AbsorbOther
    <2>4. Handed(s.ready, reader.last, n) <=> Handed(v.ready, reader.last, n)
      BY <1>1, <2>1, AbsorbOther
    <2>5. Filled(s.ready, dev.lens, n)
      BY <1>1, <2>1, AbsorbOther
    <2>. QED  BY <2>2, <2>3, <2>4, <2>5
  <1>. QED  BY <1>5, <1>6

\* The oldest transfer is taken in where the stream goes on.
LEMMA TakenIn ==
    ASSUME IInv, LossInv, Steady, pending # <<>>, at \in {"wait", "replan"}, pending[1].status = "ok"
    PROVE  LET s == absorb(Unplanned, pending[1].data, Requested)
           IN  /\ s \in Stream /\ s.planned = Unplanned.planned
               /\ \A step : Planned(Tail(pending), step, s.planned)
               /\ Shaped(Tail(pending), dev.lens, Coming)
               /\ \A n \in Sound(dev.lens, harmed \cup cut) :
                     Fares(Tail(pending), at, s.block, s.ready, dev.lens, reader.last, Coming, n)
  <1>. DEFINE d == pending[1].data
              q == Requested
              v == Unplanned
              s == absorb(v, d, q)
  <1>1. /\ pending \in Seq(Transfers) /\ 1 \in 1..Len(pending) /\ Head(pending) = pending[1]
        /\ InOrder(pending, u.block, u.ready, dev.lens, reader.last, Coming)
        /\ dev.lens \in Seq(Nat)
    BY InvInOrder, DevType DEF IInv, TypeInv
  <1>2. d \in Seq(Packet)
    BY <1>1, DataType
  <1>3. Shaped(pending, dev.lens, Coming) /\ Planned(pending, at, u.planned)
    BY DEF LossInv, Undisturbed
  <1>4. v \in Stream /\ v.block = u.block /\ v.ready = u.ready /\ q = pending[1].len
        /\ \A step : Planned(Tail(pending), step, v.planned)
    BY <1>3, Unplanning
  <1>5. s \in Stream
    BY <1>1, HeadIs
  <1>6. s.planned = v.planned
    <2>. HIDE DEF v, d, q
    <2>1. v \in Stream /\ d \in Seq(Packet)
      BY <1>2, <1>4
    <2>. QED  BY <2>1, AbsorbIs, Zenon
  <1>7. Shaped(Tail(pending), dev.lens, Coming) /\ Shape(pending[1], dev.lens, Coming)
    BY <1>1, <1>3, ShapedTail
  <1>8. ASSUME NEW n \in Sound(dev.lens, harmed \cup cut)
        PROVE  Fares(Tail(pending), at, s.block, s.ready, dev.lens, reader.last, Coming, n)
    <2>1. Fares(pending, at, u.block, u.ready, dev.lens, reader.last, Coming, n)
      BY DEF LossInv, Undisturbed
    <2>2. n \in 1..Len(dev.lens)
      BY DEF Sound
    <2>. DEFINE l == pending[1].len
    <2>3. s = absorb(v, pending[1].data, pending[1].len)
      BY <1>4
    <2>. HIDE DEF v, s, q
    <2>4. Fares(pending, at, v.block, v.ready, dev.lens, reader.last, Coming, n)
          /\ InOrder(pending, v.block, v.ready, dev.lens, reader.last, Coming)
      BY <1>1, <1>4, <2>1
    <2>. QED  BY <1>1, <1>4, <1>7, <2>2, <2>3, <2>4, HeadTakenIn
  <1>. HIDE DEF s
  <1>. QED  BY <1>4, <1>5, <1>6, <1>7, <1>8 DEF s

\* A transfer comes back while the stream waits.
LEMMA WaitNextLoses ==
    ASSUME IInv, LossInv, WaitNext
    PROVE  LossInv'
  <1>. DEFINE t == pending[1]
              r == absorb(Unplanned, t.data, Requested)
  <1>1. /\ pending \in Seq(Transfers) /\ Coming \in Packet /\ Coming' = Coming
        /\ at = "wait" /\ pending # <<>> /\ UNCHANGED <<dev, usb, reader, harmed, cut>>
    BY DevType DEF IInv, TypeInv, WaitNext, Completed, Coming, Sending
  <1>2. 1 \in 1..Len(pending) /\ Head(pending) = t
    BY <1>1
  <1>3. t.status \in Statuses /\ t.status # "open" /\ BusInOrder(pending, Coming)
    BY <1>1, <1>2, DataType DEF WaitNext, Completed, IInv
  <1>4. CASE t.status \in {"cancelled", "failed"}
    <2>1. \E s \in {Unplanned, r} : Recovering(s)
      BY <1>2, <1>4 DEF WaitNext
    <2>2. PICK s \in {Unplanned, r} : Recovering(s)
      BY <2>1
    <2>3. s \in Stream
      BY <1>1, <1>2, <2>2, HeadIs
    <2>4. Dead(pending[1], at)
      BY <1>1, <1>4 DEF Dead
    <2>5. ASSUME Steady
          PROVE  \A n \in Sound(dev.lens, harmed \cup cut) :
              Undisturbed /\ u.block.id # n /\ ~(Len(pending[1].data) > 0 /\ pending[1].data[1][1] = n) =>
                 /\ s.block.id # n
                 /\ Handed(s.ready, reader.last, n) <=> Handed(u.ready, reader.last, n)
                 /\ Filled(s.ready, dev.lens, n)
      BY <1>1, <2>2, <2>5, DeadAbsorbed
    <2>6. CASE ~Steady
      <3>1. ~Steady'
        BY <1>1, <2>6 DEF Steady
      <3>. QED  BY <1>1, <3>1, LossKeeps
    <2>7. at # "ended" /\ harmed \subseteq harmed' /\ cut \subseteq cut'
      BY <1>1
    <2>8. CASE Steady
      BY <1>1, <2>2, <2>3, <2>4, <2>5, <2>7, <2>8, RecoveringLoses
    <2>. QED  BY <2>6, <2>8
  <1>5. CASE t.status = "gone"
    <2>1. at' = "ended"
      BY <1>2, <1>5 DEF WaitNext
    <2>2. ~Steady'
      BY <2>1 DEF Steady
    <2>. QED  BY <1>1, <2>1, <2>2, LossKeeps
  <1>6. CASE t.status = "ok"
    <2>1. Onward(r)
      BY <1>2, <1>6 DEF WaitNext
    <2>2. ASSUME Steady', Undisturbed PROVE Undisturbed'
      <3>1. Steady
        BY <1>1, <2>2 DEF Steady
      <3>2. /\ r \in Stream /\ \A step : Planned(Tail(pending), step, r.planned)
            /\ Shaped(Tail(pending), dev.lens, Coming)
            /\ \A n \in Sound(dev.lens, harmed \cup cut) :
                  Fares(Tail(pending), at, r.block, r.ready, dev.lens, reader.last, Coming, n)
        BY <1>1, <1>6, <3>1, TakenIn
      <3>3. Tail(pending) \in Seq(Transfers) /\ BusInOrder(Tail(pending), Coming)
        BY <1>1, <1>3, BusTail
      <3>. HIDE DEF r
      <3>4. CASE r.planned # <<>> /\ Head(r.planned).at # cursor(r)
        <4>. DEFINE us == EndOpen(Tail(pending), "cancelled")
        <4>1. u' = r /\ at' = "replan" /\ pending' = us
          BY <2>1, <3>4 DEF Onward, cancel_all, EndOpen
        <4>2. "cancelled" \in Statuses \ {"open", "ok"} /\ "cancelled" \in Statuses \ {"open"}
          BY DEF Statuses
        <4>3. Shaped(us, dev.lens, Coming) /\ \A j \in 1..Len(Tail(pending)) : us[j].status # "open" /\ us[j].len = Tail(pending)[j].len
          BY <3>2, <3>3, <4>2, ShapedEnd
        <4>4. Len(us) = Len(Tail(pending))
          BY <3>3, <4>2, EndOpenIs
        <4>5. \A n \in Sound(dev.lens, harmed \cup cut) :
                 Fares(us, "replan", r.block, r.ready, dev.lens, reader.last, Coming, n)
          BY <3>2, <3>3, CancelledFares
        <4>6. Planned(us, "replan", r.planned)
          <5>1. Planned(Tail(pending), "replan", r.planned)
            BY <3>2
          <5>. HIDE DEF us
          <5>. QED  BY <4>3, <4>4, <5>1 DEF Planned
        <4>7. Drained(us, "replan", r.block)
          BY <4>3, <4>4 DEF Drained
        <4>. HIDE DEF us
        <4>. QED  BY <1>1, <4>1, <4>3, <4>5, <4>6, <4>7 DEF Undisturbed
      <3>5. CASE ~(r.planned # <<>> /\ Head(r.planned).at # cursor(r))
        <4>1. /\ u' = IF r.planned = <<>> THEN [r EXCEPT !.next = cursor(r)] ELSE r
              /\ at' = "top" /\ pending' = Tail(pending)
          BY <2>1, <3>5 DEF Onward
        <4>2. u'.block = r.block /\ u'.ready = r.ready /\ u'.planned = r.planned
          BY <3>2, <4>1 DEF Stream
        <4>. DEFINE us == Tail(pending)
        <4>3. Len(us) \in Nat
          BY <3>3
        <4>. HIDE DEF us
        <4>4. \A n \in Sound(dev.lens, harmed \cup cut) :
                 Fares(us, "top", r.block, r.ready, dev.lens, reader.last, Coming, n)
          <5>1. ASSUME NEW n \in Sound(dev.lens, harmed \cup cut)
                PROVE  Fares(us, "top", r.block, r.ready, dev.lens, reader.last, Coming, n)
            <6>1. Fares(us, "wait", r.block, r.ready, dev.lens, reader.last, Coming, n)
              BY <1>1, <3>2 DEF us
            <6>2. \A j \in 1..Len(us) : Dead(us[j], "top") => Dead(us[j], "wait")
              BY DEF Dead
            <6>3. Filled(r.ready, dev.lens, n)
              BY <6>1 DEF Fares
            <6>. QED  BY <4>3, <6>1, <6>2, <6>3, FaresOn
          <5>. QED  BY <5>1
        <4>5. Drained(us, "top", r.block)
          BY DEF Drained
        <4>. QED  BY <1>1, <3>2, <4>1, <4>2, <4>4, <4>5 DEF Undisturbed, us
      <3>. QED  BY <3>4, <3>5
    <2>3. at = "ended" => at' = "ended"
      BY <1>1
    <2>. QED  BY <1>1, <2>2, <2>3, LossKeeps
  <1>. QED  BY <1>3, <1>4, <1>5, <1>6 DEF Statuses

\* A transfer comes back while the plan is made anew.
LEMMA ReplanDrainLoses ==
    ASSUME IInv, LossInv, ReplanDrain
    PROVE  LossInv'
  <1>. DEFINE t == pending[1]
              v == Unplanned
              r == absorb(v, t.data, Requested)
              empty == t.status = "cancelled" /\ t.data = <<>>
              marks == t.status = "cancelled" /\ r.block.id # 0 /\ r.block.payload # u.block.payload
  <1>1. /\ pending \in Seq(Transfers) /\ Coming \in Packet /\ Coming' = Coming /\ dev.lens \in Seq(Nat)
        /\ at = "replan" /\ pending # <<>> /\ UNCHANGED <<dev, usb, reader, harmed>>
        /\ InOrder(pending, u.block, u.ready, dev.lens, reader.last, Coming) /\ BusInOrder(pending, Coming)
    BY DevType, InvInOrder DEF IInv, TypeInv, ReplanDrain, Coming, Sending
  <1>2. 1 \in 1..Len(pending) /\ Head(pending) = t
    BY <1>1
  <1>3. t.status \in Statuses /\ t.data \in Seq(Packet)
    BY <1>1, <1>2, DataType
  <1>4. cut' = IF marks THEN cut \cup {r.block.id} ELSE cut
    BY <1>2 DEF ReplanDrain
  <1>5. cut \subseteq cut' /\ harmed \subseteq harmed' /\ dev'.lens = dev.lens
    BY <1>1, <1>4
  <1>6. CASE t.status = "failed"
    <2>1. Recovering(v)
      BY <1>2, <1>6 DEF ReplanDrain
    <2>2. v \in Stream
      BY <1>1, HeadIs
    <2>3. Dead(pending[1], at)
      BY <1>6 DEF Dead
    <2>4. CASE ~Steady
      <3>1. ~Steady'
        BY <1>1, <2>4 DEF Steady
      <3>. QED  BY <1>1, <1>5, <3>1, LossKeeps
    <2>5. CASE Steady
      <3>1. \A n \in Sound(dev.lens, harmed \cup cut) :
              Undisturbed /\ u.block.id # n /\ ~(Len(pending[1].data) > 0 /\ pending[1].data[1][1] = n) =>
                 /\ v.block.id # n
                 /\ Handed(v.ready, reader.last, n) <=> Handed(u.ready, reader.last, n)
                 /\ Filled(v.ready, dev.lens, n)
        BY <1>1, <2>5, DeadAbsorbed
      <3>2. at # "ended"
        BY <1>1
      <3>. HIDE DEF v
      <3>. QED  BY <1>1, <1>5, <2>1, <2>2, <2>3, <3>1, <3>2, RecoveringLoses
    <2>. QED  BY <2>4, <2>5
  <1>7. CASE t.status = "gone"
    <2>1. at' = "ended"
      BY <1>2, <1>7 DEF ReplanDrain
    <2>2. ~Steady'
      BY <2>1 DEF Steady
    <2>. QED  BY <1>1, <1>5, <2>1, <2>2, LossKeeps
  <1>8. CASE t.status \notin {"failed", "gone"}
    <2>1. u' = (IF empty THEN v ELSE r) /\ at' = at /\ pending' = Tail(pending)
      BY <1>2, <1>8 DEF ReplanDrain
    <2>2. ASSUME Steady', Undisturbed PROVE Undisturbed'
      <3>1. Steady
        BY <1>1, <2>1, <2>2 DEF Steady
      <3>2. /\ Shaped(pending, dev.lens, Coming) /\ Planned(pending, at, u.planned)
            /\ Drained(pending, at, u.block)
        BY <2>2 DEF Undisturbed
      <3>3. /\ v \in Stream /\ v.block = u.block /\ v.ready = u.ready
            /\ Requested = pending[1].len /\ \A step : Planned(Tail(pending), step, v.planned)
        BY <1>1, <3>2, Unplanning
      <3>4. /\ Shaped(Tail(pending), dev.lens, Coming) /\ Shape(pending[1], dev.lens, Coming)
            /\ Len(Tail(pending)) \in Nat
            /\ \A j \in 1..Len(Tail(pending)) : Tail(pending)[j] = pending[j + 1] /\ j + 1 \in 1..Len(pending)
        BY <1>1, <3>2, ShapedTail
      <3>5. Drained(Tail(pending), at, u'.block)
        <4>1. \A j \in 1..Len(pending) : pending[j].status # "open"
          BY <1>1, <3>2 DEF Drained
        <4>. QED  BY <1>1, <3>4, <4>1 DEF Drained
      <3>6. t.status # "open"
        BY <1>1, <1>2, <3>2 DEF Drained
      <3>7. r.planned = v.planned
        <4>. DEFINE d == t.data
                    q == Requested
        <4>1. v \in Stream /\ d \in Seq(Packet)
          BY <1>3, <3>3
        <4>. HIDE DEF v, d, q
        <4>2. absorb(v, d, q).planned = v.planned
          BY <4>1, AbsorbIs, Zenon
        <4>. QED  BY <4>2 DEF d, q
      <3>8. Planned(Tail(pending), at, u'.planned)
        <4>1. u'.planned = v.planned
          BY <2>1, <3>7
        <4>. QED  BY <3>3, <4>1
      <3>9. ASSUME NEW n \in Sound(dev.lens, harmed' \cup cut')
            PROVE  Fares(Tail(pending), at, u'.block, u'.ready, dev.lens, reader.last, Coming, n)
        <4>1. n \in Sound(dev.lens, harmed \cup cut) /\ n \in 1..Len(dev.lens) /\ n \notin cut' /\ n # 0
          <5>1. n \in Sound(dev.lens, harmed \cup cut) /\ n \in 1..Len(dev.lens) /\ n \notin cut'
            BY <1>5, SoundBefore
          <5>. QED  BY <5>1
        <4>2. Fares(pending, at, u.block, u.ready, dev.lens, reader.last, Coming, n)
          BY <2>2, <4>1 DEF Undisturbed
        <4>3. Filled(u.ready, dev.lens, n) /\ Behind(pending, u.ready, dev.lens, reader.last, Coming, n)
          BY <4>2 DEF Fares
        <4>4. Run(t.data)
          BY <3>4 DEF Shape
        <4>5. CASE t.status = "ok"
          <5>1. Fares(Tail(pending), at, r.block, r.ready, dev.lens, reader.last, Coming, n)
            BY <1>1, <3>1, <4>1, <4>5, TakenIn
          <5>2. u' = r
            BY <2>1, <4>5
          <5>. QED  BY <5>1, <5>2
        <4>6. CASE empty
          <5>1. Len(t.data) = 0
            BY <4>6
          <5>2. \A p : ~Ends(t.data, p)
            BY <5>1 DEF Ends
          <5>3. Behind(Tail(pending), u.ready, dev.lens, reader.last, Coming, n)
            <6>1. Ahead(Tail(pending), Coming) \subseteq Ahead(pending, Coming)
              BY <1>1, BusTail
            <6>. QED  BY <4>3, <6>1 DEF Behind
          <5>4. u'.block = u.block /\ u'.ready = u.ready
            BY <2>1, <3>3, <4>6
          <5>. HIDE DEF t
          <5>5. Fares(Tail(pending), at, u.block, u.ready, dev.lens, reader.last, Coming, n)
            BY <1>1, <4>1, <4>2, <4>3, <4>4, <5>2, <5>3, HeadGone DEF t
          <5>. QED  BY <5>4, <5>5
        <4>7. CASE t.status = "cancelled" /\ t.data # <<>>
          <5>1. Len(t.data) > 0
            BY <1>3, <4>7
          <5>2. u' = r
            BY <2>1, <4>7
          <5>. DEFINE q == Requested
          <5>3. q \in Int
            <6>1. pending[1] \in Transfers
              BY <1>1, <1>2
            <6>. QED  BY <3>3, <6>1 DEF Transfers
          <5>4. /\ InOrder(pending, v.block, v.ready, dev.lens, reader.last, Coming)
                /\ Fares(pending, at, v.block, v.ready, dev.lens, reader.last, Coming, n)
            BY <1>1, <3>3, <4>2
          <5>5. t.data[1][1] # n
            <6>1. ASSUME t.data[1][1] = n PROVE FALSE
              <7>. DEFINE d == pending[1].data
                          w == absorb(v, d, q)
              <7>1. pending[1].status # "ok" /\ Len(pending[1].data) > 0 /\ pending[1].data[1][1] = n
                BY <4>7, <5>1, <6>1
              <7>2. r.block.id = n /\ r.block.payload # v.block.payload
                <8>1. r = w
                  OBVIOUS
                <8>. HIDE DEF v, q, t
                <8>2. w.block.id = n
                  <9>. HIDE DEF r
                  <9>. QED  BY <1>1, <3>3, <3>4, <4>1, <5>3, <5>4, <7>1, HeadCut, ZenonT(60)
                <8>3. w.block.payload # v.block.payload
                  <9>. HIDE DEF r
                  <9>. QED  BY <1>1, <3>3, <3>4, <4>1, <5>3, <5>4, <7>1, HeadCut
                <8>. HIDE DEF w, r
                <8>. QED  BY <8>1, <8>2, <8>3
              <7>. HIDE DEF r
              <7>3. r.block.id # 0 /\ r.block.payload # u.block.payload
                BY <3>3, <4>1, <7>2
              <7>4. n \in cut'
                BY <1>4, <4>7, <7>2, <7>3
              <7>. QED  BY <4>1, <7>4
            <6>. QED  BY <6>1
          <5>6. u.block.id # n
            <6>1. ASSUME u.block.id = n PROVE FALSE
              <7>1. u.block.id # 0 /\ Ended(pending, u.ready, dev.lens, reader.last, Coming, u.block.id)
                    /\ Chained(pending, u.block, dev.lens, u.block.id) /\ Len(pending) > 0
                BY <1>1, <4>1, <4>2, <6>1 DEF Fares
              <7>2. t.data[1][1] = u.block.id
                BY <1>1, <4>4, <5>1, <7>1, HeadBelongs
              <7>. QED  BY <5>5, <6>1, <7>2
            <6>. QED  BY <6>1
          <5>7. ~(Len(pending[1].data) > 0 /\ pending[1].data[1][1] = n)
            BY <5>5
          <5>8. /\ Handed(r.ready, reader.last, n) <=> Handed(u.ready, reader.last, n)
                /\ Filled(r.ready, dev.lens, n)
            BY <1>1, <3>1, <4>1, <5>6, <5>7, DeadAbsorbed
          <5>. HIDE DEF r
          <5>9. Fares(Tail(pending), at, r.block, r.ready, dev.lens, reader.last, Coming, n)
            BY <1>1, <4>1, <4>2, <4>4, <5>6, <5>7, <5>8, HeadPasses
          <5>. QED  BY <5>2, <5>9
        <4>. QED  BY <1>3, <1>8, <3>6, <4>5, <4>6, <4>7 DEF Statuses
      <3>. HIDE DEF r, v
      <3>. QED  BY <1>1, <2>1, <3>4, <3>5, <3>8, <3>9 DEF Undisturbed
    <2>3. at = "ended" => at' = "ended"
      BY <1>1
    <2>. QED  BY <1>1, <1>5, <2>2, <2>3, LossKeeps
  <1>. QED  BY <1>6, <1>7, <1>8

\* A drain that is given up may cost any block.
LEMMA GivenUp ==
    ASSUME LossInv, dev'.lens = dev.lens, reader' = reader, harmed' = 1..MaxBlocks, UNCHANGED cut,
           TypeInv, at # "ended"
    PROVE  LossInv'
  <1>1. ~Steady'
    BY DEF Steady
  <1>2. Sending' <= MaxBlocks
    BY DEF LossInv, Sending
  <1>3. Sound(dev.lens, harmed' \cup cut') = {}
    <2>1. Len(dev.lens) <= MaxBlocks /\ Len(dev.lens) \in Nat /\ MaxBlocks \in Nat
      BY U3vAssumption DEF LossInv, Sending, TypeInv
    <2>. QED  BY <2>1 DEF Sound
  <1>4. Delivers(dev'.lens, harmed' \cup cut', reader')
    BY <1>3 DEF Delivers
  <1>. QED  BY <1>1, <1>2, <1>4 DEF LossInv

\* All transfers are back, or one is late.
LEMMA ReplanDoneLoses ==
    ASSUME IInv, LossInv, NEW late \in BOOLEAN, ReplanDone(late)
    PROVE  LossInv'
  <1>1. /\ at = "replan" /\ at' = "top" /\ UNCHANGED <<pending, dev, usb, reader, cut>> /\ Coming' = Coming
        /\ u' = [u EXCEPT !.planned = <<>>, !.next = cursor(u)]
        /\ harmed' = IF late THEN 1..MaxBlocks ELSE harmed
        /\ ~late => pending = <<>>
    BY DEF ReplanDone, Coming, Sending
  <1>2. TypeInv /\ u \in Stream
    BY DEF IInv, TypeInv
  <1>3. CASE late
    BY <1>1, <1>2, <1>3, GivenUp
  <1>4. CASE ~late
    <2>1. ASSUME Undisturbed PROVE Undisturbed'
      <3>1. pending = <<>> /\ Len(pending) = 0 /\ Len(pending) \in Nat
        BY <1>1, <1>4
      <3>2. u'.block = u.block /\ u'.ready = u.ready /\ u'.planned = <<>>
        BY <1>1, <1>2 DEF Stream
      <3>3. ASSUME NEW n \in Sound(dev.lens, harmed \cup cut)
            PROVE  Fares(pending, "top", u.block, u.ready, dev.lens, reader.last, Coming, n)
        <4>1. Fares(pending, at, u.block, u.ready, dev.lens, reader.last, Coming, n)
          BY <2>1 DEF Undisturbed
        <4>2. \A j \in 1..Len(pending) : Dead(pending[j], "top") => Dead(pending[j], at)
          BY <3>1
        <4>3. Filled(u.ready, dev.lens, n)
          BY <4>1 DEF Fares
        <4>. QED  BY <3>1, <4>1, <4>2, <4>3, FaresOn
      <3>4. Planned(pending, "top", u'.planned) /\ Drained(pending, "top", u.block)
        BY <3>1, <3>2 DEF Planned, Drained
      <3>5. Shaped(pending, dev.lens, Coming)
        BY <2>1 DEF Undisturbed
      <3>. QED  BY <1>1, <1>4, <3>2, <3>3, <3>4, <3>5 DEF Undisturbed
    <2>. QED  BY <1>1, <1>4, <2>1, LossKeeps
  <1>. QED  BY <1>3, <1>4

\* A transfer comes back while recovering, and is dropped.
LEMMA RecoverDrainLoses ==
    ASSUME IInv, LossInv, RecoverDrain
    PROVE  LossInv'
  <1>. DEFINE d == pending[1].data
  <1>1. /\ pending \in Seq(Transfers) /\ Coming \in Packet /\ Coming' = Coming
        /\ at = "recover" /\ pending # <<>> /\ pending' = Tail(pending) /\ UNCHANGED <<u, dev, usb, reader, cut>>
        /\ InOrder(pending, u.block, u.ready, dev.lens, reader.last, Coming) /\ BusInOrder(pending, Coming)
    BY DevType, InvInOrder DEF IInv, TypeInv, RecoverDrain, Coming, Sending
  <1>2. 1 \in 1..Len(pending) /\ Head(pending) = pending[1]
    BY <1>1
  <1>3. harmed' = harmed \cup {p[1] : p \in Range(d)} /\ at' \in {"ended", "recover"}
    BY <1>1, <1>2 DEF RecoverDrain
  <1>4. d \in Seq(Packet)
    BY <1>1, <1>2, DataType
  <1>5. ASSUME Steady', Undisturbed PROVE Undisturbed'
    <2>1. at' = "recover"
      BY <1>3, <1>5 DEF Steady
    <2>2. /\ Shaped(pending, dev.lens, Coming) /\ u.block.id = 0
          /\ \A j \in 1..Len(pending) : pending[j].status # "open"
      BY <1>1, <1>5 DEF Undisturbed, Drained
    <2>3. /\ Shaped(Tail(pending), dev.lens, Coming) /\ Shape(pending[1], dev.lens, Coming)
          /\ \A j \in 1..Len(Tail(pending)) : Tail(pending)[j] = pending[j + 1] /\ j + 1 \in 1..Len(pending)
      BY <1>1, <2>2, ShapedTail
    <2>4. Drained(Tail(pending), "recover", u.block) /\ Planned(Tail(pending), "recover", u.planned)
      BY <2>2, <2>3 DEF Drained, Planned
    <2>5. harmed \subseteq harmed' /\ cut \subseteq cut' /\ dev'.lens = dev.lens
      BY <1>1, <1>3
    <2>6. ASSUME NEW n \in Sound(dev.lens, harmed' \cup cut')
          PROVE  Fares(Tail(pending), "recover", u.block, u.ready, dev.lens, reader.last, Coming, n)
      <3>1. n \in Sound(dev.lens, harmed \cup cut) /\ n \in 1..Len(dev.lens) /\ n \notin harmed' /\ n # 0
        <4>1. n \in Sound(dev.lens, harmed \cup cut) /\ n \in 1..Len(dev.lens) /\ n \notin harmed'
          BY <2>5, SoundBefore
        <4>. QED  BY <4>1
      <3>2. Fares(pending, "recover", u.block, u.ready, dev.lens, reader.last, Coming, n)
        BY <1>1, <1>5, <3>1 DEF Undisturbed
      <3>3. u.block.id # n
        BY <2>2, <3>1
      <3>4. ~(Len(d) > 0 /\ d[1][1] = n)
        <4>1. ASSUME Len(d) > 0, d[1][1] = n PROVE FALSE
          <5>1. d[1] \in Range(d)
            <6>. HIDE DEF d
            <6>1. 1 \in DOMAIN d
              BY <1>4, <4>1
            <6>. QED  BY <6>1 DEF Range
          <5>2. n \in harmed'
            BY <1>3, <4>1, <5>1
          <5>. QED  BY <3>1, <5>2
        <4>. QED  BY <4>1
      <3>5. Run(pending[1].data) /\ Filled(u.ready, dev.lens, n)
        BY <2>3, <3>2 DEF Shape, Fares
      <3>. QED  BY <1>1, <3>1, <3>2, <3>3, <3>4, <3>5, HeadPasses
    <2>. QED  BY <1>1, <2>1, <2>3, <2>4, <2>6 DEF Undisturbed
  <1>6. harmed \subseteq harmed'
    BY <1>3
  <1>. QED  BY <1>1, <1>5, <1>6, LossKeeps

\* The endpoint is reset: only the block that loses packets by it may be lost.
LEMMA ResetLoses ==
    ASSUME IInv, LossInv, NEW i \in Nat, NEW late \in BOOLEAN, Reset(i, late)
    PROVE  LossInv'
  <1>1. /\ at = "recover" /\ UNCHANGED <<pending, usb, reader, cut>> /\ (~late => pending = <<>>)
    BY DEF Reset
  <1>2. TypeInv /\ u \in Stream /\ dev \in [lens : Seq(Nat), i : Nat] /\ dev.lens \in Seq(Nat)
    BY DevType DEF IInv, TypeInv
  <1>3. CASE ~usb.present
    <2>1. at' = "ended" /\ UNCHANGED <<u, dev, harmed>>
      BY <1>3 DEF Reset
    <2>2. ~Steady'
      BY <2>1 DEF Steady
    <2>. QED  BY <1>1, <2>1, <2>2, LossKeeps
  <1>4. CASE usb.present
    <2>1. /\ u' = [u EXCEPT !.planned = <<>>, !.next = Leader] /\ at' = "top" /\ dev' = [dev EXCEPT !.i = i]
          /\ harmed' = IF late THEN 1..MaxBlocks ELSE harmed \cup (IF i # dev.i THEN {Sending} ELSE {})
      BY <1>4 DEF Reset
    <2>2. dev'.lens = dev.lens /\ dev'.i = i /\ Coming' = <<Sending, i>>
      BY <1>2, <2>1 DEF Coming, Sending
    <2>3. CASE late
      BY <1>1, <1>2, <2>1, <2>2, <2>3, GivenUp
    <2>4. CASE ~late
      <3>1. harmed' = harmed \cup (IF i # dev.i THEN {Sending} ELSE {}) /\ pending = <<>>
        BY <1>1, <2>1, <2>4
      <3>2. harmed \subseteq harmed' /\ cut \subseteq cut'
        BY <1>1, <3>1
      <3>3. ASSUME Undisturbed PROVE Undisturbed'
        <4>1. Len(pending) = 0 /\ Len(pending) \in Nat
          BY <3>1
        <4>2. u'.block = u.block /\ u'.ready = u.ready /\ u'.planned = <<>>
          BY <1>2, <2>1 DEF Stream
        <4>3. Planned(pending, "top", u'.planned) /\ Drained(pending, "top", u.block) /\ Shaped(pending, dev.lens, Coming')
          BY <4>1, <4>2 DEF Planned, Drained, Shaped
        <4>4. ASSUME NEW n \in Sound(dev.lens, harmed' \cup cut')
              PROVE  Fares(pending, "top", u.block, u.ready, dev.lens, reader.last, Coming', n)
          <5>1. n \in Sound(dev.lens, harmed \cup cut) /\ n \in 1..Len(dev.lens) /\ n \notin harmed'
            BY <2>2, <3>2, SoundBefore
          <5>2. Fares(pending, at, u.block, u.ready, dev.lens, reader.last, Coming, n)
            BY <3>3, <5>1 DEF Undisturbed
          <5>3. CASE i = dev.i
            <6>1. Coming' = Coming
              BY <2>2, <5>3 DEF Coming
            <6>2. \A j \in 1..Len(pending) : Dead(pending[j], "top") => Dead(pending[j], at)
              BY <4>1
            <6>3. Filled(u.ready, dev.lens, n)
              BY <5>2 DEF Fares
            <6>4. Fares(pending, "top", u.block, u.ready, dev.lens, reader.last, Coming, n)
              BY <4>1, <5>2, <6>2, <6>3, FaresOn
            <6>. QED  BY <6>1, <6>4
          <5>4. CASE i # dev.i
            <6>. DEFINE next == <<Sending, i>>
                        e == End(dev.lens, n)
            <6>1. n # Sending
              BY <3>1, <5>1, <5>4
            <6>2. n < Sending /\ Sending = Len(dev.lens) /\ Sending \in Nat
              BY <1>2, <5>1, <6>1 DEF Sending
            <6>3. next[1] = Sending /\ e[1] = n /\ Coming[1] = Sending
              BY DEF End, Coming
            <6>4. Apart(e, next, 1) /\ Apart(e, Coming, 1)
              <7>. HIDE DEF next, e
              <7>. QED  BY <6>2, <6>3 DEF Apart
            <6>5. Chained(pending, u.block, dev.lens, n) /\ NextChained(pending, u.block, dev.lens, next, n)
              <7>1. \A j : j \notin 1..Len(pending)
                BY <4>1
              <7>. HIDE DEF next
              <7>. QED  BY <6>1, <6>3, <7>1 DEF Chained, NextChained
            <6>6. Ended(pending, u.ready, dev.lens, reader.last, next, n)
              BY <5>2, <6>4 DEF Fares, Ended
            <6>7. Behind(pending, u.ready, dev.lens, reader.last, next, n)
              <7>1. \A y \in Ahead(pending, next) : y = next
                BY <4>1, AheadIs
              <7>. QED  BY <6>4, <7>1 DEF Behind
            <6>8. Spared(pending, "top", u.ready, dev.lens, reader.last, next, n)
              BY <4>1 DEF Spared
            <6>9. Fares(pending, "top", u.block, u.ready, dev.lens, reader.last, next, n)
              BY <5>2, <6>5, <6>6, <6>7, <6>8 DEF Fares
            <6>. QED  BY <2>2, <6>9
          <5>. QED  BY <5>3, <5>4
        <4>. QED  BY <1>1, <2>1, <2>2, <4>2, <4>3, <4>4 DEF Undisturbed
      <3>. QED  BY <1>1, <2>2, <3>2, <3>3, LossKeeps
    <2>. QED  BY <2>3, <2>4
  <1>. QED  BY <1>3, <1>4

\* The last block that was passed has been sent.
LEMMA LastSent ==
    ASSUME NEW ts, NEW b, NEW rd, NEW lens, NEW last, NEW next, InOrder(ts, b, rd, lens, last, next)
    PROVE  last \in 0..Len(lens) /\ \A k \in 1..Len(rd) : rd[k].id \in 1..Len(lens)
  <1>1. /\ last \in Nat /\ next \in Packet /\ next[1] = Len(lens) /\ Len(lens) \in Nat
        /\ ReadyInOrder(b, rd, last, Ahead(ts, next)) /\ \A k \in 1..Len(rd) : Truthful(rd[k], lens)
    BY DEF InOrder, StreamInv
  <1>2. Led(last, next)
    <2>1. next \in Ahead(ts, next)
      BY AheadIs
    <2>. QED  BY <1>1, <2>1 DEF ReadyInOrder
  <1>3. last <= Len(lens)
    BY <1>1, <1>2 DEF Led, Apart
  <1>4. \A k \in 1..Len(rd) : rd[k].id \in 1..Len(lens)
    BY <1>1 DEF Truthful
  <1>. QED  BY <1>1, <1>3, <1>4

\* Another block is begun: nothing changes for one that was sent.
LEMMA FaresBegun ==
    ASSUME NEW ts, NEW b, NEW rd, NEW lens, NEW last, NEW next, InOrder(ts, b, rd, lens, last, next),
           NEW ls, NEW n \in 1..Len(lens), ls[n] = lens[n], next[2] > lens[next[1]] + 1,
           NEW step, Fares(ts, step, b, rd, lens, last, next, n),
           NEW after, after[1] = Len(lens) + 1
    PROVE  Fares(ts, step, b, rd, ls, last, after, n)
  <1>1. next \in Packet /\ next[1] = Len(lens) /\ Len(lens) \in Nat /\ lens[n] \in Nat
    BY DEF InOrder
  <1>2. End(ls, n) = End(lens, n) /\ \A i : Kept(b, ls, n, i) <=> Kept(b, lens, n, i)
    BY DEF End, Kept
  <1>3. Chained(ts, b, ls, n)
    <2>1. \A j, i : Before(ts, j, b, ls, n, i) <=> Before(ts, j, b, lens, n, i)
      BY <1>2 DEF Before
    <2>2. Chained(ts, b, lens, n)
      BY DEF Fares
    <2>. QED  BY <2>1, <2>2, Zenon DEF Chained
  <1>4. NextChained(ts, b, ls, after, n)
    BY <1>1 DEF NextChained
  <1>5. Fits(ls, n) /\ Filled(rd, ls, n)
    BY DEF Fares, Fits, Filled
  <1>6. Ended(ts, rd, ls, last, after, n)
    <2>1. Apart(End(lens, n), next, 1)
      BY <1>1 DEF Apart, End, Packet
    <2>2. Ended(ts, rd, lens, last, next, n)
      BY DEF Fares
    <2>. QED  BY <1>2, <2>1, <2>2 DEF Ended
  <1>7. Behind(ts, rd, ls, last, after, n)
    <2>. SUFFICES ASSUME Handed(rd, last, n), NEW y \in Ahead(ts, after) PROVE Apart(End(ls, n), y, 1)
      BY DEF Behind
    <2>1. CASE y = after
      BY <1>1, <2>1 DEF Apart, End
    <2>2. CASE y # after
      <3>1. y \in Ahead(ts, next)
        BY <2>2, AheadIs
      <3>2. Behind(ts, rd, lens, last, next, n)
        BY DEF Fares
      <3>. QED  BY <1>2, <3>1, <3>2 DEF Behind
    <2>. QED  BY <2>1, <2>2
  <1>8. Spared(ts, step, rd, ls, last, after, n)
    <2>1. Spared(ts, step, rd, lens, last, next, n)
      BY DEF Fares
    <2>2. next # <<n, 0>>
      <3>1. ASSUME next = <<n, 0>> PROVE FALSE
        <4>1. next[1] = n /\ next[2] = 0
          BY <3>1
        <4>. QED  BY <1>1, <4>1
      <3>. QED  BY <3>1
    <2>3. ASSUME NEW j \in 1..Len(ts), Beside(ts, j, rd, lens, last, next, n)
          PROVE  Beside(ts, j, rd, ls, last, after, n)
      BY <1>2, <2>2, <2>3 DEF Beside
    <2>. QED  BY <2>1, <2>3 DEF Spared
  <1>. QED  BY <1>3, <1>4, <1>5, <1>6, <1>7, <1>8 DEF Fares

\* Nothing of the block that is begun has been sent.
LEMMA FaresNew ==
    ASSUME NEW ts, NEW b, NEW rd, NEW lens, NEW last, NEW next, InOrder(ts, b, rd, lens, last, next),
           NEW ls, NEW n, n = Len(lens) + 1, ls[n] \in Nat, Fits(ls, n), NEW step
    PROVE  Fares(ts, step, b, rd, ls, last, <<n, 0>>, n)
  <1>. DEFINE after == <<n, 0>>
  <1>1. Len(lens) \in Nat /\ after[1] = n /\ after[2] = 0 /\ n \in Nat
    BY DEF InOrder
  <1>2. ~Handed(rd, last, n)
    <2>1. last \in 0..Len(lens) /\ \A k \in 1..Len(rd) : rd[k].id \in 1..Len(lens)
      BY LastSent
    <2>. QED  BY <1>1, <2>1 DEF Handed
  <1>3. Chained(ts, b, ls, n)
    <2>1. ASSUME NEW j \in 1..Len(ts), Len(ts[j].data) > 0 PROVE ts[j].data[1][1] # n
      <3>1. 1 \in 1..Len(ts[j].data)
        <4>1. ts \in Seq(Transfers)
          BY DEF InOrder
        <4>2. ts[j].data \in Seq(Packet)
          BY <4>1, DataType
        <4>. QED  BY <2>1, <4>2
      <3>2. ts[j].data[1][1] \in 1..Len(lens)
        BY <3>1, HeldBefore
      <3>. QED  BY <1>1, <3>2
    <2>. QED  BY <2>1, Zenon DEF Chained
  <1>. HIDE DEF after
  <1>4. NextChained(ts, b, ls, after, n)
    BY <1>1 DEF NextChained
  <1>5. Ended(ts, rd, ls, last, after, n)
    BY <1>1 DEF Ended, Apart, End
  <1>6. Behind(ts, rd, ls, last, after, n)
    BY <1>2 DEF Behind
  <1>7. Filled(rd, ls, n)
    BY <1>2 DEF Filled, Handed
  <1>8. Spared(ts, step, rd, ls, last, after, n)
    BY DEF Spared, Beside, after
  <1>9. Fares(ts, step, b, rd, ls, last, after, n)
    BY <1>3, <1>4, <1>5, <1>6, <1>7, <1>8 DEF Fares
  <1>. QED  BY <1>9 DEF after

\* While nothing of a block is left to send, no transfer has part of a payload.
LEMMA ShapedIdle ==
    ASSUME NEW ts, NEW b, NEW rd, NEW lens, NEW last, NEW next, InOrder(ts, b, rd, lens, last, next),
           Shaped(ts, lens, next), Len(lens) = 0 \/ next[2] > lens[next[1]] + 1,
           NEW ls, \A n \in 1..Len(lens) : ls[n] = lens[n], NEW after
    PROVE  Shaped(ts, ls, after)
  <1>1. ts \in Seq(Transfers) /\ next[1] = Len(lens) /\ Len(lens) \in Nat /\ next[2] \in Nat /\ lens \in Seq(Nat)
    BY DEF InOrder, Packet
  <1>2. ASSUME NEW j \in 1..Len(ts) PROVE Shape(ts[j], ls, after)
    <2>. DEFINE d == ts[j].data
    <2>1. Shape(ts[j], lens, next) /\ d \in Seq(Packet) /\ Len(d) \in Nat
      BY <1>1, DataType DEF Shaped
    <2>2. \A k \in 1..Len(d) : d[k][1] \in 1..Len(lens)
      BY HeldBefore
    <2>3. ASSUME Len(d) > 0 PROVE Short(ls, d[Len(d)]) <=> Short(lens, d[Len(d)])
      <3>1. Len(d) \in 1..Len(d)
        BY <2>1, <2>3
      <3>2. d[Len(d)][1] \in 1..Len(lens)
        BY <2>2, <3>1
      <3>. HIDE DEF d
      <3>. QED  BY <3>2 DEF Short
    <2>4. ts[j].status = "open" => Len(d) = 0
      <3>1. ASSUME ts[j].status = "open", Len(d) > 0 PROVE FALSE
        <4>1. next[2] <= lens[next[1]] + 1
          BY <2>1, <3>1 DEF Shape
        <4>2. Len(lens) # 0
          <5>1. 1 \in 1..Len(d)
            BY <2>1, <3>1
          <5>. QED  BY <1>1, <2>2, <5>1
        <4>3. lens[next[1]] \in Nat
          BY <1>1, <4>2
        <4>. QED  BY <1>1, <4>1, <4>2, <4>3
      <3>. QED  BY <2>1, <3>1
    <2>5. /\ Run(d) /\ (ts[j].status = "ok" => Len(d) > 0 /\ (Len(d) = ts[j].len \/ Short(lens, d[Len(d)])))
          /\ (Len(d) > 0 /\ Short(lens, d[Len(d)]) => ts[j].status = "ok")
      BY <2>1 DEF Shape
    <2>6. /\ (ts[j].status = "ok" => Len(d) > 0 /\ (Len(d) = ts[j].len \/ Short(ls, d[Len(d)])))
          /\ (Len(d) > 0 /\ Short(ls, d[Len(d)]) => ts[j].status = "ok")
          /\ ~(ts[j].status = "open" /\ Len(d) > 0)
      BY <2>1, <2>3, <2>4, <2>5
    <2>. QED  BY <2>5, <2>6 DEF Shape
  <1>. QED  BY <1>2 DEF Shaped

\* The device begins a block.
LEMMA BeginBlockLoses ==
    ASSUME IInv, LossInv, NEW len \in Lengths, BeginBlock(len)
    PROVE  LossInv'
  <1>. DEFINE ls == Append(dev.lens, len)
              bad == harmed \cup cut
              worse == harmed' \cup cut'
  <1>1. /\ InOrder(pending, u.block, u.ready, dev.lens, reader.last, Coming)
        /\ dev.lens \in Seq(Nat) /\ Len(dev.lens) = Sending /\ Sending \in Nat /\ Coming[1] = Sending /\ Coming[2] = dev.i
        /\ dev.i \in Nat /\ MaxBlocks \in Nat /\ len \in Nat /\ len >= 1
    BY InvInOrder, DevType, U3vAssumption DEF IInv, Sending
  <1>2. /\ Sending < MaxBlocks /\ Idle /\ dev' = [lens |-> ls, i |-> 0] /\ UNCHANGED <<u, at, pending, usb, reader, cut>>
        /\ harmed' = IF len > capacity THEN harmed \cup {Sending + 1} ELSE harmed
    BY DEF BeginBlock
  <1>3. /\ ls \in Seq(Nat) /\ Len(ls) = Len(dev.lens) + 1 /\ ls[Len(dev.lens) + 1] = len
        /\ \A n \in 1..Len(dev.lens) : ls[n] = dev.lens[n]
    BY <1>1
  <1>4. dev'.lens = ls /\ Coming' = <<Len(dev.lens) + 1, 0>> /\ Sending' = Len(dev.lens) + 1
    BY <1>2, <1>3 DEF Coming, Sending
  <1>5. Sending = 0 \/ Coming[2] > dev.lens[Coming[1]] + 1
    BY <1>1, <1>2 DEF Idle, Len_
  <1>6. bad \subseteq worse /\ harmed \subseteq harmed'
    BY <1>2
  <1>. HIDE DEF ls
  <1>7. \A n \in Sound(ls, worse) : n \in Sound(dev.lens, bad) \/ n = Len(dev.lens) + 1
    BY <1>1, <1>3, <1>6 DEF Sound
  <1>8. Sending' <= MaxBlocks
    BY <1>1, <1>2, <1>4
  <1>9. Delivers(ls, worse, reader)
    <2>1. reader.last \in 0..Len(dev.lens)
      BY <1>1, LastSent
    <2>2. ASSUME NEW n \in Sound(ls, worse), n <= reader.last PROVE n \in Sound(dev.lens, bad)
      <3>. HIDE DEF bad, worse
      <3>1. n # Len(dev.lens) + 1
        BY <1>1, <2>1, <2>2
      <3>. QED  BY <1>7, <3>1
    <2>3. Delivers(dev.lens, bad, reader)
      BY DEF LossInv
    <2>. HIDE DEF bad, worse
    <2>. QED  BY <2>2, <2>3 DEF Delivers
  <1>10. ASSUME Undisturbed PROVE Undisturbed'
    <2>1. /\ Shaped(pending, dev.lens, Coming) /\ Planned(pending, at, u.planned) /\ Drained(pending, at, u.block)
      BY <1>10 DEF Undisturbed
    <2>. DEFINE after == <<Len(dev.lens) + 1, 0>>
    <2>2. Shaped(pending, ls, after)
      <3>1. Len(dev.lens) = 0 \/ Coming[2] > dev.lens[Coming[1]] + 1
        BY <1>1, <1>5
      <3>2. InOrder(pending, u.block, u.ready, dev.lens, reader.last, Coming)
        BY <1>1
      <3>3. \A n \in 1..Len(dev.lens) : ls[n] = dev.lens[n]
        BY <1>3
      <3>. HIDE DEF after
      <3>. QED  BY <2>1, <3>1, <3>2, <3>3, ShapedIdle, Zenon
    <2>3. ASSUME NEW n \in Sound(ls, worse)
          PROVE  Fares(pending, at, u.block, u.ready, ls, reader.last, after, n)
      <3>1. CASE n \in Sound(dev.lens, bad)
        <4>1. n \in 1..Len(dev.lens) /\ Len(dev.lens) # 0 /\ ls[n] = dev.lens[n]
          BY <1>1, <1>3, <3>1, SMTT(60) DEF Sound
        <4>2. Fares(pending, at, u.block, u.ready, dev.lens, reader.last, Coming, n)
          BY <1>10, <3>1 DEF Undisturbed
        <4>3. after[1] = Len(dev.lens) + 1
          OBVIOUS
        <4>. HIDE DEF after
        <4>. QED  BY <1>1, <1>5, <4>1, <4>2, <4>3, FaresBegun
      <3>2. CASE n = Len(dev.lens) + 1
        <4>1. n \notin harmed'
          BY <2>3 DEF Sound
        <4>2. len <= capacity
          <5>1. capacity \in Nat
            BY U3vAssumption DEF capacity
          <5>. HIDE DEF worse, bad
          <5>. QED  BY <1>1, <1>2, <3>2, <4>1, <5>1
        <4>3. Fits(ls, n) /\ ls[n] \in Nat
          BY <1>1, <1>3, <3>2, <4>2 DEF Fits
        <4>. QED  BY <1>1, <3>2, <4>3, FaresNew
      <3>. QED  BY <1>7, <3>1, <3>2
    <2>. QED  BY <1>2, <1>4, <2>1, <2>2, <2>3 DEF Undisturbed
  <1>11. Steady' => Steady
    BY <1>2, <1>6 DEF Steady
  <1>. QED  BY <1>2, <1>4, <1>8, <1>9, <1>10, <1>11 DEF LossInv

\* The packet to come goes to the j-th transfer, the oldest that is open.
Fills(ts, us, j, lens, next, after) ==
    /\ us \in Seq(Transfers) /\ Len(us) = Len(ts) /\ j \in 1..Len(ts)
    /\ ts[j].status = "open" /\ \A k \in 1..Len(ts) : ts[k].status = "open" => j <= k
    /\ \A k \in 1..Len(ts) : k # j => us[k] = ts[k]
    /\ us[j].data = Append(ts[j].data, next)
    /\ us[j].status = IF Short(lens, next) \/ Len(us[j].data) = us[j].len THEN "ok" ELSE "open"
    /\ next[1] # 0 /\ next[2] <= lens[next[1]] + 1 /\ after = <<next[1], next[2] + 1>>

\* The data of the transfer that is filled was sent last.
LEMMA FilledHead ==
    ASSUME NEW ts, NEW us, NEW b, NEW rd, NEW lens, NEW last, NEW next, InOrder(ts, b, rd, lens, last, next),
           NEW j, NEW after, Fills(ts, us, j, lens, next, after), Shaped(ts, lens, next), Len(ts[j].data) > 0
    PROVE  /\ 2 <= next[2] /\ 1 \in 1..Len(ts[j].data) /\ ts[j].data[1] \in Packet
           /\ ts[j].data[1][1] = next[1] /\ next[2] = ts[j].data[1][2] + Len(ts[j].data)
  <1>. DEFINE d == ts[j].data
              l == Len(d)
  <1>1. /\ ts \in Seq(Transfers) /\ next \in Packet /\ next[1] \in Nat /\ next[2] \in Nat
        /\ j \in 1..Len(ts) /\ ts[j].status = "open"
    BY DEF InOrder, Fills, Packet
  <1>2. d \in Seq(Packet) /\ l \in Nat
    BY <1>1, DataType
  <1>3. Ends(d, <<next[1], next[2] - 1>>) /\ 2 <= next[2] /\ Run(d)
    BY <1>1 DEF Shaped, Shape
  <1>4. d[l] = <<next[1], next[2] - 1>> /\ l > 0
    BY <1>3 DEF Ends
  <1>5. d[l] = <<d[1][1], d[1][2] + l - 1>> /\ 1 \in 1..l /\ d[1] \in Packet
    <2>. HIDE DEF d
    <2>. QED  BY <1>2, <1>3, <1>4, RunIs
  <1>6. d[1][2] \in Nat
    BY <1>5 DEF Packet
  <1>7. d[1][1] = next[1] /\ d[1][2] + l - 1 = next[2] - 1
    <2>. HIDE DEF d, l
    <2>. QED  BY <1>4, <1>5
  <1>8. next[2] = d[1][2] + l
    <2>1. next[2] \in Int /\ l \in Int /\ d[1][2] \in Int
      BY <1>1, <1>2, <1>6
    <2>. HIDE DEF d, l
    <2>. QED  BY <1>7, <2>1
  <1>. QED  BY <1>3, <1>5, <1>7, <1>8

\* The transfer that is filled.
LEMMA FilledIs ==
    ASSUME NEW ts, NEW us, NEW b, NEW rd, NEW lens, NEW last, NEW next, InOrder(ts, b, rd, lens, last, next),
           NEW j, NEW after, Fills(ts, us, j, lens, next, after), Shaped(ts, lens, next)
    PROVE  /\ ts[j].data \in Seq(Packet) /\ us[j].data \in Seq(Packet) /\ Len(ts[j].data) \in Nat
           /\ Len(us[j].data) = Len(ts[j].data) + 1 /\ us[j].data[Len(us[j].data)] = next
           /\ \A k \in 1..Len(ts[j].data) : us[j].data[k] = ts[j].data[k]
           /\ Ends(us[j].data, next) /\ Run(us[j].data) /\ us[j].data[1][1] = next[1]
           /\ \A k \in 1..Len(ts) : j < k => Len(ts[k].data) = 0 /\ ts[k].status = "open"
  <1>. DEFINE d == ts[j].data
              e == us[j].data
              l == Len(d)
  <1>1. /\ ts \in Seq(Transfers) /\ next \in Packet /\ next[1] \in Nat /\ next[2] \in Nat /\ BusInOrder(ts, next)
        /\ j \in 1..Len(ts) /\ ts[j].status = "open" /\ e = Append(d, next) /\ Len(ts) \in Nat
    BY DEF InOrder, Fills, Packet
  <1>2. d \in Seq(Packet) /\ l \in Nat
    BY <1>1, DataType
  <1>3. e \in Seq(Packet) /\ Len(e) = l + 1 /\ e[l + 1] = next /\ \A k \in 1..l : e[k] = d[k]
    <2>. HIDE DEF d, e
    <2>. QED  BY <1>1, <1>2
  <1>4. Shape(ts[j], lens, next)
    BY <1>1 DEF Shaped
  <1>5. ASSUME l > 0
        PROVE  1 \in 1..l /\ d[1] \in Packet /\ d[1][1] = next[1] /\ next[2] = d[1][2] + l
    BY <1>5, FilledHead
  <1>7. Ends(e, next)
    BY <1>2, <1>3 DEF Ends
  <1>8. Run(e) /\ e[1][1] = next[1]
    <2>1. CASE l = 0
      <3>1. e[1] = next /\ Len(e) = 1
        BY <1>3, <2>1
      <3>2. next = <<next[1], next[2] + 1 - 1>>
        BY <1>1 DEF Packet
      <3>. HIDE DEF e
      <3>. QED  BY <3>1, <3>2 DEF Run
    <2>2. CASE l > 0
      <3>1. e[1] = d[1]
        BY <1>3, <1>5, <2>2
      <3>2. Run(d)
        BY <1>4 DEF Shape
      <3>3. next = <<d[1][1], d[1][2] + (l + 1) - 1>>
        <4>1. next = <<next[1], next[2]>> /\ d[1][2] \in Nat
          BY <1>1, <1>5, <2>2 DEF Packet
        <4>. HIDE DEF d, l
        <4>2. next[2] = d[1][2] + (l + 1) - 1 /\ next[1] = d[1][1]
          BY <1>2, <1>5, <2>2, <4>1
        <4>. QED  BY <4>1, <4>2
      <3>4. \A k \in 1..l : d[k] = <<d[1][1], d[1][2] + k - 1>>
        BY <3>2 DEF Run
      <3>5. ASSUME NEW k \in 1..(l + 1) PROVE e[k] = <<e[1][1], e[1][2] + k - 1>>
        <4>. HIDE DEF d, e, l
        <4>1. CASE k = l + 1
          BY <1>3, <3>1, <3>3, <4>1
        <4>2. CASE k # l + 1
          <5>1. k \in 1..l
            BY <1>2, <4>2
          <5>. QED  BY <1>3, <3>1, <3>4, <5>1
        <4>. QED  BY <4>1, <4>2
      <3>6. Run(e)
        <4>. HIDE DEF d, e, l
        <4>. QED  BY <1>3, <3>5 DEF Run
      <3>. QED  BY <1>5, <2>2, <3>1, <3>6
    <2>. QED  BY <1>2, <2>1, <2>2
  <1>9. ASSUME NEW k \in 1..Len(ts), j < k PROVE Len(ts[k].data) = 0 /\ ts[k].status = "open"
    <2>1. ts[k].data = <<>>
      BY <1>1, <1>9 DEF BusInOrder
    <2>2. ts[k].status = "open"
      BY <1>1, <1>9 DEF Shaped
    <2>. QED  BY <2>1, <2>2
  <1>10. e[Len(e)] = next
    BY <1>3
  <1>. QED  BY <1>2, <1>3, <1>7, <1>8, <1>9, <1>10

\* The transfers keep their shape.
LEMMA ShapedFills ==
    ASSUME NEW ts, NEW us, NEW b, NEW rd, NEW lens, NEW last, NEW next, InOrder(ts, b, rd, lens, last, next),
           NEW j, NEW after, Fills(ts, us, j, lens, next, after), Shaped(ts, lens, next)
    PROVE  Shaped(us, lens, after)
  <1>. DEFINE d == ts[j].data
              e == us[j].data
  <1>1. /\ next \in Packet /\ next[1] \in Nat /\ next[2] \in Nat /\ lens \in Seq(Nat) /\ next[1] = Len(lens)
        /\ j \in 1..Len(ts) /\ Len(ts) \in Nat /\ Len(us) = Len(ts) /\ after[1] = next[1] /\ after[2] = next[2] + 1
        /\ \A k \in 1..Len(ts) : k # j => us[k] = ts[k]
        /\ ts[j].status = "open" /\ \A k \in 1..Len(ts) : ts[k].status = "open" => j <= k
        /\ us[j].status = IF Short(lens, next) \/ Len(e) = us[j].len THEN "ok" ELSE "open"
    BY DEF InOrder, Fills, Packet
  <1>2. /\ Len(d) \in Nat /\ Len(e) = Len(d) + 1 /\ e[Len(e)] = next /\ Ends(e, next) /\ Run(e)
    BY FilledIs
  <1>3. \A k \in 1..Len(ts) : j < k => Len(ts[k].data) = 0 /\ ts[k].status = "open"
    <2>1. BusInOrder(ts, next)
      BY DEF InOrder
    <2>2. ASSUME NEW k \in 1..Len(ts), j < k PROVE ts[k].data = <<>> /\ ts[k].status = "open"
      BY <1>1, <2>1, <2>2 DEF BusInOrder, Shaped
    <2>. QED  BY <2>2
  <1>4. Shape(us[j], lens, after)
    <2>. HIDE DEF e, d
    <2>1. Len(e) > 0
      BY <1>2
    <2>2. us[j].status = "open" => Ends(e, <<after[1], after[2] - 1>>) /\ 2 <= after[2] /\ after[2] <= lens[after[1]] + 1
      <3>. SUFFICES ASSUME us[j].status = "open" PROVE Ends(e, <<after[1], after[2] - 1>>) /\ 2 <= after[2] /\ after[2] <= lens[after[1]] + 1
        OBVIOUS
      <3>1. ~Short(lens, next)
        BY <1>1
      <3>2. lens[next[1]] \in Nat /\ next[2] <= lens[next[1]] + 1
        BY <1>1 DEF Fills
      <3>3. 1 <= next[2] /\ next[2] <= lens[next[1]]
        BY <1>1, <3>1, <3>2 DEF Short
      <3>4. <<after[1], after[2] - 1>> = next
        <4>1. after[2] - 1 = next[2] /\ next = <<next[1], next[2]>>
          BY <1>1 DEF Packet
        <4>. QED  BY <1>1, <4>1
      <3>5. 2 <= after[2] /\ after[2] <= lens[after[1]] + 1
        <4>. DEFINE m == lens[next[1]]
        <4>1. m \in Nat /\ 1 <= next[2] /\ next[2] <= m /\ lens[after[1]] = m /\ next[2] \in Nat /\ after[2] = next[2] + 1
          BY <1>1, <3>2, <3>3
        <4>. HIDE DEF m
        <4>. QED  BY <4>1
      <3>. QED  BY <1>2, <3>4, <3>5
    <2>3. us[j].status = "ok" => Len(e) = us[j].len \/ Short(lens, e[Len(e)])
      BY <1>1, <1>2
    <2>4. Short(lens, e[Len(e)]) => us[j].status = "ok"
      BY <1>1, <1>2
    <2>. QED  BY <1>2, <2>1, <2>2, <2>3, <2>4 DEF Shape, e
  <1>5. ASSUME NEW k \in 1..Len(us) PROVE Shape(us[k], lens, after)
    <2>1. CASE k = j
      BY <1>4, <2>1
    <2>2. CASE k # j
      <3>1. us[k] = ts[k] /\ k \in 1..Len(ts)
        BY <1>1, <2>2
      <3>2. Shape(ts[k], lens, next)
        BY <3>1 DEF Shaped
      <3>3. ts[k].status = "open" => ~(Len(ts[k].data) > 0)
        BY <1>1, <1>3, <2>2, <3>1
      <3>. QED  BY <3>1, <3>2, <3>3 DEF Shape
    <2>. QED  BY <2>1, <2>2
  <1>6. ASSUME NEW h \in 1..Len(us), NEW k \in 1..Len(us), h < k, us[h].status = "open" PROVE us[k].status = "open"
    <2>1. ts[h].status = "open" /\ h \in 1..Len(ts) /\ k \in 1..Len(ts)
      BY <1>1, <1>6
    <2>2. j < k
      BY <1>1, <1>6, <2>1
    <2>. QED  BY <1>1, <1>3, <2>1, <2>2
  <1>. QED  BY <1>5, <1>6 DEF Shaped

\* A packet that ended a transfer still does, unless it is followed by the one to come.
LEMMA EndStays ==
    ASSUME NEW ts, NEW us, NEW b, NEW rd, NEW lens, NEW last, NEW next, InOrder(ts, b, rd, lens, last, next),
           NEW j, NEW after, Fills(ts, us, j, lens, next, after), Shaped(ts, lens, next),
           NEW h \in 1..Len(ts), NEW n, NEW i, Ends(ts[h].data, <<n, i>>),
           h # j \/ n # next[1] \/ i = 0 \/ i = lens[n] + 1
    PROVE  h # j /\ Ends(us[h].data, <<n, i>>)
  <1>1. \A k \in 1..Len(ts) : k # j => us[k] = ts[k]
    BY DEF Fills
  <1>2. CASE h # j
    BY <1>1, <1>2
  <1>3. CASE h = j
    <2>. DEFINE q == <<n, i>>
    <2>0. Ends(ts[j].data, q)
      BY <1>3
    <2>1. q = <<next[1], next[2] - 1>> /\ 2 <= next[2]
      <3>1. Shape(ts[j], lens, next) /\ ts[j].status = "open"
        BY DEF Shaped, Fills
      <3>. HIDE DEF q
      <3>2. Len(ts[j].data) > 0 /\ ts[j].data[Len(ts[j].data)] = q
        BY <2>0 DEF Ends
      <3>. QED  BY <3>1, <3>2 DEF Shape, Ends
    <2>2. n = next[1] /\ i = next[2] - 1
      BY <2>1
    <2>3. next[2] \in Nat /\ next[2] <= lens[next[1]] + 1 /\ lens[next[1]] \in Nat
      <3>1. next \in Packet /\ next[1] = Len(lens) /\ lens \in Seq(Nat) /\ next[1] # 0 /\ next[2] <= lens[next[1]] + 1
        BY DEF InOrder, Fills
      <3>. QED  BY <3>1 DEF Packet
    <2>. QED  BY <1>3, <2>1, <2>2, <2>3
  <1>. QED  BY <1>2, <1>3

\* What is on the bus after the step is as far from a trailer as what was.
LEMMA BehindFills ==
    ASSUME NEW ts, NEW us, NEW b, NEW rd, NEW lens, NEW last, NEW next, InOrder(ts, b, rd, lens, last, next),
           NEW j, NEW after, Fills(ts, us, j, lens, next, after),
           NEW n \in 1..Len(lens), Behind(ts, rd, lens, last, next, n)
    PROVE  Behind(us, rd, lens, last, after, n)
  <1>1. /\ ts \in Seq(Transfers) /\ us \in Seq(Transfers) /\ j \in 1..Len(ts) /\ next \in Packet /\ BusInOrder(ts, next)
        /\ next[1] # 0 /\ ts[j].status = "open" /\ \A k \in 1..Len(ts) : ts[k].status = "open" => j <= k
        /\ Len(us) = Len(ts) /\ \A k \in 1..Len(ts) : k # j => us[k] = ts[k]
        /\ us[j].data = Append(ts[j].data, next)
    BY DEF InOrder, Fills
  <1>2. after \in Packet /\ Apart(next, after, 1)
    BY <1>1 DEF Fills, Packet, Apart
  <1>3. \A z \in Ahead(us, after) : \E y \in Ahead(ts, next) : Apart(y, z, 0)
    BY <1>1, <1>2, BusFills
  <1>4. Ahead(ts, next) \subseteq Packet /\ Ahead(us, after) \subseteq Packet
    BY <1>1, <1>2, AheadPackets
  <1>. DEFINE e == End(lens, n)
  <1>5. e \in Packet
    <2>1. lens[n] \in Nat /\ n \in Nat
      BY DEF InOrder
    <2>. QED  BY <2>1 DEF End, Packet
  <1>. HIDE DEF e
  <1>6. ASSUME NEW z \in Ahead(us, after), Handed(rd, last, n) PROVE Apart(e, z, 1)
    <2>1. PICK y \in Ahead(ts, next) : Apart(y, z, 0)
      BY <1>3
    <2>2. Apart(e, y, 1)
      BY <1>6 DEF Behind, e
    <2>. QED  BY <1>4, <1>5, <2>1, <2>2 DEF Apart, Packet
  <1>. QED  BY <1>6 DEF Behind, e

\* A transfer that is dead lies beside what it lay beside.
LEMMA SparedFills ==
    ASSUME NEW ts, NEW us, NEW b, NEW rd, NEW lens, NEW last, NEW next, InOrder(ts, b, rd, lens, last, next),
           NEW j, NEW after, Fills(ts, us, j, lens, next, after), Shaped(ts, lens, next),
           NEW n, NEW step, Spared(ts, step, rd, lens, last, next, n)
    PROVE  Spared(us, step, rd, lens, last, after, n)
  <1>. SUFFICES ASSUME NEW k \in 1..Len(us), Dead(us[k], step)
                PROVE  Beside(us, k, rd, lens, last, after, n)
    BY DEF Spared
  <1>1. /\ Len(us) = Len(ts) /\ Len(ts) \in Nat /\ j \in 1..Len(ts) /\ \A h \in 1..Len(ts) : h # j => us[h] = ts[h]
        /\ us[j].status \in {"ok", "open"} /\ ts \in Seq(Transfers)
    BY DEF Fills, InOrder
  <1>2. k # j /\ us[k] = ts[k] /\ Dead(ts[k], step)
    BY <1>1 DEF Dead
  <1>3. k < j
    <2>1. ASSUME j < k PROVE FALSE
      <3>1. ts[k].status = "open"
        <4>1. ts[j].status = "open"
          BY DEF Fills
        <4>. QED  BY <1>1, <2>1, <4>1 DEF Shaped
      <3>. QED  BY <1>2, <3>1 DEF Dead
    <2>. QED  BY <1>1, <1>2, <2>1
  <1>4. Beside(ts, k, rd, lens, last, next, n)
    BY <1>1, <1>2 DEF Spared
  <1>5. CASE Handed(rd, last, n)
    BY <1>5 DEF Beside
  <1>6. CASE \E h \in 1..(k - 1) : Ends(ts[h].data, End(lens, n))
    <2>1. PICK h \in 1..(k - 1) : Ends(ts[h].data, End(lens, n))
      BY <1>6
    <2>2. h \in 1..Len(ts) /\ h # j
      BY <1>1, <1>3, <2>1
    <2>. QED  BY <1>1, <2>1, <2>2 DEF Beside
  <1>7. CASE next = <<n, 0>>
    <2>1. Ends(us[j].data, <<n, 0>>)
      <3>1. Ends(us[j].data, next)
        BY FilledIs
      <3>. QED  BY <1>7, <3>1
    <2>2. j \in (k + 1)..Len(us)
      BY <1>1, <1>3
    <2>. QED  BY <2>1, <2>2 DEF Beside
  <1>8. CASE \E h \in (k + 1)..Len(ts) : Ends(ts[h].data, <<n, 0>>)
    <2>1. PICK h \in (k + 1)..Len(ts) : Ends(ts[h].data, <<n, 0>>)
      BY <1>8
    <2>2. h \in 1..Len(ts)
      BY <1>1, <2>1
    <2>. DEFINE i == 0
    <2>3. Ends(ts[h].data, <<n, i>>) /\ i = 0
      BY <2>1
    <2>. HIDE DEF i
    <2>4. Ends(us[h].data, <<n, i>>)
      BY <2>2, <2>3, EndStays
    <2>5. Ends(us[h].data, <<n, 0>>)
      BY <2>3, <2>4
    <2>. QED  BY <1>1, <2>1, <2>5 DEF Beside
  <1>. QED  BY <1>4, <1>5, <1>6, <1>7, <1>8 DEF Beside

\* A packet is sent: nothing changes for a block that was sent before.
LEMMA FaresBefore ==
    ASSUME NEW ts, NEW us, NEW b, NEW rd, NEW lens, NEW last, NEW next, InOrder(ts, b, rd, lens, last, next),
           NEW j, NEW after, Fills(ts, us, j, lens, next, after), Shaped(ts, lens, next),
           NEW n \in 1..Len(lens), n # next[1], NEW step, Fares(ts, step, b, rd, lens, last, next, n)
    PROVE  Fares(us, step, b, rd, lens, last, after, n)
  <1>1. /\ ts \in Seq(Transfers) /\ Len(us) = Len(ts) /\ Len(ts) \in Nat /\ j \in 1..Len(ts)
        /\ \A k \in 1..Len(ts) : k # j => us[k] = ts[k]
        /\ next[1] = Len(lens) /\ Len(lens) \in Nat /\ after[1] = next[1]
    BY DEF Fills, InOrder
  <1>2. ASSUME NEW k \in 1..(Len(ts) + 1), NEW i, Before(ts, k, b, lens, n, i) PROVE Before(us, k, b, lens, n, i)
    <2>1. CASE Kept(b, lens, n, i)
      BY <2>1 DEF Before
    <2>2. CASE \E h \in 1..(k - 1) : Ends(ts[h].data, <<n, i>>)
      <3>1. PICK h \in 1..(k - 1) : Ends(ts[h].data, <<n, i>>)
        BY <2>2
      <3>2. h \in 1..Len(ts)
        BY <1>1, <3>1
      <3>3. Ends(us[h].data, <<n, i>>)
        BY <3>1, <3>2, EndStays
      <3>. QED  BY <3>3 DEF Before
    <2>. QED  BY <1>2, <2>1, <2>2 DEF Before
  <1>3. Chained(us, b, lens, n)
    <2>1. us[j].data[1][1] # n
      <3>1. us[j].data[1][1] = next[1]
        BY FilledIs
      <3>. QED  BY <3>1
    <2>2. \A k \in 1..Len(us) : us[k].data[1][1] = n => us[k] = ts[k] /\ k \in 1..Len(ts) /\ k \in 1..(Len(ts) + 1)
      BY <1>1, <2>1
    <2>3. Chained(ts, b, lens, n)
      BY DEF Fares
    <2>. QED  BY <1>2, <2>2, <2>3, Zenon DEF Chained
  <1>4. NextChained(us, b, lens, after, n)
    BY <1>1 DEF NextChained
  <1>5. Fits(lens, n) /\ Filled(rd, lens, n) /\ Behind(ts, rd, lens, last, next, n)
        /\ Spared(ts, step, rd, lens, last, next, n) /\ Ended(ts, rd, lens, last, next, n)
    BY DEF Fares
  <1>6. Ended(us, rd, lens, last, after, n)
    <2>1. Apart(End(lens, n), next, 1)
      BY <1>1 DEF Apart, End
    <2>2. CASE Handed(rd, last, n)
      BY <2>2 DEF Ended
    <2>3. CASE \E h \in 1..Len(ts) : Ends(ts[h].data, End(lens, n))
      <3>1. PICK h \in 1..Len(ts) : Ends(ts[h].data, End(lens, n))
        BY <2>3
      <3>2. Ends(us[h].data, <<n, lens[n] + 1>>)
        BY <3>1, EndStays DEF End
      <3>. QED  BY <1>1, <3>2 DEF Ended, End
    <2>. QED  BY <1>5, <2>1, <2>2, <2>3 DEF Ended
  <1>7. Behind(us, rd, lens, last, after, n)
    BY <1>5, BehindFills
  <1>8. Spared(us, step, rd, lens, last, after, n)
    BY <1>5, SparedFills
  <1>. QED  BY <1>3, <1>4, <1>5, <1>6, <1>7, <1>8 DEF Fares

\* A packet is sent: its block loses nothing, if it is not a trailer behind payload.
LEMMA FaresSending ==
    ASSUME NEW ts, NEW us, NEW b, NEW rd, NEW lens, NEW last, NEW next, InOrder(ts, b, rd, lens, last, next),
           NEW j, NEW after, Fills(ts, us, j, lens, next, after), Shaped(ts, lens, next),
           NEW n, n = next[1], next[2] > lens[n] => ts[j].data = <<>>,
           NEW step, Fares(ts, step, b, rd, lens, last, next, n)
    PROVE  Fares(us, step, b, rd, lens, last, after, n)
  <1>. DEFINE d == ts[j].data
              e == us[j].data
              i == next[2]
  <1>1. /\ ts \in Seq(Transfers) /\ Len(us) = Len(ts) /\ Len(ts) \in Nat /\ j \in 1..Len(ts)
        /\ \A k \in 1..Len(ts) : k # j => us[k] = ts[k]
        /\ n = Len(lens) /\ n \in 1..Len(lens) /\ lens[n] \in Nat /\ i \in Nat /\ next = <<n, i>> /\ i <= lens[n] + 1
        /\ after[1] = n /\ after[2] = i + 1 /\ \A k \in 1..Len(ts) : ts[k].data \in Seq(Packet)
        /\ \A k \in 1..Len(ts) : j < k => ts[k].data = <<>>
    <2>1. /\ ts \in Seq(Transfers) /\ lens \in Seq(Nat) /\ next \in Packet /\ n = Len(lens) /\ BusInOrder(ts, next)
      BY DEF InOrder
    <2>2. \A k \in 1..Len(ts) : ts[k].data \in Seq(Packet)
      BY <2>1, DataType
    <2>3. \A k \in 1..Len(ts) : j < k => ts[k].data = <<>>
      BY <2>1 DEF BusInOrder, Fills
    <2>4. /\ Len(us) = Len(ts) /\ j \in 1..Len(ts) /\ \A k \in 1..Len(ts) : k # j => us[k] = ts[k]
          /\ after[1] = next[1] /\ after[2] = next[2] + 1 /\ next[1] # 0 /\ next[2] <= lens[next[1]] + 1
      BY DEF Fills
    <2>5. i \in Nat /\ next = <<n, i>> /\ n \in Nat /\ n # 0
      <3>1. next \in Nat \X Nat /\ next[1] = n /\ next[1] # 0
        BY <2>1, <2>4 DEF Packet
      <3>2. next = <<next[1], next[2]>> /\ next[1] \in Nat /\ next[2] \in Nat
        BY <3>1
      <3>. QED  BY <3>1, <3>2
    <2>6. n \in 1..Len(lens)
      BY <2>1, <2>5
    <2>7. lens[n] \in Nat
      BY <2>1, <2>6
    <2>8. Len(ts) \in Nat
      BY <2>1
    <2>. HIDE DEF i
    <2>9. after[1] = n /\ after[2] = i + 1 /\ i <= lens[n] + 1
      BY <2>4 DEF i
    <2>. QED  BY <2>1, <2>2, <2>3, <2>4, <2>5, <2>6, <2>7, <2>8, <2>9
  <1>2. /\ Len(d) \in Nat /\ Len(e) = Len(d) + 1 /\ e[Len(e)] = next /\ Ends(e, next)
    BY FilledIs
  <1>3. \A k \in 1..Len(d) : e[k] = d[k]
    BY FilledIs
  <1>4. Len(d) > 0 => /\ 2 <= i /\ 1 \in 1..Len(d) /\ d[1] \in Packet /\ d[1][1] = n /\ i = d[1][2] + Len(d)
    <2>1. ASSUME Len(ts[j].data) > 0
          PROVE  /\ 2 <= next[2] /\ 1 \in 1..Len(ts[j].data) /\ ts[j].data[1] \in Packet
                 /\ ts[j].data[1][1] = next[1] /\ next[2] = ts[j].data[1][2] + Len(ts[j].data)
      BY <2>1, FilledHead
    <2>. QED  BY <2>1
  <1>5. Chained(ts, b, lens, n) /\ NextChained(ts, b, lens, next, n)
        /\ Fits(lens, n) /\ Filled(rd, lens, n) /\ Behind(ts, rd, lens, last, next, n)
        /\ Spared(ts, step, rd, lens, last, next, n)
    BY DEF Fares
  <1>. HIDE DEF d, e, i
  <1>6. ASSUME NEW k \in 1..j, NEW m, Before(ts, k, b, lens, n, m) PROVE Before(us, k, b, lens, n, m)
    <2>1. \A h \in 1..(k - 1) : us[h] = ts[h]
      BY <1>1
    <2>. QED  BY <1>6, <2>1 DEF Before
  <1>7. ASSUME NEW k \in 1..Len(us), Len(us[k].data) > 0, us[k].data[1][1] = n
        PROVE  LET m == us[k].data[1][2]
                   f == m + Len(us[k].data) - 1
               IN  /\ f <= lens[n] + 1
                   /\ m = 0 \/ f = lens[n] + 1 => Len(us[k].data) = 1
                   /\ m # 0 => Before(us, k, b, lens, n, m - 1)
    <2>1. CASE k # j
      <3>1. us[k] = ts[k] /\ k \in 1..Len(ts)
        BY <1>1, <2>1
      <3>2. k \in 1..j
        BY <1>1, <1>7, <3>1
      <3>3. /\ ts[k].data[1][2] + Len(ts[k].data) - 1 <= lens[n] + 1
            /\ ts[k].data[1][2] = 0 \/ ts[k].data[1][2] + Len(ts[k].data) - 1 = lens[n] + 1 => Len(ts[k].data) = 1
            /\ ts[k].data[1][2] # 0 => Before(ts, k, b, lens, n, ts[k].data[1][2] - 1)
        BY <1>5, <1>7, <3>1, ChainedAt
      <3>4. ts[k].data[1][2] # 0 => Before(us, k, b, lens, n, ts[k].data[1][2] - 1)
        BY <1>6, <3>2, <3>3
      <3>. QED  BY <3>1, <3>3, <3>4
    <2>2. CASE k = j /\ Len(d) = 0
      <3>1. us[k].data = e /\ Len(e) = 1 /\ e[1] = next
        BY <1>2, <2>2 DEF e
      <3>2. e[1][2] = i
        BY <1>1, <3>1
      <3>3. i + Len(e) - 1 <= lens[n] + 1
        BY <1>1, <3>1
      <3>4. i # 0 => Before(us, j, b, lens, n, i - 1)
        <4>1. SUFFICES ASSUME i # 0 PROVE Before(us, j, b, lens, n, i - 1)
          OBVIOUS
        <4>2. next[1] = n /\ 1 <= next[2] /\ next[2] <= lens[n] + 1 /\ next[2] = i
          BY <1>1, <4>1 DEF i
        <4>3. Before(ts, Len(ts) + 1, b, lens, n, i - 1)
          BY <1>5, <4>2 DEF NextChained
        <4>4. CASE Kept(b, lens, n, i - 1)
          BY <4>4 DEF Before
        <4>5. CASE \E h \in 1..(Len(ts) + 1 - 1) : Ends(ts[h].data, <<n, i - 1>>)
          <5>1. PICK h \in 1..(Len(ts) + 1 - 1) : Ends(ts[h].data, <<n, i - 1>>)
            BY <4>5
          <5>2. h \in 1..Len(ts) /\ Len(ts[h].data) > 0
            BY <1>1, <5>1 DEF Ends
          <5>3. h # j /\ ~(j < h)
            BY <1>1, <2>2, <5>2 DEF d
          <5>4. h \in 1..(j - 1) /\ us[h] = ts[h]
            BY <1>1, <5>2, <5>3
          <5>. QED  BY <5>1, <5>4 DEF Before
        <4>. QED  BY <4>3, <4>4, <4>5 DEF Before
      <3>. QED  BY <2>2, <3>1, <3>2, <3>3, <3>4
    <2>3. CASE k = j /\ Len(d) > 0
      <3>. DEFINE m == d[1][2]
      <3>1. us[k].data = e /\ e[1] = d[1] /\ Len(e) = Len(d) + 1 /\ m \in Nat
        BY <1>2, <1>3, <1>4, <2>3 DEF e, Packet
      <3>2. i = m + Len(d) /\ 2 <= i /\ i <= lens[n]
        <4>1. d # <<>>
          BY <2>3
        <4>2. i <= lens[n]
          BY <1>1, <4>1 DEF d, i
        <4>. QED  BY <1>4, <2>3, <4>2
      <3>3. /\ m = 0 \/ m + Len(d) - 1 = lens[n] + 1 => Len(d) = 1
            /\ m # 0 => Before(ts, j, b, lens, n, m - 1)
        <4>1. Len(ts[j].data) > 0 /\ ts[j].data[1][1] = n /\ j \in 1..Len(ts) /\ Chained(ts, b, lens, n)
          BY <1>1, <1>4, <1>5, <2>3 DEF d
        <4>2. /\ ts[j].data[1][2] = 0 \/ ts[j].data[1][2] + Len(ts[j].data) - 1 = lens[n] + 1 => Len(ts[j].data) = 1
              /\ ts[j].data[1][2] # 0 => Before(ts, j, b, lens, n, ts[j].data[1][2] - 1)
          BY <4>1, ChainedAt
        <4>. QED  BY <4>2 DEF d
      <3>. HIDE DEF m
      <3>4. m # 0
        <4>1. ASSUME m = 0 PROVE FALSE
          <5>1. Len(d) = 1
            BY <3>3, <4>1
          <5>. QED  BY <3>2, <4>1, <5>1
        <4>. QED  BY <4>1
      <3>5. Before(us, j, b, lens, n, m - 1)
        <4>1. j \in 1..j
          BY <1>1
        <4>. QED  BY <1>6, <3>3, <3>4, <4>1
      <3>6. m + Len(e) - 1 <= lens[n] /\ lens[n] \in Nat
        BY <1>1, <1>2, <3>1, <3>2
      <3>7. m + Len(e) - 1 # lens[n] + 1 /\ m + Len(e) - 1 <= lens[n] + 1
        BY <1>2, <3>1, <3>6
      <3>. QED  BY <2>3, <3>1, <3>4, <3>5, <3>7 DEF m
    <2>. QED  BY <1>2, <2>1, <2>2, <2>3
  <1>8. Chained(us, b, lens, n)
    BY <1>7, Zenon DEF Chained
  <1>9. NextChained(us, b, lens, after, n)
    <2>1. Ends(us[j].data, <<n, after[2] - 1>>)
      <3>1. after[2] - 1 = i
        BY <1>1
      <3>. QED  BY <1>1, <1>2, <3>1 DEF e
    <2>2. j \in 1..(Len(us) + 1 - 1)
      BY <1>1
    <2>. QED  BY <2>1, <2>2 DEF NextChained, Before
  <1>10. Ended(us, rd, lens, last, after, n)
    <2>. SUFFICES ASSUME Apart(End(lens, n), after, 1) PROVE \E h \in 1..Len(us) : Ends(us[h].data, End(lens, n))
      BY DEF Ended
    <2>1. i = lens[n] + 1
      BY <1>1 DEF Apart, End
    <2>2. next = End(lens, n)
      BY <1>1, <2>1 DEF End
    <2>. QED  BY <1>1, <1>2, <2>2 DEF e
  <1>11. Behind(us, rd, lens, last, after, n)
    BY <1>1, <1>5, BehindFills
  <1>12. Spared(us, step, rd, lens, last, after, n)
    BY <1>5, SparedFills
  <1>. QED  BY <1>5, <1>8, <1>9, <1>10, <1>11, <1>12 DEF Fares

\* A packet is sent.
LEMMA TransmitLoses ==
    ASSUME IInv, LossInv, Transmit
    PROVE  LossInv'
  <1>. DEFINE j == Min(Open)
              p == Coming
              status == IF ShortPacket(p) \/ Len(Append(pending[j].data, p)) = pending[j].len THEN "ok" ELSE "open"
              data == Append(pending[j].data, p)
              t == [[pending[j] EXCEPT !.data = data] EXCEPT !.status = status]
  <1>1. /\ TypeInv /\ pending \in Seq(Transfers) /\ p \in Packet /\ p[1] = Sending /\ p[2] = dev.i
        /\ dev \in [lens : Seq(Nat), i : Nat]
        /\ dev.lens \in Seq(Nat) /\ dev.i \in Nat /\ Sending \in Nat /\ Sending = Len(dev.lens)
        /\ InOrder(pending, u.block, u.ready, dev.lens, reader.last, Coming)
    BY DevType, InvInOrder DEF IInv, TypeInv, Sending
  <1>2. /\ Open # {} /\ ~Idle /\ UNCHANGED <<u, at, usb, faults, reader, harmed>> /\ dev' = [dev EXCEPT !.i = @ + 1]
        /\ cut' = IF dev.i > Len_(Sending) /\ pending[j].data # <<>> THEN cut \cup {Sending} ELSE cut
    BY DEF Transmit
  <1>3. p[1] # 0 /\ p[2] <= dev.lens[p[1]] + 1
    <2>1. Sending # 0 /\ ~(dev.i > dev.lens[Sending] + 1)
      BY <1>2 DEF Idle, Len_
    <2>2. dev.lens[Sending] \in Nat
      BY <1>1, <2>1
    <2>. QED  BY <1>1, <2>1, <2>2
  <1>4. j \in Open /\ \A k \in Open : j <= k
    BY <1>1, <1>2, OldestOpen
  <1>5. j \in 1..Len(pending) /\ pending[j].status = "open" /\ \A k \in 1..Len(pending) : pending[k].status = "open" => j <= k
    BY <1>1, <1>4 DEF Open
  <1>6. pending' = [pending EXCEPT ![j] = t]
    <2>1. pending' = [pending EXCEPT ![j] = [[pending[j] EXCEPT !.data = Append(@, p)] EXCEPT !.status =
                        IF ShortPacket(p) \/ Len([pending[j] EXCEPT !.data = Append(@, p)].data) = [pending[j] EXCEPT !.data = Append(@, p)].len
                        THEN "ok" ELSE "open"]]
      BY DEF Transmit, Coming
    <2>2. pending[j] \in Transfers
      BY <1>1, <1>5, DataType
    <2>3. /\ [pending[j] EXCEPT !.data = Append(@, p)] = [pending[j] EXCEPT !.data = data]
          /\ [pending[j] EXCEPT !.data = data].data = data
          /\ [pending[j] EXCEPT !.data = data].len = pending[j].len
      BY <2>2 DEF Transfers
    <2>. QED  BY <2>1, <2>3
  <1>7. pending[j] \in Transfers /\ data \in Seq(Packet) /\ status \in Statuses
    BY <1>1, <1>5, DataType DEF Statuses
  <1>8. ShortPacket(p) <=> Short(dev.lens, p)
    BY DEF ShortPacket, Short, Len_
  <1>9. status = IF Short(dev.lens, p) \/ Len(data) = pending[j].len THEN "ok" ELSE "open"
    BY <1>8
  <1>. HIDE DEF j, p, status, data
  <1>10. t \in Transfers /\ t.data = data /\ t.len = pending[j].len /\ t.status = status
    BY <1>7 DEF Transfers
  <1>. HIDE DEF t
  <1>11. /\ pending' \in Seq(Transfers) /\ Len(pending') = Len(pending)
         /\ \A k \in 1..Len(pending) : k # j => pending'[k] = pending[k]
         /\ pending'[j] = t
    BY <1>1, <1>5, <1>6, <1>10
  <1>12. dev'.lens = dev.lens /\ dev'.i = dev.i + 1
    BY <1>1, <1>2
  <1>13. Coming' = <<p[1], p[2] + 1>>
    BY <1>1, <1>12 DEF Coming, Sending
  <1>14. Fills(pending, pending', j, dev.lens, Coming, Coming')
    <2>1. /\ pending'[j].data = Append(pending[j].data, Coming)
          /\ pending'[j].status = IF Short(dev.lens, Coming) \/ Len(pending'[j].data) = pending'[j].len THEN "ok" ELSE "open"
      <3>1. pending'[j].data = data /\ pending'[j].len = pending[j].len /\ pending'[j].status = status
        BY <1>10, <1>11
      <3>. QED  BY <1>9, <3>1 DEF data, p
    <2>. QED  BY <1>3, <1>5, <1>11, <1>13, <2>1 DEF Fills, p
  <1>15. cut \subseteq cut' /\ harmed \subseteq harmed'
    BY <1>2
  <1>16. ASSUME Undisturbed PROVE Undisturbed'
    <2>. DEFINE us == pending'
                after == Coming'
    <2>0. Fills(pending, us, j, dev.lens, Coming, after)
      BY <1>14
    <2>1. /\ Shaped(pending, dev.lens, Coming) /\ Planned(pending, at, u.planned) /\ Drained(pending, at, u.block)
      BY <1>16 DEF Undisturbed
    <2>. HIDE DEF us, after
    <2>2. Shaped(us, dev.lens, after)
      BY <1>1, <2>0, <2>1, ShapedFills
    <2>3. ASSUME NEW n \in Sound(dev.lens, harmed' \cup cut')
          PROVE  Fares(us, at, u.block, u.ready, dev.lens, reader.last, after, n)
      <3>1. n \in Sound(dev.lens, harmed \cup cut) /\ n \notin cut' /\ n \in 1..Len(dev.lens)
        BY <1>12, <1>15, SoundBefore
      <3>2. Fares(pending, at, u.block, u.ready, dev.lens, reader.last, Coming, n)
        BY <1>16, <3>1 DEF Undisturbed
      <3>3. CASE n # Coming[1]
        BY <1>1, <2>0, <2>1, <3>1, <3>2, <3>3, FaresBefore
      <3>4. CASE n = Coming[1]
        <4>1. Coming[2] > dev.lens[n] => pending[j].data = <<>>
          BY <1>1, <1>2, <3>1, <3>4 DEF p, j, Len_
        <4>. QED  BY <1>1, <2>0, <2>1, <3>2, <3>4, <4>1, FaresSending
      <3>. QED  BY <3>3, <3>4
    <2>4. Planned(us, at, u.planned)
      <3>1. \A k \in 1..Len(pending) : us[k].len = pending[k].len
        BY <1>5, <1>10, <1>11 DEF us
      <3>2. Len(us) = Len(pending)
        BY <1>11 DEF us
      <3>. QED  BY <2>1, <3>1, <3>2 DEF Planned
    <2>5. Drained(us, at, u.block)
      BY <1>5, <2>1 DEF Drained
    <2>. QED  BY <1>2, <1>12, <2>2, <2>3, <2>4, <2>5 DEF Undisturbed, us, after
  <1>. QED  BY <1>2, <1>12, <1>15, <1>16, LossKeeps

\* A frame is passed to the reader thread: of the blocks up to it, those that nothing
\* happened to were handed out before.
LEMMA PassedHands ==
    ASSUME NEW ts, NEW b, NEW rd, NEW lens, NEW last, NEW next, InOrder(ts, b, rd, lens, last, next), rd # <<>>,
           NEW n \in 1..Len(lens), Ended(ts, rd, lens, last, next, n)
    PROVE  Handed(Tail(rd), rd[1].id, n) <=> Handed(rd, last, n)
  <1>. DEFINE f == rd[1]
              rs == Tail(rd)
  <1>1. /\ ts \in Seq(Transfers) /\ rd \in Seq(Frame) /\ lens \in Seq(Nat) /\ last \in Nat /\ next \in Packet
        /\ ReadyInOrder(b, rd, last, Ahead(ts, next)) /\ n \in Nat /\ next[1] = Len(lens)
    BY DEF InOrder, StreamInv
  <1>2. /\ 1 \in 1..Len(rd) /\ Len(rd) \in Nat /\ Len(rd) = Len(rs) + 1 /\ Len(rs) \in Nat
        /\ \A k \in 1..Len(rs) : rs[k] = rd[k + 1] /\ k + 1 \in 1..Len(rd)
    BY <1>1
  <1>3. \A k \in 1..Len(rd) : rd[k].id \in 1..Len(lens)
    BY LastSent
  <1>4. f.id \in 1..Len(lens) /\ last < f.id /\ \A y \in Ahead(ts, next) : Led(f.id, y)
    BY <1>1, <1>2, <1>3 DEF ReadyInOrder
  <1>. HIDE DEF f, rs
  <1>5. ASSUME Handed(rd, last, n) PROVE Handed(rs, f.id, n)
    <2>1. CASE n <= last
      BY <1>1, <1>4, <2>1 DEF Handed
    <2>2. CASE \E k \in 1..Len(rd) : rd[k].id = n
      <3>1. PICK k \in 1..Len(rd) : rd[k].id = n
        BY <2>2
      <3>2. CASE k = 1
        BY <1>1, <3>1, <3>2 DEF Handed, f
      <3>3. CASE k # 1
        <4>. DEFINE h == k - 1
        <4>1. h \in 1..Len(rs) /\ h + 1 = k
          BY <1>2, <3>3
        <4>. HIDE DEF h
        <4>2. rs[h].id = n
          BY <1>2, <3>1, <4>1
        <4>. QED  BY <4>1, <4>2 DEF Handed
      <3>. QED  BY <3>2, <3>3
    <2>. QED  BY <1>5, <2>1, <2>2 DEF Handed
  <1>6. ASSUME Handed(rs, f.id, n) PROVE Handed(rd, last, n)
    <2>1. CASE \E k \in 1..Len(rs) : rs[k].id = n
      <3>1. PICK k \in 1..Len(rs) : rs[k].id = n
        BY <2>1
      <3>2. rd[k + 1].id = n /\ k + 1 \in 1..Len(rd)
        BY <1>2, <3>1
      <3>. QED  BY <3>2 DEF Handed
    <2>2. CASE n = f.id
      BY <1>2, <2>2 DEF Handed, f
    <2>3. CASE n < f.id
      <3>1. next \in Ahead(ts, next)
        BY AheadIs
      <3>2. Apart(<<f.id, 0>>, next, 1)
        BY <1>4, <3>1 DEF Led
      <3>3. n < next[1]
        BY <1>1, <1>4, <2>3
      <3>4. Apart(End(lens, n), next, 1)
        BY <3>3 DEF Apart, End
      <3>5. ASSUME NEW h \in 1..Len(ts), Ends(ts[h].data, End(lens, n)) PROVE FALSE
        <4>1. End(lens, n) \in Ahead(ts, next)
          BY <1>1, <3>5, EndHeld
        <4>2. Apart(<<f.id, 0>>, End(lens, n), 1)
          BY <1>4, <4>1 DEF Led
        <4>3. f.id \in Int /\ n \in Int
          BY <1>4
        <4>. QED  BY <2>3, <4>2, <4>3 DEF Apart, End
      <3>. QED  BY <3>4, <3>5 DEF Ended
    <2>. QED  BY <1>1, <1>4, <1>6, <2>1, <2>2, <2>3 DEF Handed
  <1>7. Handed(rs, f.id, n) <=> Handed(rd, last, n)
    BY <1>5, <1>6
  <1>. QED  BY <1>7 DEF rs, f

\* Nothing else changes for a block that nothing happened to.
LEMMA FaresPassed ==
    ASSUME NEW ts, NEW b, NEW rd, NEW lens, NEW last, NEW next, InOrder(ts, b, rd, lens, last, next), rd # <<>>,
           NEW n \in 1..Len(lens), NEW step, Fares(ts, step, b, rd, lens, last, next, n)
    PROVE  Fares(ts, step, b, Tail(rd), lens, rd[1].id, next, n)
  <1>. DEFINE id == rd[1].id
              rs == Tail(rd)
  <1>1. /\ Chained(ts, b, lens, n) /\ NextChained(ts, b, lens, next, n) /\ Fits(lens, n)
        /\ Ended(ts, rd, lens, last, next, n) /\ Behind(ts, rd, lens, last, next, n)
        /\ Filled(rd, lens, n) /\ Spared(ts, step, rd, lens, last, next, n)
    BY DEF Fares
  <1>2. Handed(rs, id, n) <=> Handed(rd, last, n)
    BY <1>1, PassedHands
  <1>3. Filled(rs, lens, n)
    <2>1. rd \in Seq(Frame)
      BY DEF InOrder
    <2>2. \A k \in 1..Len(rs) : rs[k] = rd[k + 1] /\ k + 1 \in 1..Len(rd)
      BY <2>1
    <2>. HIDE DEF rs
    <2>3. ASSUME NEW k \in 1..Len(rs), rs[k].id = n PROVE rs[k].valid = lens[n] /\ Len(rs[k].payload) >= lens[n]
      BY <1>1, <2>2, <2>3 DEF Filled
    <2>. QED  BY <2>3 DEF Filled
  <1>. HIDE DEF id, rs
  <1>4. Ended(ts, rs, lens, id, next, n)
    BY <1>1, <1>2 DEF Ended
  <1>5. Behind(ts, rs, lens, id, next, n)
    BY <1>1, <1>2 DEF Behind
  <1>6. Spared(ts, step, rs, lens, id, next, n)
    <2>1. ASSUME NEW j, Beside(ts, j, rd, lens, last, next, n) PROVE Beside(ts, j, rs, lens, id, next, n)
      BY <1>2, <2>1 DEF Beside
    <2>. QED  BY <1>1, <2>1 DEF Spared
  <1>7. Fares(ts, step, b, rs, lens, id, next, n)
    BY <1>1, <1>3, <1>4, <1>5, <1>6 DEF Fares
  <1>. QED  BY <1>7 DEF id, rs

\* The reader thread takes a frame.
LEMMA ReadLoopLoses ==
    ASSUME IInv, LossInv, ReadLoop
    PROVE  LossInv'
  <1>. DEFINE f == u.ready[1]
              out == reader.out
              g == [id |-> f.id, payload |-> f.payload, status |-> Status(f)]
              bad == harmed \cup cut
  <1>1. /\ InOrder(pending, u.block, u.ready, dev.lens, reader.last, Coming)
        /\ u \in Stream /\ u.ready \in Seq(Frame) /\ dev.lens \in Seq(Nat) /\ out \in Seq(Delivered)
        /\ reader.last \in Nat /\ reader.first \in Nat
        /\ Tallied(Len(out), reader.last, reader.first, reader.missed)
    BY InvInOrder, DevType, StreamFields DEF IInv, TypeInv, ReaderInv
  <1>2. /\ at = "top" /\ u.ready # <<>> /\ UNCHANGED <<at, pending, dev, usb, faults, harmed, cut>>
        /\ u' = [u EXCEPT !.ready = Tail(@)] /\ Head(u.ready) = f
    BY <1>1 DEF ReadLoop
  <1>3. /\ reader'.last = f.id /\ reader'.first = (IF reader.first = 0 THEN f.id ELSE reader.first)
        /\ reader'.out = Append(out, g)
    BY <1>2 DEF ReadLoop
  <1>4. u'.block = u.block /\ u'.planned = u.planned /\ u'.ready = Tail(u.ready)
    BY <1>1, <1>2 DEF Stream
  <1>5. dev' = dev /\ Coming' = Coming /\ Sending' = Sending /\ Sending <= MaxBlocks /\ harmed' = harmed /\ cut' = cut
    BY <1>2 DEF Coming, Sending, LossInv
  <1>6. Steady' <=> Steady
    BY <1>2 DEF Steady
  <1>7. ASSUME Undisturbed PROVE Undisturbed'
    <2>1. /\ Shaped(pending, dev.lens, Coming) /\ Planned(pending, at, u.planned) /\ Drained(pending, at, u.block)
      BY <1>7 DEF Undisturbed
    <2>2. ASSUME NEW n \in Sound(dev.lens, bad)
          PROVE  Fares(pending, at, u.block, Tail(u.ready), dev.lens, f.id, Coming, n)
      <3>1. n \in 1..Len(dev.lens)
        BY DEF Sound
      <3>2. Fares(pending, at, u.block, u.ready, dev.lens, reader.last, Coming, n)
        BY <1>7 DEF Undisturbed
      <3>. QED  BY <1>1, <1>2, <3>1, <3>2, FaresPassed
    <2>. QED  BY <1>2, <1>3, <1>4, <1>5, <2>1, <2>2 DEF Undisturbed
  <1>8. Delivers(dev.lens, bad, reader')
    <2>. SUFFICES ASSUME NEW n \in Sound(dev.lens, bad), reader'.first <= n, n <= reader'.last
                  PROVE  \E k \in 1..Len(reader'.out) : reader'.out[k].id = n /\ reader'.out[k].status = "Complete"
      BY DEF Delivers
    <2>1. n \in 1..Len(dev.lens) /\ n \notin harmed
      BY DEF Sound
    <2>2. Steady
      <3>1. ASSUME 1..MaxBlocks \subseteq harmed PROVE FALSE
        <4>1. n \in 1..MaxBlocks
          BY <1>5, <2>1, U3vAssumption DEF Sending
        <4>. QED  BY <2>1, <3>1, <4>1
      <3>. QED  BY <1>2, <3>1 DEF Steady
    <2>3. Fares(pending, at, u.block, u.ready, dev.lens, reader.last, Coming, n)
      BY <2>2 DEF LossInv, Undisturbed
    <2>4. Ended(pending, u.ready, dev.lens, reader.last, Coming, n) /\ Filled(u.ready, dev.lens, n)
      BY <2>3 DEF Fares
    <2>5. Handed(Tail(u.ready), f.id, n) <=> Handed(u.ready, reader.last, n)
      BY <1>1, <1>2, <2>1, <2>4, PassedHands
    <2>6. Handed(u.ready, reader.last, n)
      BY <1>3, <2>5 DEF Handed
    <2>7. /\ Len(reader'.out) = Len(out) + 1 /\ reader'.out[Len(out) + 1] = g /\ Len(out) \in Nat
          /\ \A k \in 1..Len(out) : reader'.out[k] = out[k] /\ k \in 1..Len(reader'.out)
      <3>. HIDE DEF g, out
      <3>. QED  BY <1>1, <1>3
    <2>8. CASE n <= reader.last
      <3>1. reader.first # 0
        BY <1>1, <2>1, <2>8 DEF Tallied
      <3>2. reader.first <= n
        BY <1>3, <3>1
      <3>3. PICK k \in 1..Len(out) : out[k].id = n /\ out[k].status = "Complete"
        BY <2>8, <3>2 DEF LossInv, Delivers
      <3>. HIDE DEF out, g
      <3>. QED  BY <2>7, <3>3
    <2>9. CASE ~(n <= reader.last)
      <3>1. PICK k \in 1..Len(u.ready) : u.ready[k].id = n
        BY <2>6, <2>9 DEF Handed
      <3>2. k = 1
        <4>1. ReadyInOrder(u.block, u.ready, reader.last, Ahead(pending, Coming))
          BY <1>1 DEF InOrder, StreamInv
        <4>2. ASSUME k # 1 PROVE FALSE
          <5>1. 1 \in 1..Len(u.ready) /\ 1 < k
            BY <1>1, <3>1, <4>2
          <5>2. f.id < n
            BY <3>1, <4>1, <5>1 DEF ReadyInOrder
          <5>3. f.id \in Int
            BY <1>1, <5>1, LastSent
          <5>. QED  BY <1>3, <2>1, <5>2, <5>3
        <4>. QED  BY <4>2
      <3>3. f.id = n /\ f.valid = dev.lens[n] /\ Len(f.payload) >= dev.lens[n]
        BY <2>4, <3>1, <3>2 DEF Filled
      <3>4. dev.lens[n] \in Nat /\ Len(f.payload) \in Nat
        <4>1. f \in Frame
          BY <1>1, <3>1, <3>2
        <4>2. f.payload \in Seq(Packet)
          BY <4>1 DEF Frame
        <4>. QED  BY <1>1, <2>1, <4>2, SMTT(60)
      <3>5. Status(f) = "Complete"
        <4>. HIDE DEF f
        <4>. QED  BY <3>3, <3>4 DEF Status
      <3>6. g.id = n /\ g.status = "Complete"
        BY <3>3, <3>5
      <3>7. Len(out) + 1 \in 1..Len(reader'.out)
        BY <2>7
      <3>. HIDE DEF out, g
      <3>. QED  BY <2>7, <3>6, <3>7
    <2>. QED  BY <2>8, <2>9
  <1>9. Sending' <= MaxBlocks
    BY <1>5
  <1>10. Delivers(dev'.lens, harmed' \cup cut', reader')
    BY <1>5, <1>8
  <1>. HIDE DEF bad, g, out, f
  <1>11. Steady' => Undisturbed'
    BY <1>6, <1>7 DEF LossInv
  <1>. QED  BY <1>9, <1>10, <1>11 DEF LossInv

\* At first nothing was sent.
LEMMA InitLoses ==
    ASSUME Init
    PROVE  LossInv
  <1>1. /\ pending = <<>> /\ dev.lens = <<>> /\ u.planned = <<>> /\ at = "top"
    BY DEF Init, NewStream
  <1>2. Len(dev.lens) = 0 /\ Sending = 0 /\ MaxBlocks \in Nat /\ Len(pending) = 0 /\ Len(u.planned) = 0
    BY <1>1, U3vAssumption DEF Sending
  <1>3. \A bad : Sound(dev.lens, bad) = {}
    BY <1>2 DEF Sound
  <1>4. Shaped(pending, dev.lens, Coming) /\ Planned(pending, at, u.planned) /\ Drained(pending, at, u.block)
    BY <1>1, <1>2 DEF Shaped, Planned, Drained
  <1>5. Undisturbed
    BY <1>3, <1>4 DEF Undisturbed
  <1>6. Delivers(dev.lens, harmed \cup cut, reader)
    BY <1>3 DEF Delivers
  <1>. QED  BY <1>2, <1>5, <1>6 DEF LossInv

\* Every step keeps what is known of sound blocks.
LEMMA LossNext ==
    ASSUME IInv, LossInv, [Next]_vars
    PROVE  LossInv'
  <1>1. CASE UNCHANGED vars
    <2>1. UNCHANGED <<u, at, pending, dev, usb, faults, reader, harmed, cut>>
      BY <1>1 DEF vars
    <2>. QED  BY <2>1 DEF LossInv, Undisturbed, Steady, Coming, Sending
  <1>2. CASE fill
    BY <1>2, FillLoses
  <1>3. CASE WaitNext
    BY <1>3, WaitNextLoses
  <1>4. CASE ReplanDrain
    BY <1>4, ReplanDrainLoses
  <1>5. CASE RecoverDrain
    BY <1>5, RecoverDrainLoses
  <1>6. CASE ReadLoop
    BY <1>6, ReadLoopLoses
  <1>7. ASSUME NEW stalled \in BOOLEAN, IdleOut(stalled) PROVE LossInv'
    BY <1>7, IdleOutLoses
  <1>8. ASSUME NEW late \in BOOLEAN, ReplanDone(late) PROVE LossInv'
    BY <1>8, ReplanDoneLoses
  <1>9. ASSUME NEW i \in 0..(Max(Lengths) + 2), NEW late \in BOOLEAN, Reset(i, late) PROVE LossInv'
    <2>1. i \in Nat
      OBVIOUS
    <2>. QED  BY <1>9, <2>1, ResetLoses
  <1>10. ASSUME NEW len \in Lengths, BeginBlock(len) PROVE LossInv'
    BY <1>10, BeginBlockLoses
  <1>11. CASE Transmit
    BY <1>11, TransmitLoses
  <1>12. CASE Delist
    BY <1>12, DelistLoses
  <1>13. ASSUME NEW status \in {"failed", "cancelled"}, TransferFails(status) PROVE LossInv'
    BY <1>13, TransferFailsLoses
  <1>14. ASSUME NEW status \in {"failed", "gone"}, Unplug(status) PROVE LossInv'
    BY <1>14, UnplugLoses
  <1>. QED
    BY <1>1, <1>2, <1>3, <1>4, <1>5, <1>6, <1>7, <1>8, <1>9, <1>10, <1>11, <1>12, <1>13, <1>14
    DEF Next, Host, Device

\* As long as the stream goes on, sound blocks fare well, and those that the reader thread
\* passed were delivered.
THEOREM LossInductive == Spec => []LossInv
  <1>1. Init => LossInv
    BY InitLoses
  <1>2. IInv /\ LossInv /\ [Next]_vars => LossInv'
    BY LossNext
  <1>. QED  BY <1>1, <1>2, Inductive, PTL DEF Spec

\* A block older than the newest one delivered that was not itself delivered complete was
\* touched by a fault, or had its payload cut by a replan's cancelled transfer, or had its
\* trailer swallowed behind payload in a transfer planned for an earlier block: next_frame_within,
\* replan and recover lose no block otherwise, whatever the layout, the number of transfers in
\* flight and the faults.
THEOREM EveryLossHasCause == Spec => []LossHasCause
  <1>1. IInv /\ LossInv => LossHasCause
    <2>. SUFFICES ASSUME IInv, LossInv, NEW n \in Lost, n \notin harmed \cup cut PROVE FALSE
      BY DEF LossHasCause
    <2>1. /\ n \in reader.first..reader.last /\ n # 0
          /\ ~\E k \in DOMAIN reader.out : reader.out[k].id = n /\ reader.out[k].status = "Complete"
      BY DEF Lost, Out
    <2>2. /\ InOrder(pending, u.block, u.ready, dev.lens, reader.last, Coming)
          /\ reader.first \in Nat /\ reader.last \in Nat /\ reader.out \in Seq(Delivered)
      BY InvInOrder DEF IInv, TypeInv
    <2>3. reader.last \in 0..Len(dev.lens) /\ Len(dev.lens) \in Nat
      BY <2>2, LastSent DEF InOrder
    <2>4. n \in 1..Len(dev.lens) /\ reader.first <= n /\ n <= reader.last
      BY <2>1, <2>2, <2>3
    <2>5. n \in Sound(dev.lens, harmed \cup cut)
      BY <2>4 DEF Sound
    <2>6. \E k \in 1..Len(reader.out) : reader.out[k].id = n /\ reader.out[k].status = "Complete"
      BY <2>4, <2>5 DEF LossInv, Delivers
    <2>7. DOMAIN reader.out = 1..Len(reader.out)
      BY <2>2
    <2>. QED  BY <2>1, <2>6, <2>7
  <1>. QED  BY <1>1, Inductive, LossInductive, PTL
=============================================================================
