-------------------------- MODULE FrameStreamProofs --------------------------
(***************************************************************************)
(* The frames of a GigE Vision stream, for every capacity, limit and length *)
(* of the id cycle: what the 16-bit ids tell (classify), what one block     *)
(* knows of itself (BlockInv), what the assembler keeps (AssemblyInv, and   *)
(* Books for the order and the count of its blocks), and what the stream    *)
(* around it keeps (StreamInv).                                             *)
(***************************************************************************)
EXTENDS FrameStream, FiniteSetTheorems, TLAPS

-----------------------------------------------------------------------------
(* The order of block ids. *)

\* The id a camera gives the block `j` blocks after the one with id `id`: ids run
\* 1..Cycle and skip 0 when they start again.
After(id, j) == IF id + j <= Cycle THEN id + j ELSE id + j - Cycle

LEMMA ModSmall == ASSUME NEW c \in Nat \ {0}, NEW x \in 0..(c - 1) PROVE x % c = x
  BY SMT

LEMMA ModNegative == ASSUME NEW c \in Nat \ {0}, NEW x \in (-c)..(-1) PROVE x % c = x + c
  BY SMT

LEMMA Half == ASSUME NEW c \in Nat PROVE c \div 2 \in Nat /\ 2 * (c \div 2) <= c /\ c <= 2 * (c \div 2) + 1
  BY SMT

LEMMA AfterIsId ==
  ASSUME NEW id \in 1..Cycle, NEW j \in 0..(Cycle - 1) PROVE After(id, j) \in 1..Cycle
  BY BlockOrderAssumption DEF After

\* distance16 in the arithmetic of differences, without `%`.
LEMMA DistanceByCases ==
  ASSUME NEW last \in 1..Cycle, NEW next \in 1..Cycle
  PROVE  LET d == IF next >= last THEN next - last ELSE next - last + Cycle
         IN  distance16(last, next) = IF d > Cycle \div 2 THEN d - Cycle ELSE d
  <1>1. Cycle \in Nat \ {0} /\ last - 1 \in 0..(Cycle - 1) /\ next - 1 \in 0..(Cycle - 1)
    BY BlockOrderAssumption
  <1>2. Pos(last) = last - 1 /\ Pos(next) = next - 1
    BY <1>1, ModSmall DEF Pos
  <1>3. CASE next >= last
    <2>1. next - last \in 0..(Cycle - 1)
      BY <1>1, <1>3
    <2>2. (next - last) % Cycle = next - last
      BY <1>1, <2>1, ModSmall
    <2>3. Pos(next) - Pos(last) = next - last
      BY <1>1, <1>2
    <2> QED BY <1>3, <2>2, <2>3 DEF distance16
  <1>4. CASE ~(next >= last)
    <2>1. next - last \in (-Cycle)..(-1)
      BY <1>1, <1>4
    <2>2. (next - last) % Cycle = next - last + Cycle
      BY <1>1, <2>1, ModNegative
    <2>3. Pos(next) - Pos(last) = next - last
      BY <1>1, <1>2
    <2> QED BY <1>4, <2>2, <2>3 DEF distance16
  <1> QED BY <1>3, <1>4

\* A block sent j blocks later, up to half the cycle, is j ahead, also across the
\* wrap, which skips 0.
LEMMA DistanceAhead ==
  ASSUME NEW last \in 1..Cycle, NEW j \in 0..(Cycle \div 2)
  PROVE  distance16(last, After(last, j)) = j
  <1>1. Cycle \in Nat /\ Cycle \div 2 \in Nat /\ 2 * (Cycle \div 2) <= Cycle
    BY BlockOrderAssumption, Half
  <1>2. After(last, j) \in 1..Cycle
    BY <1>1, AfterIsId, BlockOrderAssumption
  <1>3. LET next == After(last, j)
        IN  j = IF next >= last THEN next - last ELSE next - last + Cycle
    BY <1>1, BlockOrderAssumption DEF After
  <1> QED BY <1>1, <1>2, <1>3, DistanceByCases

\* A block sent j blocks earlier, less than half the cycle, is j behind.
LEMMA DistanceBehind ==
  ASSUME NEW next \in 1..Cycle, NEW j \in 1..(Cycle \div 2), 2 * j < Cycle
  PROVE  distance16(After(next, j), next) = -j
  <1>1. Cycle \in Nat /\ Cycle \div 2 \in Nat /\ 2 * (Cycle \div 2) <= Cycle /\ Cycle <= 2 * (Cycle \div 2) + 1
    BY BlockOrderAssumption, Half
  <1>2. After(next, j) \in 1..Cycle
    BY <1>1, AfterIsId, BlockOrderAssumption
  <1>3. LET last == After(next, j)
        IN  Cycle - j = IF next >= last THEN next - last ELSE next - last + Cycle
    BY <1>1, BlockOrderAssumption DEF After
  <1>4. Cycle - j > Cycle \div 2
    BY <1>1
  <1> QED BY <1>1, <1>2, <1>3, <1>4, DistanceByCases

\* `classify`: a block sent j blocks after the newest, by no more than half the
\* cycle, is the next one and the number of blocks skipped is exact, also where
\* the ids wrap past 0.  The one exception is the leader of an id 1 that is not
\* the next block: it restarts the count.
THEOREM NewerIsCounted ==
  ASSUME NEW last \in 1..Cycle, NEW j \in 1..(Cycle \div 2), NEW leader \in BOOLEAN,
         ~(leader /\ After(last, j) = 1 /\ j # 1)
  PROVE  classify(last, After(last, j), FALSE, leader) = [order |-> "Next", missed |-> j - 1]
  <1>1. Cycle \in Nat /\ LateWindow \in Nat /\ Cycle \div 2 \in Nat /\ 2 * (Cycle \div 2) <= Cycle
    BY BlockOrderAssumption, Half
  <1>2. After(last, j) \in 1..Cycle
    BY <1>1, AfterIsId
  <1>3. Distance(last, After(last, j), FALSE) = j
    BY <1>1, DistanceAhead DEF Distance
  <1>4. ~(last = None \/ (After(last, j) = 0 /\ ~FALSE))
    BY <1>1, <1>2 DEF None
  <1>5. ~Restarts(After(last, j), leader, j) /\ ~(j < -LateWindow) /\ j > 0
    BY <1>1 DEF Restarts
  <1> QED BY <1>3, <1>4, <1>5 DEF classify

\* `classify`: a packet of a block at most LATE_WINDOW before the newest is late,
\* never a new block and never a restart, unless it is the leader of an id 1.
THEOREM OlderIsLate ==
  ASSUME NEW next \in 1..Cycle, NEW j \in 0..LateWindow, NEW leader \in BOOLEAN,
         ~(leader /\ next = 1 /\ j # 0)
  PROVE  classify(After(next, j), next, FALSE, leader) = [order |-> "Late", missed |-> 0]
  <1>1. /\ Cycle \in Nat /\ LateWindow \in Nat /\ 2 * LateWindow < Cycle /\ Cycle \div 2 \in Nat
        /\ 2 * (Cycle \div 2) <= Cycle /\ Cycle <= 2 * (Cycle \div 2) + 1
    BY BlockOrderAssumption, Half
  <1>2. After(next, j) \in 1..Cycle
    BY <1>1, AfterIsId
  <1>3. Distance(After(next, j), next, FALSE) = -j
    <2>1. CASE j = 0
      <3>1. After(next, j) = next
        BY <1>1, <2>1 DEF After
      <3>2. distance16(next, After(next, 0)) = 0
        BY <1>1, DistanceAhead
      <3> QED BY <2>1, <3>1, <3>2 DEF Distance
    <2>2. CASE j # 0
      BY <1>1, <2>2, DistanceBehind DEF Distance
    <2> QED BY <2>1, <2>2
  <1>4. ~(After(next, j) = None \/ (next = 0 /\ ~FALSE))
    BY <1>1, <1>2 DEF None
  <1>5. ~Restarts(next, leader, -j) /\ ~(-j < -LateWindow) /\ ~(-j > 0)
    BY <1>1 DEF Restarts
  <1> QED BY <1>3, <1>4, <1>5 DEF classify

-----------------------------------------------------------------------------
(* Numbers and sets of them. *)

\* A set of natural numbers that is not empty has a smallest.
LEMMA LeastNat ==
  ASSUME NEW T, T \subseteq Nat, T # {}
  PROVE  \E x \in T : \A y \in T : x <= y
  <1>1. \E x \in T : \A y \in T : ~(<<y, x>> \in OpToRel(<, Nat))
    BY Zenon, WFMin, NatLessThanWellFounded
  <1>2. PICK x \in T : \A y \in T : ~(<<y, x>> \in OpToRel(<, Nat))
    BY Zenon, <1>1
  <1>3. ASSUME NEW y \in Nat, NEW z \in Nat, y < z PROVE <<y, z>> \in OpToRel(<, Nat)
    <2>1. <<y, z>> \in Nat \X Nat /\ <<y, z>>[1] = y /\ <<y, z>>[2] = z
      OBVIOUS
    <2>. DEFINE ss == <<y, z>>
    <2>2. ss \in Nat \X Nat /\ ss[1] < ss[2]
      BY <1>3, <2>1
    <2>. HIDE DEF ss
    <2>3. ss \in OpToRel(<, Nat)
      BY Zenon, <2>2 DEF OpToRel
    <2>. QED  BY Zenon, <2>3 DEF ss
  <1>4. \A y \in T : ~(y < x)
    BY Zenon, <1>2, <1>3
  <1>. QED  BY <1>4

\* The least element, by the name the models use.
LEMMA MinIsLeast ==
  ASSUME NEW T, T \subseteq Nat, T # {}
  PROVE  Min(T) \in T /\ \A y \in T : Min(T) <= y
  <1>1. PICK x \in T : \A y \in T : x <= y
    BY LeastNat
  <1>. QED  BY <1>1 DEF Min

\* A set of natural numbers that is bounded and not empty has a greatest.
LEMMA MaxIsGreatest ==
  ASSUME NEW T, T \subseteq Nat, T # {}, NEW n \in Nat, \A y \in T : y <= n
  PROVE  Max(T) \in T /\ \A y \in T : y <= Max(T)
  <1>. DEFINE U == {n - y : y \in T}
  <1>1. U \subseteq Nat /\ U # {}
    OBVIOUS
  <1>2. PICK u \in U : \A v \in U : u <= v
    <2>. HIDE DEF U
    <2>. QED  BY <1>1, LeastNat
  <1>3. PICK x \in T : u = n - x
    OBVIOUS
  <1>4. \A y \in T : y <= x
    <2>. SUFFICES ASSUME NEW y \in T PROVE y <= x
      OBVIOUS
    <2>1. n - y \in U
      OBVIOUS
    <2>2. u <= n - y
      BY <1>2, <2>1
    <2>. QED  BY <1>3, <2>2
  <1>5. \E z \in T : \A y \in T : z >= y
    BY <1>4
  <1>. QED  BY <1>5 DEF Max

LEMMA Products ==
  ASSUME NEW m \in Nat, NEW n \in Nat, NEW c \in Nat, m <= n
  PROVE  m * c \in Nat /\ n * c \in Nat /\ m * c <= n * c
  BY SMTT(30)

-----------------------------------------------------------------------------
(* What the operations of ResendState do to the missing packets. *)

\* The records of ResendState.
Gap == [first : Nat, last : Nat, requests : Nat, wait : Nat \cup {Never}]

Resend == [frontier : Nat, gaps : SUBSET Gap, asked : Nat, spent : BOOLEAN]

\* A gap is not empty and does not touch the frontier f, has been asked for as often as
\* it may be, and no more if it waits to be asked for again.
GapOK(g, f) ==
    /\ g.first <= g.last
    /\ g.last + 1 < f
    /\ g.requests <= MaxRequests \/ g.requests = 1
    /\ g.wait # Never => g.requests < MaxRequests \/ g.requests = 0

\* Two gaps neither overlap nor touch.
Clear(g, h) == g.last + 1 < h.first \/ h.last + 1 < g.first

\* The missing packets of a block are separate runs below its frontier.
ResendOK(r) ==
    /\ r \in Resend
    /\ \A g \in r.gaps : GapOK(g, r.frontier)
    /\ \A g, h \in r.gaps : g # h => Clear(g, h)

\* Packet x is in one of the gaps.
LEMMA InIds ==
  ASSUME NEW G, G \subseteq Gap, NEW x
  PROVE  x \in IdsOf(G) <=> x \in Nat /\ \E g \in G : g.first <= x /\ x <= g.last
  BY DEF IdsOf, Ids, Gap

LEMMA InMissing ==
  ASSUME NEW r, r \in Resend, NEW x
  PROVE  x \in Missing(r) <=> x \in Nat /\ \E g \in r.gaps : g.first <= x /\ x <= g.last
  <1>1. r.gaps \subseteq Gap
    BY DEF Resend
  <1>. QED  BY <1>1, InIds DEF Missing

LEMMA InRequested ==
  ASSUME NEW r, r \in Resend, NEW x
  PROVE  x \in Requested(r) <=> x \in Nat /\ \E g \in r.gaps : g.requests > 0 /\ g.first <= x /\ x <= g.last
  <1>1. {g \in r.gaps : g.requests > 0} \subseteq Gap
    BY DEF Resend
  <1>2. x \in IdsOf({g \in r.gaps : g.requests > 0})
          <=> x \in Nat /\ \E g \in {h \in r.gaps : h.requests > 0} : g.first <= x /\ x <= g.last
    BY <1>1, InIds
  <1>. QED  BY <1>2 DEF Requested

\* What is missing is below the frontier, and what was requested is missing.
LEMMA MissingBelow ==
  ASSUME NEW r, ResendOK(r)
  PROVE  /\ Missing(r) \subseteq 0..(r.frontier - 1)
         /\ Requested(r) \subseteq Missing(r)
         /\ r.frontier - 1 \notin Missing(r)
         /\ \A x \in Missing(r) : x + 1 < r.frontier
  <1>1. r \in Resend /\ r.frontier \in Nat /\ r.gaps \subseteq Gap
    BY DEF ResendOK, Resend
  <1>2. ASSUME NEW x \in Missing(r) PROVE x \in Nat /\ x + 1 < r.frontier
    <2>1. PICK g \in r.gaps : x \in Nat /\ g.first <= x /\ x <= g.last
      BY <1>1, InMissing
    <2>2. g \in Gap /\ g.last + 1 < r.frontier
      BY <1>1 DEF ResendOK, GapOK
    <2>. QED  BY <1>1, <2>1, <2>2 DEF Gap
  <1>3. Requested(r) \subseteq Missing(r)
    BY <1>1, InMissing, InRequested
  <1>4. Missing(r) \subseteq 0..(r.frontier - 1)
    BY <1>1, <1>2
  <1>5. r.frontier - 1 \notin Missing(r)
    BY <1>1, <1>2
  <1>. QED  BY <1>2, <1>3, <1>4, <1>5

LEMMA FreshOK == ResendOK(Fresh) /\ Missing(Fresh) = {} /\ Requested(Fresh) = {}
  <1>1. Fresh \in Resend /\ Fresh.gaps = {}
    BY DEF Fresh, Resend
  <1>2. ResendOK(Fresh)
    BY <1>1 DEF ResendOK
  <1>. QED  BY <1>1, <1>2, InMissing, InRequested

\* The pieces that are left of gap g without packet id.
LEMMA WithoutPieces ==
  ASSUME NEW g \in Gap, NEW id \in Nat, id \in Ids(g), NEW h \in Without(g, id)
  PROVE  /\ h \in Gap /\ h.requests = g.requests /\ h.wait = g.wait /\ h.first <= h.last
         /\ \/ h.first = g.first /\ h.last = id - 1
            \/ h.first = id + 1 /\ h.last = g.last
  BY DEF Without, Ids, Gap

LEMMA WithoutAll ==
  ASSUME NEW g \in Gap, NEW id \in Nat, id \in Ids(g), NEW x \in Ids(g), x # id
  PROVE  \E h \in Without(g, id) : h.requests = g.requests /\ h.first <= x /\ x <= h.last
  <1>1. CASE x < id
    <2>. DEFINE h == [g EXCEPT !.last = id - 1]
    <2>1. h.first = g.first /\ h.last = id - 1 /\ h.requests = g.requests
      BY DEF Gap
    <2>2. g.first <= x /\ x \in Int /\ g.first \in Nat
      BY DEF Ids, Gap
    <2>0. h = [g EXCEPT !.last = id - 1]
      OBVIOUS
    <2>. HIDE DEF h
    <2>4. h.first <= h.last
      BY <1>1, <2>1, <2>2
    <2>3. h \in Without(g, id)
      BY Zenon, <2>0, <2>4 DEF Without
    <2>. QED  BY <1>1, <2>1, <2>2, <2>3
  <1>2. CASE x > id
    <2>. DEFINE h == [g EXCEPT !.first = id + 1]
    <2>1. h.first = id + 1 /\ h.last = g.last /\ h.requests = g.requests
      BY DEF Gap
    <2>2. x <= g.last /\ x \in Int /\ g.last \in Nat
      BY DEF Ids, Gap
    <2>0. h = [g EXCEPT !.first = id + 1]
      OBVIOUS
    <2>. HIDE DEF h
    <2>4. h.first <= h.last
      BY <1>2, <2>1, <2>2
    <2>3. h \in Without(g, id)
      BY Zenon, <2>0, <2>4 DEF Without
    <2>. QED  BY <1>2, <2>1, <2>2, <2>3
  <1>3. x \in Int
    BY DEF Ids, Gap
  <1>. QED  BY <1>1, <1>2, <1>3

\* remove_packet takes out one id and nothing else.
LEMMA RemoveKeeps ==
  ASSUME NEW r, ResendOK(r), NEW id \in Nat
  PROVE  /\ ResendOK(remove_packet(r, id))
         /\ remove_packet(r, id).frontier = r.frontier /\ remove_packet(r, id).asked = r.asked
         /\ Missing(remove_packet(r, id)) = Missing(r) \ {id}
         /\ Requested(remove_packet(r, id)) = Requested(r) \ {id}
  <1>. DEFINE s == remove_packet(r, id)
              G == UNION {IF id \in Ids(g) THEN Without(g, id) ELSE {g} : g \in r.gaps}
  <1>1. r \in Resend /\ r.gaps \subseteq Gap /\ r.frontier \in Nat
    BY DEF ResendOK, Resend
  <1>2. s = [r EXCEPT !.gaps = G]
    BY DEF remove_packet
  <1>3. s.gaps = G /\ s.frontier = r.frontier /\ s.asked = r.asked /\ s.spent = r.spent
    <2>. HIDE DEF G, s
    <2>. QED  BY <1>1, <1>2 DEF Resend
  <1>4. \A h : h \in G <=> \E g \in r.gaps : IF id \in Ids(g) THEN h \in Without(g, id) ELSE h = g
    OBVIOUS
  <1>. HIDE DEF G
  <1>5. ASSUME NEW h \in G
        PROVE  \E g \in r.gaps :
                  /\ h \in Gap /\ h.requests = g.requests /\ h.wait = g.wait /\ h.first <= h.last
                  /\ \/ h = g /\ id \notin Ids(g)
                     \/ id \in Ids(g) /\ h.first = g.first /\ h.last = id - 1
                     \/ id \in Ids(g) /\ h.first = id + 1 /\ h.last = g.last
    <2>1. PICK g \in r.gaps : IF id \in Ids(g) THEN h \in Without(g, id) ELSE h = g
      BY <1>4
    <2>2. g \in Gap /\ g.first <= g.last
      BY <1>1 DEF ResendOK, GapOK
    <2>3. CASE id \in Ids(g)
      BY <2>1, <2>2, <2>3, WithoutPieces
    <2>4. CASE id \notin Ids(g)
      BY <2>1, <2>2, <2>4
    <2>. QED  BY <2>3, <2>4
  <1>6. s \in Resend
    <2>1. G \subseteq Gap
      BY <1>5
    <2>. HIDE DEF s
    <2>. QED  BY <1>1, <1>2, <2>1 DEF Resend
  <1>7. ASSUME NEW h \in G PROVE GapOK(h, r.frontier)
    <2>1. PICK g \in r.gaps :
                  /\ h \in Gap /\ h.requests = g.requests /\ h.wait = g.wait /\ h.first <= h.last
                  /\ \/ h = g /\ id \notin Ids(g)
                     \/ id \in Ids(g) /\ h.first = g.first /\ h.last = id - 1
                     \/ id \in Ids(g) /\ h.first = id + 1 /\ h.last = g.last
      BY <1>5
    <2>2. g \in Gap /\ GapOK(g, r.frontier)
      BY <1>1 DEF ResendOK
    <2>3. h.last <= g.last
      BY <2>1, <2>2 DEF Ids, Gap
    <2>. QED  BY <1>1, <2>1, <2>2, <2>3 DEF GapOK, Gap
  <1>8. ASSUME NEW h \in G, NEW k \in G, h # k PROVE Clear(h, k)
    <2>1. PICK g \in r.gaps :
                  /\ h \in Gap /\ h.requests = g.requests /\ h.wait = g.wait /\ h.first <= h.last
                  /\ \/ h = g /\ id \notin Ids(g)
                     \/ id \in Ids(g) /\ h.first = g.first /\ h.last = id - 1
                     \/ id \in Ids(g) /\ h.first = id + 1 /\ h.last = g.last
      BY <1>5
    <2>2. PICK f \in r.gaps :
                  /\ k \in Gap /\ k.requests = f.requests /\ k.wait = f.wait /\ k.first <= k.last
                  /\ \/ k = f /\ id \notin Ids(f)
                     \/ id \in Ids(f) /\ k.first = f.first /\ k.last = id - 1
                     \/ id \in Ids(f) /\ k.first = id + 1 /\ k.last = f.last
      BY <1>5
    <2>3. g \in Gap /\ f \in Gap /\ g.first <= g.last /\ f.first <= f.last
      BY <1>1 DEF ResendOK, GapOK
    <2>4. CASE f # g
      <3>1. Clear(g, f)
        BY <2>4 DEF ResendOK
      <3>2. g.first <= h.first /\ h.last <= g.last /\ f.first <= k.first /\ k.last <= f.last
        BY <2>1, <2>2, <2>3 DEF Ids, Gap
      <3>. QED  BY <2>1, <2>2, <2>3, <3>1, <3>2 DEF Clear, Gap
    <2>5. CASE f = g
      <3>1. ~(h.first = k.first /\ h.last = k.last)
        BY <1>8, <2>1, <2>2, <2>5 DEF Gap
      <3>. QED  BY <2>1, <2>2, <2>3, <2>5, <3>1 DEF Clear, Gap
    <2>. QED  BY <2>4, <2>5
  <1>9. ResendOK(s)
    BY <1>3, <1>6, <1>7, <1>8 DEF ResendOK
  <1>10. ASSUME NEW x \in Nat, NEW n \in Nat
         PROVE (\E h \in G : h.requests >= n /\ h.first <= x /\ x <= h.last)
                 <=> x # id /\ \E g \in r.gaps : g.requests >= n /\ g.first <= x /\ x <= g.last
    <2>1. ASSUME NEW h \in G, h.requests >= n, h.first <= x, x <= h.last
          PROVE  x # id /\ \E g \in r.gaps : g.requests >= n /\ g.first <= x /\ x <= g.last
      <3>1. PICK g \in r.gaps :
                  /\ h \in Gap /\ h.requests = g.requests /\ h.wait = g.wait /\ h.first <= h.last
                  /\ \/ h = g /\ id \notin Ids(g)
                     \/ id \in Ids(g) /\ h.first = g.first /\ h.last = id - 1
                     \/ id \in Ids(g) /\ h.first = id + 1 /\ h.last = g.last
        BY <1>5
      <3>2. g \in Gap
        BY <1>1
      <3>3. x # id /\ g.first <= x /\ x <= g.last
        BY <2>1, <3>1, <3>2 DEF Ids, Gap
      <3>. QED  BY <2>1, <3>1, <3>3
    <2>2. ASSUME NEW g \in r.gaps, x # id, g.requests >= n, g.first <= x, x <= g.last
          PROVE  \E h \in G : h.requests >= n /\ h.first <= x /\ x <= h.last
      <3>1. g \in Gap /\ x \in Ids(g)
        BY <1>1, <2>2 DEF Ids, Gap
      <3>2. CASE id \in Ids(g)
        <4>1. PICK h \in Without(g, id) : h.requests = g.requests /\ h.first <= x /\ x <= h.last
          BY <2>2, <3>1, <3>2, WithoutAll
        <4>2. h \in G
          BY <1>4, <3>2, <4>1
        <4>. QED  BY <2>2, <4>1, <4>2
      <3>3. CASE id \notin Ids(g)
        BY <1>4, <2>2, <3>3
      <3>. QED  BY <3>2, <3>3
    <2>. QED  BY <2>1, <2>2
  <1>11. \A h \in G \cup r.gaps : h.requests \in Nat
    BY <1>1, <1>6, <1>3 DEF Gap, Resend
  <1>12. \A x : x \in Missing(s) <=> x \in Missing(r) \ {id}
    <2>. HIDE DEF s
    <2>. QED  BY <1>1, <1>3, <1>6, <1>10, <1>11, InMissing
  <1>13. \A x : x \in Requested(s) <=> x \in Requested(r) \ {id}
    <2>. HIDE DEF s
    <2>. QED  BY <1>1, <1>3, <1>6, <1>10, <1>11, InRequested
  <1>. QED  BY <1>3, <1>9, <1>12, <1>13

\* A packet beyond the frontier opens a gap of what it skips; one below it is no longer
\* missing.
LEMMA ArrivedKeeps ==
  ASSUME NEW r, ResendOK(r), NEW id \in Nat
  PROVE  LET s == arrived(r, id, Delay)
         IN  /\ ResendOK(s) /\ s.asked = r.asked
             /\ s.frontier = IF id >= r.frontier THEN id + 1 ELSE r.frontier
             /\ Missing(s) = (Missing(r) \cup (r.frontier..(id - 1))) \ {id}
             /\ Requested(s) = Requested(r) \ {id}
  <1>. DEFINE s == arrived(r, id, Delay)
              new == [first |-> r.frontier, last |-> id - 1, requests |-> 0, wait |-> Delay]
  <1>1. r \in Resend /\ r.gaps \subseteq Gap /\ r.frontier \in Nat
    BY DEF ResendOK, Resend
  <1>2. CASE id < r.frontier
    <2>1. s = remove_packet(r, id)
      BY <1>1, <1>2 DEF arrived
    <2>2. r.frontier..(id - 1) = {}
      BY <1>1, <1>2
    <2>. HIDE DEF s
    <2>3. /\ ResendOK(s) /\ s.asked = r.asked /\ s.frontier = r.frontier
          /\ Missing(s) = Missing(r) \ {id} /\ Requested(s) = Requested(r) \ {id}
      BY <2>1, RemoveKeeps
    <2>4. Missing(s) = (Missing(r) \cup (r.frontier..(id - 1))) \ {id}
      BY <2>2, <2>3
    <2>. QED  BY <1>1, <1>2, <2>3, <2>4 DEF s
  <1>3. CASE id >= r.frontier
    <2>. DEFINE H == r.gaps \cup Opened(r, id, Delay)
                e == id + 1
    <2>0. s = [r EXCEPT !.frontier = e, !.gaps = H] /\ e \in Nat
      BY <1>3 DEF arrived
    <2>1. ASSUME H \subseteq Gap
          PROVE  s.gaps = H /\ s.frontier = id + 1 /\ s.asked = r.asked /\ s \in Resend
      <3>. HIDE DEF H, s, e
      <3>1. s.gaps = H /\ s.frontier = e /\ s.asked = r.asked /\ s \in Resend
        BY <1>1, <2>0, <2>1 DEF Resend
      <3>. QED  BY <3>1 DEF e
    <2>. HIDE DEF s
    <2>2. Missing(r) \subseteq 0..(r.frontier - 1) /\ Requested(r) \subseteq Missing(r)
      BY MissingBelow
    <2>3. CASE id = r.frontier
      <3>1. Opened(r, id, Delay) = {}
        BY <1>1, <2>3 DEF Opened
      <3>2. s.gaps = r.gaps /\ s.frontier = id + 1 /\ s.asked = r.asked /\ s \in Resend
        BY <1>1, <2>1, <3>1
      <3>3. ResendOK(s)
        <4>1. ASSUME NEW g \in r.gaps PROVE GapOK(g, id + 1)
          BY <1>1, <2>3 DEF ResendOK, GapOK, Gap
        <4>. QED  BY <3>2, <4>1 DEF ResendOK
      <3>4. Missing(s) = Missing(r) /\ Requested(s) = Requested(r)
        BY <3>2 DEF Missing, Requested
      <3>5. id \notin Missing(r) /\ id \notin Requested(r) /\ r.frontier..(id - 1) = {}
        BY <1>1, <2>2, <2>3
      <3>. QED  BY <1>3, <3>2, <3>3, <3>4, <3>5 DEF s
    <2>4. CASE id > r.frontier
      <3>1. Opened(r, id, Delay) = {new}
        BY <1>1, <2>4 DEF Opened
      <3>2. /\ new \in Gap /\ new.first = r.frontier /\ new.last = id - 1 /\ new.requests = 0
        BY <1>1, <2>4, AssemblyAssumption DEF Gap
      <3>. HIDE DEF new
      <3>3. s.gaps = r.gaps \cup {new} /\ s.frontier = id + 1 /\ s.asked = r.asked /\ s \in Resend
        <4>1. H \subseteq Gap
          BY <1>1, <3>1, <3>2
        <4>. QED  BY <2>1, <3>1, <4>1
      <3>4. ASSUME NEW g \in r.gaps PROVE g \in Gap /\ GapOK(g, id + 1) /\ g.last + 1 < new.first
        BY <1>1, <2>4, <3>2 DEF ResendOK, GapOK, Gap
      <3>5. GapOK(new, id + 1)
        BY <1>1, <2>4, <3>2, AssemblyAssumption DEF GapOK
      <3>6. \A g, h \in s.gaps : g # h => Clear(g, h)
        BY <3>3, <3>4 DEF ResendOK, Clear
      <3>7. ResendOK(s)
        BY <3>3, <3>4, <3>5, <3>6 DEF ResendOK
      <3>8. ASSUME NEW x PROVE x \in Missing(s) <=> x \in (Missing(r) \cup (r.frontier..(id - 1))) \ {id}
        <4>1. x \in Missing(s) <=> x \in Nat /\ \E g \in r.gaps \cup {new} : g.first <= x /\ x <= g.last
          BY <3>3, InMissing
        <4>2. x \in Missing(r) <=> x \in Nat /\ \E g \in r.gaps : g.first <= x /\ x <= g.last
          BY <1>1, InMissing
        <4>3. x \in r.frontier..(id - 1) <=> x \in Nat /\ new.first <= x /\ x <= new.last
          BY <1>1, <3>2
        <4>4. id \notin Missing(r) /\ id \notin r.frontier..(id - 1)
          BY <1>1, <2>2, <2>4
        <4>. QED  BY <4>1, <4>2, <4>3, <4>4
      <3>9. ASSUME NEW x PROVE x \in Requested(s) <=> x \in Requested(r) \ {id}
        <4>1. x \in Requested(s) <=> x \in Nat /\ \E g \in r.gaps \cup {new} : g.requests > 0 /\ g.first <= x /\ x <= g.last
          BY <3>3, InRequested
        <4>2. x \in Requested(r) <=> x \in Nat /\ \E g \in r.gaps : g.requests > 0 /\ g.first <= x /\ x <= g.last
          BY <1>1, InRequested
        <4>3. id \notin Requested(r)
          BY <1>1, <2>2, <2>4
        <4>4. ~(new.requests > 0)
          BY <3>2
        <4>. QED  BY <4>1, <4>2, <4>3, <4>4
      <3>10. Missing(s) = (Missing(r) \cup (r.frontier..(id - 1))) \ {id} /\ Requested(s) = Requested(r) \ {id}
        BY <3>8, <3>9
      <3>. QED  BY <1>3, <3>3, <3>7, <3>10 DEF s
    <2>. QED  BY <1>1, <1>3, <2>3, <2>4
  <1>. QED  BY <1>1, <1>2, <1>3

\* Gap h is what is left of gap g.
Part(h, g) ==
    /\ h.requests = g.requests /\ (h.wait # Never => g.wait # Never)
    /\ g.first <= h.first /\ h.first <= h.last /\ h.last <= g.last

\* What is left of the gaps of r, one part of each, is in order.
LEMMA PartsKeep ==
  ASSUME NEW r, ResendOK(r), NEW G, G \subseteq Gap, NEW f \in Nat,
         \A h \in G : h.last + 1 < f,
         \A h, k \in G : \E g, j \in r.gaps : Part(h, g) /\ Part(k, j) /\ (g = j => h = k)
  PROVE  (\A h \in G : GapOK(h, f)) /\ \A h, k \in G : h # k => Clear(h, k)
  <1>1. r.gaps \subseteq Gap
    BY DEF ResendOK, Resend
  <1>2. ASSUME NEW h \in G PROVE GapOK(h, f)
    <2>1. PICK g \in r.gaps : Part(h, g)
      OBVIOUS
    <2>2. GapOK(g, r.frontier)
      BY <2>1 DEF ResendOK
    <2>. QED  BY <2>1, <2>2 DEF GapOK, Part
  <1>3. ASSUME NEW h \in G, NEW k \in G, h # k PROVE Clear(h, k)
    <2>1. PICK g \in r.gaps, j \in r.gaps : Part(h, g) /\ Part(k, j) /\ g # j
      BY <1>3
    <2>2. Clear(g, j) /\ g \in Gap /\ j \in Gap /\ h \in Gap /\ k \in Gap
      BY <1>1, <2>1 DEF ResendOK
    <2>. QED  BY <2>1, <2>2 DEF Clear, Gap, Part
  <1>. QED  BY <1>2, <1>3

\* Nothing beyond the trailer stays missing.
LEMMA TrailerKeeps ==
  ASSUME NEW r, ResendOK(r), NEW id \in Nat
  PROVE  LET s == trailer(r, id)
         IN  /\ ResendOK(s) /\ s.asked = r.asked
             /\ s.frontier = IF r.frontier < id + 1 THEN r.frontier ELSE id + 1
             /\ Missing(s) = Missing(r) \cap (0..(id - 1))
             /\ Requested(s) = Requested(r) \cap (0..(id - 1))
  <1>. DEFINE cut(g) == [g EXCEPT !.last = IF @ < id THEN @ ELSE id - 1]
              G == {cut(g) : g \in {h \in r.gaps : h.first < id}}
              f == IF r.frontier < id + 1 THEN r.frontier ELSE id + 1
              s == trailer(r, id)
  <1>1. r \in Resend /\ r.gaps \subseteq Gap /\ r.frontier \in Nat /\ f \in Nat
    BY DEF ResendOK, Resend
  <1>2. s = [r EXCEPT !.gaps = G, !.frontier = f]
    BY DEF trailer
  <1>3. ASSUME NEW g \in r.gaps, g.first < id
        PROVE  /\ cut(g) \in Gap /\ cut(g).first = g.first /\ cut(g).requests = g.requests /\ cut(g).wait = g.wait
               /\ cut(g).last = IF g.last < id THEN g.last ELSE id - 1
               /\ g.first <= cut(g).last /\ cut(g).last <= g.last /\ cut(g).last + 1 < f
    <2>1. g \in Gap /\ g.first <= g.last /\ g.last + 1 < r.frontier
      BY <1>1 DEF ResendOK, GapOK
    <2>. QED  BY <1>1, <1>3, <2>1 DEF Gap
  <1>4. \A h : h \in G <=> \E g \in r.gaps : g.first < id /\ h = cut(g)
    OBVIOUS
  <1>5. G \subseteq Gap
    BY <1>3
  <1>. HIDE DEF G, f, cut, s
  <1>6. s.gaps = G /\ s.frontier = f /\ s.asked = r.asked /\ s \in Resend
    BY <1>1, <1>2, <1>5 DEF Resend
  <1>7. ResendOK(s)
    <2>1. ASSUME NEW g \in r.gaps, g.first < id PROVE Part(cut(g), g)
      <3>1. g.first \in Nat
        BY <1>1 DEF Gap
      <3>. QED  BY <1>3, <2>1, <3>1 DEF Part
    <2>2. \A h, k \in G : \E g, j \in r.gaps : Part(h, g) /\ Part(k, j) /\ (g = j => h = k)
      BY <1>4, <2>1
    <2>3. \A h \in G : h.last + 1 < f
      BY <1>3, <1>4
    <2>5. (\A h \in G : GapOK(h, f)) /\ \A h, k \in G : h # k => Clear(h, k)
      BY <1>1, <1>5, <2>2, <2>3, PartsKeep
    <2>. QED  BY <1>6, <2>5 DEF ResendOK
  <1>8. ASSUME NEW x \in Nat, NEW n \in Nat
        PROVE (\E h \in G : h.requests >= n /\ h.first <= x /\ x <= h.last)
                 <=> x < id /\ \E g \in r.gaps : g.requests >= n /\ g.first <= x /\ x <= g.last
    <2>1. ASSUME NEW h \in G, h.requests >= n, h.first <= x, x <= h.last
          PROVE  x < id /\ \E g \in r.gaps : g.requests >= n /\ g.first <= x /\ x <= g.last
      <3>1. PICK g \in r.gaps : g.first < id /\ h = cut(g)
        BY <1>4
      <3>2. /\ h.requests = g.requests /\ h.first = g.first /\ h.last <= g.last
            /\ h.last = IF g.last < id THEN g.last ELSE id - 1
        BY <1>3, <3>1
      <3>3. g \in Gap /\ h \in Gap
        BY <1>1, <1>5
      <3>. QED  BY <2>1, <3>2, <3>3 DEF Gap
    <2>2. ASSUME x < id, NEW g \in r.gaps, g.requests >= n, g.first <= x, x <= g.last
          PROVE  \E h \in G : h.requests >= n /\ h.first <= x /\ x <= h.last
      <3>1. g \in Gap /\ g.first < id
        BY <1>1, <2>2 DEF Gap
      <3>2. cut(g) \in G
        BY <1>4, <3>1
      <3>3. cut(g).requests >= n /\ cut(g).first <= x /\ x <= cut(g).last
        BY <1>3, <2>2, <3>1 DEF Gap
      <3>. QED  BY <3>2, <3>3
    <2>. QED  BY <2>1, <2>2
  <1>9. \A h \in G \cup r.gaps : h.requests \in Nat
    BY <1>1, <1>5 DEF Gap
  <1>10. \A x : x \in Missing(s) <=> x \in Missing(r) \cap (0..(id - 1))
    BY <1>1, <1>6, <1>8, <1>9, InMissing, SMTT(60)
  <1>11. \A x : x \in Requested(s) <=> x \in Requested(r) \cap (0..(id - 1))
    <2>1. \A x \in Nat : (\E h \in G : h.requests > 0 /\ h.first <= x /\ x <= h.last)
                 <=> x < id /\ \E g \in r.gaps : g.requests > 0 /\ g.first <= x /\ x <= g.last
      <3>1. \A h \in G \cup r.gaps : h.requests > 0 <=> h.requests >= 1
        BY <1>9
      <3>. QED  BY <1>8, <3>1
    <2>. QED  BY <1>1, <1>6, <2>1, InRequested
  <1>. QED  BY <1>6, <1>7, <1>10, <1>11 DEF f, s

\* A camera's answer takes packets out of the gaps and nothing else.
LEMMA UnavailableKeeps ==
  ASSUME NEW r, ResendOK(r), NEW id \in Nat, NEW answer \in {"Gone", "GoneWithPrevious"}
  PROVE  /\ ResendOK(unavailable(r, id, answer))
         /\ unavailable(r, id, answer).asked = r.asked /\ unavailable(r, id, answer).frontier = r.frontier
         /\ Missing(unavailable(r, id, answer)) \subseteq Missing(r)
         /\ Requested(unavailable(r, id, answer)) = Requested(r) \cap Missing(unavailable(r, id, answer))
         /\ DeclaredGone(r, id, answer) = Requested(r) \ Missing(unavailable(r, id, answer))
  <1>. DEFINE s == unavailable(r, id, answer)
  <1>1. r \in Resend /\ r.gaps \subseteq Gap /\ r.frontier \in Nat /\ Requested(r) \subseteq Missing(r)
    BY MissingBelow DEF ResendOK, Resend
  <1>2. CASE answer = "Gone" /\ id \in Requested(r)
    <2>1. s = remove_packet(r, id)
      BY <1>2 DEF unavailable
    <2>. HIDE DEF s
    <2>2. /\ ResendOK(s) /\ s.asked = r.asked /\ s.frontier = r.frontier
          /\ Missing(s) = Missing(r) \ {id} /\ Requested(s) = Requested(r) \ {id}
      BY <2>1, RemoveKeeps
    <2>3. DeclaredGone(r, id, answer) = {id}
      BY <1>2 DEF DeclaredGone
    <2>4. Requested(s) = Requested(r) \cap Missing(s) /\ {id} = Requested(r) \ Missing(s)
      BY <1>1, <1>2, <2>2
    <2>. QED  BY <2>2, <2>3, <2>4 DEF s
  <1>3. CASE answer = "Gone" /\ id \notin Requested(r)
    <2>1. s = r
      BY <1>3 DEF unavailable
    <2>2. DeclaredGone(r, id, answer) = {}
      BY <1>3 DEF DeclaredGone
    <2>. HIDE DEF s
    <2>3. Requested(s) = Requested(r) \cap Missing(s) /\ {} = Requested(r) \ Missing(s)
      BY <1>1, <2>1
    <2>. QED  BY <2>1, <2>2, <2>3 DEF s
  <1>4. CASE answer # "Gone"
    <2>. DEFINE cut(g) == [g EXCEPT !.first = IF @ <= id THEN id + 1 ELSE @]
                G == {cut(g) : g \in {h \in r.gaps : h.last > id}}
    <2>1. s = [r EXCEPT !.gaps = G]
      BY <1>4 DEF unavailable
    <2>2. ASSUME NEW g \in r.gaps, g.last > id
          PROVE  /\ cut(g) \in Gap /\ cut(g).last = g.last /\ cut(g).requests = g.requests /\ cut(g).wait = g.wait
                 /\ cut(g).first = (IF g.first <= id THEN id + 1 ELSE g.first)
                 /\ g.first <= cut(g).first /\ cut(g).first <= g.last /\ cut(g).last + 1 < r.frontier
      <3>1. g \in Gap /\ g.first <= g.last /\ g.last + 1 < r.frontier
        BY <1>1 DEF ResendOK, GapOK
      <3>. QED  BY <2>2, <3>1 DEF Gap
    <2>3. \A h : h \in G <=> \E g \in r.gaps : g.last > id /\ h = cut(g)
      OBVIOUS
    <2>4. G \subseteq Gap
      BY <2>2
    <2>. HIDE DEF G, cut, s
    <2>5. s.gaps = G /\ s.frontier = r.frontier /\ s.asked = r.asked /\ s \in Resend
      BY <1>1, <2>1, <2>4 DEF Resend
    <2>6. ResendOK(s)
      <3>1. ASSUME NEW g \in r.gaps, g.last > id PROVE Part(cut(g), g)
        <4>1. g.last \in Nat
          BY <1>1 DEF Gap
        <4>. QED  BY <2>2, <3>1, <4>1 DEF Part
      <3>2. \A h, k \in G : \E g, j \in r.gaps : Part(h, g) /\ Part(k, j) /\ (g = j => h = k)
        BY <2>3, <3>1
      <3>3. \A h \in G : h.last + 1 < r.frontier
        BY <2>2, <2>3
      <3>4. (\A h \in G : GapOK(h, r.frontier)) /\ \A h, k \in G : h # k => Clear(h, k)
        BY <1>1, <2>4, <3>2, <3>3, PartsKeep
      <3>. QED  BY <2>5, <3>4 DEF ResendOK
    <2>7. ASSUME NEW x \in Nat, NEW n \in Nat
          PROVE (\E h \in G : h.requests >= n /\ h.first <= x /\ x <= h.last)
                   <=> x > id /\ \E g \in r.gaps : g.requests >= n /\ g.first <= x /\ x <= g.last
      <3>1. ASSUME NEW h \in G, h.requests >= n, h.first <= x, x <= h.last
            PROVE  x > id /\ \E g \in r.gaps : g.requests >= n /\ g.first <= x /\ x <= g.last
        <4>1. PICK g \in r.gaps : g.last > id /\ h = cut(g)
          BY <2>3
        <4>2. /\ h.requests = g.requests /\ h.last = g.last /\ g.first <= h.first
              /\ h.first = IF g.first <= id THEN id + 1 ELSE g.first
          BY <2>2, <4>1
        <4>3. g \in Gap /\ h \in Gap
          BY <1>1, <2>4
        <4>. QED  BY <3>1, <4>2, <4>3 DEF Gap
      <3>2. ASSUME x > id, NEW g \in r.gaps, g.requests >= n, g.first <= x, x <= g.last
            PROVE  \E h \in G : h.requests >= n /\ h.first <= x /\ x <= h.last
        <4>1. g \in Gap /\ g.last > id
          BY <1>1, <3>2 DEF Gap
        <4>2. cut(g) \in G
          BY <2>3, <4>1
        <4>3. cut(g).requests >= n /\ cut(g).first <= x /\ x <= cut(g).last
          BY <2>2, <3>2, <4>1 DEF Gap
        <4>. QED  BY <4>2, <4>3
      <3>. QED  BY <3>1, <3>2
    <2>8. \A h \in G \cup r.gaps : h.requests \in Nat
      BY <1>1, <2>4 DEF Gap
    <2>9. \A x : x \in Missing(s) <=> x \in Missing(r) /\ x > id
      BY <1>1, <2>5, <2>7, <2>8, InMissing
    <2>10. \A x : x \in Requested(s) <=> x \in Requested(r) /\ x > id
      <3>1. \A x \in Nat : (\E h \in G : h.requests > 0 /\ h.first <= x /\ x <= h.last)
                   <=> x > id /\ \E g \in r.gaps : g.requests > 0 /\ g.first <= x /\ x <= g.last
        <4>1. \A h \in G \cup r.gaps : h.requests > 0 <=> h.requests >= 1
          BY <2>8
        <4>. QED  BY <2>7, <4>1
      <3>. QED  BY <1>1, <2>5, <3>1, InRequested
    <2>11. DeclaredGone(r, id, answer) = Requested(r) \cap (0..id)
      BY <1>4 DEF DeclaredGone
    <2>12. \A x \in Requested(r) : x \in Nat
      BY <1>1, InRequested
    <2>13. Requested(s) = Requested(r) \cap Missing(s)
      BY <1>1, <2>9, <2>10
    <2>14. Requested(r) \cap (0..id) = Requested(r) \ Missing(s)
      BY <1>1, <2>9, <2>12
    <2>. QED  BY <2>5, <2>6, <2>9, <2>11, <2>13, <2>14 DEF s
  <1>. QED  BY <1>2, <1>3, <1>4

\* Time changes only how long the gaps wait.
LEMMA ElapseKeeps ==
  ASSUME NEW r, ResendOK(r)
  PROVE  LET s == Elapse(r)
         IN  /\ ResendOK(s) /\ s.asked = r.asked /\ s.frontier = r.frontier
             /\ Missing(s) = Missing(r) /\ Requested(s) = Requested(r)
  <1>. DEFINE s == Elapse(r)
              older(g) == [g EXCEPT !.wait = IF @ > 0 THEN @ - 1 ELSE @]
              G == {older(g) : g \in r.gaps}
  <1>1. r \in Resend /\ r.gaps \subseteq Gap /\ r.frontier \in Nat
    BY DEF ResendOK, Resend
  <1>2. s = [r EXCEPT !.gaps = G]
    BY DEF Elapse
  <1>3. ASSUME NEW g \in r.gaps
        PROVE  /\ older(g) \in Gap /\ older(g).first = g.first /\ older(g).last = g.last
               /\ older(g).requests = g.requests /\ (older(g).wait # Never => g.wait # Never)
    BY <1>1 DEF Gap, Never
  <1>4. \A h : h \in G <=> \E g \in r.gaps : h = older(g)
    OBVIOUS
  <1>5. G \subseteq Gap
    BY <1>3
  <1>. HIDE DEF G, older, s
  <1>6. s.gaps = G /\ s.frontier = r.frontier /\ s.asked = r.asked /\ s \in Resend
    BY <1>1, <1>2, <1>5 DEF Resend
  <1>7. ResendOK(s)
    <2>1. ASSUME NEW g \in r.gaps PROVE Part(older(g), g) /\ older(g).last + 1 < r.frontier
      <3>1. g \in Gap /\ g.first <= g.last /\ g.last + 1 < r.frontier
        BY <1>1 DEF ResendOK, GapOK
      <3>. QED  BY <1>3, <3>1 DEF Part, Gap
    <2>2. \A h, k \in G : \E g, j \in r.gaps : Part(h, g) /\ Part(k, j) /\ (g = j => h = k)
      BY <1>4, <2>1
    <2>3. \A h \in G : h.last + 1 < r.frontier
      BY <1>4, <2>1
    <2>4. (\A h \in G : GapOK(h, r.frontier)) /\ \A h, k \in G : h # k => Clear(h, k)
      BY <1>1, <1>5, <2>2, <2>3, PartsKeep
    <2>. QED  BY <1>6, <2>4 DEF ResendOK
  <1>8. \A x : x \in Missing(s) <=> x \in Missing(r)
    BY <1>1, <1>3, <1>4, <1>6, InMissing
  <1>9. \A x : x \in Requested(s) <=> x \in Requested(r)
    BY <1>1, <1>3, <1>4, <1>6, InRequested
  <1>. QED  BY <1>6, <1>7, <1>8, <1>9 DEF s

\* A set of gaps of r has finitely many packets, no more than a set that contains it.
LEMMA FewerPackets ==
  ASSUME NEW r, ResendOK(r), NEW G, NEW H, G \subseteq H, H \subseteq r.gaps
  PROVE  /\ IsFiniteSet(IdsOf(H)) /\ PacketsIn(G) \in Nat /\ PacketsIn(H) \in Nat
         /\ PacketsIn(G) <= PacketsIn(H)
  <1>1. IdsOf(G) \subseteq IdsOf(H) /\ IdsOf(H) \subseteq Missing(r)
    BY DEF IdsOf, Missing
  <1>2. r.frontier \in Nat /\ Missing(r) \subseteq 0..(r.frontier - 1)
    BY MissingBelow DEF ResendOK, Resend
  <1>3. IsFiniteSet(0..(r.frontier - 1))
    BY <1>2, FS_Interval
  <1>4. IsFiniteSet(IdsOf(H))
    BY <1>1, <1>2, <1>3, FS_Subset
  <1>5. IsFiniteSet(IdsOf(G)) /\ Cardinality(IdsOf(G)) <= Cardinality(IdsOf(H))
    BY <1>1, <1>4, FS_Subset
  <1>. QED  BY <1>4, <1>5, FS_CardinalityType DEF PacketsIn

\* What goes out together fits in what is left of the budget.
LEMMA WithinBudget ==
  ASSUME NEW r, ResendOK(r), NEW budget \in Nat
  PROVE  LET now == Requests(r, budget)
         IN  r.asked + PacketsIn(now) \in Nat /\ (r.asked + PacketsIn(now) <= budget \/ PacketsIn(now) = 0)
  <1>. DEFINE now == Requests(r, budget)
  <1>1. r.gaps \subseteq Gap /\ r.frontier \in Nat /\ r.asked \in Nat
    BY DEF ResendOK, Resend
  <1>2. now \subseteq DueGaps(r) /\ DueGaps(r) \subseteq r.gaps
    BY DEF Requests, Affordable, DueGaps
  <1>3. PacketsIn(now) \in Nat
    BY <1>2, FewerPackets
  <1>4. CASE now = {}
    <2>1. IdsOf(now) = {}
      BY <1>4 DEF IdsOf
    <2>. QED  BY <1>1, <2>1, FS_EmptySet DEF PacketsIn
  <1>5. CASE now # {}
    <2>. DEFINE T == {g.first : g \in now}
    <2>1. T \subseteq Nat /\ T # {}
      BY <1>1, <1>2, <1>5 DEF Gap
    <2>2. \A y \in T : y <= r.frontier
      <3>1. \A g \in now : g \in Gap /\ g.first <= g.last /\ g.last + 1 < r.frontier
        BY <1>1, <1>2 DEF ResendOK, GapOK
      <3>. QED  BY <1>1, <3>1 DEF Gap
    <2>3. PICK g \in now : \A h \in now : h.first <= g.first
      <3>1. Max(T) \in T /\ \A y \in T : y <= Max(T)
        <4>. HIDE DEF T
        <4>. QED  BY <1>1, <2>1, <2>2, MaxIsGreatest
      <3>2. PICK g \in now : Max(T) = g.first
        BY <3>1
      <3>. QED  BY <3>1, <3>2
    <2>. DEFINE H == {h \in DueGaps(r) : h.first <= g.first}
    <2>4. now \subseteq H /\ H \subseteq r.gaps
      BY <1>2, <2>3
    <2>5. r.asked + PacketsIn(H) <= budget
      <3>1. ~r.spent /\ now = Affordable(r, budget)
        BY <1>5 DEF Requests
      <3>. QED  BY <2>3, <3>1 DEF Affordable
    <2>6. PacketsIn(now) <= PacketsIn(H) /\ PacketsIn(H) \in Nat
      <3>. HIDE DEF now, H
      <3>. QED  BY <2>4, FewerPackets
    <2>. HIDE DEF now, H
    <2>. QED  BY <1>1, <1>3, <2>5, <2>6 DEF now
  <1>. QED  BY <1>4, <1>5

\* Asking for the due gaps changes how often they were asked for, never what is missing.
LEMMA DueKeeps ==
  ASSUME NEW r, ResendOK(r), NEW budget \in Nat
  PROVE  LET s == due(r, config, budget)
             now == IdsOf(Requests(r, budget))
         IN  /\ ResendOK(s) /\ s.frontier = r.frontier /\ Missing(s) = Missing(r)
             /\ now \subseteq Missing(r)
             /\ Requested(s) = Requested(r) \cup now
             /\ newly_requested(r, budget) = now \ Requested(r)
             /\ s.asked <= budget \/ s.asked = r.asked
  <1>. DEFINE s == due(r, config, budget)
              N == Requests(r, budget)
              G == (r.gaps \ N) \cup {Asked(g, config) : g \in N}
              k == r.asked + PacketsIn(N)
              sp == r.spent \/ N # DueGaps(r)
  <1>1. r \in Resend /\ r.gaps \subseteq Gap /\ r.frontier \in Nat /\ r.asked \in Nat
    BY DEF ResendOK, Resend
  <1>2. N \subseteq r.gaps /\ \A g \in N : g.wait = 0
    BY DEF Requests, Affordable, DueGaps
  <1>3. k \in Nat /\ (k <= budget \/ k = r.asked)
    BY <1>1, WithinBudget
  <1>4. s = [r EXCEPT !.gaps = G, !.asked = k, !.spent = sp]
    BY DEF due
  <1>5. ASSUME NEW g \in r.gaps, g.wait = 0
        PROVE  LET h == Asked(g, config)
               IN  /\ h \in Gap /\ h.first = g.first /\ h.last = g.last /\ h.requests = g.requests + 1
                   /\ GapOK(h, r.frontier)
    <2>. DEFINE n == g.requests + 1
                w == IF g.requests + 1 < config.max_requests THEN config.retry_interval ELSE Never
                h == Asked(g, config)
    <2>1. g \in Gap /\ GapOK(g, r.frontier)
      BY <1>1 DEF ResendOK
    <2>2. n \in Nat /\ w \in Nat \cup {Never}
      BY <2>1, AssemblyAssumption DEF Gap, config
    <2>3. h = [g EXCEPT !.requests = n, !.wait = w]
      BY DEF Asked
    <2>4. h \in Gap /\ h.first = g.first /\ h.last = g.last /\ h.requests = n /\ h.wait = w
      <3>. HIDE DEF n, w, h
      <3>. QED  BY <2>1, <2>2, <2>3 DEF Gap
    <2>5. w # Never => n < MaxRequests
      BY DEF config
    <2>6. g.requests < MaxRequests \/ g.requests = 0
      BY <1>5, <2>1 DEF GapOK, Never
    <2>7. n <= MaxRequests \/ n = 1
      BY <2>1, <2>6, AssemblyAssumption DEF Gap
    <2>8. GapOK(h, r.frontier)
      <3>. HIDE DEF n, w, h
      <3>. QED  BY <2>1, <2>4, <2>5, <2>7 DEF GapOK
    <2>. QED  BY <2>4, <2>8
  <1>6. \A h : h \in G <=> (h \in r.gaps /\ h \notin N) \/ \E g \in N : h = Asked(g, config)
    OBVIOUS
  <1>7. G \subseteq Gap /\ \A h \in G : GapOK(h, r.frontier)
    BY <1>1, <1>2, <1>5, <1>6 DEF ResendOK
  <1>8. sp \in BOOLEAN
    BY <1>1 DEF Resend
  <1>. HIDE DEF N, G, k, sp, s
  <1>9. s.gaps = G /\ s.frontier = r.frontier /\ s.asked = k /\ s \in Resend
    BY <1>1, <1>3, <1>4, <1>7, <1>8 DEF Resend
  <1>10. ASSUME NEW h \in G
         PROVE  \E g \in r.gaps : /\ h.first = g.first /\ h.last = g.last
                                  /\ (g \notin N /\ h = g) \/ (g \in N /\ h = Asked(g, config) /\ h.requests = g.requests + 1)
    BY <1>2, <1>5, <1>6
  <1>11. ResendOK(s)
    <2>1. ASSUME NEW h \in G, NEW i \in G, h # i PROVE Clear(h, i)
      <3>1. PICK g \in r.gaps : /\ h.first = g.first /\ h.last = g.last
                                /\ (g \notin N /\ h = g) \/ (g \in N /\ h = Asked(g, config) /\ h.requests = g.requests + 1)
        BY <1>10
      <3>2. PICK j \in r.gaps : /\ i.first = j.first /\ i.last = j.last
                                /\ (j \notin N /\ i = j) \/ (j \in N /\ i = Asked(j, config) /\ i.requests = j.requests + 1)
        BY <1>10
      <3>3. g # j
        BY <2>1, <3>1, <3>2
      <3>. QED  BY <3>1, <3>2, <3>3 DEF ResendOK, Clear
    <2>. QED  BY <1>7, <1>9, <2>1 DEF ResendOK
  <1>12. ASSUME NEW g \in r.gaps PROVE \E h \in G : /\ h.first = g.first /\ h.last = g.last
                                                    /\ g.requests > 0 => h.requests > 0
                                                    /\ g \in N => h.requests > 0
    <2>1. g.requests \in Nat
      BY <1>1 DEF Gap
    <2>. QED  BY <1>2, <1>5, <1>6, <2>1
  <1>13. Missing(s) = Missing(r)
    <2>1. \A x : x \in Missing(s) <=> x \in Missing(r)
      BY <1>1, <1>9, <1>10, <1>12, InMissing
    <2>. QED  BY <2>1
  <1>14. \A x : x \in IdsOf(N) <=> x \in Nat /\ \E g \in N : g.first <= x /\ x <= g.last
    BY <1>1, <1>2, InIds
  <1>15. Requested(s) = Requested(r) \cup IdsOf(N)
    <2>1. ASSUME NEW x \in Requested(s) PROVE x \in Requested(r) \cup IdsOf(N)
      BY <1>1, <1>9, <1>10, <1>14, InRequested
    <2>2. ASSUME NEW x \in Requested(r) \cup IdsOf(N) PROVE x \in Requested(s)
      <3>1. PICK g \in r.gaps : x \in Nat /\ g.first <= x /\ x <= g.last /\ (g.requests > 0 \/ g \in N)
        BY <1>1, <1>2, <1>14, InRequested
      <3>. QED  BY <1>9, <1>12, <3>1, InRequested
    <2>. QED  BY <2>1, <2>2
  <1>16. IdsOf(N) \subseteq Missing(r)
    BY <1>1, <1>2, <1>14, InMissing
  <1>17. newly_requested(r, budget) = IdsOf(N) \ Requested(r)
    <2>. DEFINE F == {g \in N : g.requests = 0}
    <2>1. newly_requested(r, budget) = IdsOf(F)
      BY DEF newly_requested, N
    <2>2. F \subseteq Gap
      BY <1>1, <1>2
    <2>3. \A x : x \in IdsOf(F) <=> x \in Nat /\ \E g \in F : g.first <= x /\ x <= g.last
      <3>. HIDE DEF F
      <3>. QED  BY <2>2, InIds
    <2>4. ASSUME NEW x \in IdsOf(F) PROVE x \in IdsOf(N) /\ x \notin Requested(r)
      <3>1. PICK g \in N : x \in Nat /\ g.first <= x /\ x <= g.last /\ g.requests = 0
        BY <2>3
      <3>2. ASSUME NEW j \in r.gaps, j.requests > 0, j.first <= x, x <= j.last PROVE FALSE
        <4>1. g \in r.gaps /\ g # j
          BY <1>2, <3>1, <3>2
        <4>2. Clear(g, j) /\ g \in Gap /\ j \in Gap
          BY <1>1, <4>1 DEF ResendOK
        <4>. QED  BY <3>1, <3>2, <4>2 DEF Clear, Gap
      <3>. QED  BY <1>1, <1>14, <3>1, <3>2, InRequested
    <2>5. ASSUME NEW x \in IdsOf(N), x \notin Requested(r) PROVE x \in IdsOf(F)
      <3>1. PICK g \in N : x \in Nat /\ g.first <= x /\ x <= g.last
        BY <1>14
      <3>2. ~(g.requests > 0) /\ g.requests \in Nat
        BY <1>1, <1>2, <2>5, <3>1, InRequested DEF Gap
      <3>3. g \in F
        BY <3>2
      <3>. QED  BY <2>3, <3>1, <3>3
    <2>. QED  BY <2>1, <2>4, <2>5
  <1>. QED  BY <1>3, <1>9, <1>11, <1>13, <1>15, <1>16, <1>17 DEF s, N

-----------------------------------------------------------------------------
(* One block: its state and what the operations change of it. *)

\* What a block holds, as the camera sent it and as the assembler keeps it.
Payloads == {"image", "chunk", "other"}

SentBlock == [id : 1..Cycle, payload : Payloads, last : Nat,
              sizes : {"full", "lastShort", "short", "long"}, status : {"ok", "error"}]

Stat == [count : Nat, ids : SUBSET Nat]

Outcomes == {"no", "Complete", "Unsupported", "DeviceStatus", "Incomplete", "TrailerMissing"}

Block == [id : Nat, age : Nat, leader : Payloads \cup {"none"}, trailer : Nat \cup {NoTrailer},
          buffer : Nat, got : SUBSET Nat, highest : Nat, any_payload : BOOLEAN, short : Nat,
          resolved : Outcomes, resend : Resend, requested : Stat, recovered : Stat,
          unavailable : Stat, from : SUBSET Nat, seen : SUBSET Nat, closed : SUBSET Nat]

\* Two states of a block agree on what it is, on the requests it made and on its data.
SameWho(c, b) == c.id = b.id /\ c.from = b.from
SameAsks(c, b) == /\ c.resend = b.resend /\ c.requested = b.requested /\ c.recovered = b.recovered
                  /\ c.unavailable = b.unavailable /\ c.closed = b.closed
SameData(c, b) == /\ c.leader = b.leader /\ c.trailer = b.trailer /\ c.got = b.got /\ c.highest = b.highest
                  /\ c.short = b.short /\ c.seen = b.seen /\ c.buffer = b.buffer

LEMMA LeaderFields ==
  ASSUME NEW b \in Block, NEW payload \in Payloads, NEW geometry \in Nat
  PROVE  LET c == on_leader(b, payload, geometry)
         IN  /\ c \in Block /\ SameWho(c, b) /\ SameAsks(c, b)
             /\ c.trailer = b.trailer /\ c.got = b.got /\ c.highest = b.highest
             /\ c.short = b.short /\ c.seen = b.seen /\ c.resolved = b.resolved
             /\ c.leader = IF b.leader = "none" THEN payload ELSE b.leader
             /\ c.buffer = b.buffer \/ c.buffer <= geometry
  <1>. DEFINE g == IF payload = "image" THEN Grown(b.buffer, Estimate(geometry)) ELSE b.buffer
              c == on_leader(b, payload, geometry)
  <1>1. g \in Nat /\ (g = b.buffer \/ g <= geometry)
    BY AssemblyAssumption DEF Grown, Estimate, Block
  <1>2. c = IF b.leader # "none" THEN b ELSE [b EXCEPT !.leader = payload, !.buffer = g]
    BY DEF on_leader
  <1>3. payload \in Payloads \cup {"none"}
    OBVIOUS
  <1>. HIDE DEF g, c
  <1>4. CASE b.leader # "none"
    BY <1>2, <1>4 DEF SameWho, SameAsks, c
  <1>5. CASE b.leader = "none"
    <2>1. c = [b EXCEPT !.leader = payload, !.buffer = g]
      BY <1>2, <1>5
    <2>2. c \in Block
      BY <1>1, <1>3, <2>1 DEF Block
    <2>3. c.leader = payload /\ c.buffer = g
      BY <2>1 DEF Block
    <2>4. SameWho(c, b) /\ SameAsks(c, b)
      BY <2>1 DEF Block, SameWho, SameAsks
    <2>5. /\ c.trailer = b.trailer /\ c.got = b.got /\ c.highest = b.highest
          /\ c.short = b.short /\ c.seen = b.seen /\ c.resolved = b.resolved
      BY <2>1 DEF Block
    <2>. QED  BY <1>1, <1>5, <2>2, <2>3, <2>4, <2>5 DEF c
  <1>. QED  BY <1>4, <1>5

LEMMA TrailerFields ==
  ASSUME NEW b \in Block, NEW pid \in Nat, pid > 0, NEW status, b.trailer = NoTrailer
  PROVE  LET c == on_trailer(b, pid, status)
         IN  /\ c \in Block /\ SameWho(c, b) /\ SameAsks(c, b)
             /\ c.trailer = pid - 1 /\ c.leader = b.leader /\ c.highest = b.highest
             /\ c.seen = b.seen /\ c.buffer = b.buffer
             /\ c.resolved \in {b.resolved, "Unsupported", "DeviceStatus"}
             /\ c.resolved = b.resolved =>
                  IF b.short # 0 /\ b.short < pid - 1 /\ ~unsupported(b) /\ status # "error"
                  THEN c.got = b.got \ {b.short} /\ c.short = 0
                  ELSE c.got = b.got /\ c.short = b.short
             /\ b.resolved = "no" /\ c.resolved = "no" => ~unsupported(b) /\ status # "error"
  <1>. DEFINE c == on_trailer(b, pid, status)
              e == pid - 1
              t == [b EXCEPT !.trailer = e]
              g == b.got \ {b.short}
  <1>1. e \in Nat /\ e \in Nat \cup {NoTrailer} /\ g \in SUBSET Nat
    BY DEF Block
  <1>2. c = IF unsupported(b) THEN [t EXCEPT !.resolved = "Unsupported"]
            ELSE IF status = "error" THEN [t EXCEPT !.resolved = "DeviceStatus"]
            ELSE IF b.short # 0 /\ b.short < e THEN [t EXCEPT !.got = g, !.short = 0]
            ELSE t
    <2>1. t.got = b.got
      BY DEF Block
    <2>. QED  BY <2>1 DEF on_trailer
  <1>. HIDE DEF e, g, c
  <1>3. /\ t \in Block /\ SameWho(t, b) /\ SameAsks(t, b) /\ t.trailer = e /\ t.leader = b.leader
        /\ t.highest = b.highest /\ t.seen = b.seen /\ t.buffer = b.buffer /\ t.resolved = b.resolved
        /\ t.got = b.got /\ t.short = b.short
    BY <1>1 DEF Block, SameWho, SameAsks
  <1>. HIDE DEF t
  <1>4. ASSUME NEW o \in Outcomes, c = [t EXCEPT !.resolved = o]
        PROVE  /\ c \in Block /\ SameWho(c, b) /\ SameAsks(c, b) /\ c.trailer = e /\ c.leader = b.leader
               /\ c.highest = b.highest /\ c.seen = b.seen /\ c.buffer = b.buffer /\ c.resolved = o
               /\ c.got = b.got /\ c.short = b.short
    BY <1>3, <1>4 DEF Block, SameWho, SameAsks
  <1>5. CASE unsupported(b)
    <2>1. c = [t EXCEPT !.resolved = "Unsupported"]
      BY <1>2, <1>5
    <2>. QED  BY <1>4, <1>5, <2>1 DEF Outcomes, c, e
  <1>6. CASE ~unsupported(b) /\ status = "error"
    <2>1. c = [t EXCEPT !.resolved = "DeviceStatus"]
      BY <1>2, <1>6
    <2>. QED  BY <1>4, <1>6, <2>1 DEF Outcomes, c, e
  <1>7. CASE ~unsupported(b) /\ status # "error" /\ b.short # 0 /\ b.short < e
    <2>1. c = [t EXCEPT !.got = g, !.short = 0]
      BY <1>2, <1>7
    <2>2. /\ c \in Block /\ SameWho(c, b) /\ SameAsks(c, b) /\ c.trailer = e /\ c.leader = b.leader
          /\ c.highest = b.highest /\ c.seen = b.seen /\ c.buffer = b.buffer /\ c.resolved = b.resolved
          /\ c.got = g /\ c.short = 0
      BY <1>1, <1>3, <2>1 DEF Block, SameWho, SameAsks
    <2>. QED  BY <1>7, <2>2 DEF c, e, g
  <1>8. CASE ~unsupported(b) /\ status # "error" /\ ~(b.short # 0 /\ b.short < e)
    <2>1. c = t
      BY <1>2, <1>8
    <2>. QED  BY <1>3, <1>8, <2>1 DEF c, e
  <1>. QED  BY <1>5, <1>6, <1>7, <1>8

\* The short packets of a block once packet pid is placed.
Shorts(b, pid, size) == ({b.short} \ {0}) \cup (IF size = "short" THEN {pid} ELSE {})

\* s is the greatest of some short packets and may still be the last of the block.
Pending(s, shorts, highest, last) ==
    s \in shorts /\ (\A p \in shorts : p <= s) /\ s >= highest /\ (last # NoTrailer => s >= last)

LEMMA PlaceFields ==
  ASSUME NEW b \in Block, NEW pid \in Nat, pid > 0, NEW size
  PROVE  LET c == Place(b, pid, size)
             shorts == Shorts(b, pid, size)
         IN  /\ c \in Block /\ SameWho(c, b) /\ SameAsks(c, b)
             /\ c.leader = b.leader /\ c.trailer = b.trailer /\ c.seen = b.seen /\ c.resolved = b.resolved
             /\ c.buffer = b.buffer \/ c.buffer = pid
             /\ c.highest = Grown(b.highest, pid)
             /\ \/ c.short = 0 /\ c.got = (b.got \cup {pid}) \ shorts
                   /\ \A s \in shorts : ~Pending(s, shorts, c.highest, b.trailer)
                \/ c.short # 0 /\ c.got = (b.got \cup {pid}) \ (shorts \ {c.short})
                   /\ Pending(c.short, shorts, c.highest, b.trailer)
  <1>. DEFINE shorts == Shorts(b, pid, size)
              pending == IF shorts = {} THEN 0 ELSE Max(shorts)
              top == Grown(b.highest, pid)
              keep == IF StillPending(pending, top, b.trailer) THEN {pending} ELSE {}
              got == (b.got \cup {pid}) \ (shorts \ keep)
              short == IF keep = {} THEN 0 ELSE pending
              buffer == Grown(b.buffer, pid)
              c == Place(b, pid, size)
  <1>1. c = [b EXCEPT !.got = got, !.short = short, !.highest = top, !.buffer = buffer, !.any_payload = TRUE]
    BY DEF Place, Shorts
  <1>2. shorts \subseteq Nat /\ 0 \notin shorts /\ \A p \in shorts : p <= b.short + pid
    BY DEF Shorts, Block
  <1>3. top \in Nat /\ buffer \in Nat /\ (buffer = b.buffer \/ buffer = pid)
    BY DEF Grown, Block
  <1>4. shorts # {} => pending \in shorts /\ \A p \in shorts : p <= pending
    <2>1. b.short + pid \in Nat
      BY DEF Block
    <2>2. shorts # {} => Max(shorts) \in shorts /\ \A p \in shorts : p <= Max(shorts)
      <3>. HIDE DEF shorts
      <3>. QED  BY <1>2, <2>1, MaxIsGreatest
    <2>. QED  BY <2>2
  <1>5. shorts = {} => pending = 0
    OBVIOUS
  <1>6. pending \in Nat
    <2>. HIDE DEF shorts, pending
    <2>1. CASE shorts = {}
      BY <1>5, <2>1
    <2>2. CASE shorts # {}
      BY <1>2, <1>4, <2>2
    <2>. QED  BY <2>1, <2>2
  <1>. HIDE DEF shorts, pending, top, buffer, c
  <1>7. \/ keep = {} /\ short = 0 /\ \A s \in shorts : ~Pending(s, shorts, top, b.trailer)
        \/ keep = {short} /\ short # 0 /\ Pending(short, shorts, top, b.trailer)
    <2>1. CASE StillPending(pending, top, b.trailer)
      <3>1. shorts # {} /\ pending # 0
        BY <1>5, <2>1 DEF StillPending
      <3>2. keep = {pending} /\ short = pending
        BY <2>1
      <3>3. Pending(pending, shorts, top, b.trailer)
        BY <1>4, <2>1, <3>1 DEF StillPending, Pending
      <3>. QED  BY <3>1, <3>2, <3>3
    <2>2. CASE ~StillPending(pending, top, b.trailer)
      <3>1. ASSUME NEW s \in shorts, Pending(s, shorts, top, b.trailer) PROVE FALSE
        <4>1. s = pending /\ pending # 0
          BY <1>2, <1>4, <1>6, <3>1 DEF Pending
        <4>. QED  BY <2>2, <3>1, <4>1 DEF Pending, StillPending
      <3>. QED  BY <2>2, <3>1
    <2>. QED  BY <2>1, <2>2
  <1>8. short \in Nat /\ got \in SUBSET Nat
    <2>1. got \in SUBSET Nat
      BY DEF Block
    <2>2. short \in Nat
      BY <1>6
    <2>. QED  BY <2>1, <2>2
  <1>9. /\ c \in Block /\ SameWho(c, b) /\ SameAsks(c, b)
        /\ c.leader = b.leader /\ c.trailer = b.trailer /\ c.seen = b.seen /\ c.resolved = b.resolved
        /\ c.got = got /\ c.short = short /\ c.highest = top /\ c.buffer = buffer
    <2>. HIDE DEF got, short, keep
    <2>. QED  BY <1>1, <1>3, <1>8 DEF Block, SameWho, SameAsks
  <1>10. keep = {} => got = (b.got \cup {pid}) \ shorts
    BY <1>9
  <1>11. keep = {short} => got = (b.got \cup {pid}) \ (shorts \ {short})
    BY <1>9
  <1>. HIDE DEF got, short, keep
  <1>. QED  BY <1>3, <1>7, <1>9, <1>10, <1>11 DEF c, shorts, top

\* A statistic of a block that counts some packets it did not count before.
LEMMA RecordFields ==
  ASSUME NEW stat \in Stat, NEW ids \in SUBSET Nat, IsFiniteSet(ids)
  PROVE  LET s == Record(stat, ids)
         IN  /\ s \in Stat /\ s.ids = stat.ids \cup ids
             /\ IsFiniteSet(stat.ids) => IsFiniteSet(s.ids)
             /\ IsFiniteSet(stat.ids) /\ stat.count = Cardinality(stat.ids) /\ stat.ids \cap ids = {}
                  => s.count = Cardinality(s.ids)
  <1>. DEFINE s == Record(stat, ids)
              k == stat.count + Cardinality(ids)
              u == stat.ids \cup ids
  <1>1. k \in Nat /\ u \in SUBSET Nat
    <2>1. Cardinality(ids) \in Nat
      BY FS_CardinalityType
    <2>2. stat.count \in Nat /\ stat.ids \in SUBSET Nat
      BY DEF Stat
    <2>3. k \in Nat
      BY <2>1, <2>2
    <2>4. u \in SUBSET Nat
      BY <2>2
    <2>. QED  BY <2>3, <2>4
  <1>2. s = [count |-> k, ids |-> u]
    BY DEF Record
  <1>3. IsFiniteSet(stat.ids) => IsFiniteSet(u)
    BY FS_Union
  <1>4. IsFiniteSet(stat.ids) /\ stat.ids \cap ids = {} => Cardinality(u) = Cardinality(stat.ids) + Cardinality(ids)
    <2>. SUFFICES ASSUME IsFiniteSet(stat.ids), stat.ids \cap ids = {}
                  PROVE  Cardinality(u) = Cardinality(stat.ids) + Cardinality(ids)
      OBVIOUS
    <2>1. Cardinality(u) = Cardinality(stat.ids) + Cardinality(ids) - Cardinality(stat.ids \cap ids)
      BY FS_Union
    <2>2. Cardinality(stat.ids \cap ids) = 0
      BY FS_EmptySet
    <2>3. Cardinality(stat.ids) \in Nat /\ Cardinality(ids) \in Nat
      BY FS_CardinalityType
    <2>. HIDE DEF u
    <2>. QED  BY <2>1, <2>2, <2>3
  <1>5. s \in Stat /\ s.ids = u /\ s.count = k
    <2>. HIDE DEF u, k
    <2>. QED  BY <1>1, <1>2 DEF Stat
  <1>6. stat.count = Cardinality(stat.ids) => k = Cardinality(stat.ids) + Cardinality(ids)
    OBVIOUS
  <1>. HIDE DEF k, u, s
  <1>. QED  BY <1>3, <1>4, <1>5, <1>6 DEF s, u

\* What a packet of a block with L data packets does to its resend state.
Told(r, pid, L) ==
    IF pid = L + 1 THEN trailer(arrived(r, pid, Delay), pid) ELSE arrived(r, pid, Delay)

LEMMA ToldKeeps ==
  ASSUME NEW r, ResendOK(r), NEW L \in Nat, NEW pid \in 0..(L + 1)
  PROVE  /\ ResendOK(Told(r, pid, L)) /\ Told(r, pid, L).asked = r.asked
         /\ Told(r, pid, L).frontier =
                IF pid = L + 1 THEN L + 2 ELSE IF pid >= r.frontier THEN pid + 1 ELSE r.frontier
  <1>. DEFINE u == arrived(r, pid, Delay)
              s == Told(r, pid, L)
  <1>0. pid \in Nat
    OBVIOUS
  <1>1. /\ ResendOK(u) /\ u.asked = r.asked
        /\ u.frontier = IF pid >= r.frontier THEN pid + 1 ELSE r.frontier
    BY ArrivedKeeps
  <1>2. CASE pid # L + 1
    <2>1. s = u
      BY <1>2 DEF Told
    <2>. HIDE DEF u, s
    <2>. QED  BY <1>1, <1>2, <2>1 DEF s
  <1>3. CASE pid = L + 1
    <2>1. s = trailer(u, pid)
      BY <1>3 DEF Told
    <2>. HIDE DEF u, s
    <2>2. /\ ResendOK(s) /\ s.asked = u.asked
          /\ s.frontier = IF u.frontier < pid + 1 THEN u.frontier ELSE pid + 1
      BY <1>0, <1>1, <2>1, TrailerKeeps
    <2>3. r.frontier \in Nat /\ u.frontier \in Nat
      BY <1>1 DEF ResendOK, Resend
    <2>4. s.frontier = L + 2
      BY <1>0, <1>1, <1>3, <2>2, <2>3
    <2>. QED  BY <1>1, <1>3, <2>2, <2>4 DEF s
  <1>. QED  BY <1>2, <1>3

LEMMA ToldMissing ==
  ASSUME NEW r, ResendOK(r), NEW L \in Nat, NEW pid \in 0..(L + 1), r.frontier <= L + 2
  PROVE  /\ Missing(Told(r, pid, L)) = (Missing(r) \cup (r.frontier..(pid - 1))) \ {pid}
         /\ Requested(Told(r, pid, L)) = Requested(r) \ {pid}
  <1>. DEFINE u == arrived(r, pid, Delay)
              s == Told(r, pid, L)
  <1>0. pid \in Nat
    OBVIOUS
  <1>1. /\ ResendOK(u) /\ u.frontier = (IF pid >= r.frontier THEN pid + 1 ELSE r.frontier)
        /\ Missing(u) = (Missing(r) \cup (r.frontier..(pid - 1))) \ {pid}
        /\ Requested(u) = Requested(r) \ {pid}
    BY ArrivedKeeps
  <1>2. CASE pid # L + 1
    <2>1. s = u
      BY <1>2 DEF Told
    <2>. HIDE DEF u, s
    <2>. QED  BY <1>1, <2>1 DEF s
  <1>3. CASE pid = L + 1
    <2>1. s = trailer(u, pid)
      BY <1>3 DEF Told
    <2>. HIDE DEF u, s
    <2>2. Missing(s) = Missing(u) \cap (0..(pid - 1)) /\ Requested(s) = Requested(u) \cap (0..(pid - 1))
      BY <1>0, <1>1, <2>1, TrailerKeeps
    <2>3. r.frontier \in Nat /\ u.frontier \in Nat
      BY <1>1 DEF ResendOK, Resend
    <2>4. u.frontier <= L + 2
      BY <1>0, <1>1, <1>3, <2>3
    <2>5. Missing(u) \subseteq 0..(u.frontier - 1) /\ Requested(u) \subseteq Missing(u) /\ \A x \in Missing(u) : x + 1 < u.frontier
      BY <1>1, MissingBelow
    <2>6. Missing(u) \subseteq 0..(pid - 1)
      BY <1>0, <1>3, <2>3, <2>4, <2>5
    <2>7. Missing(s) = Missing(u) /\ Requested(s) = Requested(u)
      BY <2>2, <2>5, <2>6
    <2>. QED  BY <1>1, <2>7 DEF s
  <1>. QED  BY <1>2, <1>3

-----------------------------------------------------------------------------
(* What holds of every block in flight: S is what the camera sent, and `on` *)
(* whether packets are asked for again.                                     *)

\* The blocks whose packets it took have its id.
Who(b, S) == b.from # {} /\ b.from \subseteq DOMAIN S /\ \A n \in b.from : S[n].id = b.id

\* Its trailer, its buffer, its frontier and its requests are within one of their lengths.
Within(b, S) ==
    /\ b.trailer = NoTrailer \/ \E n \in b.from : b.trailer = S[n].last
    /\ b.buffer <= PayloadPackets \/ \E n \in b.from : b.buffer <= S[n].last
    /\ \E n \in b.from : b.resend.frontier <= S[n].last + (IF b.trailer = NoTrailer THEN 1 ELSE 2)
    /\ b.resend.asked <= Allowance(PayloadPackets) \/ \E n \in b.from : b.resend.asked <= Allowance(S[n].last)

\* The blocks it took packets of are of one length: a count that starts again can bring a
\* block of another length under the same id.
SameLength(b, S) == \A m, n \in b.from : S[m].last = S[n].last

\* The packets it asked for, and what became of them.
Counted(b) ==
    /\ b.recovered.ids \cap b.unavailable.ids = {}
    /\ b.recovered.ids \subseteq b.requested.ids /\ b.unavailable.ids \subseteq b.requested.ids
    /\ b.requested.ids \subseteq 0..(b.resend.frontier - 1)
    /\ Requested(b.resend) = b.requested.ids \cap Missing(b.resend)
    /\ Requested(b.resend) \cap (b.recovered.ids \cup b.unavailable.ids) = {}
    /\ b.requested.count = Cardinality(b.requested.ids)
    /\ b.recovered.count = Cardinality(b.recovered.ids)
    /\ b.unavailable.count = Cardinality(b.unavailable.ids)

\* What is missing, next to what arrived and what was given up.
Tracked(b) ==
    /\ b.trailer # NoTrailer => b.resend.frontier = b.trailer + 2
    /\ 0..(b.resend.frontier - 1) \subseteq b.seen \cup Missing(b.resend) \cup b.closed
    /\ Missing(b.resend) \cap (b.seen \cup b.closed) = {}
    /\ b.seen \subseteq 0..(b.resend.frontier - 1) /\ b.closed \subseteq 0..(b.resend.frontier - 1)

\* What a block that took packets of the one block k holds of it, if those in `seen` arrived.
Kept(b, k, seen) ==
    /\ seen \subseteq 0..(k.last + 1)
    /\ b.leader \in {"none", k.payload} /\ (b.leader = "none" <=> 0 \notin seen)
    /\ b.trailer \in {NoTrailer, k.last} /\ (b.trailer = NoTrailer <=> k.last + 1 \notin seen)
    /\ b.got \subseteq seen /\ b.got \subseteq 1..b.highest /\ b.highest <= k.last
    /\ \A p \in seen \cap (1..k.last) : SizeOf(k, p) = "full" => p \in b.got
    /\ \A p \in b.got : SizeOf(k, p) # "long" /\ (SizeOf(k, p) = "short" => p = b.short)
    /\ b.short # 0 => /\ b.short \in b.got /\ SizeOf(k, b.short) = "short" /\ b.highest <= b.short
                      /\ b.trailer # NoTrailer => b.short = k.last
    /\ Placeable(k) => seen \cap (1..k.last) \subseteq b.got

\* It has all that try_complete looks for.
Whole(b) == b.leader \in {"image", "chunk"} /\ b.trailer # NoTrailer /\ 1..b.trailer \subseteq b.got

\* What it says of itself once it is resolved.
Truthful(b, k) ==
    /\ b.resolved = "Complete" => b.seen = 0..(k.last + 1) /\ Placeable(k)
    /\ b.resolved \in {"Incomplete", "TrailerMissing"} => b.seen # 0..(k.last + 1) \/ ~Placeable(k)

\* What the operations of a block preserve.  Counted and Tracked need one length; Kept, that
\* all its packets are of one block, and that it is open: nothing is placed afterwards.
BlockInv(b, S, on) ==
    /\ b \in Block /\ ResendOK(b.resend) /\ Who(b, S) /\ Within(b, S)
    /\ SameLength(b, S) => Counted(b)
    /\ SameLength(b, S) /\ on /\ b.leader # "other" => Tracked(b)
    /\ \A n : b.from = {n} => /\ b.resolved = "no" => Kept(b, S[n], b.seen) /\ ~Whole(b)
                              /\ Truthful(b, S[n])

\* A block that is given packet pid of the camera's block k, before it is told of its arrival.
Given(b, k, pid) ==
    IF pid = 0 THEN on_leader(b, k.payload, k.last)
    ELSE IF pid = k.last + 1 THEN on_trailer(b, pid, k.status)
    ELSE on_payload(b, pid, SizeOf(k, pid))

\* Whether the packet counts as arrived for ResendState.
Arrives(b, k, pid) == pid = 0 \/ pid = k.last + 1 \/ PayloadArrived(b, pid, SizeOf(k, pid))

LEMMA SizeIsOne ==
  ASSUME NEW k \in SentBlock, NEW p PROVE SizeOf(k, p) \in {"full", "short", "long"}
  BY DEF SizeOf, SentBlock

LEMMA GivenFields ==
  ASSUME NEW b \in Block, NEW k \in SentBlock, NEW pid \in 0..(k.last + 1)
  PROVE  LET c == Given(b, k, pid)
         IN  /\ c \in Block /\ SameWho(c, b) /\ SameAsks(c, b) /\ c.seen = b.seen
             /\ c.leader = b.leader \/ (c.leader = k.payload /\ b.leader = "none")
             /\ c.trailer = IF pid = k.last + 1 /\ b.trailer = NoTrailer THEN k.last ELSE b.trailer
             /\ c.buffer = b.buffer \/ c.buffer <= k.last
             /\ c.resolved \in {b.resolved, "Unsupported", "DeviceStatus"}
  <1>. DEFINE c == Given(b, k, pid)
  <1>1. k.last \in Nat /\ k.payload \in Payloads /\ pid \in Nat /\ b.trailer \in Nat \cup {NoTrailer}
    BY DEF SentBlock, Block
  <1>2. ASSUME c = b PROVE /\ c \in Block /\ SameWho(c, b) /\ SameAsks(c, b) /\ c.seen = b.seen
             /\ c.leader = b.leader /\ c.trailer = b.trailer /\ c.buffer = b.buffer /\ c.resolved = b.resolved
    BY <1>2 DEF SameWho, SameAsks
  <1>3. CASE pid = 0
    <2>1. c = on_leader(b, k.payload, k.last) /\ pid # k.last + 1
      BY <1>1, <1>3 DEF Given
    <2>. QED  BY <1>1, <1>3, <2>1, LeaderFields, SMTT(60)
  <1>4. CASE pid # 0 /\ pid = k.last + 1
    <2>1. c = on_trailer(b, pid, k.status)
      BY <1>4 DEF Given
    <2>2. CASE b.trailer # NoTrailer
      <3>1. c = b
        BY <2>1, <2>2 DEF on_trailer
      <3>. QED  BY <1>2, <2>2, <3>1
    <2>3. CASE b.trailer = NoTrailer
      <3>1. pid > 0 /\ pid - 1 = k.last
        BY <1>1, <1>4
      <3>. QED  BY <1>1, <1>4, <2>1, <2>3, <3>1, TrailerFields
    <2>. QED  BY <2>2, <2>3
  <1>5. CASE pid # 0 /\ pid # k.last + 1
    <2>. DEFINE size == SizeOf(k, pid)
    <2>1. c = on_payload(b, pid, size)
      BY <1>5 DEF Given
    <2>2. pid > 0 /\ pid <= k.last
      BY <1>1, <1>5
    <2>3. c = b \/ c = Place(b, pid, size)
      BY <2>1 DEF on_payload
    <2>4. CASE c = b
      BY <1>2, <1>5, <2>4
    <2>5. CASE c = Place(b, pid, size)
      <3>. HIDE DEF size
      <3>. QED  BY <1>1, <1>5, <2>2, <2>5, PlaceFields
    <2>. QED  BY <2>3, <2>4, <2>5
  <1>. QED  BY <1>3, <1>4, <1>5

\* An arrived packet of the block itself: what is held follows what was seen.
LEMMA GivenKept ==
  ASSUME NEW b \in Block, NEW k \in SentBlock, NEW pid \in 0..(k.last + 1),
         Kept(b, k, b.seen), Given(b, k, pid).resolved = "no", b.resolved = "no"
  PROVE  Kept(Given(b, k, pid), k, IF Arrives(b, k, pid) THEN b.seen \cup {pid} ELSE b.seen)
  <1>. DEFINE c == Given(b, k, pid)
              seen == b.seen \cup {pid}
  <1>1. k.last \in Nat /\ k.payload \in Payloads /\ pid \in Nat /\ b.trailer \in Nat \cup {NoTrailer}
        /\ b.got \subseteq Nat /\ b.highest \in Nat /\ b.short \in Nat /\ NoTrailer = -1 /\ b.seen \subseteq Nat
    BY DEF SentBlock, Block, NoTrailer
  <1>2. \A p : SizeOf(k, p) \in {"full", "short", "long"}
    BY SizeIsOne
  <1>3. CASE pid = 0
    <2>1. c = on_leader(b, k.payload, k.last) /\ Arrives(b, k, pid)
      BY <1>1, <1>3 DEF Given, Arrives
    <2>. HIDE DEF c
    <2>2. /\ c.trailer = b.trailer /\ c.got = b.got /\ c.highest = b.highest /\ c.short = b.short
          /\ c.leader = IF b.leader = "none" THEN k.payload ELSE b.leader
      BY <1>1, <2>1, LeaderFields
    <2>3. 0 \in seen /\ c.leader = k.payload /\ k.payload # "none"
      BY <1>1, <1>3, <2>2 DEF Kept, Payloads
    <2>4. seen \cap (1..k.last) = b.seen \cap (1..k.last) /\ (k.last + 1 \in seen <=> k.last + 1 \in b.seen)
      BY <1>1, <1>3
    <2>5. seen \subseteq 0..(k.last + 1) /\ b.seen \subseteq seen
      BY <1>1, <1>3 DEF Kept
    <2>. HIDE DEF seen
    <2>6. Kept(c, k, seen)
      BY <2>2, <2>3, <2>4, <2>5 DEF Kept
    <2>. QED  BY <2>1, <2>6 DEF c, seen
  <1>4. CASE pid # 0 /\ pid = k.last + 1
    <2>1. c = on_trailer(b, pid, k.status) /\ Arrives(b, k, pid)
      BY <1>4 DEF Given, Arrives
    <2>2. k.last + 1 \in seen /\ seen \cap (1..k.last) = b.seen \cap (1..k.last) /\ (0 \in seen <=> 0 \in b.seen)
      BY <1>1, <1>4
    <2>3. seen \subseteq 0..(k.last + 1) /\ b.seen \subseteq seen
      BY <1>1, <1>4 DEF Kept
    <2>4. CASE b.trailer # NoTrailer
      <3>1. c = b /\ seen = b.seen
        BY <1>4, <2>1, <2>4 DEF on_trailer, Kept
      <3>. QED  BY <2>1, <3>1
    <2>5. CASE b.trailer = NoTrailer
      <3>1. pid > 0 /\ pid - 1 = k.last
        BY <1>1, <1>4
      <3>2. /\ c.trailer = k.last /\ c.leader = b.leader /\ c.highest = b.highest
            /\ IF b.short # 0 /\ b.short < k.last
               THEN c.got = b.got \ {b.short} /\ c.short = 0
               ELSE c.got = b.got /\ c.short = b.short
        BY <1>1, <2>1, <2>5, <3>1, TrailerFields
      <3>. HIDE DEF seen, c
      <3>3. CASE ~(b.short # 0 /\ b.short < k.last)
        <4>1. b.short # 0 => b.short = k.last
          BY <1>1, <3>3 DEF Kept
        <4>. QED  BY <2>1, <2>2, <2>3, <3>2, <3>3, <4>1, <1>1 DEF Kept, c, seen
      <3>4. CASE b.short # 0 /\ b.short < k.last
        <4>1. SizeOf(k, b.short) = "short" /\ b.short \in b.got /\ b.short \in 1..k.last
          BY <1>1, <3>4 DEF Kept
        <4>2. ~Placeable(k)
          BY <1>1, <3>4, <4>1 DEF Placeable
        <4>3. c.got \subseteq b.got /\ \A p \in b.got : p # b.short => p \in c.got
          BY <3>2, <3>4
        <4>. QED  BY <2>1, <2>2, <2>3, <3>2, <3>4, <4>1, <4>2, <4>3, <1>1 DEF Kept, c, seen
      <3>. QED  BY <3>3, <3>4
    <2>. QED  BY <2>4, <2>5
  <1>5. CASE pid # 0 /\ pid # k.last + 1
    <2>. DEFINE size == SizeOf(k, pid)
    <2>1. c = on_payload(b, pid, size) /\ (Arrives(b, k, pid) <=> PayloadArrived(b, pid, size))
      BY <1>5 DEF Given, Arrives
    <2>2. pid > 0 /\ pid <= k.last /\ pid \in 1..k.last
      BY <1>1, <1>5
    <2>3. CASE ~PayloadArrived(b, pid, size)
      <3>1. c = b /\ ~Arrives(b, k, pid)
        BY <2>1, <2>3 DEF on_payload
      <3>. QED  BY <3>1
    <2>4. CASE PayloadArrived(b, pid, size) /\ pid \in b.got
      <3>1. c = b /\ Arrives(b, k, pid)
        BY <2>1, <2>4 DEF on_payload
      <3>2. seen = b.seen
        BY <2>4 DEF Kept
      <3>. QED  BY <3>1, <3>2
    <2>5. seen \subseteq 0..(k.last + 1) /\ b.seen \subseteq seen /\ (0 \in seen <=> 0 \in b.seen)
          /\ (k.last + 1 \in seen <=> k.last + 1 \in b.seen)
      BY <1>1, <1>5, <2>2 DEF Kept
    <2>6. CASE PayloadArrived(b, pid, size) /\ pid \notin b.got /\ size = "long"
      <3>1. c = b /\ Arrives(b, k, pid)
        BY <2>1, <2>6 DEF on_payload
      <3>2. ~Placeable(k)
        BY <1>1, <2>2, <2>6 DEF Placeable
      <3>3. \A p \in seen \cap (1..k.last) : SizeOf(k, p) = "full" => p \in b.got
        BY <2>6 DEF Kept
      <3>. HIDE DEF seen, c
      <3>4. Kept(b, k, seen)
        BY <2>5, <3>2, <3>3 DEF Kept
      <3>. QED  BY <3>1, <3>4 DEF c, seen
    <2>7. CASE PayloadArrived(b, pid, size) /\ pid \notin b.got /\ size # "long"
      <3>. DEFINE shorts == Shorts(b, pid, size)
      <3>1. c = Place(b, pid, size) /\ Arrives(b, k, pid)
        BY <2>1, <2>7 DEF on_payload
      <3>2. /\ c.leader = b.leader /\ c.trailer = b.trailer /\ c.highest = Grown(b.highest, pid)
            /\ \/ c.short = 0 /\ c.got = (b.got \cup {pid}) \ shorts
                   /\ \A s \in shorts : ~Pending(s, shorts, c.highest, b.trailer)
               \/ c.short # 0 /\ c.got = (b.got \cup {pid}) \ (shorts \ {c.short})
                   /\ Pending(c.short, shorts, c.highest, b.trailer)
        <4>. HIDE DEF size, c
        <4>. QED  BY <2>2, <3>1, <1>1, PlaceFields
      <3>3. \A p : p \in shorts <=> (p = b.short /\ p # 0) \/ (p = pid /\ size = "short")
        BY DEF Shorts
      <3>4. \A p \in shorts : SizeOf(k, p) = "short" /\ p \in 1..k.last /\ p \in b.got \cup {pid}
        BY <1>1, <2>2, <3>3 DEF Kept
      <3>5. c.highest \in Nat /\ c.highest <= k.last /\ c.highest >= b.highest /\ c.highest >= pid
            /\ (c.highest = b.highest \/ c.highest = pid)
        <4>1. b.highest <= k.last
          BY DEF Kept
        <4>. QED  BY <1>1, <2>2, <3>2, <4>1 DEF Grown
      <3>6. \A p \in b.got : SizeOf(k, p) = "short" => p \in shorts
        BY <1>1, <3>3 DEF Kept
      <3>. HIDE DEF shorts, c, size
      <3>7. c.got \subseteq b.got \cup {pid} /\ c.got \subseteq seen
        BY <3>2 DEF Kept
      <3>8. \A p \in b.got \cup {pid} : SizeOf(k, p) = "full" => p \in c.got
        BY <3>2, <3>4
      <3>9. \A p \in c.got : SizeOf(k, p) # "long" /\ (SizeOf(k, p) = "short" => p = c.short)
        <4>1. \A p \in b.got \cup {pid} : SizeOf(k, p) # "long" /\ (SizeOf(k, p) = "short" => p \in shorts)
          BY <2>7, <3>3, <3>6 DEF Kept, size
        <4>. QED  BY <3>2, <4>1
      <3>10. c.short # 0 => /\ c.short \in c.got /\ SizeOf(k, c.short) = "short" /\ c.highest <= c.short
                            /\ c.trailer # NoTrailer => c.short = k.last
        <4>. SUFFICES ASSUME c.short # 0
                      PROVE  /\ c.short \in c.got /\ SizeOf(k, c.short) = "short" /\ c.highest <= c.short
                             /\ c.trailer # NoTrailer => c.short = k.last
          OBVIOUS
        <4>1. c.short \in shorts /\ c.short >= c.highest /\ (b.trailer # NoTrailer => c.short >= b.trailer)
          BY <3>2 DEF Pending
        <4>2. c.short \in 1..k.last /\ SizeOf(k, c.short) = "short" /\ c.short \in c.got
          BY <3>2, <3>4, <4>1
        <4>3. b.trailer \in {NoTrailer, k.last}
          BY DEF Kept
        <4>. QED  BY <1>1, <3>2, <3>5, <4>1, <4>2, <4>3
      <3>11. Placeable(k) => seen \cap (1..k.last) \subseteq c.got
        <4>. SUFFICES ASSUME Placeable(k), NEW p \in seen, p \in 1..k.last PROVE p \in c.got
          OBVIOUS
        <4>1. p \in b.got \cup {pid}
          BY DEF Kept
        <4>2. SizeOf(k, p) = "full" \/ (p = k.last /\ SizeOf(k, p) = "short")
          BY DEF Placeable
        <4>3. CASE SizeOf(k, p) = "full"
          BY <3>8, <4>1, <4>3
        <4>4. CASE p = k.last /\ SizeOf(k, p) = "short"
          <5>1. p \in shorts
            BY <3>3, <3>6, <4>1, <4>4 DEF size
          <5>2. \A q \in shorts : q = p
            BY <3>4, <4>4 DEF Placeable
          <5>3. b.trailer \in {NoTrailer, k.last}
            BY DEF Kept
          <5>4. Pending(p, shorts, c.highest, b.trailer)
            BY <1>1, <3>5, <4>4, <5>1, <5>2, <5>3 DEF Pending
          <5>5. c.short # 0 /\ c.short \in shorts
            BY <3>2, <5>1, <5>4 DEF Pending
          <5>. QED  BY <3>2, <4>1, <5>2, <5>5
        <4>. QED  BY <4>2, <4>3, <4>4
      <3>12. \A p \in seen \cap (1..k.last) : SizeOf(k, p) = "full" => p \in c.got
        BY <3>8 DEF Kept
      <3>13. c.got \subseteq 1..c.highest
        <4>1. \A p \in b.got : p \in 1..b.highest
          BY DEF Kept
        <4>2. \A p \in b.got \cup {pid} : p \in 1..c.highest
          BY <1>1, <2>2, <3>5, <4>1
        <4>. QED  BY <3>7, <4>2
      <3>14. /\ c.leader \in {"none", k.payload} /\ (c.leader = "none" <=> 0 \notin seen)
             /\ c.trailer \in {NoTrailer, k.last} /\ (c.trailer = NoTrailer <=> k.last + 1 \notin seen)
        BY <2>5, <3>2 DEF Kept
      <3>. HIDE DEF seen
      <3>15. Kept(c, k, seen)
        BY <2>5, <3>5, <3>7, <3>9, <3>10, <3>11, <3>12, <3>13, <3>14 DEF Kept
      <3>. QED  BY <3>1, <3>15 DEF c, seen
    <2>. QED  BY <2>3, <2>4, <2>6, <2>7
  <1>. QED  BY <1>3, <1>4, <1>5

\* The whole of Take, field by field.
LEMMA TakeFields ==
  ASSUME NEW b \in Block, ResendOK(b.resend), NEW n \in DOMAIN sent, n \in Nat, sent[n] \in SentBlock,
         NEW pid \in 0..(sent[n].last + 1)
  PROVE  LET k == sent[n]
             c == Given(b, k, pid)
             f == Take(b, n, pid)
             told == Arrives(b, k, pid) /\ setup.resend /\ c.leader # "other"
         IN  /\ f \in Block /\ f.id = b.id /\ f.from = b.from \cup {n}
             /\ f.leader = c.leader /\ f.trailer = c.trailer /\ f.got = c.got /\ f.highest = c.highest
             /\ f.short = c.short /\ f.buffer = c.buffer
             /\ f.seen = IF Arrives(b, k, pid) THEN b.seen \cup {pid} ELSE b.seen
             /\ f.requested = b.requested /\ f.unavailable = b.unavailable /\ f.closed = b.closed
             /\ f.resend = IF told THEN Told(b.resend, pid, k.last) ELSE b.resend
             /\ f.recovered = IF told /\ arrivedAsked(b.resend, pid) THEN Record(b.recovered, {pid}) ELSE b.recovered
             /\ f.resolved = IF c.resolved = "no" /\ Whole(c) THEN "Complete" ELSE c.resolved
  <1>. DEFINE k == sent[n]
              isTrailer == pid = k.last + 1
              c == Given(b, k, pid)
              told == Arrives(b, k, pid) /\ setup.resend /\ c.leader # "other"
              s == Told(b.resend, pid, k.last)
              rec == IF arrivedAsked(b.resend, pid) THEN Record(b.recovered, {pid}) ELSE b.recovered
              t == track_arrival(c, pid, isTrailer)
              u == b.seen \cup {pid}
              d == IF Arrives(b, k, pid) THEN [t EXCEPT !.seen = u] ELSE c
              w == b.from \cup {n}
              e == [d EXCEPT !.from = w]
              f == Take(b, n, pid)
  <1>1. k \in SentBlock /\ k.last \in Nat /\ pid \in Nat /\ isTrailer \in BOOLEAN
    BY DEF SentBlock
  <1>2. c \in Block /\ SameWho(c, b) /\ SameAsks(c, b) /\ c.seen = b.seen
    BY <1>1, GivenFields
  <1>3. s \in Resend
    <2>1. ResendOK(s)
      BY <1>1, ToldKeeps
    <2>. QED  BY <2>1 DEF ResendOK
  <1>4. rec \in Stat
    <2>1. b.recovered \in Stat /\ {pid} \in SUBSET Nat /\ IsFiniteSet({pid})
      BY <1>1, FS_Singleton DEF Block
    <2>. QED  BY <2>1, RecordFields
  <1>5. u \in SUBSET Nat /\ w \in SUBSET Nat
    BY <1>1 DEF Block
  <1>6. t = IF setup.resend /\ c.leader # "other" THEN [c EXCEPT !.resend = s, !.recovered = rec] ELSE c
    BY <1>2 DEF track_arrival, unsupported, SameAsks, Told
  <1>7. f = try_complete(e)
    <2>1. c = CASE pid = 0   -> on_leader(b, k.payload, k.last)
               [] isTrailer -> on_trailer(b, pid, k.status)
               [] OTHER     -> on_payload(b, pid, SizeOf(k, pid))
      <3>1. ~(pid = 0 /\ isTrailer)
        BY <1>1
      <3>. QED  BY <3>1 DEF Given
    <2>2. d = IF Arrives(b, k, pid) THEN [t EXCEPT !.seen = @ \cup {pid}] ELSE c
      <3>1. t.seen = b.seen
        <4>. HIDE DEF c, rec, s, t
        <4>. QED  BY <1>2, <1>6 DEF Block
      <3>. QED  BY <3>1
    <2>3. e = [d EXCEPT !.from = @ \cup {n}]
      <3>1. d.from = b.from
        <4>. HIDE DEF c, rec, s, t
        <4>. QED  BY <1>2, <1>6 DEF Block, SameWho
      <3>. QED  BY <3>1
    <2>. QED  BY <2>1, <2>2, <2>3, ZenonT(60) DEF Take, Arrives
  <1>. HIDE DEF k, c, s, rec, t, u, w, f
  <1>8. /\ t \in Block /\ t.id = b.id /\ t.from = b.from
        /\ t.leader = c.leader /\ t.trailer = c.trailer /\ t.got = c.got /\ t.highest = c.highest
        /\ t.short = c.short /\ t.buffer = c.buffer /\ t.seen = b.seen /\ t.resolved = c.resolved
        /\ t.requested = b.requested /\ t.unavailable = b.unavailable /\ t.closed = b.closed
        /\ t.resend = (IF setup.resend /\ c.leader # "other" THEN s ELSE b.resend)
        /\ t.recovered = IF setup.resend /\ c.leader # "other" THEN rec ELSE b.recovered
    <2>1. CASE setup.resend /\ c.leader # "other"
      <3>1. t = [c EXCEPT !.resend = s, !.recovered = rec]
        BY <1>6, <2>1
      <3>2. t \in Block
        BY <1>2, <1>3, <1>4, <3>1 DEF Block
      <3>3. /\ t.id = c.id /\ t.from = c.from
            /\ t.leader = c.leader /\ t.trailer = c.trailer /\ t.got = c.got /\ t.highest = c.highest
            /\ t.short = c.short /\ t.buffer = c.buffer /\ t.seen = c.seen /\ t.resolved = c.resolved
            /\ t.requested = c.requested /\ t.unavailable = c.unavailable /\ t.closed = c.closed
            /\ t.resend = s /\ t.recovered = rec
        BY <1>2, <3>1 DEF Block
      <3>. QED  BY <1>2, <2>1, <3>2, <3>3 DEF SameWho, SameAsks
    <2>2. CASE ~(setup.resend /\ c.leader # "other")
      <3>1. t = c
        BY <1>6, <2>2
      <3>. QED  BY <1>2, <2>2, <3>1 DEF SameWho, SameAsks
    <2>. QED  BY <2>1, <2>2
  <1>9. /\ d \in Block /\ d.id = b.id /\ d.from = b.from
        /\ d.leader = c.leader /\ d.trailer = c.trailer /\ d.got = c.got /\ d.highest = c.highest
        /\ d.short = c.short /\ d.buffer = c.buffer /\ d.resolved = c.resolved
        /\ d.seen = (IF Arrives(b, k, pid) THEN u ELSE b.seen)
        /\ d.requested = b.requested /\ d.unavailable = b.unavailable /\ d.closed = b.closed
        /\ d.resend = (IF told THEN s ELSE b.resend)
        /\ d.recovered = IF told THEN rec ELSE b.recovered
    <2>1. CASE Arrives(b, k, pid)
      <3>1. d = [t EXCEPT !.seen = u]
        BY <2>1
      <3>. HIDE DEF d
      <3>2. d \in Block
        BY <1>5, <1>8, <3>1 DEF Block
      <3>3. /\ d.id = t.id /\ d.from = t.from
            /\ d.leader = t.leader /\ d.trailer = t.trailer /\ d.got = t.got /\ d.highest = t.highest
            /\ d.short = t.short /\ d.buffer = t.buffer /\ d.seen = u /\ d.resolved = t.resolved
            /\ d.requested = t.requested /\ d.unavailable = t.unavailable /\ d.closed = t.closed
            /\ d.resend = t.resend /\ d.recovered = t.recovered
        BY <1>8, <3>1 DEF Block
      <3>. QED  BY <1>8, <2>1, <3>2, <3>3
    <2>2. CASE ~Arrives(b, k, pid)
      <3>1. d = c
        BY <2>2
      <3>. HIDE DEF d
      <3>. QED  BY <1>2, <2>2, <3>1 DEF SameWho, SameAsks
    <2>. QED  BY <2>1, <2>2
  <1>. HIDE DEF d
  <1>10. e \in Block
    BY <1>5, <1>9 DEF Block
  <1>11. /\ e.id = d.id /\ e.from = w
         /\ e.leader = d.leader /\ e.trailer = d.trailer /\ e.got = d.got /\ e.highest = d.highest
         /\ e.short = d.short /\ e.buffer = d.buffer /\ e.seen = d.seen /\ e.resolved = d.resolved
         /\ e.requested = d.requested /\ e.unavailable = d.unavailable /\ e.closed = d.closed
         /\ e.resend = d.resend /\ e.recovered = d.recovered
    BY <1>9 DEF Block
  <1>. HIDE DEF e
  <1>12. f = IF e.resolved = "no" /\ Whole(e) THEN [e EXCEPT !.resolved = "Complete"] ELSE e
    BY <1>7 DEF try_complete, Whole
  <1>13. Whole(e) <=> Whole(c)
    BY <1>9, <1>11 DEF Whole
  <1>14. /\ f \in Block /\ f.id = e.id /\ f.from = e.from
         /\ f.leader = e.leader /\ f.trailer = e.trailer /\ f.got = e.got /\ f.highest = e.highest
         /\ f.short = e.short /\ f.buffer = e.buffer /\ f.seen = e.seen
         /\ f.resolved = (IF e.resolved = "no" /\ Whole(e) THEN "Complete" ELSE e.resolved)
         /\ f.requested = e.requested /\ f.unavailable = e.unavailable /\ f.closed = e.closed
         /\ f.resend = e.resend /\ f.recovered = e.recovered
    <2>1. CASE e.resolved = "no" /\ Whole(e)
      <3>1. f = [e EXCEPT !.resolved = "Complete"]
        BY <1>12, <2>1
      <3>2. "Complete" \in Outcomes
        BY DEF Outcomes
      <3>3. f \in Block
        BY <1>10, <3>1, <3>2 DEF Block
      <3>4. /\ f.id = e.id /\ f.from = e.from
            /\ f.leader = e.leader /\ f.trailer = e.trailer /\ f.got = e.got /\ f.highest = e.highest
            /\ f.short = e.short /\ f.buffer = e.buffer /\ f.seen = e.seen /\ f.resolved = "Complete"
            /\ f.requested = e.requested /\ f.unavailable = e.unavailable /\ f.closed = e.closed
            /\ f.resend = e.resend /\ f.recovered = e.recovered
        BY <1>10, <3>1 DEF Block
      <3>. QED  BY <2>1, <3>3, <3>4
    <2>2. CASE ~(e.resolved = "no" /\ Whole(e))
      <3>1. f = e
        BY <1>12, <2>2
      <3>. QED  BY <1>10, <2>2, <3>1
    <2>. QED  BY <2>1, <2>2
  <1>15. f.recovered = IF told /\ arrivedAsked(b.resend, pid) THEN Record(b.recovered, {pid}) ELSE b.recovered
    BY <1>9, <1>11, <1>14 DEF rec
  <1>. QED  BY <1>9, <1>11, <1>13, <1>14, <1>15 DEF k, c, s, u, w, f

\* The data of a block stays truthful to the block it came from.
LEMMA TakeKept ==
  ASSUME NEW b \in Block, ResendOK(b.resend), NEW n \in DOMAIN sent, n \in Nat, sent[n] \in SentBlock,
         NEW pid \in 0..(sent[n].last + 1),
         b.resolved = "no", Kept(b, sent[n], b.seen), ~Whole(b)
  PROVE  LET f == Take(b, n, pid)
         IN  /\ f.resolved = "no" => Kept(f, sent[n], f.seen) /\ ~Whole(f)
             /\ Truthful(f, sent[n])
  <1>. DEFINE k == sent[n]
              c == Given(b, k, pid)
              f == Take(b, n, pid)
  <1>1. k.last \in Nat /\ k.payload \in Payloads
    BY DEF SentBlock
  <1>2. /\ f \in Block
        /\ f.leader = c.leader /\ f.trailer = c.trailer /\ f.got = c.got /\ f.highest = c.highest
        /\ f.short = c.short
        /\ f.seen = (IF Arrives(b, k, pid) THEN b.seen \cup {pid} ELSE b.seen)
        /\ f.resolved = IF c.resolved = "no" /\ Whole(c) THEN "Complete" ELSE c.resolved
    BY TakeFields
  <1>3. c.resolved \in {"no", "Unsupported", "DeviceStatus"}
    BY GivenFields
  <1>4. c.resolved = "no" => Kept(c, k, f.seen)
    BY <1>2, GivenKept
  <1>. HIDE DEF c, f, k
  <1>5. c.resolved = "no" => Kept(f, k, f.seen)
    BY <1>2, <1>4 DEF Kept
  <1>6. Whole(c) <=> Whole(f)
    BY <1>2 DEF Whole
  <1>7. ASSUME f.resolved = "Complete" PROVE f.seen = 0..(k.last + 1) /\ Placeable(k)
    <2>1. Kept(f, k, f.seen) /\ Whole(f)
      BY <1>2, <1>3, <1>5, <1>6, <1>7
    <2>2. f.trailer = k.last /\ 1..k.last \subseteq f.got /\ f.leader # "none"
      BY <2>1 DEF Kept, Whole
    <2>3. \A p \in 0..(k.last + 1) : p = 0 \/ p = k.last + 1 \/ p \in 1..k.last
      BY <1>1
    <2>4. 0..(k.last + 1) \subseteq f.seen
      BY <2>1, <2>2, <2>3 DEF Kept, Whole
    <2>5. f.seen \subseteq 0..(k.last + 1)
      BY <2>1 DEF Kept
    <2>6. ASSUME NEW p \in 1..k.last
          PROVE  SizeOf(k, p) = "full" \/ (p = k.last /\ SizeOf(k, p) = "short")
      <3>1. p \in f.got /\ SizeOf(k, p) # "long" /\ (SizeOf(k, p) = "short" => p = f.short)
        BY <2>1, <2>2, <2>6 DEF Kept
      <3>2. SizeOf(k, p) \in {"full", "short", "long"}
        BY SizeIsOne DEF k
      <3>3. CASE SizeOf(k, p) = "short"
        <4>1. p = f.short /\ f.short # 0
          BY <1>1, <2>6, <3>1, <3>3
        <4>2. f.short = k.last
          BY <2>1, <4>1 DEF Kept, Whole
        <4>. QED  BY <3>3, <4>1, <4>2
      <3>. QED  BY <3>1, <3>2, <3>3
    <2>. QED  BY <2>4, <2>5, <2>6 DEF Placeable
  <1>8. f.resolved \in {"no", "Complete", "Unsupported", "DeviceStatus"}
    BY <1>2, <1>3
  <1>9. Truthful(f, k)
    BY <1>7, <1>8 DEF Truthful
  <1>10. f.resolved = "no" => Kept(f, k, f.seen) /\ ~Whole(f)
    BY <1>2, <1>5, <1>6
  <1>. QED  BY <1>9, <1>10 DEF f, k

\* Where all blocks it took packets of have L data packets, b stays within them.
LEMMA LengthIs ==
  ASSUME NEW S, NEW b \in Block, Who(b, S), Within(b, S), NEW L \in Nat, \A m \in b.from : S[m].last = L
  PROVE  /\ b.trailer \in {NoTrailer, L}
         /\ b.resend.frontier \in Nat /\ b.resend.frontier <= L + (IF b.trailer = NoTrailer THEN 1 ELSE 2)
  BY DEF Who, Within, Block, Resend

LEMMA TakeWithin ==
  ASSUME NEW b \in Block, ResendOK(b.resend), NEW n \in DOMAIN sent, n \in Nat, sent[n] \in SentBlock,
         NEW pid \in 0..(sent[n].last + 1), Within(b, sent), Who(b, sent),
         \A m \in b.from : sent[m].last \in Nat
  PROVE  Within(Take(b, n, pid), sent)
  <1>. DEFINE k == sent[n]
              c == Given(b, k, pid)
              f == Take(b, n, pid)
              told == Arrives(b, k, pid) /\ setup.resend /\ c.leader # "other"
              isTrailer == pid = k.last + 1
              r == b.resend
              s == Told(r, pid, k.last)
  <1>1. k.last \in Nat /\ r \in Resend /\ r.frontier \in Nat /\ b.trailer \in Nat \cup {NoTrailer} /\ k \in SentBlock
    BY DEF SentBlock, Block, Resend
  <1>2. /\ f.from = b.from \cup {n}
        /\ f.trailer = c.trailer /\ f.buffer = c.buffer
        /\ f.resend = IF told THEN s ELSE r
    BY TakeFields
  <1>3. /\ c.trailer = (IF isTrailer /\ b.trailer = NoTrailer THEN k.last ELSE b.trailer)
        /\ c.buffer = b.buffer \/ c.buffer <= k.last
    BY <1>1, GivenFields
  <1>4. /\ s.asked = r.asked
        /\ s.frontier = IF isTrailer THEN k.last + 2 ELSE IF pid >= r.frontier THEN pid + 1 ELSE r.frontier
    BY <1>1, ToldKeeps
  <1>. HIDE DEF c, f, told, s
  <1>5. f.trailer = NoTrailer \/ \E m \in f.from : f.trailer = sent[m].last
    BY <1>2, <1>3 DEF Within
  <1>6. f.buffer <= PayloadPackets \/ \E m \in f.from : f.buffer <= sent[m].last
    BY <1>2, <1>3 DEF Within
  <1>7. f.resend.asked <= Allowance(PayloadPackets) \/ \E m \in f.from : f.resend.asked <= Allowance(sent[m].last)
    <2>1. f.resend.asked = r.asked
      BY <1>2, <1>4
    <2>. QED  BY <1>2, <2>1 DEF Within
  <1>8. \E m \in f.from : f.resend.frontier <= sent[m].last + (IF f.trailer = NoTrailer THEN 1 ELSE 2)
    <2>1. PICK m \in b.from : r.frontier <= sent[m].last + (IF b.trailer = NoTrailer THEN 1 ELSE 2)
      BY DEF Within
    <2>2. f.trailer = NoTrailer => b.trailer = NoTrailer /\ ~isTrailer
      BY <1>1, <1>2, <1>3 DEF NoTrailer
    <2>3. sent[m].last \in Nat /\ m \in f.from /\ n \in f.from
      BY <1>2
    <2>4. f.resend.frontier = r.frontier \/ f.resend.frontier <= k.last + (IF f.trailer = NoTrailer THEN 1 ELSE 2)
      BY <1>1, <1>2, <1>4, <2>2
    <2>. QED  BY <1>1, <2>1, <2>2, <2>3, <2>4
  <1>. QED  BY <1>5, <1>6, <1>7, <1>8 DEF Within, f

LEMMA TakeCounted ==
  ASSUME NEW b \in Block, ResendOK(b.resend), NEW n \in DOMAIN sent, n \in Nat, sent[n] \in SentBlock,
         NEW pid \in 0..(sent[n].last + 1), Within(b, sent), Who(b, sent),
         \A m \in b.from : sent[m].last = sent[n].last, Counted(b)
  PROVE  Counted(Take(b, n, pid))
  <1>. DEFINE k == sent[n]
              c == Given(b, k, pid)
              f == Take(b, n, pid)
              told == Arrives(b, k, pid) /\ setup.resend /\ c.leader # "other"
              isTrailer == pid = k.last + 1
              r == b.resend
              s == Told(r, pid, k.last)
  <1>1. k.last \in Nat /\ r \in Resend /\ r.frontier \in Nat /\ b.recovered \in Stat /\ pid \in Nat
    BY DEF SentBlock, Block, Resend
  <1>2. /\ f.requested = b.requested /\ f.unavailable = b.unavailable
        /\ f.resend = (IF told THEN s ELSE r)
        /\ f.recovered = IF told /\ arrivedAsked(r, pid) THEN Record(b.recovered, {pid}) ELSE b.recovered
    BY TakeFields
  <1>3. r.frontier <= k.last + 2
    BY <1>1, LengthIs
  <1>4. /\ ResendOK(s)
        /\ s.frontier = (IF isTrailer THEN k.last + 2 ELSE IF pid >= r.frontier THEN pid + 1 ELSE r.frontier)
        /\ Missing(s) = (Missing(r) \cup (r.frontier..(pid - 1))) \ {pid}
        /\ Requested(s) = Requested(r) \ {pid}
    <2>1. /\ ResendOK(s)
          /\ s.frontier = IF isTrailer THEN k.last + 2 ELSE IF pid >= r.frontier THEN pid + 1 ELSE r.frontier
      BY <1>1, ToldKeeps
    <2>2. Missing(s) = (Missing(r) \cup (r.frontier..(pid - 1))) \ {pid} /\ Requested(s) = Requested(r) \ {pid}
      BY <1>1, <1>3, ToldMissing
    <2>. QED  BY <2>1, <2>2
  <1>5. Missing(r) \subseteq 0..(r.frontier - 1) /\ Requested(r) \subseteq Missing(r)
    BY MissingBelow
  <1>. HIDE DEF c, f, told, s
  <1>6. CASE ~told
    BY <1>2, <1>6 DEF Counted, f
  <1>7. CASE told
    <2>1. s.frontier \in Nat /\ r.frontier <= s.frontier
      BY <1>1, <1>3, <1>4
    <2>2. b.requested.ids \subseteq 0..(s.frontier - 1)
      <3>1. b.requested.ids \subseteq 0..(r.frontier - 1)
        BY DEF Counted
      <3>. QED  BY <1>1, <2>1, <3>1
    <2>3. Requested(s) = b.requested.ids \cap Missing(s)
      <3>1. Requested(r) = b.requested.ids \cap Missing(r) /\ b.requested.ids \subseteq 0..(r.frontier - 1)
        BY DEF Counted
      <3>2. b.requested.ids \cap (r.frontier..(pid - 1)) = {}
        BY <1>1, <3>1
      <3>. QED  BY <1>4, <3>1, <3>2
    <2>4. f.resend = s
      BY <1>2, <1>7
    <2>5. CASE ~arrivedAsked(r, pid)
      <3>1. f.recovered = b.recovered
        BY <1>2, <2>5
      <3>2. Requested(s) \cap (b.recovered.ids \cup b.unavailable.ids) = {}
        BY <1>4 DEF Counted
      <3>. QED  BY <1>2, <2>2, <2>3, <2>4, <3>1, <3>2 DEF Counted, f
    <2>6. CASE arrivedAsked(r, pid)
      <3>1. f.recovered = Record(b.recovered, {pid}) /\ pid \in Requested(r)
        BY <1>2, <1>7, <2>6 DEF arrivedAsked
      <3>2. b.recovered.ids \cap {pid} = {} /\ pid \in b.requested.ids /\ pid \notin b.unavailable.ids
        BY <3>1 DEF Counted
      <3>3. IsFiniteSet(b.recovered.ids)
        <4>1. b.recovered.ids \subseteq 0..(r.frontier - 1)
          BY DEF Counted
        <4>2. IsFiniteSet(0..(r.frontier - 1))
          <5>1. 0 \in Int /\ r.frontier - 1 \in Int
            BY <1>1
          <5>. QED  BY Zenon, <5>1, FS_Interval
        <4>. QED  BY <4>1, <4>2, FS_Subset
      <3>4. f.recovered.ids = b.recovered.ids \cup {pid} /\ f.recovered.count = Cardinality(f.recovered.ids)
        <4>1. {pid} \in SUBSET Nat /\ IsFiniteSet({pid}) /\ b.recovered.count = Cardinality(b.recovered.ids)
          BY <1>1, FS_Singleton DEF Counted
        <4>. QED  BY <1>1, <3>1, <3>2, <3>3, <4>1, RecordFields
      <3>5. Requested(s) \cap (f.recovered.ids \cup b.unavailable.ids) = {}
        BY <1>4, <3>4 DEF Counted
      <3>. QED  BY <1>2, <2>2, <2>3, <2>4, <3>2, <3>4, <3>5 DEF Counted, f
    <2>. QED  BY <2>5, <2>6
  <1>. QED  BY <1>6, <1>7

LEMMA TakeTracked ==
  ASSUME NEW b \in Block, ResendOK(b.resend), NEW n \in DOMAIN sent, n \in Nat, sent[n] \in SentBlock,
         NEW pid \in 0..(sent[n].last + 1), Within(b, sent), Who(b, sent),
         \A m \in b.from : sent[m].last = sent[n].last, setup.resend,
         b.leader # "other" => Tracked(b), Take(b, n, pid).leader # "other"
  PROVE  Tracked(Take(b, n, pid))
  <1>. DEFINE k == sent[n]
              c == Given(b, k, pid)
              f == Take(b, n, pid)
              isTrailer == pid = k.last + 1
              r == b.resend
              s == Told(r, pid, k.last)
  <1>1. k.last \in Nat /\ r \in Resend /\ r.frontier \in Nat /\ pid \in Nat /\ b.trailer \in Nat \cup {NoTrailer}
    BY DEF SentBlock, Block, Resend
  <1>2. /\ f.leader = c.leader /\ f.trailer = c.trailer /\ f.closed = b.closed
        /\ f.seen = (IF Arrives(b, k, pid) THEN b.seen \cup {pid} ELSE b.seen)
        /\ f.resend = IF Arrives(b, k, pid) THEN s ELSE r
    <2>1. /\ f.leader = c.leader /\ f.trailer = c.trailer /\ f.closed = b.closed
          /\ f.seen = (IF Arrives(b, k, pid) THEN b.seen \cup {pid} ELSE b.seen)
          /\ f.resend = IF Arrives(b, k, pid) /\ setup.resend /\ c.leader # "other" THEN s ELSE r
      BY TakeFields
    <2>. HIDE DEF c, s, k
    <2>. QED  BY <2>1
  <1>3. /\ c.trailer = (IF isTrailer /\ b.trailer = NoTrailer THEN k.last ELSE b.trailer)
        /\ b.leader # "other"
    <2>1. c.leader = b.leader \/ b.leader = "none"
      BY GivenFields
    <2>2. c.leader # "other"
      BY <1>2
    <2>3. b.leader # "other"
      BY <2>1, <2>2
    <2>. QED  BY <2>3, GivenFields
  <1>4. Tracked(b)
    BY <1>3
  <1>5. b.trailer \in {NoTrailer, k.last} /\ r.frontier <= k.last + (IF b.trailer = NoTrailer THEN 1 ELSE 2)
    BY <1>1, LengthIs
  <1>6. /\ s.frontier = (IF isTrailer THEN k.last + 2 ELSE IF pid >= r.frontier THEN pid + 1 ELSE r.frontier)
        /\ Missing(s) = (Missing(r) \cup (r.frontier..(pid - 1))) \ {pid}
    <2>1. r.frontier <= k.last + 2
      BY <1>1, <1>5
    <2>2. s.frontier = IF isTrailer THEN k.last + 2 ELSE IF pid >= r.frontier THEN pid + 1 ELSE r.frontier
      BY <1>1, ToldKeeps, ZenonT(60)
    <2>3. Missing(s) = (Missing(r) \cup (r.frontier..(pid - 1))) \ {pid}
      BY <1>1, <2>1, ToldMissing
    <2>. QED  BY <2>2, <2>3
  <1>. HIDE DEF c, f, s
  <1>7. CASE ~Arrives(b, k, pid)
    <2>1. ~isTrailer
      BY <1>7 DEF Arrives
    <2>2. f.trailer = b.trailer /\ f.seen = b.seen /\ f.resend = b.resend /\ f.closed = b.closed
      BY <1>2, <1>3, <1>7, <2>1
    <2>. QED  BY <1>4, <2>2 DEF Tracked, f
  <1>8. CASE Arrives(b, k, pid)
    <2>1. f.seen = b.seen \cup {pid} /\ f.resend = s /\ f.closed = b.closed
      BY <1>2, <1>8
    <2>2. s.frontier \in Nat /\ r.frontier <= s.frontier /\ pid < s.frontier /\ (s.frontier = r.frontier \/ s.frontier = pid + 1)
      BY <1>1, <1>5, <1>6
    <2>3. b.seen \subseteq 0..(r.frontier - 1) /\ b.closed \subseteq 0..(r.frontier - 1)
          /\ 0..(r.frontier - 1) \subseteq b.seen \cup Missing(r) \cup b.closed
          /\ Missing(r) \cap (b.seen \cup b.closed) = {}
          /\ (b.trailer # NoTrailer => r.frontier = b.trailer + 2)
      BY <1>4 DEF Tracked
    <2>4. f.trailer # NoTrailer => s.frontier = f.trailer + 2
      BY <1>1, <1>2, <1>3, <1>5, <1>6, <2>3
    <2>5. ASSUME NEW x \in 0..(s.frontier - 1) PROVE x \in f.seen \cup Missing(s) \cup b.closed
      <3>1. x \in 0..(r.frontier - 1) \/ x \in r.frontier..(pid - 1) \/ x = pid
        BY <1>1, <2>2
      <3>. QED  BY <1>6, <2>1, <2>3, <3>1
    <2>6. Missing(s) \cap (f.seen \cup b.closed) = {}
      <3>1. (r.frontier..(pid - 1)) \cap (0..(r.frontier - 1)) = {}
        BY <1>1
      <3>. QED  BY <1>6, <2>1, <2>3, <3>1
    <2>7. 0..(r.frontier - 1) \subseteq 0..(s.frontier - 1) /\ pid \in 0..(s.frontier - 1)
      BY <1>1, <2>2
    <2>8. f.seen \subseteq 0..(s.frontier - 1) /\ b.closed \subseteq 0..(s.frontier - 1)
      BY <2>1, <2>3, <2>7
    <2>. QED  BY <2>1, <2>4, <2>5, <2>6, <2>8 DEF Tracked, f
  <1>. QED  BY <1>7, <1>8

\* A packet of a block with its id leaves a block in order.
LEMMA TakeInv ==
  ASSUME NEW b, BlockInv(b, sent, setup.resend), b.resolved = "no",
         sent \in Seq(SentBlock), NEW n \in DOMAIN sent, sent[n].id = b.id, NEW pid \in 0..(sent[n].last + 1)
  PROVE  BlockInv(Take(b, n, pid), sent, setup.resend)
  <1>. DEFINE f == Take(b, n, pid)
  <1>1. b \in Block /\ ResendOK(b.resend) /\ Who(b, sent) /\ Within(b, sent)
    BY DEF BlockInv
  <1>2. n \in Nat /\ sent[n] \in SentBlock /\ \A m \in DOMAIN sent : sent[m].last \in Nat
    <2>1. \A m \in DOMAIN sent : m \in Nat /\ sent[m] \in SentBlock
      OBVIOUS
    <2>2. \A k \in SentBlock : k.last \in Nat
      BY DEF SentBlock
    <2>. QED  BY <2>1, <2>2
  <1>3. /\ f \in Block /\ f.id = b.id /\ f.from = b.from \cup {n}
        /\ f.resend = b.resend \/ f.resend = Told(b.resend, pid, sent[n].last)
    BY <1>1, <1>2, TakeFields
  <1>4. ResendOK(f.resend)
    <2>1. sent[n].last \in Nat
      BY <1>2
    <2>2. ResendOK(Told(b.resend, pid, sent[n].last))
      BY <1>1, <2>1, ToldKeeps
    <2>. QED  BY <1>1, <1>3, <2>2
  <1>5. Who(f, sent)
    <2>. HIDE DEF f
    <2>. QED  BY <1>1, <1>3 DEF Who
  <1>6. Within(f, sent)
    <2>1. \A m \in b.from : sent[m].last \in Nat
      BY <1>1, <1>2 DEF Who
    <2>. QED  BY <1>1, <1>2, <2>1, TakeWithin
  <1>7. ASSUME SameLength(f, sent)
        PROVE  /\ Counted(f)
               /\ setup.resend /\ f.leader # "other" => Tracked(f)
    <2>1. SameLength(b, sent) /\ \A m \in b.from : sent[m].last = sent[n].last
      <3>. HIDE DEF f
      <3>. QED  BY <1>3, <1>7 DEF SameLength
    <2>2. Counted(b) /\ (setup.resend /\ b.leader # "other" => Tracked(b))
      BY <2>1 DEF BlockInv
    <2>3. Counted(f)
      BY <1>1, <1>2, <2>1, <2>2, TakeCounted
    <2>4. setup.resend /\ f.leader # "other" => Tracked(f)
      BY <1>1, <1>2, <2>1, <2>2, TakeTracked
    <2>. QED  BY <2>3, <2>4
  <1>8. ASSUME NEW m, f.from = {m}
        PROVE  /\ f.resolved = "no" => Kept(f, sent[m], f.seen) /\ ~Whole(f)
               /\ Truthful(f, sent[m])
    <2>1. m = n /\ b.from = {n}
      <3>. HIDE DEF f
      <3>. QED  BY <1>1, <1>3, <1>8 DEF Who
    <2>2. Kept(b, sent[n], b.seen) /\ ~Whole(b)
      BY <2>1 DEF BlockInv
    <2>. QED  BY <1>1, <1>2, <2>1, <2>2, TakeKept
  <1>. HIDE DEF f
  <1>. QED  BY <1>3, <1>4, <1>5, <1>6, <1>7, <1>8 DEF BlockInv, f

\* The invariant of a block looks at neither its age nor whether it has any payload.
LEMMA SameInv ==
  ASSUME NEW S, NEW on, NEW b, BlockInv(b, S, on), NEW c \in Block,
         SameWho(c, b), SameAsks(c, b), SameData(c, b), c.resolved = b.resolved
  PROVE  BlockInv(c, S, on)
  <1>. USE DEF SameWho, SameAsks, SameData
  <1>1. c \in Block /\ ResendOK(c.resend) /\ Who(c, S)
    BY DEF BlockInv, Who
  <1>2. Within(c, S)
    BY DEF BlockInv, Within
  <1>3. SameLength(c, S) => Counted(c)
    BY DEF BlockInv, SameLength, Counted
  <1>4. SameLength(c, S) /\ on /\ c.leader # "other" => Tracked(c)
    BY DEF BlockInv, SameLength, Tracked
  <1>5. ASSUME NEW n, c.from = {n}
        PROVE  (c.resolved = "no" => Kept(c, S[n], c.seen) /\ ~Whole(c)) /\ Truthful(c, S[n])
    <2>1. (b.resolved = "no" => Kept(b, S[n], b.seen) /\ ~Whole(b)) /\ Truthful(b, S[n])
      BY <1>5 DEF BlockInv
    <2>2. Kept(b, S[n], b.seen) => Kept(c, S[n], c.seen)
      BY DEF Kept
    <2>3. Whole(c) <=> Whole(b)
      BY DEF Whole
    <2>. QED  BY <2>1, <2>2, <2>3 DEF Truthful
  <1>. QED  BY <1>1, <1>2, <1>3, <1>4, <1>5 DEF BlockInv

LEMMA FreshFields ==
  /\ Fresh.frontier = 0 /\ Fresh.asked = 0
  /\ Zero \in Stat /\ Zero.ids = {} /\ Zero.count = 0
  BY DEF Fresh, Zero, Stat

LEMMA NewBlockInv ==
  ASSUME NEW on, sent \in Seq(SentBlock), NEW n \in DOMAIN sent, NEW id, sent[n].id = id
  PROVE  BlockInv(NewBlock(id, n), sent, on)
  <1>. DEFINE b == NewBlock(id, n)
  <1>1. id \in Nat /\ n \in Nat /\ sent[n].last \in Nat /\ sent[n].payload \in Payloads
        /\ PayloadPackets \in Nat /\ Allowance(PayloadPackets) \in Nat
    <2>1. n \in Nat /\ sent[n] \in SentBlock
      OBVIOUS
    <2>2. PayloadPackets \in Nat /\ BudgetPercent \in Nat
      BY AssemblyAssumption
    <2>3. (PayloadPackets + 2) * BudgetPercent \in Nat
      BY <2>2
    <2>4. \A x \in Nat : (x + 99) \div 100 \in Nat
      BY SMT
    <2>5. id \in Nat /\ sent[n].last \in Nat /\ sent[n].payload \in Payloads
      BY <2>1, BlockOrderAssumption DEF SentBlock
    <2>. QED  BY <2>1, <2>2, <2>3, <2>4, <2>5 DEF Allowance
  <1>2. ResendOK(Fresh) /\ Missing(Fresh) = {} /\ Requested(Fresh) = {} /\ Fresh \in Resend
    BY FreshOK DEF ResendOK
  <1>3. b \in Block
    BY <1>1, <1>2, FreshFields DEF NewBlock, Block, Outcomes
  <1>4. /\ b.id = id /\ b.leader = "none" /\ b.trailer = NoTrailer /\ b.buffer = PayloadPackets /\ b.got = {}
        /\ b.highest = 0 /\ b.short = 0 /\ b.resolved = "no" /\ b.resend = Fresh /\ b.requested = Zero
        /\ b.recovered = Zero /\ b.unavailable = Zero /\ b.from = {n} /\ b.seen = {} /\ b.closed = {}
    BY DEF NewBlock
  <1>. HIDE DEF b
  <1>5. Who(b, sent)
    BY <1>4 DEF Who
  <1>6. Within(b, sent)
    BY <1>1, <1>4, FreshFields DEF Within
  <1>7. Counted(b)
    <2>1. Cardinality({}) = 0
      BY FS_EmptySet
    <2>. QED  BY <1>2, <1>4, <2>1, FreshFields DEF Counted
  <1>8. Tracked(b)
    BY <1>2, <1>4, FreshFields DEF Tracked
  <1>9. Kept(b, sent[n], b.seen) /\ ~Whole(b) /\ Truthful(b, sent[n])
    <2>1. Kept(b, sent[n], b.seen)
      BY <1>1, <1>4 DEF Kept
    <2>2. ~Whole(b) /\ Truthful(b, sent[n])
      BY <1>4 DEF Whole, Truthful
    <2>. QED  BY <2>1, <2>2
  <1>10. \A m : b.from = {m} => m = n
    BY <1>4
  <1>. QED  BY <1>2, <1>3, <1>4, <1>5, <1>6, <1>7, <1>8, <1>9, <1>10 DEF BlockInv, b

\* A packet's time, and nothing else of it, is kept.
LEMMA TouchInv ==
  ASSUME NEW S, NEW on, NEW b, BlockInv(b, S, on)
  PROVE  LET c == [b EXCEPT !.age = 0]
         IN  BlockInv(c, S, on) /\ c.id = b.id /\ c.resolved = b.resolved /\ c.from = b.from
  <1>. DEFINE c == [b EXCEPT !.age = 0]
  <1>1. b \in Block
    BY DEF BlockInv
  <1>2. c \in Block /\ SameWho(c, b) /\ SameAsks(c, b) /\ SameData(c, b) /\ c.resolved = b.resolved
    BY <1>1 DEF Block, SameWho, SameAsks, SameData
  <1>. HIDE DEF c
  <1>3. BlockInv(c, S, on)
    BY <1>2, SameInv
  <1>. QED  BY <1>2, <1>3 DEF c, SameWho

\* Closing an open block says truly that it is not whole.
LEMMA CloseInv ==
  ASSUME NEW S, NEW on, NEW b, BlockInv(b, S, on), b.resolved = "no",
         \A n \in DOMAIN S : S[n] \in SentBlock
  PROVE  LET c == close(b)
         IN  BlockInv(c, S, on) /\ c.id = b.id /\ c.resolved # "no" /\ c.from = b.from
  <1>. DEFINE o == IF unsupported(b) THEN "Unsupported"
                   ELSE IF b.trailer # NoTrailer THEN "Incomplete" ELSE "TrailerMissing"
              c == close(b)
  <1>1. b \in Block /\ Who(b, S)
    BY DEF BlockInv
  <1>2. o \in Outcomes /\ o # "no" /\ o # "Complete" /\ (o = "Unsupported" <=> b.leader = "other")
    BY DEF Outcomes, unsupported
  <1>3. c = [b EXCEPT !.resolved = o]
    BY DEF close
  <1>. HIDE DEF o, c
  <1>4. c \in Block /\ SameWho(c, b) /\ SameAsks(c, b) /\ SameData(c, b) /\ c.resolved = o
    BY <1>1, <1>2, <1>3 DEF Block, SameWho, SameAsks, SameData
  <1>5. ASSUME NEW n, c.from = {n} PROVE Truthful(c, S[n])
    <2>1. b.from = {n} /\ S[n] \in SentBlock
      BY <1>1, <1>4, <1>5 DEF SameWho, Who
    <2>2. Kept(b, S[n], b.seen) /\ ~Whole(b)
      BY <2>1 DEF BlockInv
    <2>3. S[n].last \in Nat /\ S[n].payload \in Payloads
      BY <2>1 DEF SentBlock
    <2>4. ASSUME b.seen = 0..(S[n].last + 1), Placeable(S[n]), b.leader # "other" PROVE FALSE
      <3>1. 0 \in b.seen /\ S[n].last + 1 \in b.seen /\ 1..S[n].last \subseteq b.seen
        BY <2>3, <2>4
      <3>2. b.trailer = S[n].last /\ b.trailer # NoTrailer /\ b.leader = S[n].payload /\ 1..S[n].last \subseteq b.got
        BY <2>2, <2>4, <3>1 DEF Kept
      <3>. QED  BY <2>2, <2>3, <2>4, <3>2 DEF Whole, Payloads
    <2>5. c.seen = b.seen
      BY <1>4 DEF SameData
    <2>. QED  BY <1>2, <1>4, <2>4, <2>5 DEF Truthful
  <1>. USE DEF SameWho, SameAsks, SameData
  <1>6. ResendOK(c.resend) /\ Who(c, S)
    BY <1>4 DEF BlockInv, Who
  <1>7. Within(c, S)
    BY <1>4 DEF BlockInv, Within
  <1>8. SameLength(c, S) => Counted(c)
    BY <1>4 DEF BlockInv, SameLength, Counted
  <1>9. SameLength(c, S) /\ on /\ c.leader # "other" => Tracked(c)
    BY <1>4 DEF BlockInv, SameLength, Tracked
  <1>10. BlockInv(c, S, on)
    BY <1>2, <1>4, <1>5, <1>6, <1>7, <1>8, <1>9 DEF BlockInv
  <1>. QED  BY <1>2, <1>4, <1>10 DEF c

\* Time passes.
LEMMA AgedInv ==
  ASSUME NEW S, NEW on, NEW b, BlockInv(b, S, on)
  PROVE  BlockInv(Aged(b), S, on) /\ Aged(b).id = b.id /\ Aged(b).resolved = b.resolved /\ Aged(b).from = b.from
  <1>. DEFINE s == Elapse(b.resend)
              t == IF b.age < setup.timeout THEN b.age + 1 ELSE b.age
              c == Aged(b)
  <1>1. b \in Block /\ ResendOK(b.resend)
    BY DEF BlockInv
  <1>2. /\ ResendOK(s) /\ s.asked = b.resend.asked /\ s.frontier = b.resend.frontier
        /\ Missing(s) = Missing(b.resend) /\ Requested(s) = Requested(b.resend)
    BY <1>1, ElapseKeeps
  <1>3. t \in Nat /\ s \in Resend
    BY <1>1, <1>2 DEF Block, ResendOK
  <1>4. c = [b EXCEPT !.age = t, !.resend = s]
    BY DEF Aged
  <1>. HIDE DEF s, t, c
  <1>5. c \in Block
    BY <1>1, <1>3, <1>4 DEF Block
  <1>6. /\ SameWho(c, b) /\ SameData(c, b) /\ c.resolved = b.resolved /\ c.resend = s
        /\ c.requested = b.requested /\ c.recovered = b.recovered /\ c.unavailable = b.unavailable /\ c.closed = b.closed
    BY <1>1, <1>4 DEF Block, SameWho, SameData
  <1>. USE DEF SameWho, SameData
  <1>7. Who(c, S)
    BY <1>6 DEF BlockInv, Who
  <1>8. Within(c, S)
    BY <1>2, <1>6 DEF BlockInv, Within
  <1>9. SameLength(c, S) => Counted(c)
    BY <1>2, <1>6 DEF BlockInv, SameLength, Counted
  <1>10. SameLength(c, S) /\ on /\ c.leader # "other" => Tracked(c)
    BY <1>2, <1>6 DEF BlockInv, SameLength, Tracked
  <1>11. ASSUME NEW n, c.from = {n}
         PROVE  (c.resolved = "no" => Kept(c, S[n], c.seen) /\ ~Whole(c)) /\ Truthful(c, S[n])
    <2>1. (b.resolved = "no" => Kept(b, S[n], b.seen) /\ ~Whole(b)) /\ Truthful(b, S[n])
      BY <1>6, <1>11 DEF BlockInv
    <2>2. Kept(b, S[n], b.seen) => Kept(c, S[n], c.seen)
      BY <1>6 DEF Kept
    <2>3. Whole(c) <=> Whole(b)
      BY <1>6 DEF Whole
    <2>. QED  BY <1>6, <2>1, <2>2, <2>3 DEF Truthful
  <1>12. BlockInv(c, S, on)
    BY <1>2, <1>5, <1>6, <1>7, <1>8, <1>9, <1>10, <1>11 DEF BlockInv
  <1>. QED  BY <1>6, <1>12 DEF c

LEMMA AllowanceGrows ==
  ASSUME NEW m \in Nat, NEW n \in Nat, m <= n
  PROVE  Allowance(m) \in Nat /\ Allowance(n) \in Nat /\ Allowance(m) <= Allowance(n)
  <1>1. BudgetPercent \in Nat /\ m + 2 \in Nat /\ n + 2 \in Nat /\ m + 2 <= n + 2
    BY AssemblyAssumption
  <1>. DEFINE x == (m + 2) * BudgetPercent
              y == (n + 2) * BudgetPercent
  <1>2. x \in Nat /\ y \in Nat /\ x <= y
    BY <1>1, Products
  <1>. HIDE DEF x, y
  <1>3. (x + 99) \div 100 \in Nat /\ (y + 99) \div 100 \in Nat /\ (x + 99) \div 100 <= (y + 99) \div 100
    BY <1>2
  <1>. QED  BY <1>3 DEF Allowance, x, y

\* However the length of a block is estimated, the budget is that of one of its lengths.
LEMMA BudgetWithin ==
  ASSUME NEW S, NEW b \in Block, Who(b, S), Within(b, S), \A n \in b.from : S[n].last \in Nat
  PROVE  /\ Budget(b) \in Nat
         /\ Budget(b) <= Allowance(PayloadPackets) \/ \E n \in b.from : Budget(b) <= Allowance(S[n].last)
  <1>1. b.buffer \in Nat /\ b.trailer \in Nat \cup {NoTrailer} /\ b.resend.frontier \in Nat /\ PayloadPackets \in Nat
    BY AssemblyAssumption DEF Block, Resend
  <1>2. PICK q \in Nat : /\ packets(b) \in Nat /\ packets(b) <= q + 2
                         /\ q <= PayloadPackets \/ \E n \in b.from : q <= S[n].last
    <2>1. CASE b.trailer # NoTrailer
      BY <1>1, <2>1 DEF packets, Within
    <2>2. CASE b.trailer = NoTrailer /\ b.buffer > 0
      BY <1>1, <2>2 DEF packets, Within
    <2>3. CASE b.trailer = NoTrailer /\ ~(b.buffer > 0)
      <3>1. PICK n \in b.from : b.resend.frontier <= S[n].last + 1
        BY <2>3 DEF Within
      <3>2. packets(b) = b.resend.frontier + 1
        BY <2>3 DEF packets
      <3>3. packets(b) \in Nat /\ S[n].last \in Nat /\ packets(b) <= S[n].last + 2
        BY <1>1, <3>1, <3>2
      <3>. QED  BY <3>3
    <2>. QED  BY <2>1, <2>2, <2>3
  <1>3. Budget(b) \in Nat /\ Budget(b) <= Allowance(q)
    <2>. DEFINE x == packets(b) * BudgetPercent
                y == (q + 2) * BudgetPercent
    <2>1. x \in Nat /\ y \in Nat /\ x <= y
      <3>1. BudgetPercent \in Nat /\ q + 2 \in Nat
        BY AssemblyAssumption
      <3>. QED  BY <1>2, <3>1, Products
    <2>. HIDE DEF x, y
    <2>2. (x + 99) \div 100 \in Nat /\ (x + 99) \div 100 <= (y + 99) \div 100
      BY <2>1
    <2>. QED  BY <2>2 DEF Budget, Allowance, x, y
  <1>4. CASE q <= PayloadPackets
    <2>1. Allowance(q) \in Nat /\ Allowance(PayloadPackets) \in Nat /\ Allowance(q) <= Allowance(PayloadPackets)
      BY <1>1, <1>4, AllowanceGrows
    <2>. QED  BY <1>3, <2>1
  <1>5. CASE \E n \in b.from : q <= S[n].last
    <2>1. PICK n \in b.from : q <= S[n].last
      BY <1>5
    <2>2. Allowance(q) \in Nat /\ Allowance(S[n].last) \in Nat /\ Allowance(q) <= Allowance(S[n].last)
      BY <2>1, AllowanceGrows
    <2>. QED  BY <1>3, <2>1, <2>2
  <1>. QED  BY <1>2, <1>4, <1>5

\* Asking for what is due, within the budget.
LEMMA PlannedInv ==
  ASSUME NEW S, NEW on, NEW b, BlockInv(b, S, on), \A n \in b.from : S[n].last \in Nat
  PROVE  /\ BlockInv(Planned(b), S, on) /\ Planned(b).id = b.id /\ Planned(b).resolved = b.resolved
         /\ Planned(b).from = b.from
         /\ IdsOf(Requests(b.resend, Budget(b))) \subseteq Nat
  <1>. DEFINE r == b.resend
              s == due(r, config, Budget(b))
              now == IdsOf(Requests(r, Budget(b)))
              new == newly_requested(r, Budget(b))
              q == Record(b.requested, new)
              c == Planned(b)
  <1>1. b \in Block /\ ResendOK(r) /\ Who(b, S) /\ Within(b, S) /\ r.frontier \in Nat /\ b.requested \in Stat
    BY DEF BlockInv, Block, Resend
  <1>2. Budget(b) \in Nat /\ (Budget(b) <= Allowance(PayloadPackets) \/ \E n \in b.from : Budget(b) <= Allowance(S[n].last))
    BY <1>1, BudgetWithin
  <1>3. /\ ResendOK(s) /\ s.frontier = r.frontier /\ Missing(s) = Missing(r)
        /\ now \subseteq Missing(r) /\ Requested(s) = Requested(r) \cup now
        /\ new = now \ Requested(r) /\ (s.asked <= Budget(b) \/ s.asked = r.asked)
    BY <1>1, <1>2, DueKeeps
  <1>4. Missing(r) \subseteq 0..(r.frontier - 1) /\ IsFiniteSet(0..(r.frontier - 1))
    <2>1. 0 \in Int /\ r.frontier - 1 \in Int
      BY <1>1
    <2>2. IsFiniteSet(0..(r.frontier - 1))
      BY Zenon, <2>1, FS_Interval
    <2>. QED  BY <1>1, <2>2, MissingBelow
  <1>5. new \subseteq 0..(r.frontier - 1) /\ IsFiniteSet(new) /\ new \in SUBSET Nat /\ now \subseteq Nat
    <2>. HIDE DEF new, now, r
    <2>1. new \subseteq 0..(r.frontier - 1) /\ now \subseteq 0..(r.frontier - 1)
      BY <1>3, <1>4
    <2>2. IsFiniteSet(new)
      BY <1>4, <2>1, FS_Subset
    <2>. QED  BY <2>1, <2>2
  <1>6. /\ q \in Stat /\ q.ids = b.requested.ids \cup new
        /\ IsFiniteSet(b.requested.ids) /\ b.requested.count = Cardinality(b.requested.ids) /\ b.requested.ids \cap new = {}
             => q.count = Cardinality(q.ids)
    <2>. HIDE DEF new
    <2>. QED  BY <1>1, <1>5, RecordFields
  <1>7. s \in Resend /\ s.asked \in Nat /\ r.asked \in Nat
    BY <1>1, <1>3 DEF ResendOK, Resend
  <1>8. c = [b EXCEPT !.resend = s, !.requested = q]
    BY DEF Planned
  <1>. HIDE DEF s, now, new, q, c
  <1>9. c \in Block
    BY <1>1, <1>6, <1>7, <1>8 DEF Block
  <1>10. /\ SameWho(c, b) /\ SameData(c, b) /\ c.resolved = b.resolved /\ c.resend = s
         /\ c.requested = q /\ c.recovered = b.recovered /\ c.unavailable = b.unavailable /\ c.closed = b.closed
    BY <1>1, <1>8 DEF Block, SameWho, SameData
  <1>. USE DEF SameWho, SameData
  <1>11. Who(c, S)
    BY <1>1, <1>10 DEF Who
  <1>12. Within(c, S)
    <2>1. s.asked <= Allowance(PayloadPackets) \/ \E n \in b.from : s.asked <= Allowance(S[n].last)
      <3>1. CASE s.asked = r.asked
        BY <1>1, <3>1 DEF Within
      <3>2. CASE s.asked <= Budget(b)
        <4>1. Allowance(PayloadPackets) \in Nat /\ \A n \in b.from : Allowance(S[n].last) \in Nat
          <5>1. PayloadPackets \in Nat
            BY AssemblyAssumption
          <5>. QED  BY <5>1, AllowanceGrows
        <4>. QED  BY <1>2, <1>7, <3>2, <4>1
      <3>. QED  BY <1>3, <3>1, <3>2
    <2>2. s.frontier = r.frontier
      BY <1>3
    <2>. QED  BY <1>1, <1>10, <2>1, <2>2 DEF Within
  <1>13. SameLength(c, S) => Counted(c)
    <2>. SUFFICES ASSUME SameLength(c, S) PROVE Counted(c)
      OBVIOUS
    <2>1. Counted(b)
      BY <1>10 DEF BlockInv, SameLength
    <2>2. b.requested.ids \cap new = {}
      BY <1>3, <2>1 DEF Counted
    <2>3. IsFiniteSet(b.requested.ids)
      <3>1. b.requested.ids \subseteq 0..(r.frontier - 1)
        BY <2>1 DEF Counted
      <3>. QED  BY <1>4, <3>1, FS_Subset
    <2>4. q.count = Cardinality(q.ids) /\ q.ids = b.requested.ids \cup new
      BY <1>6, <2>1, <2>2, <2>3 DEF Counted
    <2>5. Requested(s) = q.ids \cap Missing(s)
      BY <1>3, <2>1, <2>4 DEF Counted
    <2>6. Requested(s) \cap (b.recovered.ids \cup b.unavailable.ids) = {}
      <3>1. now \cap (b.recovered.ids \cup b.unavailable.ids) \subseteq Requested(r)
        BY <1>3, <2>1 DEF Counted
      <3>. QED  BY <1>3, <2>1, <3>1 DEF Counted
    <2>7. q.ids \subseteq 0..(s.frontier - 1)
      BY <1>3, <1>5, <2>1, <2>4 DEF Counted
    <2>8. b.recovered.ids \subseteq q.ids /\ b.unavailable.ids \subseteq q.ids
      BY <2>1, <2>4 DEF Counted
    <2>. QED  BY <1>10, <2>1, <2>4, <2>5, <2>6, <2>7, <2>8 DEF Counted
  <1>14. SameLength(c, S) /\ on /\ c.leader # "other" => Tracked(c)
    BY <1>3, <1>10 DEF BlockInv, SameLength, Tracked
  <1>15. ASSUME NEW n, c.from = {n}
         PROVE  (c.resolved = "no" => Kept(c, S[n], c.seen) /\ ~Whole(c)) /\ Truthful(c, S[n])
    <2>1. (b.resolved = "no" => Kept(b, S[n], b.seen) /\ ~Whole(b)) /\ Truthful(b, S[n])
      BY <1>10, <1>15 DEF BlockInv
    <2>2. Kept(b, S[n], b.seen) => Kept(c, S[n], c.seen)
      BY <1>10 DEF Kept
    <2>3. Whole(c) <=> Whole(b)
      BY <1>10 DEF Whole
    <2>. QED  BY <1>10, <2>1, <2>2, <2>3 DEF Truthful
  <1>16. BlockInv(c, S, on)
    BY <1>3, <1>9, <1>10, <1>11, <1>12, <1>13, <1>14, <1>15 DEF BlockInv
  <1>. QED  BY <1>5, <1>10, <1>16 DEF c, now, r

\* The camera's answer that packets are gone.
Answered(b, pid, answer) ==
    LET r == unavailable(b.resend, pid, answer)
    IN  [b EXCEPT !.resend = r,
                  !.unavailable = Record(@, DeclaredGone(b.resend, pid, answer)),
                  !.closed = @ \cup (Missing(b.resend) \ Missing(r))]

LEMMA AnsweredInv ==
  ASSUME NEW S, NEW on, NEW b, BlockInv(b, S, on), NEW pid \in Nat, NEW answer \in {"Gone", "GoneWithPrevious"}
  PROVE  LET c == Answered(b, pid, answer)
         IN  BlockInv(c, S, on) /\ c.id = b.id /\ c.resolved = b.resolved /\ c.from = b.from
  <1>. DEFINE r == b.resend
              s == unavailable(r, pid, answer)
              gone == DeclaredGone(r, pid, answer)
              q == Record(b.unavailable, gone)
              d == b.closed \cup (Missing(r) \ Missing(s))
              c == Answered(b, pid, answer)
  <1>1. b \in Block /\ ResendOK(r) /\ Who(b, S) /\ Within(b, S) /\ r.frontier \in Nat /\ b.unavailable \in Stat
        /\ b.closed \subseteq Nat
    BY DEF BlockInv, Block, Resend
  <1>2. /\ ResendOK(s) /\ s.asked = r.asked /\ s.frontier = r.frontier /\ Missing(s) \subseteq Missing(r)
        /\ Requested(s) = Requested(r) \cap Missing(s) /\ gone = Requested(r) \ Missing(s)
    <2>. HIDE DEF r
    <2>0. ResendOK(s)
      BY <1>1, UnavailableKeeps
    <2>1. ResendOK(r)
      BY <1>1
    <2>4. s.asked = r.asked
      BY <2>1, UnavailableKeeps
    <2>5. s.frontier = r.frontier
      BY <2>1, UnavailableKeeps
    <2>2. Missing(s) \subseteq Missing(r) /\ Requested(s) = Requested(r) \cap Missing(s)
      BY <1>1, UnavailableKeeps
    <2>3. gone = Requested(r) \ Missing(s)
      BY <1>1, UnavailableKeeps
    <2>. QED  BY <2>0, <2>4, <2>5, <2>2, <2>3
  <1>3. Missing(r) \subseteq 0..(r.frontier - 1) /\ Requested(r) \subseteq Missing(r) /\ IsFiniteSet(0..(r.frontier - 1))
    <2>1. 0 \in Int /\ r.frontier - 1 \in Int
      BY <1>1
    <2>2. IsFiniteSet(0..(r.frontier - 1))
      BY Zenon, <2>1, FS_Interval
    <2>. QED  BY <1>1, <2>2, MissingBelow
  <1>4. IsFiniteSet(gone) /\ gone \in SUBSET Nat /\ d \in SUBSET Nat
    <2>. HIDE DEF gone, s, r
    <2>1. gone \subseteq 0..(r.frontier - 1)
      BY <1>2, <1>3
    <2>2. IsFiniteSet(gone)
      BY <1>3, <2>1, FS_Subset
    <2>. QED  BY <1>1, <1>3, <2>1, <2>2
  <1>5. /\ q \in Stat /\ q.ids = b.unavailable.ids \cup gone
        /\ IsFiniteSet(b.unavailable.ids) /\ b.unavailable.count = Cardinality(b.unavailable.ids) /\ b.unavailable.ids \cap gone = {}
             => q.count = Cardinality(q.ids)
    <2>. HIDE DEF gone
    <2>. QED  BY <1>1, <1>4, RecordFields
  <1>6. s \in Resend
    BY <1>2 DEF ResendOK
  <1>7. c = [b EXCEPT !.resend = s, !.unavailable = q, !.closed = d]
    BY DEF Answered
  <1>8. \A x : x \in d <=> x \in b.closed \/ (x \in Missing(r) /\ x \notin Missing(s))
    OBVIOUS
  <1>. HIDE DEF s, gone, q, d, c
  <1>9. c \in Block
    BY <1>1, <1>4, <1>5, <1>6, <1>7 DEF Block
  <1>10. /\ SameWho(c, b) /\ SameData(c, b) /\ c.resolved = b.resolved /\ c.resend = s
         /\ c.requested = b.requested /\ c.recovered = b.recovered /\ c.unavailable = q /\ c.closed = d
    BY <1>1, <1>7 DEF Block, SameWho, SameData
  <1>. USE DEF SameWho, SameData
  <1>11. Who(c, S)
    BY <1>1, <1>10 DEF Who
  <1>12. Within(c, S)
    BY <1>1, <1>2, <1>10 DEF Within
  <1>13. SameLength(c, S) => Counted(c)
    <2>. SUFFICES ASSUME SameLength(c, S) PROVE Counted(c)
      OBVIOUS
    <2>1. Counted(b)
      BY <1>10 DEF BlockInv, SameLength
    <2>2. b.unavailable.ids \cap gone = {} /\ gone \subseteq b.requested.ids /\ gone \cap b.recovered.ids = {}
      BY <1>2, <2>1 DEF Counted
    <2>3. IsFiniteSet(b.unavailable.ids)
      <3>1. b.unavailable.ids \subseteq 0..(r.frontier - 1)
        BY <2>1 DEF Counted
      <3>. QED  BY <1>3, <3>1, FS_Subset
    <2>4. q.count = Cardinality(q.ids) /\ q.ids = b.unavailable.ids \cup gone
      BY <1>5, <2>1, <2>2, <2>3 DEF Counted
    <2>5. Requested(s) = b.requested.ids \cap Missing(s)
      BY <1>2, <2>1 DEF Counted
    <2>6. Requested(s) \cap (b.recovered.ids \cup q.ids) = {}
      BY <1>2, <2>1, <2>4 DEF Counted
    <2>7. b.requested.ids \subseteq 0..(s.frontier - 1)
      BY <1>2, <2>1 DEF Counted
    <2>8. q.ids \subseteq b.requested.ids /\ b.recovered.ids \cap q.ids = {}
      BY <2>1, <2>2, <2>4 DEF Counted
    <2>. QED  BY <1>10, <2>1, <2>4, <2>5, <2>6, <2>7, <2>8 DEF Counted
  <1>14. SameLength(c, S) /\ on /\ c.leader # "other" => Tracked(c)
    <2>. SUFFICES ASSUME SameLength(c, S), on, c.leader # "other" PROVE Tracked(c)
      OBVIOUS
    <2>1. Tracked(b)
      BY <1>10 DEF BlockInv, SameLength
    <2>2. 0..(r.frontier - 1) \subseteq b.seen \cup Missing(s) \cup d /\ Missing(s) \cap (b.seen \cup d) = {}
          /\ d \subseteq 0..(r.frontier - 1)
      BY <1>2, <1>3, <1>8, <2>1 DEF Tracked
    <2>. QED  BY <1>2, <1>10, <2>1, <2>2 DEF Tracked
  <1>15. ASSUME NEW n, c.from = {n}
         PROVE  (c.resolved = "no" => Kept(c, S[n], c.seen) /\ ~Whole(c)) /\ Truthful(c, S[n])
    <2>1. (b.resolved = "no" => Kept(b, S[n], b.seen) /\ ~Whole(b)) /\ Truthful(b, S[n])
      BY <1>10, <1>15 DEF BlockInv
    <2>2. Kept(b, S[n], b.seen) => Kept(c, S[n], c.seen)
      BY <1>10 DEF Kept
    <2>3. Whole(c) <=> Whole(b)
      BY <1>10 DEF Whole
    <2>. QED  BY <1>10, <2>1, <2>2, <2>3 DEF Truthful
  <1>16. BlockInv(c, S, on)
    BY <1>2, <1>9, <1>10, <1>11, <1>12, <1>13, <1>14, <1>15 DEF BlockInv
  <1>. QED  BY <1>10, <1>16 DEF c

\* What the camera sends next says nothing of the blocks in flight.
LEMMA SentGrowsInv ==
  ASSUME NEW S, NEW T, DOMAIN S \subseteq DOMAIN T, \A n \in DOMAIN S : T[n] = S[n],
         NEW on, NEW b, BlockInv(b, S, on)
  PROVE  BlockInv(b, T, on)
  <1>1. b.from \subseteq DOMAIN S /\ \A n \in b.from : T[n] = S[n]
    BY DEF BlockInv, Who
  <1>2. Who(b, T) /\ Within(b, T)
    BY <1>1 DEF BlockInv, Who, Within
  <1>3. SameLength(b, T) => SameLength(b, S)
    BY <1>1 DEF SameLength
  <1>4. ASSUME NEW n, b.from = {n} PROVE T[n] = S[n]
    BY <1>1, <1>4
  <1>. QED  BY <1>2, <1>3, <1>4 DEF BlockInv

-----------------------------------------------------------------------------
(* The frames of a queue of blocks. *)

\* One step of Frames.
FrameStep(g, q, i) == IF q[i].resolved = "Unsupported" THEN g[i - 1] ELSE Append(g[i - 1], q[i])

\* The recursion of Frames has a solution on every prefix.
LEMMA FramesExist ==
  ASSUME NEW q, NEW m \in Nat
  PROVE  \E g : g = [i \in 0..m |-> IF i = 0 THEN <<>> ELSE FrameStep(g, q, i)]
  <1>. DEFINE Has(n) == \E g : g = [i \in 0..n |-> IF i = 0 THEN <<>> ELSE FrameStep(g, q, i)]
              Bad == {n \in Nat : ~Has(n)}
  <1>1. Has(0)
    <2>. DEFINE g == [i \in 0..0 |-> <<>>]
    <2>1. g = [i \in 0..0 |-> IF i = 0 THEN <<>> ELSE FrameStep(g, q, i)]
      OBVIOUS
    <2>. QED  BY Zenon, <2>1
  <1>2. ASSUME NEW n \in Nat, Has(n) PROVE Has(n + 1)
    <2>1. PICK g : g = [i \in 0..n |-> IF i = 0 THEN <<>> ELSE FrameStep(g, q, i)]
      BY Zenon, <1>2
    <2>. DEFINE h == [i \in 0..(n + 1) |-> IF i = n + 1 THEN FrameStep(g, q, i) ELSE g[i]]
                k == [i \in 0..(n + 1) |-> IF i = 0 THEN <<>> ELSE FrameStep(h, q, i)]
    <2>2. ASSUME NEW i \in 0..(n + 1) PROVE h[i] = k[i]
      <3>1. CASE i = 0
        <4>1. g[0] = <<>>
          BY <2>1
        <4>. QED  BY <3>1, <4>1
      <3>2. CASE i # 0
        <4>1. i - 1 \in 0..n /\ h[i - 1] = g[i - 1]
          BY <3>2
        <4>2. FrameStep(h, q, i) = FrameStep(g, q, i)
          BY <4>1 DEF FrameStep
        <4>3. i \in 0..n => g[i] = FrameStep(g, q, i)
          BY <2>1, <3>2
        <4>4. i = n + 1 \/ i \in 0..n
          OBVIOUS
        <4>5. k[i] = FrameStep(h, q, i)
          BY <3>2
        <4>6. h[i] = IF i = n + 1 THEN FrameStep(g, q, i) ELSE g[i]
          OBVIOUS
        <4>. HIDE DEF h, k
        <4>. QED  BY <4>2, <4>3, <4>4, <4>5, <4>6
      <3>. QED  BY <3>1, <3>2
    <2>3. h = k
      <3>1. h = [i \in 0..(n + 1) |-> h[i]] /\ k = [i \in 0..(n + 1) |-> k[i]]
        OBVIOUS
      <3>2. DOMAIN h = 0..(n + 1) /\ DOMAIN k = 0..(n + 1)
        OBVIOUS
      <3>. HIDE DEF h, k
      <3>. QED  BY <2>2, <3>1, <3>2
    <2>. QED  BY Zenon, <2>3
  <1>3. Bad = {}
    <2>. SUFFICES ASSUME Bad # {} PROVE FALSE
      OBVIOUS
    <2>. HIDE DEF Has
    <2>1. PICK x \in Bad : \A y \in Bad : x <= y
      <3>1. Bad \subseteq Nat
        OBVIOUS
      <3>. HIDE DEF Bad
      <3>. QED  BY <3>1, LeastNat
    <2>2. x \in Nat /\ x # 0 /\ ~Has(x)
      BY <1>1
    <2>3. x - 1 \in Nat /\ ~(x - 1 \in Bad)
      BY <2>1, <2>2
    <2>4. Has(x - 1)
      BY <2>3
    <2>5. Has((x - 1) + 1)
      BY <1>2, <2>3, <2>4
    <2>6. (x - 1) + 1 = x
      BY <2>2
    <2>. QED  BY <2>2, <2>5, <2>6
  <1>. QED
    <2>. HIDE DEF Has
    <2>1. Has(m)
      BY <1>3
    <2>. QED  BY Zenon, <2>1 DEF Has

LEMMA FramesStep ==
  ASSUME NEW q \in Seq(Block)
  PROVE  /\ Frames(q, 0) = <<>>
         /\ \A n \in 1..Len(q) :
               Frames(q, n) = IF q[n].resolved = "Unsupported" THEN Frames(q, n - 1) ELSE Append(Frames(q, n - 1), q[n])
  <1>. DEFINE h == CHOOSE f : f = [i \in 0..Len(q) |-> IF i = 0 THEN <<>>
                       ELSE IF q[i].resolved = "Unsupported" THEN f[i - 1] ELSE Append(f[i - 1], q[i])]
  <1>1. Len(q) \in Nat
    OBVIOUS
  <1>2. \E f : f = [i \in 0..Len(q) |-> IF i = 0 THEN <<>>
                       ELSE IF q[i].resolved = "Unsupported" THEN f[i - 1] ELSE Append(f[i - 1], q[i])]
    BY Zenon, <1>1, FramesExist DEF FrameStep
  <1>3. h = [i \in 0..Len(q) |-> IF i = 0 THEN <<>>
                       ELSE IF q[i].resolved = "Unsupported" THEN h[i - 1] ELSE Append(h[i - 1], q[i])]
    BY Zenon, <1>2
  <1>4. \A n : Frames(q, n) = h[n]
    BY Zenon DEF Frames
  <1>. HIDE DEF h
  <1>5. h[0] = <<>>
    BY <1>1, <1>3
  <1>6. \A n \in 1..Len(q) : h[n] = IF q[n].resolved = "Unsupported" THEN h[n - 1] ELSE Append(h[n - 1], q[n])
    <2>. SUFFICES ASSUME NEW n \in 1..Len(q)
                  PROVE  h[n] = IF q[n].resolved = "Unsupported" THEN h[n - 1] ELSE Append(h[n - 1], q[n])
      OBVIOUS
    <2>1. n \in 0..Len(q) /\ n # 0
      BY <1>1
    <2>2. h[n] = IF n = 0 THEN <<>>
                 ELSE IF q[n].resolved = "Unsupported" THEN h[n - 1] ELSE Append(h[n - 1], q[n])
      BY Zenon, <1>3, <2>1
    <2>. QED  BY <2>1, <2>2
  <1>. QED  BY <1>4, <1>5, <1>6

\* t is a selection from the first n blocks of s, in their order.
Selected(t, s, n) ==
    /\ \A i \in 1..Len(t) : \E j \in 1..n : t[i] = s[j]
    /\ \A i, k \in 1..Len(t) : i < k => \E j, l \in 1..n : j < l /\ t[i] = s[j] /\ t[k] = s[l]

\* The frames of the first n blocks are a selection of them, the dropped ones the rest.
FramesAre(q, n) ==
    /\ Frames(q, n) \in Seq(Block)
    /\ Selected(Frames(q, n), q, n)
    /\ IsFiniteSet(Dropped(q, n))
    /\ Len(Frames(q, n)) + Cardinality(Dropped(q, n)) = n

LEMMA FramesSelect ==
  ASSUME NEW q \in Seq(Block), NEW n \in 0..Len(q)
  PROVE  FramesAre(q, n)
  <1>1. FramesAre(q, 0)
    <2>1. Frames(q, 0) = <<>>
      BY FramesStep
    <2>2. Dropped(q, 0) = {}
      BY DEF Dropped
    <2>3. Selected(<<>>, q, 0)
      BY DEF Selected
    <2>4. IsFiniteSet({}) /\ Cardinality({}) = 0
      BY FS_EmptySet
    <2>5. <<>> \in Seq(Block) /\ Len(<<>>) = 0
      OBVIOUS
    <2>6. Frames(q, 0) \in Seq(Block) /\ Selected(Frames(q, 0), q, 0) /\ Len(Frames(q, 0)) = 0
      BY Zenon, <2>1, <2>3, <2>5
    <2>7. IsFiniteSet(Dropped(q, 0)) /\ Cardinality(Dropped(q, 0)) = 0
      BY Zenon, <2>2, <2>4
    <2>. QED  BY <2>6, <2>7 DEF FramesAre
  <1>2. ASSUME NEW m \in Nat, m + 1 <= Len(q), FramesAre(q, m) PROVE FramesAre(q, m + 1)
    <2>. DEFINE F == Frames(q, m)
                G == Frames(q, m + 1)
                x == q[m + 1]
    <2>1. F \in Seq(Block) /\ Len(F) \in Nat /\ x \in Block /\ m + 1 \in 1..Len(q)
      BY <1>2 DEF FramesAre
    <2>2. G = IF x.resolved = "Unsupported" THEN F ELSE Append(F, x)
      <3>1. (m + 1) - 1 = m
        BY <1>2
      <3>. QED  BY <2>1, <3>1, FramesStep
    <2>3. IsFiniteSet(Dropped(q, m)) /\ Cardinality(Dropped(q, m)) \in Nat /\ Len(F) + Cardinality(Dropped(q, m)) = m
      BY <1>2, FS_CardinalityType DEF FramesAre
    <2>4. \A i \in 1..(m + 1) : i \in 1..m \/ i = m + 1
      BY <1>2
    <2>5. 1..m \subseteq 1..(m + 1) /\ m + 1 \notin 1..m /\ m + 1 \in 1..(m + 1)
      BY <1>2
    <2>. HIDE DEF F, G, x
    <2>6. CASE x.resolved = "Unsupported"
      <3>1. G = F
        BY <2>2, <2>6
      <3>2. Dropped(q, m + 1) = Dropped(q, m) \cup {m + 1} /\ m + 1 \notin Dropped(q, m)
        BY <2>4, <2>5, <2>6 DEF Dropped, x
      <3>3. IsFiniteSet(Dropped(q, m + 1)) /\ Cardinality(Dropped(q, m + 1)) = Cardinality(Dropped(q, m)) + 1
        BY <2>3, <3>2, FS_AddElement
      <3>4. Selected(G, q, m + 1)
        <4>1. Selected(F, q, m)
          BY <1>2 DEF FramesAre, F
        <4>2. \A i \in 1..Len(F) : \E j \in 1..(m + 1) : F[i] = q[j]
          BY <2>5, <4>1 DEF Selected
        <4>3. ASSUME NEW i \in 1..Len(F), NEW k \in 1..Len(F), i < k
              PROVE  \E j, l \in 1..(m + 1) : j < l /\ F[i] = q[j] /\ F[k] = q[l]
          <5>1. PICK j \in 1..m, l \in 1..m : j < l /\ F[i] = q[j] /\ F[k] = q[l]
            BY <4>1, <4>3 DEF Selected
          <5>. QED  BY <2>5, <5>1
        <4>4. Selected(F, q, m + 1)
          BY <4>2, <4>3 DEF Selected
        <4>. QED  BY <3>1, <4>4
      <3>5. Len(G) + Cardinality(Dropped(q, m + 1)) = m + 1
        BY <1>2, <2>1, <2>3, <3>1, <3>3
      <3>. QED  BY <2>1, <3>1, <3>3, <3>4, <3>5 DEF FramesAre, G
    <2>7. CASE x.resolved # "Unsupported"
      <3>1. G = Append(F, x)
        BY <2>2, <2>7
      <3>2. Dropped(q, m + 1) = Dropped(q, m)
        BY <2>4, <2>5, <2>7 DEF Dropped, x
      <3>3. /\ G \in Seq(Block) /\ Len(G) = Len(F) + 1 /\ G[Len(F) + 1] = x
            /\ \A i \in 1..Len(F) : G[i] = F[i]
        BY <2>1, <3>1
      <3>4. Selected(G, q, m + 1)
        <4>1. Selected(F, q, m)
          BY <1>2 DEF FramesAre, F
        <4>2. \A i \in 1..Len(G) : i \in 1..Len(F) \/ i = Len(F) + 1
          BY <2>1, <3>3
        <4>3. ASSUME NEW i \in 1..Len(G) PROVE \E j \in 1..(m + 1) : G[i] = q[j]
          BY <2>5, <3>3, <4>1, <4>2 DEF Selected, x
        <4>4. ASSUME NEW i \in 1..Len(G), NEW k \in 1..Len(G), i < k
              PROVE  \E j, l \in 1..(m + 1) : j < l /\ G[i] = q[j] /\ G[k] = q[l]
          <5>1. i \in 1..Len(F)
            BY <2>1, <3>3, <4>4
          <5>2. CASE k \in 1..Len(F)
            <6>1. PICK j \in 1..m, l \in 1..m : j < l /\ F[i] = q[j] /\ F[k] = q[l]
              BY <4>1, <4>4, <5>1, <5>2 DEF Selected
            <6>. QED  BY <2>5, <3>3, <5>1, <5>2, <6>1
          <5>3. CASE k = Len(F) + 1
            <6>1. PICK j \in 1..m : F[i] = q[j]
              BY <4>1, <5>1 DEF Selected
            <6>2. j \in 1..(m + 1) /\ j < m + 1 /\ G[i] = q[j] /\ G[k] = q[m + 1]
              BY <2>5, <3>3, <5>1, <5>3, <6>1, <1>2 DEF x
            <6>. QED  BY <2>5, <6>2
          <5>. QED  BY <4>2, <5>2, <5>3
        <4>. QED  BY <4>3, <4>4 DEF Selected
      <3>5. Len(G) + Cardinality(Dropped(q, m + 1)) = m + 1
        BY <1>2, <2>1, <2>3, <3>2, <3>3
      <3>. QED  BY <2>3, <3>2, <3>3, <3>4, <3>5 DEF FramesAre, G
    <2>. QED  BY <2>6, <2>7
  <1>. DEFINE Bad == {m \in 0..Len(q) : ~FramesAre(q, m)}
  <1>3. Bad = {}
    <2>. SUFFICES ASSUME Bad # {} PROVE FALSE
      OBVIOUS
    <2>0. Len(q) \in Nat
      OBVIOUS
    <2>1. PICK y \in Bad : \A z \in Bad : y <= z
      <3>1. Bad \subseteq Nat
        OBVIOUS
      <3>. HIDE DEF Bad
      <3>. QED  BY <3>1, LeastNat
    <2>2. y \in Nat /\ y <= Len(q) /\ y # 0 /\ ~FramesAre(q, y)
      BY <1>1, <2>0
    <2>3. y - 1 \in Nat /\ y - 1 \in 0..Len(q) /\ ~(y - 1 \in Bad) /\ (y - 1) + 1 = y
      BY <2>0, <2>1, <2>2
    <2>4. FramesAre(q, y - 1)
      BY <2>3
    <2>. QED  BY <1>2, <2>2, <2>3, <2>4
  <1>. QED  BY <1>3

-----------------------------------------------------------------------------
(* The assembler. *)

\* The assembler.
AsmState == [in_flight : Seq(Block), last : (1..Cycle) \cup {None}, out : Seq(Block), missed : Nat, unsupported : Nat,
             started : SUBSET Nat]

\* A frame that was handed out says truly whether it is whole.
Delivered(b, S) == Who(b, S) /\ \A n : b.from = {n} => Truthful(b, S[n])

\* Every block in flight is in order, their ids differ, and every frame is true.
AsmOK(a, S, on) ==
    /\ a \in AsmState
    /\ \A i \in 1..Len(a.in_flight) : BlockInv(a.in_flight[i], S, on)
    /\ \A i, j \in 1..Len(a.in_flight) : a.in_flight[i].id = a.in_flight[j].id => i = j
    /\ \A i \in 1..Len(a.out) : Delivered(a.out[i], S)

\* The block at the front is open.
Front(a) == a.in_flight # <<>> => a.in_flight[1].resolved = "no"

\* What the accounting of blocks rests on is the same.
SameBooks(c, a) == c.last = a.last /\ c.missed = a.missed /\ c.started = a.started

\* emit takes the first k blocks off the queue.
Emits(c, a, k) ==
    /\ c.in_flight = SubSeq(a.in_flight, k + 1, Len(a.in_flight))
    /\ c.out = a.out \o Frames(a.in_flight, k)
    /\ c.unsupported = a.unsupported + Cardinality(Dropped(a.in_flight, k))
    /\ SameBooks(c, a)
    /\ \A i \in 1..k : a.in_flight[i].resolved # "no"
    /\ k < Len(a.in_flight) => a.in_flight[k + 1].resolved = "no"

LEMMA EmitFields ==
  ASSUME NEW a \in AsmState
  PROVE  emit(a) \in AsmState /\ \E k \in 0..Len(a.in_flight) : Emits(emit(a), a, k)
  <1>. DEFINE q == a.in_flight
              T == {j \in 0..Len(q) : \A i \in 1..j : q[i].resolved # "no"}
              k == Max(T)
              r == SubSeq(q, k + 1, Len(q))
              o == a.out \o Frames(q, k)
              u == a.unsupported + Cardinality(Dropped(q, k))
              c == emit(a)
  <1>1. q \in Seq(Block) /\ Len(q) \in Nat /\ a.out \in Seq(Block) /\ a.unsupported \in Nat
    BY DEF AsmState
  <1>2. k \in T /\ \A y \in T : y <= k
    <2>1. T \subseteq Nat /\ 0 \in T /\ \A y \in T : y <= Len(q)
      BY <1>1
    <2>. HIDE DEF T
    <2>. QED  BY <1>1, <2>1, MaxIsGreatest
  <1>3. k \in 0..Len(q) /\ \A i \in 1..k : q[i].resolved # "no"
    BY <1>2
  <1>4. k < Len(q) => q[k + 1].resolved = "no"
    <2>. SUFFICES ASSUME k < Len(q), q[k + 1].resolved # "no" PROVE FALSE
      OBVIOUS
    <2>. HIDE DEF k
    <2>1. \A i \in 1..(k + 1) : i \in 1..k \/ i = k + 1
      BY <1>1, <1>3
    <2>2. k + 1 \in T
      BY <1>1, <1>3, <2>1
    <2>3. k + 1 <= k
      BY <1>2, <2>2
    <2>. QED  BY <1>1, <1>3, <2>3
  <1>. HIDE DEF k, T
  <1>5. FramesAre(q, k)
    BY <1>1, <1>3, FramesSelect
  <1>6. r \in Seq(Block) /\ o \in Seq(Block) /\ u \in Nat
    <2>1. Frames(q, k) \in Seq(Block) /\ Cardinality(Dropped(q, k)) \in Nat
      BY <1>5, FS_CardinalityType DEF FramesAre
    <2>2. o \in Seq(Block) /\ u \in Nat
      BY <1>1, <2>1
    <2>3. r \in Seq(Block)
      BY <1>1, <1>3
    <2>. QED  BY <2>2, <2>3
  <1>7. c = [a EXCEPT !.in_flight = r, !.out = o, !.unsupported = u]
    <2>. DEFINE e == [a EXCEPT !.in_flight = r]
    <2>1. e.out = a.out /\ e.unsupported = a.unsupported
      BY DEF AsmState
    <2>2. c = [e EXCEPT !.out = @ \o Frames(q, k), !.unsupported = @ + Cardinality(Dropped(q, k))]
      BY DEF emit, HandOut, k, T
    <2>. HIDE DEF r, q, e
    <2>3. c = [e EXCEPT !.out = o, !.unsupported = u]
      BY <2>1, <2>2
    <2>. HIDE DEF o, u
    <2>. QED  BY <2>3 DEF e, AsmState
  <1>. HIDE DEF r, o, u, c
  <1>8. c \in AsmState
    BY <1>6, <1>7 DEF AsmState
  <1>9. c.in_flight = r /\ c.out = o /\ c.unsupported = u /\ SameBooks(c, a)
    BY <1>7 DEF AsmState, SameBooks
  <1>10. Emits(c, a, k)
    BY <1>3, <1>4, <1>9 DEF Emits, r, o, u
  <1>. QED  BY <1>3, <1>8, <1>10 DEF c

LEMMA SubSeqFields ==
  ASSUME NEW q \in Seq(Block), NEW k \in 0..Len(q)
  PROVE  LET r == SubSeq(q, k + 1, Len(q))
         IN  r \in Seq(Block) /\ Len(r) = Len(q) - k /\ \A i \in 1..Len(r) : i + k \in 1..Len(q) /\ r[i] = q[i + k]
  <1>1. Len(q) \in Nat
    OBVIOUS
  <1>. QED  BY <1>1

LEMMA ConcatFields ==
  ASSUME NEW s \in Seq(Block), NEW t \in Seq(Block)
  PROVE  /\ s \o t \in Seq(Block) /\ Len(s \o t) = Len(s) + Len(t)
         /\ \A i \in 1..Len(s) : i \in 1..Len(s \o t) /\ (s \o t)[i] = s[i]
         /\ \A i \in 1..Len(t) : Len(s) + i \in 1..Len(s \o t) /\ (s \o t)[Len(s) + i] = t[i]
         /\ \A i \in 1..Len(s \o t) :
               \/ i \in 1..Len(s) /\ (s \o t)[i] = s[i]
               \/ i - Len(s) \in 1..Len(t) /\ (s \o t)[i] = t[i - Len(s)]
  OBVIOUS

LEMMA EmitOK ==
  ASSUME NEW a, NEW S, NEW on, AsmOK(a, S, on)
  PROVE  /\ AsmOK(emit(a), S, on) /\ Front(emit(a)) /\ SameBooks(emit(a), a)
         /\ Len(emit(a).in_flight) <= Len(a.in_flight)
         /\ a.in_flight # <<>> /\ a.in_flight[1].resolved # "no" => Len(emit(a).in_flight) < Len(a.in_flight)
         /\ \A i \in 1..Len(emit(a).in_flight) : \E j \in 1..Len(a.in_flight) : emit(a).in_flight[i] = a.in_flight[j]
  <1>. DEFINE c == emit(a)
              q == a.in_flight
              r == c.in_flight
  <1>1. a \in AsmState /\ q \in Seq(Block) /\ Len(q) \in Nat /\ a.out \in Seq(Block)
    BY DEF AsmOK, AsmState
  <1>2. PICK k \in 0..Len(q) : Emits(c, a, k)
    BY <1>1, EmitFields
  <1>3. c \in AsmState
    BY <1>1, EmitFields
  <1>. HIDE DEF c
  <1>4. /\ r \in Seq(Block) /\ Len(r) = Len(q) - k
        /\ \A i \in 1..Len(r) : i + k \in 1..Len(q) /\ r[i] = q[i + k]
    BY <1>1, <1>2, SubSeqFields DEF Emits
  <1>5. FramesAre(q, k)
    BY <1>1, FramesSelect
  <1>6. ASSUME NEW i \in 1..Len(c.out) PROVE Delivered(c.out[i], S)
    <2>. DEFINE F == Frames(q, k)
    <2>1. F \in Seq(Block) /\ c.out = a.out \o F
      BY <1>2, <1>5 DEF FramesAre, Emits
    <2>. HIDE DEF F
    <2>2. \/ i \in 1..Len(a.out) /\ c.out[i] = a.out[i]
          \/ i - Len(a.out) \in 1..Len(F) /\ c.out[i] = F[i - Len(a.out)]
      BY <1>1, <1>6, <2>1, ConcatFields
    <2>3. CASE i \in 1..Len(a.out) /\ c.out[i] = a.out[i]
      BY <2>3 DEF AsmOK
    <2>4. CASE i - Len(a.out) \in 1..Len(F) /\ c.out[i] = F[i - Len(a.out)]
      <3>1. PICK j \in 1..k : c.out[i] = q[j]
        BY <1>5, <2>4 DEF FramesAre, Selected, F
      <3>2. j \in 1..Len(q)
        BY <1>1
      <3>3. BlockInv(q[j], S, on)
        BY <3>2 DEF AsmOK
      <3>. QED  BY <3>1, <3>3 DEF BlockInv, Delivered
    <2>. QED  BY <2>2, <2>3, <2>4
  <1>7. \A i \in 1..Len(r) : BlockInv(r[i], S, on)
    BY <1>4 DEF AsmOK
  <1>8. ASSUME NEW i \in 1..Len(r), NEW j \in 1..Len(r), r[i].id = r[j].id PROVE i = j
    <2>1. i + k = j + k
      BY <1>4, <1>8, ZenonT(60) DEF AsmOK
    <2>. QED  BY <1>1, <2>1
  <1>9. AsmOK(c, S, on)
    BY <1>3, <1>6, <1>7, <1>8 DEF AsmOK
  <1>10. Front(c)
    <2>. SUFFICES ASSUME r # <<>> PROVE r[1].resolved = "no"
      BY DEF Front
    <2>1. 1 \in 1..Len(r) /\ k < Len(q) /\ r[1] = q[k + 1]
      BY <1>1, <1>4
    <2>. QED  BY <1>2, <2>1 DEF Emits
  <1>11. q # <<>> /\ q[1].resolved # "no" => k # 0
    <2>1. q # <<>> => 0 < Len(q)
      BY <1>1
    <2>. QED  BY <1>2, <2>1 DEF Emits
  <1>12. Len(r) <= Len(q) /\ (k # 0 => Len(r) < Len(q))
    BY <1>1, <1>4
  <1>13. \A i \in 1..Len(r) : \E j \in 1..Len(q) : r[i] = q[j]
    BY <1>4
  <1>14. SameBooks(c, a)
    BY <1>2 DEF Emits
  <1>. QED  BY <1>9, <1>10, <1>11, <1>12, <1>13, <1>14 DEF c

\* The same blocks in flight, each in a state of its own that is in order.
Updated(c, a) ==
    /\ c.out = a.out /\ c.unsupported = a.unsupported /\ SameBooks(c, a)
    /\ Len(c.in_flight) = Len(a.in_flight)
    /\ \A i \in 1..Len(a.in_flight) : c.in_flight[i].id = a.in_flight[i].id

\* The blocks in flight took packets of the same blocks; they are resolved alike.
SameFrom(c, a) == \A i \in 1..Len(a.in_flight) : c.in_flight[i].from = a.in_flight[i].from

SameOpen(c, a) == \A i \in 1..Len(a.in_flight) : c.in_flight[i].resolved = a.in_flight[i].resolved

LEMMA UpdateOK ==
  ASSUME NEW a, NEW S, NEW on, AsmOK(a, S, on), NEW t \in Seq(Block), Len(t) = Len(a.in_flight),
         \A i \in 1..Len(a.in_flight) : BlockInv(t[i], S, on) /\ t[i].id = a.in_flight[i].id,
         NEW c, c = [a EXCEPT !.in_flight = t]
  PROVE  AsmOK(c, S, on) /\ Updated(c, a) /\ c.in_flight = t
  <1>1. a \in AsmState
    BY DEF AsmOK
  <1>2. c \in AsmState /\ c.in_flight = t /\ c.out = a.out /\ c.unsupported = a.unsupported /\ SameBooks(c, a)
    BY <1>1 DEF AsmState, SameBooks
  <1>3. Updated(c, a)
    BY <1>2 DEF Updated
  <1>4. AsmOK(c, S, on)
    BY <1>2 DEF AsmOK
  <1>. QED  BY <1>2, <1>3, <1>4

LEMMA ReplaceFields ==
  ASSUME NEW q \in Seq(Block), NEW i \in 1..Len(q), NEW x \in Block
  PROVE  LET t == [q EXCEPT ![i] = x]
         IN  t \in Seq(Block) /\ Len(t) = Len(q) /\ t[i] = x /\ \A j \in 1..Len(q) : j # i => t[j] = q[j]
  OBVIOUS

LEMMA MapFields ==
  ASSUME NEW n \in Nat, NEW t, t = [i \in 1..n |-> t[i]], \A i \in 1..n : t[i] \in Block
  PROVE  t \in Seq(Block) /\ Len(t) = n
  OBVIOUS

\* One block in flight takes a new state.
LEMMA ReplaceOK ==
  ASSUME NEW a, NEW S, NEW on, AsmOK(a, S, on), NEW i \in 1..Len(a.in_flight),
         NEW x, BlockInv(x, S, on), x.id = a.in_flight[i].id, NEW c, c = [a EXCEPT !.in_flight[i] = x]
  PROVE  /\ AsmOK(c, S, on) /\ Updated(c, a) /\ c.in_flight[i] = x
         /\ \A j \in 1..Len(a.in_flight) : j # i => c.in_flight[j] = a.in_flight[j]
  <1>. DEFINE t == [a.in_flight EXCEPT ![i] = x]
              e == [a EXCEPT !.in_flight = t]
  <1>1. a.in_flight \in Seq(Block) /\ x \in Block /\ i \in Nat
    BY DEF AsmOK, AsmState, BlockInv
  <1>2. t \in Seq(Block) /\ Len(t) = Len(a.in_flight) /\ t[i] = x /\ \A j \in 1..Len(a.in_flight) : j # i => t[j] = a.in_flight[j]
    BY <1>1, ReplaceFields
  <1>. HIDE DEF t
  <1>3. \A j \in 1..Len(a.in_flight) : BlockInv(t[j], S, on) /\ t[j].id = a.in_flight[j].id
    BY <1>2 DEF AsmOK
  <1>4. AsmOK(e, S, on) /\ Updated(e, a) /\ e.in_flight = t
    BY <1>2, <1>3, UpdateOK
  <1>5. c = e
    BY DEF t
  <1>. HIDE DEF e
  <1>. QED  BY <1>2, <1>4, <1>5

\* The place of the block with that id.
LEMMA IndexIs ==
  ASSUME NEW a, a.in_flight \in Seq(Block), NEW id, Index(a, id) # {}
  PROVE  /\ Min(Index(a, id)) \in 1..Len(a.in_flight)
         /\ a.in_flight[Min(Index(a, id))].id = id
  <1>1. Index(a, id) \subseteq Nat
    BY DEF Index
  <1>2. Min(Index(a, id)) \in Index(a, id)
    BY <1>1, MinIsLeast
  <1>. QED  BY <1>2 DEF Index

\* Making room: the block that gives way is closed and handed out in its turn, and
\* there is a free place.
LEMMA MakeRoomOK ==
  ASSUME NEW a, NEW S, NEW on, AsmOK(a, S, on), Front(a), Len(a.in_flight) <= MaxInFlight,
         \A n \in DOMAIN S : S[n] \in SentBlock
  PROVE  /\ AsmOK(MakeRoom(a), S, on) /\ Front(MakeRoom(a)) /\ Len(MakeRoom(a).in_flight) < MaxInFlight
         /\ SameBooks(MakeRoom(a), a)
         /\ \A i \in 1..Len(MakeRoom(a).in_flight) : \E j \in 1..Len(a.in_flight) : MakeRoom(a).in_flight[i].id = a.in_flight[j].id
         /\ \E c : AsmOK(c, S, on) /\ Updated(c, a) /\ SameFrom(c, a) /\ (MakeRoom(a) = c \/ MakeRoom(a) = emit(c))
  <1>. DEFINE m == MakeRoom(a)
  <1>1. a.in_flight \in Seq(Block) /\ Len(a.in_flight) \in Nat /\ MaxInFlight \in Nat /\ MaxInFlight > 0 /\ a \in AsmState
    BY AssemblyAssumption DEF AsmOK, AsmState
  <1>2. CASE Len(a.in_flight) < MaxInFlight
    <2>1. m = a
      BY <1>2 DEF MakeRoom
    <2>2. Updated(a, a) /\ SameFrom(a, a) /\ SameBooks(a, a)
      BY DEF Updated, SameFrom, SameBooks
    <2>. QED  BY <1>2, <2>1, <2>2
  <1>3. CASE ~(Len(a.in_flight) < MaxInFlight)
    <2>. DEFINE b == a.in_flight[1]
                x == IF b.resolved = "no" THEN close(b) ELSE b
                c == [a EXCEPT !.in_flight[1] = x]
    <2>1. 1 \in 1..Len(a.in_flight) /\ a.in_flight # <<>>
      BY <1>1, <1>3
    <2>2. m = emit(c)
      <3>1. c = [a EXCEPT !.in_flight[1] = IF @.resolved = "no" THEN close(@) ELSE @]
        OBVIOUS
      <3>. QED  BY <1>3, <3>1 DEF MakeRoom
    <2>3. BlockInv(b, S, on)
      BY <2>1 DEF AsmOK
    <2>4. BlockInv(x, S, on) /\ x.id = b.id /\ x.resolved # "no" /\ x.from = b.from
      <3>1. CASE b.resolved = "no"
        <4>. HIDE DEF b
        <4>. QED  BY <2>3, <3>1, CloseInv
      <3>2. CASE b.resolved # "no"
        BY <2>3, <3>2
      <3>. QED  BY <3>1, <3>2
    <2>. HIDE DEF x, m
    <2>5. /\ AsmOK(c, S, on) /\ Updated(c, a) /\ c.in_flight[1] = x
          /\ \A j \in 1..Len(a.in_flight) : j # 1 => c.in_flight[j] = a.in_flight[j]
      BY <2>1, <2>4, ReplaceOK
    <2>. HIDE DEF c
    <2>6. c.in_flight # <<>> /\ Len(c.in_flight) = Len(a.in_flight)
      <3>1. c.in_flight \in Seq(Block) /\ Len(c.in_flight) = Len(a.in_flight)
        BY <2>5 DEF AsmOK, AsmState, Updated
      <3>. QED  BY <1>1, <1>3, <3>1
    <2>7. AsmOK(c, S, on) /\ c.in_flight[1].resolved # "no"
      BY <2>4, <2>5
    <2>8. /\ AsmOK(m, S, on) /\ Front(m) /\ SameBooks(m, c)
          /\ Len(m.in_flight) < Len(c.in_flight)
          /\ \A i \in 1..Len(m.in_flight) : \E j \in 1..Len(c.in_flight) : m.in_flight[i] = c.in_flight[j]
      <3>1. AsmOK(m, S, on) /\ Front(m) /\ SameBooks(m, c)
        BY <2>2, <2>7, EmitOK
      <3>2. Len(m.in_flight) < Len(c.in_flight)
        BY <2>2, <2>6, <2>7, EmitOK
      <3>3. \A i \in 1..Len(m.in_flight) : \E j \in 1..Len(c.in_flight) : m.in_flight[i] = c.in_flight[j]
        BY <2>2, <2>7, EmitOK
      <3>. QED  BY <3>1, <3>2, <3>3
    <2>9. Len(m.in_flight) \in Nat
      BY <2>8 DEF AsmOK, AsmState
    <2>10. Len(m.in_flight) < MaxInFlight /\ SameBooks(m, a)
      BY <1>1, <2>5, <2>6, <2>8, <2>9 DEF Updated, SameBooks
    <2>11. \A i \in 1..Len(m.in_flight) : \E j \in 1..Len(a.in_flight) : m.in_flight[i].id = a.in_flight[j].id
      BY <2>5, <2>6, <2>8 DEF Updated
    <2>12. SameFrom(c, a)
      BY <2>4, <2>5 DEF SameFrom, b
    <2>. QED  BY <2>2, <2>5, <2>8, <2>10, <2>11, <2>12 DEF m
  <1>. QED  BY <1>2, <1>3

\* The blocks are those of a, each of the same origin; nothing was handed out.
Moved(c, a) ==
    /\ c.out = a.out /\ c.unsupported = a.unsupported
    /\ Len(c.in_flight) = Len(a.in_flight) /\ SameFrom(c, a)

LEMMA NewBlockFields ==
  ASSUME NEW id, NEW n
  PROVE  NewBlock(id, n).id = id /\ NewBlock(id, n).resolved = "no" /\ NewBlock(id, n).from = {n}
  BY DEF NewBlock

LEMMA AppendFields ==
  ASSUME NEW q \in Seq(Block), NEW x \in Block
  PROVE  /\ Append(q, x) \in Seq(Block) /\ Len(Append(q, x)) = Len(q) + 1 /\ Append(q, x)[Len(q) + 1] = x
         /\ \A i \in 1..Len(q) : Append(q, x)[i] = q[i]
         /\ \A i \in 1..Len(Append(q, x)) : i \in 1..Len(q) \/ i = Len(q) + 1
  OBVIOUS

\* s has block n at the end of what is left of a's queue once it has made room.
Continues(s, a, S, on, id, n) ==
    \E c, room : /\ AsmOK(c, S, on) /\ Moved(c, a) /\ (room = c \/ room = emit(c)) /\ room \in AsmState
                 /\ s.in_flight = Append(room.in_flight, NewBlock(id, n))
                 /\ s.out = room.out /\ s.unsupported = room.unsupported

\* A block is started: the queue without what gave way, and the new block at its end.
LEMMA StartOK ==
  ASSUME sent \in Seq(SentBlock), NEW a, NEW on, AsmOK(a, sent, on), Front(a), Len(a.in_flight) <= MaxInFlight,
         NEW n \in DOMAIN sent, NEW id, id = sent[n].id, Index(a, id) = {}, NEW verdict, verdict.missed \in Nat
  PROVE  /\ AsmOK(StartBlock(a, id, n, verdict), sent, on) /\ Front(StartBlock(a, id, n, verdict))
         /\ Len(StartBlock(a, id, n, verdict).in_flight) <= MaxInFlight
         /\ StartBlock(a, id, n, verdict).last = id
         /\ StartBlock(a, id, n, verdict).missed = a.missed + verdict.missed
         /\ StartBlock(a, id, n, verdict).started = a.started \cup {n}
         /\ Continues(StartBlock(a, id, n, verdict), a, sent, on, id, n)
  <1>. DEFINE s == StartBlock(a, id, n, verdict)
              e == a.missed + verdict.missed
              T == a.started \cup {n}
              d == [a EXCEPT !.last = id, !.missed = e, !.started = T]
              m == MakeRoom(d)
              x == NewBlock(id, n)
              t == Append(m.in_flight, x)
  <1>1. a \in AsmState /\ n \in Nat /\ sent[n] \in SentBlock /\ id \in 1..Cycle /\ Cycle \in Nat
    <2>1. n \in Nat /\ sent[n] \in SentBlock
      OBVIOUS
    <2>2. id \in 1..Cycle
      BY <2>1 DEF SentBlock
    <2>. QED  BY <2>1, <2>2, BlockOrderAssumption DEF AsmOK
  <1>2. id \in Nat /\ id # 0
    BY <1>1
  <1>3. e \in Nat /\ T \in SUBSET Nat
    BY <1>1 DEF AsmState
  <1>4. s = [m EXCEPT !.in_flight = t]
    <2>1. d = [a EXCEPT !.last = IF id = 0 THEN @ ELSE id, !.missed = @ + verdict.missed, !.started = @ \cup {n}]
      BY <1>2
    <2>. QED  BY <2>1 DEF StartBlock
  <1>. HIDE DEF e, T
  <1>5. /\ d \in AsmState /\ d.in_flight = a.in_flight /\ d.out = a.out /\ d.unsupported = a.unsupported
        /\ d.last = id /\ d.missed = e /\ d.started = T
    BY <1>1, <1>2, <1>3 DEF AsmState
  <1>. HIDE DEF d
  <1>6. AsmOK(d, sent, on) /\ Front(d) /\ Len(d.in_flight) <= MaxInFlight
    BY <1>5 DEF AsmOK, Front
  <1>7. \A k \in DOMAIN sent : sent[k] \in SentBlock
    OBVIOUS
  <1>8. AsmOK(m, sent, on) /\ Front(m) /\ Len(m.in_flight) < MaxInFlight /\ SameBooks(m, d)
    BY <1>6, <1>7, MakeRoomOK
  <1>9. \A i \in 1..Len(m.in_flight) : \E j \in 1..Len(d.in_flight) : m.in_flight[i].id = d.in_flight[j].id
    BY <1>6, <1>7, MakeRoomOK
  <1>10. PICK c : AsmOK(c, sent, on) /\ Updated(c, d) /\ SameFrom(c, d) /\ (m = c \/ m = emit(c))
    BY <1>6, <1>7, MakeRoomOK
  <1>. HIDE DEF m
  <1>11. m \in AsmState /\ m.in_flight \in Seq(Block) /\ Len(m.in_flight) \in Nat
    BY <1>8 DEF AsmOK, AsmState
  <1>12. BlockInv(x, sent, on) /\ x \in Block /\ x.id = id /\ x.resolved = "no"
    <2>1. BlockInv(x, sent, on)
      BY NewBlockInv
    <2>. QED  BY <2>1, NewBlockFields DEF BlockInv
  <1>. HIDE DEF x, s
  <1>13. /\ t \in Seq(Block) /\ Len(t) = Len(m.in_flight) + 1 /\ t[Len(m.in_flight) + 1] = x
         /\ \A i \in 1..Len(m.in_flight) : t[i] = m.in_flight[i]
         /\ \A i \in 1..Len(t) : i \in 1..Len(m.in_flight) \/ i = Len(m.in_flight) + 1
    BY <1>11, <1>12, AppendFields
  <1>. HIDE DEF t
  <1>14. /\ s \in AsmState /\ s.in_flight = t /\ s.out = m.out /\ s.unsupported = m.unsupported
         /\ s.last = m.last /\ s.missed = m.missed /\ s.started = m.started
    BY <1>4, <1>11, <1>13 DEF AsmState
  <1>15. \A i \in 1..Len(t) : BlockInv(t[i], sent, on)
    BY <1>8, <1>12, <1>13 DEF AsmOK
  <1>16. \A i \in 1..Len(m.in_flight) : m.in_flight[i].id # id
    BY <1>5, <1>9 DEF Index
  <1>17. \A i, j \in 1..Len(t) : t[i].id = t[j].id => i = j
    <2>1. \A i, j \in 1..Len(m.in_flight) : m.in_flight[i].id = m.in_flight[j].id => i = j
      BY <1>8 DEF AsmOK
    <2>. QED  BY <1>12, <1>13, <1>16, <2>1
  <1>18. AsmOK(s, sent, on)
    <2>1. \A i \in 1..Len(s.out) : Delivered(s.out[i], sent)
      BY <1>8, <1>14 DEF AsmOK
    <2>. QED  BY <1>14, <1>15, <1>17, <2>1 DEF AsmOK
  <1>19. Front(s)
    <2>1. m.in_flight # <<>> => 1 \in 1..Len(m.in_flight)
      BY <1>11
    <2>2. m.in_flight = <<>> => t[1] = x
      BY <1>13
    <2>. QED  BY <1>8, <1>12, <1>13, <1>14, <2>1, <2>2 DEF Front
  <1>20. Len(s.in_flight) <= MaxInFlight
    BY <1>8, <1>11, <1>13, <1>14, AssemblyAssumption
  <1>21. s.last = id /\ s.missed = e /\ s.started = T
    BY <1>5, <1>8, <1>14 DEF SameBooks
  <1>22. Moved(c, a)
    BY <1>5, <1>10 DEF Moved, Updated, SameFrom
  <1>23. s.in_flight = Append(m.in_flight, x)
    BY <1>14 DEF t
  <1>24. /\ AsmOK(c, sent, on) /\ Moved(c, a) /\ (m = c \/ m = emit(c)) /\ m \in AsmState
         /\ s.in_flight = Append(m.in_flight, x) /\ s.out = m.out /\ s.unsupported = m.unsupported
    BY <1>10, <1>11, <1>14, <1>22, <1>23
  <1>25. Continues(s, a, sent, on, id, n)
    BY <1>24 DEF Continues, x
  <1>. QED  BY <1>18, <1>19, <1>20, <1>21, <1>25 DEF s, e, T

\* The number of ids that classify says were skipped.
LEMMA MissedIsNat ==
  ASSUME NEW last \in (1..Cycle) \cup {None}, NEW next \in 1..Cycle, NEW leader \in BOOLEAN
  PROVE  classify(last, next, FALSE, leader).missed \in Nat
  <1>1. Cycle \in Nat
    BY BlockOrderAssumption
  <1>2. CASE last = None
    BY <1>2 DEF classify
  <1>3. CASE last # None
    <2>. DEFINE d == distance16(last, next)
                v == classify(last, next, FALSE, leader)
                r == Restarts(next, leader, d)
    <2>1. d \in Int
      <3>1. last \in 1..Cycle
        BY <1>3
      <3>2. Cycle \div 2 \in Int
        BY <1>1, Half
      <3>. QED  BY <1>1, <3>1, <3>2, DistanceByCases
    <2>2. next # 0
      BY <1>1
    <2>3. v = IF r \/ d < -LateWindow
              THEN [order |-> "Restart", missed |-> 0]
              ELSE IF d > 0 THEN [order |-> "Next", missed |-> d - 1]
                            ELSE [order |-> "Late", missed |-> 0]
      BY <1>3, <2>2 DEF classify, Distance
    <2>. HIDE DEF d, v, r
    <2>4. \/ v = [order |-> "Restart", missed |-> 0]
          \/ d > 0 /\ v = [order |-> "Next", missed |-> d - 1]
          \/ v = [order |-> "Late", missed |-> 0]
      BY Zenon, <2>3
    <2>5. v.missed \in Nat
      BY <2>1, <2>4
    <2>. QED  BY Zenon, <2>5 DEF v
  <1>. QED  BY <1>2, <1>3

\* An assembler between two calls: what it may hold, and how much of it.
Good(a, S, on) == AsmOK(a, S, on) /\ Front(a) /\ Len(a.in_flight) <= MaxInFlight

LEMMA AdmitOK ==
  ASSUME sent \in Seq(SentBlock), NEW a, NEW on, Good(a, sent, on),
         NEW n \in DOMAIN sent, NEW id, id = sent[n].id, NEW leader \in BOOLEAN
  PROVE  /\ Good(admit(a, id, n, leader), sent, on)
         /\ \/ /\ admit(a, id, n, leader) = a
               /\ Index(a, id) # {} \/ classify(a.last, id, FALSE, leader).order = "Late"
            \/ /\ Index(a, id) = {} /\ classify(a.last, id, FALSE, leader).order # "Late"
               /\ admit(a, id, n, leader) = StartBlock(a, id, n, classify(a.last, id, FALSE, leader))
  <1>. DEFINE v == classify(a.last, id, FALSE, leader)
              s == admit(a, id, n, leader)
  <1>1. AsmOK(a, sent, on) /\ Front(a) /\ Len(a.in_flight) <= MaxInFlight /\ a \in AsmState
    BY DEF Good, AsmOK
  <1>2. id \in 1..Cycle /\ a.last \in (1..Cycle) \cup {None}
    <2>1. sent[n] \in SentBlock
      OBVIOUS
    <2>. QED  BY <1>1, <2>1 DEF SentBlock, AsmState
  <1>3. v.missed \in Nat
    BY Zenon, <1>2, MissedIsNat
  <1>4. s = IF Index(a, id) # {} \/ v.order = "Late" THEN a ELSE StartBlock(a, id, n, v)
    BY Zenon DEF admit
  <1>. HIDE DEF v, s
  <1>5. CASE Index(a, id) # {} \/ v.order = "Late"
    BY Zenon, <1>4, <1>5 DEF v, s
  <1>6. CASE ~(Index(a, id) # {} \/ v.order = "Late")
    <2>1. s = StartBlock(a, id, n, v) /\ Index(a, id) = {}
      BY Zenon, <1>4, <1>6
    <2>2. Good(s, sent, on)
      BY <1>1, <1>3, <2>1, StartOK DEF Good
    <2>. QED  BY Zenon, <1>6, <2>1, <2>2 DEF v, s
  <1>. QED  BY <1>5, <1>6

\* r is s after a packet of block n: one block of it may have taken the packet.
Takes(r, s, S, on, n) ==
    \E c : /\ AsmOK(c, S, on) /\ Updated(c, s) /\ (r = c \/ r = emit(c))
           /\ \A j \in 1..Len(c.in_flight) :
                 \/ c.in_flight[j].from = s.in_flight[j].from
                 \/ c.in_flight[j].id = S[n].id /\ c.in_flight[j].from = s.in_flight[j].from \cup {n}

\* The packet goes to the block with its id, if that is in flight now.
LEMMA IngestOK ==
  ASSUME sent \in Seq(SentBlock), NEW a, Good(a, sent, setup.resend),
         NEW n \in DOMAIN sent, NEW pid \in 0..(sent[n].last + 1)
  PROVE  /\ Good(ingest(a, n, pid), sent, setup.resend)
         /\ Takes(ingest(a, n, pid), admit(a, sent[n].id, n, pid = 0), sent, setup.resend, n)
  <1>. DEFINE on == setup.resend
              id == sent[n].id
              l == pid = 0
              s == admit(a, id, n, l)
              r == ingest(a, n, pid)
              i == Min(Index(s, id))
              b == s.in_flight[i]
              d == [b EXCEPT !.age = 0]
  <1>1. l \in BOOLEAN
    OBVIOUS
  <1>2. Good(s, sent, on)
    <2>. HIDE DEF l
    <2>. QED  BY <1>1, AdmitOK
  <1>3. r = IF Index(s, id) = {} THEN s
            ELSE IF d.resolved # "no" THEN [s EXCEPT !.in_flight[i] = d]
            ELSE emit([s EXCEPT !.in_flight[i] = Take(d, n, pid)])
    BY DEF ingest
  <1>4. AsmOK(s, sent, on) /\ Front(s) /\ Len(s.in_flight) <= MaxInFlight /\ s.in_flight \in Seq(Block)
    BY <1>2 DEF Good, AsmOK, AsmState
  <1>. HIDE DEF s, r
  <1>5. ASSUME NEW c, AsmOK(c, sent, on), Updated(c, s), r = c \/ r = emit(c), r = c => Front(c),
               \A j \in 1..Len(c.in_flight) : \/ c.in_flight[j].from = s.in_flight[j].from
                                              \/ c.in_flight[j].id = id /\ c.in_flight[j].from = s.in_flight[j].from \cup {n}
        PROVE  /\ Good(r, sent, on)
               /\ Takes(r, s, sent, on, n)
    <2>1. Len(c.in_flight) <= MaxInFlight
      BY <1>4, <1>5 DEF Updated
    <2>2. CASE r = c
      BY <1>5, <2>1, <2>2 DEF Good, Takes
    <2>3. CASE r = emit(c)
      <3>1. AsmOK(emit(c), sent, on) /\ Front(emit(c)) /\ Len(emit(c).in_flight) <= Len(c.in_flight)
        BY <1>5, EmitOK
      <3>2. Len(emit(c).in_flight) \in Nat /\ Len(c.in_flight) \in Nat /\ MaxInFlight \in Nat
        BY <1>5, <3>1, AssemblyAssumption DEF AsmOK, AsmState
      <3>3. Len(emit(c).in_flight) <= MaxInFlight
        BY <2>1, <3>1, <3>2
      <3>4. Good(r, sent, on)
        BY <2>3, <3>1, <3>3 DEF Good
      <3>. QED  BY <1>5, <3>4 DEF Takes
    <2>. QED  BY <1>5, <2>2, <2>3
  <1>6. CASE Index(s, id) = {}
    <2>1. r = s /\ Updated(s, s)
      BY <1>3, <1>6 DEF Updated, SameBooks
    <2>2. /\ Good(r, sent, on)
          /\ Takes(r, s, sent, on, n)
      BY <1>4, <1>5, <2>1
    <2>. QED  BY <2>2 DEF r, s
  <1>7. CASE Index(s, id) # {}
    <2>1. i \in 1..Len(s.in_flight) /\ b.id = id
      BY <1>4, <1>7, IndexIs
    <2>. HIDE DEF i
    <2>2. BlockInv(b, sent, on)
      BY <1>4, <2>1 DEF AsmOK
    <2>3. BlockInv(d, sent, on) /\ d.id = b.id /\ d.resolved = b.resolved /\ d.from = b.from
      <3>. HIDE DEF b
      <3>. QED  BY <2>2, TouchInv
    <2>. HIDE DEF d
    <2>4. CASE d.resolved # "no"
      <3>. DEFINE c == [s EXCEPT !.in_flight[i] = d]
      <3>1. r = c
        BY <1>3, <1>7, <2>4
      <3>2. /\ AsmOK(c, sent, on) /\ Updated(c, s) /\ c.in_flight[i] = d
            /\ \A j \in 1..Len(s.in_flight) : j # i => c.in_flight[j] = s.in_flight[j]
        <4>1. d.id = s.in_flight[i].id
          BY <2>3
        <4>. HIDE DEF b
        <4>. QED  BY <1>4, <2>1, <2>3, <4>1, ReplaceOK
      <3>. HIDE DEF c
      <3>3. Front(c)
        <4>1. c.in_flight \in Seq(Block) /\ Len(c.in_flight) = Len(s.in_flight)
          BY <3>2 DEF AsmOK, AsmState, Updated
        <4>2. c.in_flight # <<>> => s.in_flight # <<>> /\ 1 \in 1..Len(s.in_flight)
          BY <1>4, <4>1
        <4>. QED  BY <1>4, <2>3, <2>4, <3>2, <4>2 DEF Front, b
      <3>4. \A j \in 1..Len(c.in_flight) : c.in_flight[j].from = s.in_flight[j].from
        BY <2>3, <3>2 DEF Updated, b
      <3>5. /\ Good(r, sent, on)
            /\ Takes(r, s, sent, on, n)
        BY <1>5, <3>1, <3>2, <3>3, <3>4
      <3>. QED  BY <3>5 DEF r, s
    <2>5. CASE d.resolved = "no"
      <3>. DEFINE f == Take(d, n, pid)
                  c == [s EXCEPT !.in_flight[i] = f]
      <3>1. r = emit(c)
        BY <1>3, <1>7, <2>5
      <3>2. BlockInv(f, sent, on)
        BY <2>1, <2>3, <2>5, TakeInv
      <3>3. f.id = d.id /\ f.from = d.from \cup {n}
        <4>1. n \in Nat /\ sent[n] \in SentBlock /\ d \in Block /\ ResendOK(d.resend)
          BY <2>3 DEF BlockInv
        <4>. QED  BY <4>1, TakeFields
      <3>. HIDE DEF f
      <3>4. f.id = s.in_flight[i].id
        BY <2>3, <3>3
      <3>5. /\ AsmOK(c, sent, on) /\ Updated(c, s) /\ c.in_flight[i] = f
            /\ \A j \in 1..Len(s.in_flight) : j # i => c.in_flight[j] = s.in_flight[j]
        <4>1. c = [s EXCEPT !.in_flight[i] = f]
          OBVIOUS
        <4>2. AsmOK(s, sent, on) /\ i \in 1..Len(s.in_flight)
          BY <1>4, <2>1
        <4>. HIDE DEF b, c, on, id
        <4>3. AsmOK(c, sent, on) /\ Updated(c, s)
          BY <3>2, <3>4, <4>1, <4>2, ReplaceOK, ZenonT(60)
        <4>4. c.in_flight[i] = f
          BY <3>2, <3>4, <4>1, <4>2, ReplaceOK
        <4>. QED  BY <3>2, <3>4, <4>1, <4>2, <4>3, <4>4, ReplaceOK
      <3>. HIDE DEF c
      <3>6. \A j \in 1..Len(c.in_flight) : \/ c.in_flight[j].from = s.in_flight[j].from
                                           \/ c.in_flight[j].id = id /\ c.in_flight[j].from = s.in_flight[j].from \cup {n}
        BY <2>1, <2>3, <3>3, <3>5 DEF Updated, b
      <3>7. r = c => Front(c)
        BY <3>1, <3>5, EmitOK
      <3>8. /\ Good(r, sent, on)
            /\ Takes(r, s, sent, on, n)
        BY <1>5, <3>1, <3>5, <3>6, <3>7
      <3>. QED  BY <3>8 DEF r, s
    <2>. QED  BY <2>4, <2>5
  <1>. QED  BY <1>6, <1>7

\* Every block in flight takes a new state.
LEMMA MapOK ==
  ASSUME NEW S, NEW on, NEW a, AsmOK(a, S, on), NEW t \in Seq(Block), Len(t) = Len(a.in_flight),
         \A i \in 1..Len(a.in_flight) :
            BlockInv(t[i], S, on) /\ t[i].id = a.in_flight[i].id /\ t[i].from = a.in_flight[i].from,
         NEW c, c = [a EXCEPT !.in_flight = t]
  PROVE  AsmOK(c, S, on) /\ Moved(c, a) /\ SameBooks(c, a) /\ c.in_flight = t
  <1>1. AsmOK(c, S, on) /\ Updated(c, a) /\ c.in_flight = t
    BY UpdateOK
  <1>. QED  BY <1>1 DEF Moved, Updated, SameFrom

\* The same, where none is resolved.
LEMMA MapGood ==
  ASSUME NEW S, NEW on, NEW a, Good(a, S, on), NEW t \in Seq(Block), Len(t) = Len(a.in_flight),
         \A i \in 1..Len(a.in_flight) :
            /\ BlockInv(t[i], S, on) /\ t[i].id = a.in_flight[i].id /\ t[i].from = a.in_flight[i].from
            /\ t[i].resolved = a.in_flight[i].resolved,
         NEW c, c = [a EXCEPT !.in_flight = t]
  PROVE  Good(c, S, on) /\ Moved(c, a) /\ SameBooks(c, a)
  <1>1. AsmOK(a, S, on) /\ Front(a) /\ Len(a.in_flight) <= MaxInFlight
    BY DEF Good
  <1>2. AsmOK(c, S, on) /\ Moved(c, a) /\ SameBooks(c, a) /\ c.in_flight = t
    BY <1>1, MapOK
  <1>3. Front(c)
    <2>1. a.in_flight \in Seq(Block) /\ t \in Seq(Block) /\ Len(t) = Len(a.in_flight)
      BY <1>1, <1>2 DEF AsmOK, AsmState, Moved
    <2>2. t # <<>> => a.in_flight # <<>> /\ 1 \in 1..Len(a.in_flight)
      BY <2>1
    <2>. QED  BY <1>1, <1>2, <2>2 DEF Front
  <1>. QED  BY <1>1, <1>2, <1>3 DEF Good, Moved

\* One block in flight takes a new state, and is not resolved.
LEMMA ReplaceGood ==
  ASSUME NEW S, NEW on, NEW a, Good(a, S, on), NEW i \in 1..Len(a.in_flight), NEW x, BlockInv(x, S, on),
         x.id = a.in_flight[i].id, x.from = a.in_flight[i].from, x.resolved = a.in_flight[i].resolved,
         NEW c, c = [a EXCEPT !.in_flight[i] = x]
  PROVE  Good(c, S, on) /\ Moved(c, a) /\ SameBooks(c, a)
  <1>1. AsmOK(a, S, on) /\ Front(a) /\ Len(a.in_flight) <= MaxInFlight
    BY DEF Good
  <1>2. /\ AsmOK(c, S, on) /\ Updated(c, a) /\ c.in_flight[i] = x
        /\ \A j \in 1..Len(a.in_flight) : j # i => c.in_flight[j] = a.in_flight[j]
    BY <1>1, ReplaceOK
  <1>3. Moved(c, a) /\ SameBooks(c, a)
    BY <1>2 DEF Moved, Updated, SameFrom
  <1>4. Front(c)
    <2>1. a.in_flight \in Seq(Block) /\ c.in_flight \in Seq(Block) /\ Len(c.in_flight) = Len(a.in_flight)
      BY <1>1, <1>2 DEF AsmOK, AsmState, Updated
    <2>2. c.in_flight # <<>> => a.in_flight # <<>> /\ 1 \in 1..Len(a.in_flight)
      BY <2>1
    <2>. QED  BY <1>1, <1>2, <2>2 DEF Front
  <1>. QED  BY <1>1, <1>2, <1>3, <1>4 DEF Good, Updated

LEMMA TouchOK ==
  ASSUME NEW S, NEW on, NEW a, Good(a, S, on), NEW id
  PROVE  Good(touch(a, id), S, on) /\ Moved(touch(a, id), a) /\ SameBooks(touch(a, id), a)
  <1>. DEFINE c == touch(a, id)
              i == Min(Index(a, id))
  <1>1. CASE Index(a, id) = {}
    <2>1. c = a
      BY <1>1 DEF touch
    <2>. QED  BY <2>1 DEF Moved, SameBooks, SameFrom
  <1>2. CASE Index(a, id) # {}
    <2>1. a.in_flight \in Seq(Block) /\ AsmOK(a, S, on)
      BY DEF Good, AsmOK, AsmState
    <2>2. i \in 1..Len(a.in_flight)
      BY <1>2, <2>1, IndexIs
    <2>. DEFINE b == a.in_flight[i]
                x == [b EXCEPT !.age = 0]
    <2>3. c = [a EXCEPT !.in_flight[i] = x]
      BY <1>2 DEF touch
    <2>. HIDE DEF i, c
    <2>4. BlockInv(b, S, on)
      BY <2>1, <2>2 DEF AsmOK
    <2>5. BlockInv(x, S, on) /\ x.id = b.id /\ x.resolved = b.resolved /\ x.from = b.from
      <3>. HIDE DEF b
      <3>. QED  BY <2>4, TouchInv
    <2>6. x.id = a.in_flight[i].id /\ x.resolved = a.in_flight[i].resolved /\ x.from = a.in_flight[i].from
      BY <2>5
    <2>. HIDE DEF x, b
    <2>7. Good(c, S, on) /\ Moved(c, a) /\ SameBooks(c, a)
      BY <2>2, <2>3, <2>5, <2>6, ReplaceGood
    <2>. QED  BY <2>7 DEF c
  <1>. QED  BY <1>1, <1>2

\* Silent blocks are closed, and what is resolved is handed out in its turn.
LEMMA PollOK ==
  ASSUME NEW S, NEW on, NEW a, Good(a, S, on), \A n \in DOMAIN S : S[n] \in SentBlock
  PROVE  /\ Good(poll(a), S, on)
         /\ \E c : AsmOK(c, S, on) /\ Moved(c, a) /\ SameBooks(c, a) /\ poll(a) = emit(c)
  <1>. DEFINE q == a.in_flight
              t == [i \in 1..Len(q) |-> IF TimedOut(a, i) THEN close(q[i]) ELSE q[i]]
              c == [a EXCEPT !.in_flight = t]
  <1>1. AsmOK(a, S, on) /\ Front(a) /\ Len(q) <= MaxInFlight /\ q \in Seq(Block) /\ Len(q) \in Nat /\ MaxInFlight \in Nat
    BY AssemblyAssumption DEF Good, AsmOK, AsmState
  <1>2. poll(a) = emit(c)
    <2>1. DOMAIN q = 1..Len(q)
      BY <1>1
    <2>. QED  BY <2>1 DEF poll
  <1>3. ASSUME NEW i \in 1..Len(q) PROVE BlockInv(t[i], S, on) /\ t[i].id = q[i].id /\ t[i].from = q[i].from
    <2>1. BlockInv(q[i], S, on)
      BY <1>1 DEF AsmOK
    <2>2. CASE TimedOut(a, i)
      <3>1. q[i].resolved = "no"
        BY <2>2 DEF TimedOut
      <3>2. t[i] = close(q[i])
        BY <2>2
      <3>. DEFINE b == q[i]
      <3>3. BlockInv(b, S, on) /\ b.resolved = "no" /\ t[i] = close(b)
        BY <2>1, <3>1, <3>2
      <3>. HIDE DEF t, b
      <3>4. BlockInv(t[i], S, on) /\ t[i].id = b.id /\ t[i].from = b.from
        BY <3>3, CloseInv
      <3>. QED  BY <3>4 DEF b
    <2>3. CASE ~TimedOut(a, i)
      BY <2>1, <2>3
    <2>. QED  BY <2>2, <2>3
  <1>4. t \in Seq(Block) /\ Len(t) = Len(q)
    <2>1. \A i \in 1..Len(q) : t[i] \in Block
      BY <1>3 DEF BlockInv
    <2>2. t = [i \in 1..Len(q) |-> t[i]]
      OBVIOUS
    <2>. HIDE DEF t
    <2>. QED  BY <1>1, <2>1, <2>2, MapFields
  <1>. HIDE DEF t
  <1>5. c = [a EXCEPT !.in_flight = t]
    OBVIOUS
  <1>. HIDE DEF c
  <1>6. AsmOK(c, S, on) /\ Moved(c, a) /\ SameBooks(c, a)
    BY <1>1, <1>3, <1>4, <1>5, MapOK
  <1>7. AsmOK(emit(c), S, on) /\ Front(emit(c)) /\ Len(emit(c).in_flight) <= Len(c.in_flight)
    BY <1>6, EmitOK
  <1>8. Len(emit(c).in_flight) \in Nat
    BY <1>7 DEF AsmOK, AsmState
  <1>9. Len(emit(c).in_flight) <= MaxInFlight
    BY <1>1, <1>6, <1>7, <1>8 DEF Moved
  <1>. QED  BY <1>2, <1>6, <1>7, <1>9 DEF Good

\* A tick, and resend_due, for the whole queue.
Ticked(a) == [a EXCEPT !.in_flight = [i \in DOMAIN @ |-> Aged(@[i])]]
PlannedAll(a) == [a EXCEPT !.in_flight = [i \in DOMAIN @ |-> IF Asking(@[i]) THEN Planned(@[i]) ELSE @[i]]]

LEMMA TickOK ==
  ASSUME NEW S, NEW on, NEW a, Good(a, S, on)
  PROVE  Good(Ticked(a), S, on) /\ Moved(Ticked(a), a) /\ SameBooks(Ticked(a), a)
  <1>. DEFINE q == a.in_flight
              t == [i \in 1..Len(q) |-> Aged(q[i])]
              c == Ticked(a)
  <1>1. AsmOK(a, S, on) /\ q \in Seq(Block) /\ Len(q) \in Nat
    BY DEF Good, AsmOK, AsmState
  <1>2. c = [a EXCEPT !.in_flight = t]
    <2>1. DOMAIN q = 1..Len(q)
      BY <1>1
    <2>. QED  BY <2>1 DEF Ticked
  <1>3. ASSUME NEW i \in 1..Len(q)
        PROVE  BlockInv(t[i], S, on) /\ t[i].id = q[i].id /\ t[i].from = q[i].from /\ t[i].resolved = q[i].resolved
    <2>1. BlockInv(q[i], S, on)
      BY <1>1 DEF AsmOK
    <2>2. t[i] = Aged(q[i])
      OBVIOUS
    <2>. HIDE DEF t
    <2>. QED  BY <2>1, <2>2, AgedInv
  <1>4. t \in Seq(Block) /\ Len(t) = Len(q)
    <2>1. \A i \in 1..Len(q) : t[i] \in Block
      BY <1>3 DEF BlockInv
    <2>2. t = [i \in 1..Len(q) |-> t[i]]
      OBVIOUS
    <2>. HIDE DEF t
    <2>. QED  BY <1>1, <2>1, <2>2, MapFields
  <1>. HIDE DEF t, c
  <1>5. Good(c, S, on) /\ Moved(c, a) /\ SameBooks(c, a)
    BY <1>2, <1>3, <1>4, MapGood
  <1>. QED  BY <1>5 DEF c

LEMMA ResendDueOK ==
  ASSUME NEW S, NEW on, NEW a, Good(a, S, on), \A n \in DOMAIN S : S[n] \in SentBlock
  PROVE  /\ Good(PlannedAll(a), S, on) /\ Moved(PlannedAll(a), a) /\ SameBooks(PlannedAll(a), a)
         /\ \A i \in 1..Len(a.in_flight) :
               IdsOf(Requests(a.in_flight[i].resend, Budget(a.in_flight[i]))) \subseteq Nat
  <1>. DEFINE q == a.in_flight
              t == [i \in 1..Len(q) |-> IF Asking(q[i]) THEN Planned(q[i]) ELSE q[i]]
              c == PlannedAll(a)
  <1>1. AsmOK(a, S, on) /\ q \in Seq(Block) /\ Len(q) \in Nat
    BY DEF Good, AsmOK, AsmState
  <1>2. c = [a EXCEPT !.in_flight = t]
    <2>1. DOMAIN q = 1..Len(q)
      BY <1>1
    <2>. QED  BY <2>1 DEF PlannedAll
  <1>3. ASSUME NEW i \in 1..Len(q) PROVE BlockInv(q[i], S, on) /\ \A n \in q[i].from : S[n].last \in Nat
    <2>1. BlockInv(q[i], S, on)
      BY <1>1 DEF AsmOK
    <2>. QED  BY <2>1 DEF BlockInv, Who, SentBlock
  <1>4. ASSUME NEW i \in 1..Len(q)
        PROVE  BlockInv(t[i], S, on) /\ t[i].id = q[i].id /\ t[i].from = q[i].from /\ t[i].resolved = q[i].resolved
    <2>. DEFINE b == q[i]
    <2>1. BlockInv(b, S, on) /\ \A n \in b.from : S[n].last \in Nat
      BY <1>3
    <2>2. t[i] = IF Asking(b) THEN Planned(b) ELSE b
      OBVIOUS
    <2>. HIDE DEF t, b
    <2>3. /\ BlockInv(Planned(b), S, on) /\ Planned(b).id = b.id /\ Planned(b).resolved = b.resolved
          /\ Planned(b).from = b.from
      BY <2>1, PlannedInv
    <2>4. BlockInv(t[i], S, on) /\ t[i].id = b.id /\ t[i].from = b.from /\ t[i].resolved = b.resolved
      BY <2>1, <2>2, <2>3
    <2>. QED  BY <2>4 DEF b
  <1>5. \A i \in 1..Len(q) : IdsOf(Requests(q[i].resend, Budget(q[i]))) \subseteq Nat
    BY <1>3, PlannedInv
  <1>6. t \in Seq(Block) /\ Len(t) = Len(q)
    <2>1. \A i \in 1..Len(q) : t[i] \in Block
      BY <1>4 DEF BlockInv
    <2>2. t = [i \in 1..Len(q) |-> t[i]]
      OBVIOUS
    <2>. HIDE DEF t
    <2>. QED  BY <1>1, <2>1, <2>2, MapFields
  <1>. HIDE DEF t, c
  <1>7. Good(c, S, on) /\ Moved(c, a) /\ SameBooks(c, a)
    BY <1>2, <1>4, <1>6, MapGood
  <1>. QED  BY <1>5, <1>7 DEF c

LEMMA AnswerOK ==
  ASSUME NEW S, NEW on, NEW a, Good(a, S, on), NEW id, NEW pid \in Nat, NEW answer \in {"Gone", "GoneWithPrevious"}
  PROVE  /\ Good(on_resend_answer(a, id, pid, answer), S, on)
         /\ Moved(on_resend_answer(a, id, pid, answer), a)
         /\ SameBooks(on_resend_answer(a, id, pid, answer), a)
  <1>. DEFINE c == on_resend_answer(a, id, pid, answer)
              open == {i \in Index(a, id) : a.in_flight[i].resolved = "no"}
              i == Min(open)
              b == a.in_flight[i]
              x == Answered(b, pid, answer)
  <1>1. c = IF open = {} \/ ~Asking(b) THEN a ELSE [a EXCEPT !.in_flight[i] = x]
    BY DEF on_resend_answer, Answered
  <1>2. CASE open = {} \/ ~Asking(b)
    <2>1. c = a
      BY <1>1, <1>2
    <2>. QED  BY <2>1 DEF Moved, SameBooks, SameFrom
  <1>3. CASE ~(open = {} \/ ~Asking(b))
    <2>1. a.in_flight \in Seq(Block) /\ AsmOK(a, S, on)
      BY DEF Good, AsmOK, AsmState
    <2>2. open \subseteq 1..Len(a.in_flight) /\ open \subseteq Nat /\ open # {}
      BY <1>3, <2>1 DEF Index
    <2>. HIDE DEF open
    <2>3. i \in 1..Len(a.in_flight)
      BY <2>2, MinIsLeast
    <2>4. c = [a EXCEPT !.in_flight[i] = x]
      BY <1>1, <1>3
    <2>. HIDE DEF i, c
    <2>5. BlockInv(b, S, on)
      BY <2>1, <2>3 DEF AsmOK
    <2>6. BlockInv(x, S, on) /\ x.id = b.id /\ x.resolved = b.resolved /\ x.from = b.from
      <3>. HIDE DEF b
      <3>. QED  BY <2>5, AnsweredInv
    <2>7. x.id = a.in_flight[i].id /\ x.resolved = a.in_flight[i].resolved /\ x.from = a.in_flight[i].from
      BY <2>6
    <2>. HIDE DEF x, b
    <2>8. Good(c, S, on) /\ Moved(c, a) /\ SameBooks(c, a)
      BY <2>3, <2>4, <2>6, <2>7, ReplaceGood
    <2>. QED  BY <2>8 DEF c
  <1>. QED  BY <1>2, <1>3

-----------------------------------------------------------------------------
(* The system. *)

\* Packets on their way, and packets asked for, are of blocks the camera sent.
NetOK(N, S) == \A p \in N : p[1] \in DOMAIN S /\ p[2] \in 0..(S[p[1]].last + 1)
AsksOK(Q, S) == \A p \in Q : p[1] \in DOMAIN S /\ p[2] \in Nat

\* The inductive invariant of the assembler, its camera and its network.
AssemblyInv ==
    /\ setup \in Setup
    /\ sent \in Seq(SentBlock)
    /\ NetOK(net, sent)
    /\ AsksOK(asks, sent)
    /\ Good(asm, sent, setup.resend)

LEMMA EmptyFields ==
  /\ Empty \in AsmState /\ Empty.in_flight = <<>> /\ Empty.out = <<>> /\ Empty.last = None
  /\ Empty.missed = 0 /\ Empty.unsupported = 0 /\ Empty.started = {}
  BY DEF Empty, AsmState

LEMMA AssemblyInit == Init => AssemblyInv
  <1>. SUFFICES ASSUME Init PROVE AssemblyInv
    OBVIOUS
  <1>1. setup \in Setup /\ sent \in Seq(SentBlock) /\ NetOK(net, sent) /\ AsksOK(asks, sent)
    BY AssemblyAssumption DEF Init, NetOK, AsksOK
  <1>2. asm \in AsmState /\ asm.in_flight = <<>> /\ asm.out = <<>>
    BY EmptyFields DEF Init
  <1>3. Len(asm.in_flight) = 0 /\ Len(asm.out) = 0 /\ MaxInFlight \in Nat
    BY <1>2, AssemblyAssumption
  <1>4. Good(asm, sent, setup.resend)
    BY <1>2, <1>3 DEF Good, AsmOK, Front
  <1>. QED  BY <1>1, <1>4 DEF AssemblyInv

\* What the camera sends: a block with an id in 1..Cycle.
LEMMA CameraSends ==
  ASSUME setup \in Setup, sent \in Seq(SentBlock), NEW kind \in setup.kinds, CameraSend(kind)
  PROVE  /\ sent' \in Seq(SentBlock) /\ Len(sent') = Len(sent) + 1
         /\ \A n \in 1..Len(sent) : sent'[n] = sent[n]
         /\ sent'[Len(sent) + 1].last = kind.last /\ kind.last \in Nat
         /\ sent = <<>> \/ setup.restartable \/ sent'[Len(sent) + 1].id = NextId(sent[Len(sent)].id)
  <1>1. PICK id \in IF sent = <<>> THEN setup.starts
                     ELSE {NextId(sent[Len(sent)].id)} \cup (IF setup.restartable THEN {1} ELSE {}) :
             sent' = Append(sent, Numbered(id, kind))
    BY DEF CameraSend
  <1>2. Cycle \in Nat /\ Cycle >= 1 /\ setup.starts \subseteq 1..Cycle /\ kind \in Kind
    BY BlockOrderAssumption DEF Setup
  <1>3. sent # <<>> => sent[Len(sent)].id \in 1..Cycle
    <2>1. sent # <<>> => Len(sent) \in 1..Len(sent)
      OBVIOUS
    <2>2. sent # <<>> => sent[Len(sent)] \in SentBlock
      BY <2>1
    <2>. QED  BY <2>2 DEF SentBlock
  <1>4. id \in 1..Cycle
    BY <1>1, <1>2, <1>3 DEF NextId
  <1>5. Numbered(id, kind) \in SentBlock /\ Numbered(id, kind).last = kind.last /\ Numbered(id, kind).id = id
    BY <1>2, <1>4 DEF Numbered, SentBlock, Kind, Payloads
  <1>6. kind.last \in Nat
    BY <1>2 DEF Kind
  <1>. DEFINE x == Numbered(id, kind)
  <1>7. x \in SentBlock /\ sent' = Append(sent, x) /\ x.last = kind.last /\ x.id = id
    BY <1>1, <1>5
  <1>. HIDE DEF x
  <1>8. /\ sent' \in Seq(SentBlock) /\ Len(sent') = Len(sent) + 1 /\ sent'[Len(sent) + 1] = x
        /\ \A n \in 1..Len(sent) : sent'[n] = sent[n]
    BY <1>7
  <1>9. sent # <<>> /\ ~setup.restartable => id = NextId(sent[Len(sent)].id)
    BY <1>1
  <1>. QED  BY <1>6, <1>7, <1>8, <1>9

\* What is in order stays so when the camera sends more.
LEMMA SentGrows ==
  ASSUME NEW S, NEW T, DOMAIN S \subseteq DOMAIN T, \A n \in DOMAIN S : T[n] = S[n]
  PROVE  /\ \A a, on : Good(a, S, on) => Good(a, T, on)
         /\ \A N : NetOK(N, S) => NetOK(N, T)
         /\ \A Q : AsksOK(Q, S) => AsksOK(Q, T)
  <1>1. ASSUME NEW a, NEW on, Good(a, S, on) PROVE Good(a, T, on)
    <2>1. \A i \in 1..Len(a.in_flight) : BlockInv(a.in_flight[i], T, on)
      BY <1>1, SentGrowsInv DEF Good, AsmOK
    <2>2. \A i \in 1..Len(a.out) : Delivered(a.out[i], T)
      <3>. SUFFICES ASSUME NEW b, Delivered(b, S) PROVE Delivered(b, T)
        BY <1>1 DEF Good, AsmOK
      <3>1. Who(b, T)
        BY DEF Delivered, Who
      <3>2. ASSUME NEW n, b.from = {n} PROVE Truthful(b, T[n])
        <4>1. n \in DOMAIN S /\ T[n] = S[n]
          BY <3>2 DEF Delivered, Who
        <4>. QED  BY <3>2, <4>1 DEF Delivered
      <3>. QED  BY <3>1, <3>2 DEF Delivered
    <2>3. AsmOK(a, T, on)
      BY <1>1, <2>1, <2>2 DEF Good, AsmOK
    <2>. QED  BY <1>1, <2>3 DEF Good
  <1>2. ASSUME NEW N, NetOK(N, S) PROVE NetOK(N, T)
    BY <1>2 DEF NetOK
  <1>3. ASSUME NEW Q, AsksOK(Q, S) PROVE AsksOK(Q, T)
    BY <1>3 DEF AsksOK
  <1>. QED  BY <1>1, <1>2, <1>3

LEMMA CameraSendInv ==
  ASSUME AssemblyInv, NEW kind \in setup.kinds, CameraSend(kind)
  PROVE  AssemblyInv'
  <1>1. /\ sent' \in Seq(SentBlock) /\ Len(sent') = Len(sent) + 1
        /\ \A n \in 1..Len(sent) : sent'[n] = sent[n]
        /\ sent'[Len(sent) + 1].last = kind.last /\ kind.last \in Nat
    BY CameraSends DEF AssemblyInv
  <1>2. sent \in Seq(SentBlock) /\ Len(sent) \in Nat /\ DOMAIN sent = 1..Len(sent) /\ DOMAIN sent' = 1..(Len(sent) + 1)
    BY <1>1 DEF AssemblyInv
  <1>3. DOMAIN sent \subseteq DOMAIN sent' /\ \A n \in DOMAIN sent : sent'[n] = sent[n]
    BY <1>1, <1>2
  <1>4. Good(asm, sent', setup.resend) /\ NetOK(net, sent') /\ AsksOK(asks, sent')
    BY <1>3, SentGrows DEF AssemblyInv
  <1>5. NetOK(net', sent')
    <2>1. \A p \in net' : p \in net \/ p \in {Len(sent) + 1} \X (0..(kind.last + 1))
      BY DEF CameraSend
    <2>2. \A p \in {Len(sent) + 1} \X (0..(kind.last + 1)) : p[1] = Len(sent) + 1 /\ p[2] \in 0..(kind.last + 1)
      OBVIOUS
    <2>. QED  BY <1>1, <1>2, <1>4, <2>1, <2>2 DEF NetOK
  <1>6. setup' = setup /\ asm' = asm /\ asks' = asks
    BY DEF CameraSend
  <1>. QED  BY <1>1, <1>4, <1>5, <1>6 DEF AssemblyInv

\* The steps that leave the camera's blocks alone.
LEMMA AsmStepInv ==
  ASSUME AssemblyInv, setup' = setup, sent' = sent, NetOK(net', sent), AsksOK(asks', sent),
         Good(asm', sent, setup.resend)
  PROVE  AssemblyInv'
  BY DEF AssemblyInv

LEMMA IngestInv ==
  ASSUME AssemblyInv, NEW p \in net, Ingest(p)
  PROVE  AssemblyInv'
  <1>1. p[1] \in DOMAIN sent /\ p[2] \in 0..(sent[p[1]].last + 1)
    BY DEF AssemblyInv, NetOK
  <1>2. Good(ingest(asm, p[1], p[2]), sent, setup.resend)
    BY <1>1, IngestOK DEF AssemblyInv
  <1>3. asm' = ingest(asm, p[1], p[2]) /\ setup' = setup /\ sent' = sent /\ asks' = asks /\ net' \subseteq net
    BY DEF Ingest, Deliver
  <1>. QED  BY <1>2, <1>3, AsmStepInv DEF AssemblyInv, NetOK

LEMMA IngestIgnoredInv ==
  ASSUME AssemblyInv, NEW p \in net, IngestIgnored(p)
  PROVE  AssemblyInv'
  <1>1. Good(touch(asm, sent[p[1]].id), sent, setup.resend)
    BY TouchOK DEF AssemblyInv
  <1>2. asm' = touch(asm, sent[p[1]].id) /\ setup' = setup /\ sent' = sent /\ asks' = asks /\ net' \subseteq net
    BY DEF IngestIgnored
  <1>. QED  BY <1>1, <1>2, AsmStepInv DEF AssemblyInv, NetOK

LEMMA TickInv == ASSUME AssemblyInv, Tick PROVE AssemblyInv'
  <1>1. Good(Ticked(asm), sent, setup.resend)
    BY TickOK DEF AssemblyInv
  <1>2. asm' = Ticked(asm)
    BY Zenon DEF Tick, Ticked
  <1>3. setup' = setup /\ sent' = sent /\ asks' = asks /\ net' = net
    BY DEF Tick
  <1>. QED  BY <1>1, <1>2, <1>3, AsmStepInv DEF AssemblyInv

LEMMA PollInv ==
  ASSUME AssemblyInv, asm' = poll(asm), setup' = setup, sent' = sent, asks' = asks, net' = net
  PROVE  AssemblyInv'
  <1>1. \A n \in DOMAIN sent : sent[n] \in SentBlock
    BY DEF AssemblyInv
  <1>2. Good(poll(asm), sent, setup.resend)
    BY <1>1, PollOK DEF AssemblyInv
  <1>. QED  BY <1>2, AsmStepInv DEF AssemblyInv

\* The camera's newest block with the id of one in flight.
LEMMA NamedIsSent ==
  ASSUME sent \in Seq(SentBlock), NEW b, Who(b, sent)
  PROVE  Named(b.id) \in DOMAIN sent
  <1>. DEFINE T == {n \in DOMAIN sent : sent[n].id = b.id}
  <1>1. Len(sent) \in Nat /\ DOMAIN sent = 1..Len(sent)
    OBVIOUS
  <1>2. T # {} /\ T \subseteq Nat /\ \A y \in T : y <= Len(sent)
    BY <1>1 DEF Who
  <1>. HIDE DEF T
  <1>3. Max(T) \in T
    BY <1>1, <1>2, MaxIsGreatest
  <1>. QED  BY <1>3 DEF Named, T

LEMMA ResendDueInv == ASSUME AssemblyInv, ResendDue PROVE AssemblyInv'
  <1>1. \A n \in DOMAIN sent : sent[n] \in SentBlock
    BY DEF AssemblyInv
  <1>2. /\ Good(PlannedAll(asm), sent, setup.resend)
        /\ \A i \in 1..Len(asm.in_flight) :
               IdsOf(Requests(asm.in_flight[i].resend, Budget(asm.in_flight[i]))) \subseteq Nat
    BY <1>1, ResendDueOK DEF AssemblyInv
  <1>3. asm' = PlannedAll(asm) /\ setup' = setup /\ sent' = sent /\ net' = net
    BY DEF ResendDue, PlannedAll
  <1>4. AsksOK(asks', sent)
    <2>. SUFFICES ASSUME NEW p \in asks', p \notin asks PROVE p[1] \in DOMAIN sent /\ p[2] \in Nat
      BY DEF AsksOK, AssemblyInv
    <2>1. PICK i \in DOMAIN asm.in_flight :
             p \in {Named(asm.in_flight[i].id)} \X IdsOf(Requests(asm.in_flight[i].resend, Budget(asm.in_flight[i])))
      BY DEF ResendDue
    <2>2. i \in 1..Len(asm.in_flight)
      <3>1. asm.in_flight \in Seq(Block)
        BY DEF AssemblyInv, Good, AsmOK, AsmState
      <3>. QED  BY <3>1
    <2>3. Who(asm.in_flight[i], sent)
      BY <2>2 DEF AssemblyInv, Good, AsmOK, BlockInv
    <2>4. Named(asm.in_flight[i].id) \in DOMAIN sent
      BY <2>3, NamedIsSent DEF AssemblyInv
    <2>. QED  BY <1>2, <2>1, <2>2, <2>4
  <1>. QED  BY <1>2, <1>3, <1>4, AsmStepInv DEF AssemblyInv

LEMMA CameraResendInv == ASSUME AssemblyInv, NEW p \in asks, CameraResend(p) PROVE AssemblyInv'
  <1>1. setup' = setup /\ sent' = sent /\ asm' = asm /\ asks' \subseteq asks /\ net' = net \cup {p}
    BY DEF CameraResend
  <1>2. p[1] \in DOMAIN sent /\ p[2] \in Nat /\ p[2] <= sent[p[1]].last + 1
    BY DEF CameraResend, AssemblyInv, AsksOK
  <1>3. sent[p[1]].last \in Nat
    <2>1. sent[p[1]] \in SentBlock
      BY <1>2 DEF AssemblyInv
    <2>. QED  BY <2>1 DEF SentBlock
  <1>4. p[2] \in 0..(sent[p[1]].last + 1)
    BY <1>2, <1>3
  <1>5. NetOK(net', sent) /\ AsksOK(asks', sent)
    BY <1>1, <1>2, <1>4 DEF NetOK, AsksOK, AssemblyInv
  <1>. QED  BY <1>1, <1>5, AsmStepInv DEF AssemblyInv

LEMMA CameraGoneInv ==
  ASSUME AssemblyInv, NEW p \in asks, NEW answer \in {"Gone", "GoneWithPrevious"}, CameraGone(p, answer)
  PROVE  AssemblyInv'
  <1>. DEFINE id == sent[p[1]].id
              a == touch(asm, id)
              c == on_resend_answer(a, id, p[2], answer)
  <1>1. asm' = c /\ setup' = setup /\ sent' = sent /\ asks' \subseteq asks /\ net' = net
    BY DEF CameraGone
  <1>2. p[2] \in Nat
    BY DEF AssemblyInv, AsksOK
  <1>3. Good(a, sent, setup.resend)
    BY TouchOK DEF AssemblyInv
  <1>. HIDE DEF a, id
  <1>4. Good(c, sent, setup.resend)
    BY <1>2, <1>3, AnswerOK
  <1>. HIDE DEF c
  <1>5. AsksOK(asks', sent)
    BY <1>1 DEF AsksOK, AssemblyInv
  <1>. QED  BY <1>1, <1>4, <1>5, AsmStepInv DEF AssemblyInv

LEMMA AssemblyStep == AssemblyInv /\ [Next]_vars => AssemblyInv'
  <1>. SUFFICES ASSUME AssemblyInv, [Next]_vars PROVE AssemblyInv'
    OBVIOUS
  <1>1. CASE \E kind \in setup.kinds : CameraSend(kind)
    BY <1>1, CameraSendInv
  <1>2. CASE \E p \in net : Ingest(p) \/ IngestIgnored(p)
    BY <1>2, IngestInv, IngestIgnoredInv
  <1>3. CASE Tick
    BY <1>3, TickInv
  <1>4. CASE Poll
    BY <1>4, PollInv DEF Poll
  <1>5. CASE ResendDue
    BY <1>5, ResendDueInv
  <1>6. CASE \E p \in asks : CameraResend(p)
    BY <1>6, CameraResendInv
  <1>7. CASE \E p \in asks : \E answer \in {"Gone", "GoneWithPrevious"} : CameraGone(p, answer)
    BY <1>7, CameraGoneInv
  <1>8. CASE UNCHANGED vars
    BY <1>8 DEF vars, AssemblyInv
  <1>. QED  BY <1>1, <1>2, <1>3, <1>4, <1>5, <1>6, <1>7, <1>8 DEF Next

-----------------------------------------------------------------------------

LEMMA LengthsAre ==
  ASSUME NEW b
  PROVE  PayloadPackets \in Lengths(b) /\ \A n \in b.from : sent[n].last \in Lengths(b)
  BY DEF Lengths

\* Memory and traffic are bounded, whatever camera and network do: no more than
\* MAX_IN_FLIGHT blocks assemble at once, their ids are different and the one at the
\* front is open; none asks for more packets than its budget, retries included, nor for
\* one range more often than max_requests lets it (Assembler::ingest, poll, resend_due).
THEOREM AssemblyIsBounded == Spec => []InFlightBounded
  <1>1. AssemblyInv => InFlightBounded
    <2>. SUFFICES ASSUME AssemblyInv PROVE InFlightBounded
      OBVIOUS
    <2>1. AsmOK(asm, sent, setup.resend) /\ Front(asm) /\ Len(asm.in_flight) <= MaxInFlight
      BY DEF AssemblyInv, Good
    <2>2. DOMAIN asm.in_flight = 1..Len(asm.in_flight)
      <3>1. asm.in_flight \in Seq(Block)
        BY <2>1 DEF AsmOK, AsmState
      <3>. QED  BY <3>1
    <2>3. ASSUME NEW i \in DOMAIN asm.in_flight
          PROVE  /\ \E last \in Lengths(asm.in_flight[i]) : asm.in_flight[i].resend.asked <= Allowance(last)
                 /\ \A g \in asm.in_flight[i].resend.gaps : g.requests <= MaxRequests \/ g.requests = 1
      <3>. DEFINE b == asm.in_flight[i]
      <3>1. ResendOK(b.resend) /\ Within(b, sent)
        BY <2>1, <2>2 DEF AsmOK, BlockInv
      <3>. HIDE DEF b
      <3>2. \E last \in Lengths(b) : b.resend.asked <= Allowance(last)
        BY <3>1, LengthsAre DEF Within
      <3>3. \A g \in b.resend.gaps : g.requests <= MaxRequests \/ g.requests = 1
        BY <3>1 DEF ResendOK, GapOK
      <3>. QED  BY <3>2, <3>3 DEF b
    <2>4. \A i, j \in DOMAIN asm.in_flight : asm.in_flight[i].id = asm.in_flight[j].id => i = j
      BY <2>1, <2>2 DEF AsmOK
    <2>. QED  BY <2>1, <2>3, <2>4 DEF InFlightBounded, Front
  <1>. QED  BY <1>1, AssemblyInit, AssemblyStep, PTL DEF Spec

\* A frame delivered as complete is one whole block of the camera, and one given up as
\* incomplete really lacked a packet or held one that could not be placed, in whatever
\* order its packets came, were repeated or overtook each other (Block::on_payload,
\* on_trailer, try_complete, close).
THEOREM FramesTellTheTruth == Spec => []FramesAreTruthful
  <1>1. AssemblyInv => FramesAreTruthful
    <2>. SUFFICES ASSUME AssemblyInv, \A m, n \in DOMAIN sent : sent[m].id = sent[n].id => m = n,
                         NEW i \in DOMAIN asm.out
                  PROVE  CompleteIsWhole(Out(i)) /\ NoFalseLoss(Out(i))
      BY DEF FramesAreTruthful
    <2>. DEFINE b == Out(i)
    <2>1. asm.out \in Seq(Block) /\ AsmOK(asm, sent, setup.resend)
      BY DEF AssemblyInv, Good, AsmOK, AsmState
    <2>2. i \in 1..Len(asm.out)
      BY <2>1
    <2>3. Delivered(b, sent)
      BY <2>1, <2>2 DEF AsmOK, Out
    <2>. HIDE DEF b
    <2>4. PICK n : b.from = {n}
      BY <2>3 DEF Delivered, Who
    <2>5. Origin(b) = n /\ Cardinality(b.from) = 1
      BY <2>4, FS_Singleton DEF Origin
    <2>6. Truthful(b, sent[n])
      BY <2>3, <2>4 DEF Delivered
    <2>7. CompleteIsWhole(b) /\ NoFalseLoss(b)
      BY <2>5, <2>6 DEF Truthful, CompleteIsWhole, NoFalseLoss
    <2>. QED  BY <2>7 DEF b
  <1>. QED  BY <1>1, AssemblyInit, AssemblyStep, PTL DEF Spec

\* Every id below the frontier arrived, is in exactly one gap or was declared gone; so only
\* packets of the block that have not come and still can are asked for, and none is
\* forgotten, however gaps were split and shortened (ResendState's own comment).
THEOREM ResendAsksOnlyForLost == Spec => []AsksOnlyForLost
  <1>1. AssemblyInv => AsksOnlyForLost
    <2>. SUFFICES ASSUME AssemblyInv, NEW i \in DOMAIN asm.in_flight,
                         Asking(asm.in_flight[i]), OneLength(asm.in_flight[i])
                  PROVE  /\ GapsAreRuns(asm.in_flight[i])
                         /\ 0..(asm.in_flight[i].resend.frontier - 1)
                              \subseteq asm.in_flight[i].seen \cup Missing(asm.in_flight[i].resend) \cup asm.in_flight[i].closed
                         /\ Missing(asm.in_flight[i].resend) \cap (asm.in_flight[i].seen \cup asm.in_flight[i].closed) = {}
                         /\ \A n \in asm.in_flight[i].from : Missing(asm.in_flight[i].resend) \subseteq 0..(sent[n].last + 1)
      BY DEF AsksOnlyForLost
    <2>. DEFINE b == asm.in_flight[i]
    <2>1. asm.in_flight \in Seq(Block) /\ AsmOK(asm, sent, setup.resend)
      BY DEF AssemblyInv, Good, AsmOK, AsmState
    <2>2. i \in 1..Len(asm.in_flight)
      BY <2>1
    <2>3. BlockInv(b, sent, setup.resend) /\ Asking(b) /\ OneLength(b)
      BY <2>1, <2>2 DEF AsmOK
    <2>. HIDE DEF b
    <2>4. b \in Block /\ ResendOK(b.resend) /\ Who(b, sent) /\ Within(b, sent)
      BY <2>3 DEF BlockInv
    <2>5. SameLength(b, sent) /\ setup.resend /\ b.leader # "other"
      BY <2>3 DEF OneLength, SameLength, Asking, unsupported
    <2>6. Tracked(b)
      BY <2>3, <2>5 DEF BlockInv
    <2>7. b.resend \in Resend /\ b.resend.frontier \in Nat /\ b.resend.gaps \subseteq Gap
      BY <2>4 DEF ResendOK, Resend
    <2>8. GapsAreRuns(b)
      <3>1. \A g \in b.resend.gaps : g.first <= g.last /\ g.last < b.resend.frontier - 1
        <4>. TAKE g \in b.resend.gaps
        <4>1. GapOK(g, b.resend.frontier) /\ g.last \in Nat
          BY <2>4, <2>7 DEF ResendOK, Gap
        <4>. QED  BY <2>7, <4>1 DEF GapOK
      <3>2. \A g, h \in b.resend.gaps : g # h => g.last + 1 < h.first \/ h.last + 1 < g.first
        BY <2>4 DEF ResendOK, Clear
      <3>. QED  BY <2>6, <3>1, <3>2 DEF GapsAreRuns, Tracked
    <2>9. ASSUME NEW n \in b.from PROVE Missing(b.resend) \subseteq 0..(sent[n].last + 1)
      <3>1. sent[n].last \in Nat
        <4>1. sent[n] \in SentBlock
          BY <2>4 DEF AssemblyInv, Who
        <4>. QED  BY <4>1 DEF SentBlock
      <3>2. b.resend.frontier <= sent[n].last + 2
        <4>1. PICK k \in b.from : b.resend.frontier <= sent[k].last + (IF b.trailer = NoTrailer THEN 1 ELSE 2)
          BY <2>4 DEF Within
        <4>2. sent[k].last = sent[n].last
          BY <2>5 DEF SameLength
        <4>. QED  BY <2>7, <3>1, <4>1, <4>2
      <3>. SUFFICES ASSUME NEW x \in Missing(b.resend) PROVE x \in 0..(sent[n].last + 1)
        OBVIOUS
      <3>3. x \in Nat /\ \E g \in b.resend.gaps : g.first <= x /\ x <= g.last
        BY <2>7, InIds DEF Missing
      <3>4. PICK g \in b.resend.gaps : x <= g.last
        BY <3>3
      <3>5. g.last \in Nat /\ g.last + 1 < b.resend.frontier
        BY <2>4, <2>7 DEF ResendOK, GapOK, Gap
      <3>. QED  BY <2>7, <3>1, <3>2, <3>3, <3>4, <3>5
    <2>. QED  BY <2>6, <2>8, <2>9 DEF Tracked, b
  <1>. QED  BY <1>1, AssemblyInit, AssemblyStep, PTL DEF Spec

\* Each packet asked for is counted once as requested, and then at most once more, as
\* recovered or as unavailable, however its gap was split, retried, shortened or closed in
\* between (the documentation of StreamStats; ResendState::arrived, unavailable, due).
THEOREM EachPacketCountedOnce == Spec => []OutcomeOnce
  <1>1. AssemblyInv => OutcomeOnce
    <2>. SUFFICES ASSUME AssemblyInv, NEW i \in DOMAIN asm.in_flight, OneLength(asm.in_flight[i])
                  PROVE  LET b == asm.in_flight[i]
                         IN  /\ b.recovered.ids \cap b.unavailable.ids = {}
                             /\ b.recovered.ids \cup b.unavailable.ids \subseteq b.requested.ids
                             /\ Requested(b.resend) = (b.requested.ids \cap Missing(b.resend))
                             /\ Requested(b.resend) \cap (b.recovered.ids \cup b.unavailable.ids) = {}
                             /\ \A stat \in {b.requested, b.recovered, b.unavailable} : stat.count = Cardinality(stat.ids)
      BY DEF OutcomeOnce
    <2>. DEFINE b == asm.in_flight[i]
    <2>1. asm.in_flight \in Seq(Block) /\ AsmOK(asm, sent, setup.resend)
      BY DEF AssemblyInv, Good, AsmOK, AsmState
    <2>2. i \in 1..Len(asm.in_flight)
      BY <2>1
    <2>3. BlockInv(b, sent, setup.resend) /\ OneLength(b)
      BY <2>1, <2>2 DEF AsmOK
    <2>. HIDE DEF b
    <2>4. SameLength(b, sent)
      BY <2>3 DEF OneLength, SameLength
    <2>5. Counted(b)
      BY <2>3, <2>4 DEF BlockInv
    <2>6. /\ b.recovered.ids \cap b.unavailable.ids = {}
          /\ b.recovered.ids \cup b.unavailable.ids \subseteq b.requested.ids
          /\ Requested(b.resend) = (b.requested.ids \cap Missing(b.resend))
          /\ Requested(b.resend) \cap (b.recovered.ids \cup b.unavailable.ids) = {}
          /\ \A stat \in {b.requested, b.recovered, b.unavailable} : stat.count = Cardinality(stat.ids)
      BY <2>5 DEF Counted
    <2>. QED  BY <2>6 DEF b
  <1>. QED  BY <1>1, AssemblyInit, AssemblyStep, PTL DEF Spec

-----------------------------------------------------------------------------
(* The order of the blocks, and their number. *)

\* Blocks in the order the camera sent them; every block of s before every one of t; each
\* of one block of the camera, none later than the M-th.
Rising(s) == \A i, j \in 1..Len(s) : i < j => Origin(s[i]) < Origin(s[j])
Below(s, t) == \A i \in 1..Len(s), j \in 1..Len(t) : Origin(s[i]) < Origin(t[j])
IsOne(b, M) == \E n \in 0..M : b.from = {n}
UpTo(s, M) == \A i \in 1..Len(s) : IsOne(s[i], M)

\* What has been handed out, and then what is in flight.
Ordered(D, q, M) == Rising(D) /\ Rising(q) /\ Below(D, q) /\ UpTo(D, M) /\ UpTo(q, M)

\* How many blocks are accounted for: k of them were taken off a.out.
Held(a, k) == k + Len(a.out) + Len(a.in_flight) + a.unsupported

LEMMA OriginIs == ASSUME NEW b, NEW n, b.from = {n} PROVE Origin(b) = n
  BY DEF Origin

LEMMA UpToOrigin ==
  ASSUME NEW s, NEW M \in Nat, UpTo(s, M), NEW i \in 1..Len(s)
  PROVE  Origin(s[i]) \in Nat /\ Origin(s[i]) <= M
  <1>. DEFINE b == s[i]
  <1>1. IsOne(b, M)
    BY DEF UpTo
  <1>. HIDE DEF b
  <1>2. PICK n \in 0..M : b.from = {n}
    BY <1>1 DEF IsOne
  <1>3. Origin(b) = n
    BY <1>2, OriginIs
  <1>4. Origin(b) \in Nat /\ Origin(b) <= M
    BY <1>3
  <1>. QED  BY <1>4 DEF b

LEMMA RisingConcat ==
  ASSUME NEW s \in Seq(Block), NEW t \in Seq(Block)
  PROVE  Rising(s \o t) <=> Rising(s) /\ Rising(t) /\ Below(s, t)
  <1>. DEFINE u == s \o t
  <1>1. /\ u \in Seq(Block) /\ Len(u) = Len(s) + Len(t) /\ Len(s) \in Nat /\ Len(t) \in Nat
        /\ \A i \in 1..Len(s) : i \in 1..Len(u) /\ u[i] = s[i]
        /\ \A i \in 1..Len(t) : Len(s) + i \in 1..Len(u) /\ u[Len(s) + i] = t[i]
        /\ \A i \in 1..Len(u) : \/ i \in 1..Len(s) /\ u[i] = s[i]
                                \/ i - Len(s) \in 1..Len(t) /\ u[i] = t[i - Len(s)]
    BY ConcatFields
  <1>. HIDE DEF u
  <1>2. ASSUME Rising(u) PROVE Rising(s) /\ Rising(t) /\ Below(s, t)
    <2>1. Rising(s)
      BY <1>1, <1>2 DEF Rising
    <2>2. Rising(t)
      <3>. SUFFICES ASSUME NEW i \in 1..Len(t), NEW j \in 1..Len(t), i < j PROVE Origin(t[i]) < Origin(t[j])
        BY DEF Rising
      <3>1. Len(s) + i < Len(s) + j
        BY <1>1
      <3>. QED  BY <1>1, <1>2, <3>1 DEF Rising
    <2>3. Below(s, t)
      <3>. SUFFICES ASSUME NEW i \in 1..Len(s), NEW j \in 1..Len(t) PROVE Origin(s[i]) < Origin(t[j])
        BY DEF Below
      <3>1. i < Len(s) + j
        BY <1>1
      <3>. QED  BY <1>1, <1>2, <3>1 DEF Rising
    <2>. QED  BY <2>1, <2>2, <2>3
  <1>3. ASSUME Rising(s), Rising(t), Below(s, t) PROVE Rising(u)
    <2>. SUFFICES ASSUME NEW i \in 1..Len(u), NEW j \in 1..Len(u), i < j PROVE Origin(u[i]) < Origin(u[j])
      BY DEF Rising
    <2>1. CASE i \in 1..Len(s) /\ j \in 1..Len(s)
      BY <1>1, <1>3, <2>1 DEF Rising
    <2>2. CASE i \in 1..Len(s) /\ j \notin 1..Len(s)
      BY <1>1, <1>3, <2>2 DEF Below
    <2>3. CASE i \notin 1..Len(s)
      <3>1. j \notin 1..Len(s)
        BY <1>1, <2>3
      <3>2. i - Len(s) \in 1..Len(t) /\ j - Len(s) \in 1..Len(t) /\ u[i] = t[i - Len(s)] /\ u[j] = t[j - Len(s)]
        BY <1>1, <2>3, <3>1
      <3>3. i - Len(s) < j - Len(s)
        BY <1>1
      <3>. QED  BY <1>3, <3>2, <3>3 DEF Rising
    <2>. QED  BY <2>1, <2>2, <2>3
  <1>. QED  BY <1>2, <1>3 DEF u

LEMMA BelowConcat ==
  ASSUME NEW s \in Seq(Block), NEW t \in Seq(Block), NEW u \in Seq(Block)
  PROVE  /\ Below(s \o t, u) <=> Below(s, u) /\ Below(t, u)
         /\ Below(u, s \o t) <=> Below(u, s) /\ Below(u, t)
  <1>. DEFINE v == s \o t
  <1>1. /\ \A i \in 1..Len(s) : i \in 1..Len(v) /\ v[i] = s[i]
        /\ \A i \in 1..Len(t) : Len(s) + i \in 1..Len(v) /\ v[Len(s) + i] = t[i]
        /\ \A i \in 1..Len(v) : \/ i \in 1..Len(s) /\ v[i] = s[i]
                                \/ i - Len(s) \in 1..Len(t) /\ v[i] = t[i - Len(s)]
    BY ConcatFields
  <1>. HIDE DEF v
  <1>2. Below(v, u) => Below(s, u) /\ Below(t, u)
    BY <1>1 DEF Below
  <1>3. Below(s, u) /\ Below(t, u) => Below(v, u)
    BY <1>1 DEF Below
  <1>4. Below(u, v) => Below(u, s) /\ Below(u, t)
    BY <1>1 DEF Below
  <1>5. Below(u, s) /\ Below(u, t) => Below(u, v)
    BY <1>1 DEF Below
  <1>. QED  BY <1>2, <1>3, <1>4, <1>5 DEF v

LEMMA UpToConcat ==
  ASSUME NEW s \in Seq(Block), NEW t \in Seq(Block), NEW M
  PROVE  UpTo(s \o t, M) <=> UpTo(s, M) /\ UpTo(t, M)
  <1>. DEFINE v == s \o t
  <1>1. /\ \A i \in 1..Len(s) : i \in 1..Len(v) /\ v[i] = s[i]
        /\ \A i \in 1..Len(t) : Len(s) + i \in 1..Len(v) /\ v[Len(s) + i] = t[i]
        /\ \A i \in 1..Len(v) : \/ i \in 1..Len(s) /\ v[i] = s[i]
                                \/ i - Len(s) \in 1..Len(t) /\ v[i] = t[i - Len(s)]
    BY ConcatFields
  <1>. HIDE DEF v
  <1>2. UpTo(v, M) => UpTo(s, M) /\ UpTo(t, M)
    BY <1>1 DEF UpTo
  <1>3. UpTo(s, M) /\ UpTo(t, M) => UpTo(v, M)
    BY <1>1 DEF UpTo
  <1>. QED  BY <1>2, <1>3 DEF v

\* Blocks that keep their origin keep their place.
LEMMA MovedOrdered ==
  ASSUME NEW a, NEW c, Moved(c, a), NEW D, NEW M, Ordered(D, a.in_flight, M)
  PROVE  Ordered(D, c.in_flight, M)
  <1>1. \A i \in 1..Len(a.in_flight) : Origin(c.in_flight[i]) = Origin(a.in_flight[i])
    BY DEF Moved, SameFrom, Origin
  <1>2. Rising(c.in_flight) /\ Below(D, c.in_flight)
    BY <1>1 DEF Moved, Ordered, Rising, Below
  <1>3. UpTo(c.in_flight, M)
    <2>1. \A x, y : x.from = y.from /\ IsOne(y, M) => IsOne(x, M)
      BY DEF IsOne
    <2>. QED  BY <2>1 DEF Moved, SameFrom, Ordered, UpTo
  <1>. QED  BY <1>2, <1>3 DEF Ordered

LEMMA MovedHeld ==
  ASSUME NEW a, NEW c, Moved(c, a), NEW k
  PROVE  Held(c, k) = Held(a, k)
  BY DEF Moved, Held

\* The first k blocks of the queue leave it: the frames among them follow what was handed out.
LEMMA SplitOrdered ==
  ASSUME NEW D \in Seq(Block), NEW q \in Seq(Block), NEW M, Ordered(D, q, M), NEW k \in 0..Len(q)
  PROVE  Ordered(D \o Frames(q, k), SubSeq(q, k + 1, Len(q)), M)
  <1>. DEFINE F == Frames(q, k)
              R == SubSeq(q, k + 1, Len(q))
  <1>1. F \in Seq(Block) /\ Selected(F, q, k) /\ Len(q) \in Nat
    BY FramesSelect DEF FramesAre
  <1>2. R \in Seq(Block) /\ Len(R) = Len(q) - k /\ \A i \in 1..Len(R) : i + k \in 1..Len(q) /\ R[i] = q[i + k]
    BY SubSeqFields
  <1>. HIDE DEF F, R
  <1>3. Rising(D) /\ Rising(q) /\ Below(D, q) /\ UpTo(D, M) /\ UpTo(q, M)
    BY DEF Ordered
  <1>4. \A j \in 1..k : j \in 1..Len(q)
    BY <1>1
  <1>5. Rising(F)
    BY <1>1, <1>3, <1>4 DEF Rising, Selected
  <1>6. Below(D, F) /\ UpTo(F, M)
    BY <1>1, <1>3, <1>4 DEF Below, UpTo, Selected
  <1>7. Rising(R)
    <2>. SUFFICES ASSUME NEW i \in 1..Len(R), NEW j \in 1..Len(R), i < j PROVE Origin(R[i]) < Origin(R[j])
      BY DEF Rising
    <2>1. i + k < j + k
      BY <1>1
    <2>. QED  BY <1>2, <1>3, <2>1 DEF Rising
  <1>8. Below(D, R) /\ UpTo(R, M)
    BY <1>2, <1>3 DEF Below, UpTo
  <1>9. Below(F, R)
    <2>. SUFFICES ASSUME NEW i \in 1..Len(F), NEW j \in 1..Len(R) PROVE Origin(F[i]) < Origin(R[j])
      BY DEF Below
    <2>1. PICK l \in 1..k : F[i] = q[l]
      BY <1>1 DEF Selected
    <2>2. l < j + k
      BY <1>1
    <2>. QED  BY <1>2, <1>3, <1>4, <2>1, <2>2 DEF Rising
  <1>10. Rising(D \o F) /\ Below(D \o F, R) /\ UpTo(D \o F, M)
    BY <1>1, <1>2, <1>3, <1>5, <1>6, <1>8, <1>9, RisingConcat, BelowConcat, UpToConcat
  <1>11. Ordered(D \o F, R, M)
    BY <1>7, <1>8, <1>10 DEF Ordered
  <1>. QED  BY <1>11 DEF F, R

LEMMA ConcatAssoc ==
  ASSUME NEW s \in Seq(Block), NEW t \in Seq(Block), NEW u \in Seq(Block)
  PROVE  (s \o t) \o u = s \o (t \o u)
  OBVIOUS

LEMMA EmitOrdered ==
  ASSUME NEW a \in AsmState, NEW pre \in Seq(Block), NEW M, Ordered(pre \o a.out, a.in_flight, M)
  PROVE  Ordered(pre \o emit(a).out, emit(a).in_flight, M)
  <1>. DEFINE c == emit(a)
              D == pre \o a.out
  <1>1. a.in_flight \in Seq(Block) /\ a.out \in Seq(Block) /\ D \in Seq(Block)
    BY ConcatFields DEF AsmState
  <1>2. PICK k \in 0..Len(a.in_flight) : Emits(c, a, k)
    BY EmitFields
  <1>3. c.in_flight = SubSeq(a.in_flight, k + 1, Len(a.in_flight)) /\ c.out = a.out \o Frames(a.in_flight, k)
    BY <1>2 DEF Emits
  <1>4. Frames(a.in_flight, k) \in Seq(Block)
    BY <1>1, FramesSelect DEF FramesAre
  <1>5. pre \o c.out = D \o Frames(a.in_flight, k)
    <2>. DEFINE F == Frames(a.in_flight, k)
                o == a.out
    <2>1. F \in Seq(Block) /\ o \in Seq(Block) /\ c.out = o \o F
      BY <1>1, <1>3, <1>4
    <2>. HIDE DEF F, o, c
    <2>2. pre \o (o \o F) = (pre \o o) \o F
      BY <2>1, ConcatAssoc
    <2>. QED  BY <2>1, <2>2 DEF F, o
  <1>. HIDE DEF D
  <1>6. Ordered(D, a.in_flight, M)
    BY DEF D
  <1>. HIDE DEF c
  <1>7. Ordered(D \o Frames(a.in_flight, k), SubSeq(a.in_flight, k + 1, Len(a.in_flight)), M)
    BY <1>1, <1>6, SplitOrdered
  <1>8. Ordered(pre \o c.out, c.in_flight, M)
    BY <1>3, <1>5, <1>7
  <1>. QED  BY <1>8 DEF c

LEMMA EmitHeld ==
  ASSUME NEW a \in AsmState, NEW k \in Nat
  PROVE  Held(emit(a), k) = Held(a, k)
  <1>. DEFINE c == emit(a)
  <1>1. a.in_flight \in Seq(Block) /\ a.out \in Seq(Block) /\ a.unsupported \in Nat
    BY DEF AsmState
  <1>2. PICK n \in 0..Len(a.in_flight) : Emits(c, a, n)
    BY EmitFields
  <1>3. FramesAre(a.in_flight, n)
    BY <1>1, FramesSelect
  <1>. DEFINE F == Frames(a.in_flight, n)
              e == Cardinality(Dropped(a.in_flight, n))
  <1>4. F \in Seq(Block) /\ e \in Nat /\ Len(F) + e = n /\ Len(F) \in Nat
    BY <1>3, FS_CardinalityType DEF FramesAre
  <1>5. /\ c.in_flight = SubSeq(a.in_flight, n + 1, Len(a.in_flight)) /\ c.out = a.out \o F
        /\ c.unsupported = a.unsupported + e
    BY <1>2 DEF Emits
  <1>. HIDE DEF c, F, e
  <1>6. Len(c.in_flight) = Len(a.in_flight) - n
    BY <1>1, <1>5, SubSeqFields
  <1>7. Len(c.out) = Len(a.out) + Len(F)
    BY <1>1, <1>4, <1>5, ConcatFields
  <1>8. Len(a.in_flight) \in Nat /\ Len(a.out) \in Nat
    BY <1>1
  <1>9. Held(c, k) = Held(a, k)
    <2>. DEFINE x == Len(a.out)
                y == Len(a.in_flight)
                z == a.unsupported
                f == Len(F)
    <2>1. x \in Nat /\ y \in Nat /\ z \in Nat /\ f \in Nat /\ n \in Nat /\ f + e = n
      BY <1>1, <1>4, <1>8
    <2>2. Held(c, k) = k + (x + f) + (y - n) + (z + e)
      BY <1>5, <1>6, <1>7 DEF Held
    <2>3. Held(a, k) = k + x + y + z
      BY DEF Held
    <2>. HIDE DEF x, y, z, f
    <2>. QED  BY <1>4, <2>1, <2>2, <2>3
  <1>. QED  BY <1>9 DEF c

\* The newest block goes to the end.
LEMMA AppendOrdered ==
  ASSUME NEW D, NEW q \in Seq(Block), NEW M \in Nat, Ordered(D, q, M), NEW n \in Nat, M < n,
         NEW b \in Block, b.from = {n}
  PROVE  Ordered(D, Append(q, b), n)
  <1>. DEFINE t == Append(q, b)
  <1>1. /\ Len(t) = Len(q) + 1 /\ t[Len(q) + 1] = b /\ Len(q) \in Nat
        /\ \A i \in 1..Len(q) : t[i] = q[i]
        /\ \A i \in 1..Len(t) : i \in 1..Len(q) \/ i = Len(q) + 1
    BY AppendFields
  <1>. HIDE DEF t
  <1>2. Origin(b) = n
    BY OriginIs
  <1>3. \A i \in 1..Len(q) : Origin(q[i]) \in Nat /\ Origin(q[i]) < n
    BY UpToOrigin DEF Ordered
  <1>4. \A i \in 1..Len(D) : Origin(D[i]) \in Nat /\ Origin(D[i]) < n
    BY UpToOrigin DEF Ordered
  <1>5. Rising(t)
    <2>. SUFFICES ASSUME NEW i \in 1..Len(t), NEW j \in 1..Len(t), i < j PROVE Origin(t[i]) < Origin(t[j])
      BY DEF Rising
    <2>1. i \in 1..Len(q)
      BY <1>1
    <2>2. CASE j \in 1..Len(q)
      BY <1>1, <2>1, <2>2 DEF Ordered, Rising
    <2>3. CASE j = Len(q) + 1
      BY <1>1, <1>2, <1>3, <2>1, <2>3
    <2>. QED  BY <1>1, <2>2, <2>3
  <1>6. Below(D, t)
    BY <1>1, <1>2, <1>4 DEF Ordered, Below
  <1>7. UpTo(t, n) /\ UpTo(D, n)
    <2>1. \A x \in 0..M : x \in 0..n
      OBVIOUS
    <2>2. n \in 0..n
      OBVIOUS
    <2>3. \A x : IsOne(x, M) => IsOne(x, n)
      BY <2>1 DEF IsOne
    <2>4. IsOne(b, n)
      BY <2>2 DEF IsOne
    <2>. QED  BY <1>1, <2>3, <2>4 DEF Ordered, UpTo
  <1>8. Ordered(D, t, n)
    BY <1>5, <1>6, <1>7 DEF Ordered
  <1>. QED  BY <1>8 DEF t

-----------------------------------------------------------------------------
(* Which block is the newest, and what its id says of the next packet. *)

\* From the m-th block to the n-th the ids follow each other.
Chain(S, m, n) == \A k \in (m + 1)..n : S[k].id = NextId(S[k - 1].id)
\* A camera that never starts its count again.
Consecutive(S) == Chain(S, 1, Len(S))

\* The newest block started, and how many there are from the first to the newest.
Top(T) == IF T = {} THEN 0 ELSE Max(T)
Span(T) == IF T = {} THEN 0 ELSE Max(T) - Min(T) + 1

\* last_block_id is the id of the newest block started.
Newest(a, S) ==
    /\ a.started \subseteq DOMAIN S
    /\ a.started = {} => a.last = None
    /\ a.started # {} => a.last = S[Max(a.started)].id

LEMMA AfterNext ==
  ASSUME NEW id \in 1..Cycle, NEW j \in Nat, j + 1 <= Cycle - 1
  PROVE  After(id, j + 1) = NextId(After(id, j))
  BY BlockOrderAssumption DEF After, NextId

LEMMA ChainIds ==
  ASSUME NEW S \in Seq(SentBlock), NEW m \in DOMAIN S, NEW n \in DOMAIN S, m <= n, Chain(S, m, n), n - m <= Cycle - 1
  PROVE  S[n].id = After(S[m].id, n - m)
  <1>. DEFINE Bad == {j \in 0..(n - m) : S[m + j].id # After(S[m].id, j)}
  <1>1. m \in Nat /\ n \in Nat /\ Len(S) \in Nat /\ DOMAIN S = 1..Len(S) /\ Cycle \in Nat
    BY BlockOrderAssumption
  <1>2. S[m].id \in 1..Cycle
    <2>1. S[m] \in SentBlock
      OBVIOUS
    <2>. QED  BY <2>1 DEF SentBlock
  <1>3. Bad = {}
    <2>. SUFFICES ASSUME Bad # {} PROVE FALSE
      OBVIOUS
    <2>1. Bad \subseteq Nat
      BY <1>1
    <2>2. PICK j \in Bad : \A y \in Bad : j <= y
      BY <2>1, LeastNat
    <2>3. j \in 0..(n - m) /\ S[m + j].id # After(S[m].id, j)
      BY <2>2
    <2>4. j # 0
      <3>1. m + 0 = m /\ After(S[m].id, 0) = S[m].id
        BY <1>1, <1>2, SMTT(60) DEF After
      <3>. QED  BY <2>3, <3>1
    <2>. DEFINE i == j - 1
    <2>5. i \in 0..(n - m) /\ i \in Nat /\ ~(j <= i) /\ i + 1 = j
      BY <1>1, <2>3, <2>4
    <2>6. i \notin Bad
      BY <2>2, <2>5
    <2>7. S[m + i].id = After(S[m].id, i)
      BY <2>5, <2>6
    <2>8. m + j \in (m + 1)..n /\ (m + j) - 1 = m + i /\ i + 1 <= Cycle - 1
      BY <1>1, <2>3, <2>4
    <2>. HIDE DEF i, Bad
    <2>9. S[m + j].id = NextId(S[m + i].id)
      BY <2>8 DEF Chain
    <2>10. After(S[m].id, i + 1) = NextId(After(S[m].id, i))
      <3>. DEFINE x == S[m].id
      <3>1. x \in 1..Cycle
        BY <1>2
      <3>. HIDE DEF x
      <3>2. After(x, i + 1) = NextId(After(x, i))
        BY <2>5, <2>8, <3>1, AfterNext
      <3>. QED  BY <3>2 DEF x
    <2>. QED  BY <2>3, <2>5, <2>7, <2>9, <2>10
  <1>4. n - m \in 0..(n - m) /\ m + (n - m) = n
    BY <1>1
  <1>5. n - m \notin Bad
    BY <1>3
  <1>. QED  BY <1>4, <1>5

LEMMA ConsecutiveIds ==
  ASSUME NEW S \in Seq(SentBlock), Consecutive(S), NEW m \in DOMAIN S, NEW n \in DOMAIN S, m <= n
  PROVE  Chain(S, m, n)
  <1>1. \A k \in (m + 1)..n : k \in 2..Len(S)
    OBVIOUS
  <1>2. \A k \in 2..Len(S) : S[k].id = NextId(S[k - 1].id)
    BY DEF Consecutive, Chain
  <1>. QED  BY <1>1, <1>2 DEF Chain

LEMMA StartedTop ==
  ASSUME NEW L \in Nat, NEW T, T \subseteq 1..L, T # {}
  PROVE  /\ Max(T) \in T /\ \A y \in T : y <= Max(T)
         /\ Min(T) \in T /\ \A y \in T : Min(T) <= y
         /\ Max(T) \in 1..L /\ Min(T) \in 1..L
  <1>1. T \subseteq Nat /\ \A y \in T : y <= L
    OBVIOUS
  <1>2. Max(T) \in T /\ \A y \in T : y <= Max(T)
    BY <1>1, MaxIsGreatest
  <1>3. Min(T) \in T /\ \A y \in T : Min(T) <= y
    BY <1>1, MinIsLeast
  <1>. QED  BY <1>2, <1>3

LEMMA TopAdd ==
  ASSUME NEW L \in Nat, NEW T, T \subseteq 1..L, NEW n \in 1..L, Top(T) <= n
  PROVE  Max(T \cup {n}) = n /\ Top(T \cup {n}) = n
  <1>. DEFINE U == T \cup {n}
  <1>1. U # {} /\ U \subseteq 1..L /\ n \in U
    OBVIOUS
  <1>2. \A y \in U : y <= n
    <2>1. \A y \in T : y <= n
      <3>. SUFFICES ASSUME NEW y \in T PROVE y <= n
        OBVIOUS
      <3>1. T # {}
        OBVIOUS
      <3>2. y <= Max(T) /\ Max(T) \in 1..L /\ Max(T) <= n
        BY <3>1, StartedTop DEF Top
      <3>. QED  BY <3>2
    <2>. QED  BY <2>1
  <1>. HIDE DEF U
  <1>3. Max(U) \in U /\ n <= Max(U) /\ Max(U) \in 1..L
    BY <1>1, StartedTop
  <1>4. Max(U) = n
    BY <1>2, <1>3
  <1>. QED  BY <1>1, <1>4 DEF Top, U

LEMMA SpanAdd ==
  ASSUME NEW L \in Nat, NEW T, T \subseteq 1..L, NEW n \in 1..L, Top(T) < n
  PROVE  Span(T \cup {n}) = IF T = {} THEN 1 ELSE Span(T) + (n - Top(T))
  <1>. DEFINE U == T \cup {n}
  <1>1. U # {} /\ U \subseteq 1..L /\ n \in U
    OBVIOUS
  <1>2. Top(T) \in Nat
    <2>1. T # {} => Max(T) \in 1..L
      BY StartedTop
    <2>. QED  BY <2>1 DEF Top
  <1>3. Max(U) = n
    <2>1. Top(T) <= n
      BY <1>2
    <2>. QED  BY <2>1, TopAdd
  <1>. HIDE DEF U
  <1>4. Min(U) \in U /\ Min(U) \in 1..L /\ \A y \in U : Min(U) <= y
    BY <1>1, StartedTop
  <1>5. CASE T = {}
    <2>1. Min(U) = n
      BY <1>4, <1>5 DEF U
    <2>. QED  BY <1>1, <1>3, <1>5, <2>1 DEF Span, U
  <1>6. CASE T # {}
    <2>1. Min(T) \in T /\ Max(T) \in 1..L /\ Min(T) \in 1..L /\ \A y \in T : Min(T) <= y /\ y <= Max(T)
      BY <1>6, StartedTop
    <2>2. Top(T) = Max(T) /\ Span(T) = Max(T) - Min(T) + 1
      BY <1>6 DEF Top, Span
    <2>3. Min(T) < n
      BY <2>1, <2>2
    <2>4. Min(T) \in U
      BY <2>1 DEF U
    <2>5. Min(U) <= Min(T)
      BY <1>4, <2>4
    <2>6. Min(U) \in T
      BY <1>4, <2>1, <2>3, <2>5 DEF U
    <2>7. Min(U) = Min(T)
      BY <1>4, <2>1, <2>5, <2>6
    <2>8. Span(U) = n - Min(T) + 1
      BY <1>1, <1>3, <2>7 DEF Span
    <2>9. Span(U) = Span(T) + (n - Top(T))
      BY <2>1, <2>2, <2>8
    <2>. QED  BY <1>6, <2>9 DEF U
  <1>. QED  BY <1>5, <1>6

\* What classify says of a block that the ids tell apart from the newest one started.
LEMMA VerdictOfNew ==
  ASSUME NEW S \in Seq(SentBlock), NEW m \in DOMAIN S, NEW n \in DOMAIN S, m < n, n - m <= Cycle \div 2,
         Chain(S, m, n), NEW leader \in BOOLEAN, ~(leader /\ S[n].id = 1 /\ n - m # 1)
  PROVE  classify(S[m].id, S[n].id, FALSE, leader) = [order |-> "Next", missed |-> (n - m) - 1]
  <1>. DEFINE j == n - m
              x == S[m].id
              y == S[n].id
  <1>1. m \in Nat /\ n \in Nat /\ Cycle \in Nat /\ Cycle \div 2 \in Nat /\ 2 * (Cycle \div 2) <= Cycle
    BY BlockOrderAssumption, Half
  <1>2. j \in 1..(Cycle \div 2) /\ j <= Cycle - 1
    BY <1>1
  <1>3. x \in 1..Cycle
    <2>1. S[m] \in SentBlock
      OBVIOUS
    <2>. QED  BY <2>1 DEF SentBlock
  <1>4. y = After(x, j)
    BY <1>2, ChainIds
  <1>5. ~(leader /\ y = 1 /\ j # 1)
    OBVIOUS
  <1>. HIDE DEF j, x, y
  <1>6. classify(x, After(x, j), FALSE, leader) = [order |-> "Next", missed |-> j - 1]
    BY <1>2, <1>3, <1>4, <1>5, NewerIsCounted
  <1>. QED  BY <1>4, <1>6 DEF j, x, y

LEMMA VerdictOfOld ==
  ASSUME NEW S \in Seq(SentBlock), NEW m \in DOMAIN S, NEW n \in DOMAIN S, n <= m, m - n <= LateWindow,
         Chain(S, n, m), NEW leader \in BOOLEAN, ~(leader /\ S[n].id = 1 /\ m - n # 0)
  PROVE  classify(S[m].id, S[n].id, FALSE, leader) = [order |-> "Late", missed |-> 0]
  <1>. DEFINE j == m - n
              x == S[m].id
              y == S[n].id
  <1>1. m \in Nat /\ n \in Nat /\ Cycle \in Nat /\ LateWindow \in Nat /\ 2 * LateWindow < Cycle
    BY BlockOrderAssumption
  <1>2. j \in 0..LateWindow /\ j <= Cycle - 1
    BY <1>1
  <1>3. y \in 1..Cycle
    <2>1. S[n] \in SentBlock
      OBVIOUS
    <2>. QED  BY <2>1 DEF SentBlock
  <1>4. x = After(y, j)
    BY <1>2, ChainIds
  <1>5. ~(leader /\ y = 1 /\ j # 0)
    OBVIOUS
  <1>. HIDE DEF j, x, y
  <1>6. classify(After(y, j), y, FALSE, leader) = [order |-> "Late", missed |-> 0]
    BY <1>2, <1>3, <1>5, OlderIsLate
  <1>. QED  BY <1>4, <1>6 DEF j, x, y

\* What has left and what is in flight is in order, and all of it is accounted for.
Books(a, pre, k) ==
    /\ Ordered(pre \o a.out, a.in_flight, Top(a.started))
    /\ Held(a, k) + a.missed = Span(a.started)

LEMMA MovedBooks ==
  ASSUME NEW a, NEW c, Moved(c, a), SameBooks(c, a), NEW pre, NEW k, Books(a, pre, k)
  PROVE  Books(c, pre, k)
  <1>1. c.out = a.out /\ c.started = a.started /\ c.missed = a.missed
    BY DEF Moved, SameBooks
  <1>. DEFINE D == pre \o a.out
              M == Top(a.started)
  <1>2. Ordered(D, a.in_flight, M)
    BY DEF Books
  <1>. HIDE DEF D, M
  <1>3. Ordered(D, c.in_flight, M)
    BY <1>2, MovedOrdered
  <1>4. Held(c, k) = Held(a, k)
    BY MovedHeld
  <1>. QED  BY <1>1, <1>3, <1>4 DEF Books, D, M

LEMMA EmitBooks ==
  ASSUME NEW a \in AsmState, NEW pre \in Seq(Block), NEW k \in Nat, Books(a, pre, k)
  PROVE  Books(emit(a), pre, k)
  <1>1. SameBooks(emit(a), a)
    BY EmitFields DEF Emits
  <1>2. Ordered(pre \o emit(a).out, emit(a).in_flight, Top(a.started))
    BY EmitOrdered DEF Books
  <1>3. Held(emit(a), k) = Held(a, k)
    BY EmitHeld
  <1>. QED  BY <1>1, <1>2, <1>3 DEF Books, SameBooks

LEMMA MovedNewest ==
  ASSUME NEW a, NEW c, SameBooks(c, a), NEW S, Newest(a, S)
  PROVE  Newest(c, S)
  BY DEF SameBooks, Newest

\* A packet whose block is not in flight, and that is not late, is of a new block.
LEMMA FreshVerdict ==
  ASSUME AssemblyInv, Timely, Newest(asm, sent), ~setup.restartable => Consecutive(sent),
         NEW p \in net, ~Misleading(p), NEW leader \in BOOLEAN, leader => p[2] = 0,
         Index(asm, sent[p[1]].id) = {}, classify(asm.last, sent[p[1]].id, FALSE, leader).order # "Late"
  PROVE  /\ Top(asm.started) <= p[1]
         /\ ~setup.restartable =>
               /\ Top(asm.started) < p[1]
               /\ classify(asm.last, sent[p[1]].id, FALSE, leader).missed =
                     IF asm.started = {} THEN 0 ELSE (p[1] - Top(asm.started)) - 1
  <1>. DEFINE n == p[1]
              M == Max(asm.started)
              v == classify(asm.last, sent[n].id, FALSE, leader)
  <1>1. sent \in Seq(SentBlock) /\ Len(sent) \in Nat /\ DOMAIN sent = 1..Len(sent) /\ n \in DOMAIN sent /\ n \in Nat
    <2>1. sent \in Seq(SentBlock) /\ n \in DOMAIN sent
      BY DEF AssemblyInv, NetOK
    <2>. QED  BY <2>1
  <1>2. CASE asm.started = {}
    <2>1. asm.last = None
      BY <1>2 DEF Newest
    <2>2. v = [order |-> "Unordered", missed |-> 0]
      BY <2>1 DEF classify
    <2>3. Top(asm.started) = 0 /\ 0 < n
      BY <1>1, <1>2 DEF Top
    <2>4. v.missed = 0
      <3>. HIDE DEF v
      <3>. QED  BY <2>2
    <2>. HIDE DEF v
    <2>5. /\ Top(asm.started) <= n /\ Top(asm.started) < n
          /\ v.missed = IF asm.started = {} THEN 0 ELSE (n - Top(asm.started)) - 1
      BY <1>1, <1>2, <2>3, <2>4
    <2>. QED  BY Zenon, <2>5 DEF v
  <1>3. CASE asm.started # {}
    <2>1. asm.started \subseteq 1..Len(sent)
      BY <1>1 DEF Newest
    <2>2. M \in 1..Len(sent) /\ Top(asm.started) = M /\ asm.last = sent[M].id
      BY <1>1, <1>3, <2>1, StartedTop DEF Newest, Top
    <2>3. /\ n - M <= Cycle \div 2
          /\ setup.restartable => n - M >= 0
          /\ ~setup.restartable =>
                /\ n - M >= -LateWindow
                /\ p[2] = 0 /\ sent[n].id = 1 =>
                      n - M \in {0, 1} \/ \E i \in DOMAIN asm.in_flight : n \in asm.in_flight[i].from
      BY <1>3 DEF Timely, Misleading
    <2>4. \A i \in DOMAIN asm.in_flight : n \notin asm.in_flight[i].from
      <3>. SUFFICES ASSUME NEW i \in DOMAIN asm.in_flight, n \in asm.in_flight[i].from PROVE FALSE
        OBVIOUS
      <3>1. asm.in_flight \in Seq(Block) /\ AsmOK(asm, sent, setup.resend)
        BY DEF AssemblyInv, Good, AsmOK, AsmState
      <3>2. i \in 1..Len(asm.in_flight)
        BY <3>1
      <3>3. Who(asm.in_flight[i], sent)
        BY <3>1, <3>2 DEF AsmOK, BlockInv
      <3>4. asm.in_flight[i].id = sent[n].id
        BY <3>3 DEF Who
      <3>. QED  BY <3>2, <3>4 DEF Index
    <2>. HIDE DEF M, n
    <2>5. CASE setup.restartable
      BY <1>1, <2>2, <2>3, <2>5 DEF n
    <2>6. CASE ~setup.restartable
      <3>1. leader /\ sent[n].id = 1 => n - M \in {0, 1}
        BY <2>3, <2>4, <2>6
      <3>2. Consecutive(sent)
        BY <2>6
      <3>3. M \in DOMAIN sent /\ M \in Nat
        BY <1>1, <2>2
      <3>4. CASE n <= M
        <4>1. M - n <= LateWindow /\ ~(leader /\ sent[n].id = 1 /\ M - n # 0)
          BY <1>1, <2>3, <2>6, <3>1, <3>3, <3>4, BlockOrderAssumption
        <4>2. Chain(sent, n, M)
          BY <1>1, <3>2, <3>3, <3>4, ConsecutiveIds
        <4>3. classify(sent[M].id, sent[n].id, FALSE, leader) = [order |-> "Late", missed |-> 0]
          BY <1>1, <3>3, <3>4, <4>1, <4>2, VerdictOfOld
        <4>4. v = [order |-> "Late", missed |-> 0]
          BY <2>2, <4>3
        <4>. HIDE DEF v
        <4>5. v.order = "Late"
          BY <4>4
        <4>. QED  BY Zenon, <4>5 DEF n, v
      <3>5. CASE ~(n <= M)
        <4>1. M < n /\ ~(leader /\ sent[n].id = 1 /\ n - M # 1)
          BY <1>1, <3>1, <3>3, <3>5
        <4>2. Chain(sent, M, n)
          <5>1. M <= n /\ M \in DOMAIN sent /\ n \in DOMAIN sent
            BY <1>1, <3>3, <4>1
          <5>2. sent \in Seq(SentBlock)
            BY <1>1
          <5>. QED  BY <3>2, <5>1, <5>2, ConsecutiveIds
        <4>3. classify(sent[M].id, sent[n].id, FALSE, leader) = [order |-> "Next", missed |-> (n - M) - 1]
          BY <1>1, <2>3, <3>3, <4>1, <4>2, VerdictOfNew
        <4>4. v = [order |-> "Next", missed |-> (n - M) - 1]
          BY <2>2, <4>3
        <4>. HIDE DEF v
        <4>5. v.missed = (n - M) - 1
          BY <4>4
        <4>6. /\ Top(asm.started) <= n /\ Top(asm.started) < n
              /\ v.missed = IF asm.started = {} THEN 0 ELSE (n - Top(asm.started)) - 1
          BY <1>1, <1>3, <2>2, <3>3, <4>1, <4>5
        <4>. QED  BY Zenon, <4>6 DEF n, v
      <3>. QED  BY <3>4, <3>5
    <2>. QED  BY <2>5, <2>6
  <1>. QED  BY <1>2, <1>3

\* The block of the packet p on its way.
LEMMA PacketBlock ==
  ASSUME AssemblyInv, NEW p \in net
  PROVE  /\ p[1] \in DOMAIN sent /\ p[2] \in 0..(sent[p[1]].last + 1) /\ sent \in Seq(SentBlock)
         /\ Len(sent) \in Nat /\ DOMAIN sent = 1..Len(sent) /\ p[1] \in Nat
         /\ sent[p[1]].id \in 1..Cycle
  <1>1. p[1] \in DOMAIN sent /\ p[2] \in 0..(sent[p[1]].last + 1) /\ sent \in Seq(SentBlock)
    BY DEF AssemblyInv, NetOK
  <1>2. Len(sent) \in Nat /\ DOMAIN sent = 1..Len(sent) /\ p[1] \in Nat /\ sent[p[1]] \in SentBlock
    BY <1>1
  <1>. QED  BY <1>1, <1>2 DEF SentBlock

\* A packet that starts its block.
LEMMA StartsFacts ==
  ASSUME AssemblyInv, NEW p \in net, Index(asm, sent[p[1]].id) = {}, NEW v, v.missed \in Nat,
         NEW s, s = StartBlock(asm, sent[p[1]].id, p[1], v)
  PROVE  /\ AsmOK(s, sent, setup.resend)
         /\ s.last = sent[p[1]].id /\ s.missed = asm.missed + v.missed /\ s.started = asm.started \cup {p[1]}
         /\ Continues(s, asm, sent, setup.resend, sent[p[1]].id, p[1])
  <1>. DEFINE n == p[1]
              id == sent[n].id
  <1>1. n \in DOMAIN sent /\ sent \in Seq(SentBlock)
    BY PacketBlock
  <1>2. AsmOK(asm, sent, setup.resend) /\ Front(asm) /\ Len(asm.in_flight) <= MaxInFlight
    BY DEF AssemblyInv, Good
  <1>3. Index(asm, id) = {} /\ id = sent[n].id /\ s = StartBlock(asm, id, n, v)
    OBVIOUS
  <1>. HIDE DEF n, id
  <1>4. /\ AsmOK(s, sent, setup.resend)
        /\ s.last = id /\ s.missed = asm.missed + v.missed /\ s.started = asm.started \cup {n}
    BY <1>1, <1>2, <1>3, StartOK
  <1>5. Continues(s, asm, sent, setup.resend, id, n)
    BY <1>1, <1>2, <1>3, StartOK
  <1>. QED  BY <1>4, <1>5 DEF n, id

\* s is asm with the new block of packet p, later than all others and with the ids
\* between them counted as missed.
Opens(s, p) ==
    /\ Index(asm, sent[p[1]].id) = {} /\ Top(asm.started) <= p[1]
    /\ \E v : /\ v.missed \in Nat /\ s = StartBlock(asm, sent[p[1]].id, p[1], v)
              /\ ~setup.restartable =>
                    /\ Top(asm.started) < p[1]
                    /\ v.missed = IF asm.started = {} THEN 0 ELSE (p[1] - Top(asm.started)) - 1

\* admit, in the terms that the order and the count need.
LEMMA AdmitCases ==
  ASSUME AssemblyInv, Timely, Newest(asm, sent), ~setup.restartable => Consecutive(sent),
         NEW p \in net, ~Misleading(p), NEW leader \in BOOLEAN, leader => p[2] = 0,
         NEW s, s = admit(asm, sent[p[1]].id, p[1], leader)
  PROVE  s = asm \/ Opens(s, p)
  <1>. DEFINE n == p[1]
              id == sent[n].id
              v == classify(asm.last, id, FALSE, leader)
  <1>1. n \in DOMAIN sent /\ sent \in Seq(SentBlock) /\ id \in 1..Cycle
    BY PacketBlock
  <1>2. asm.last \in (1..Cycle) \cup {None}
    BY DEF AssemblyInv, Good, AsmOK, AsmState
  <1>3. v.missed \in Nat
    BY Zenon, <1>1, <1>2, MissedIsNat
  <1>4. s = IF Index(asm, id) # {} \/ v.order = "Late" THEN asm ELSE StartBlock(asm, id, n, v)
    BY Zenon DEF admit
  <1>5. CASE Index(asm, id) # {} \/ v.order = "Late"
    <2>1. s = asm
      BY Zenon, <1>4, <1>5
    <2>. QED  BY Zenon, <1>5, <2>1
  <1>6. CASE ~(Index(asm, id) # {} \/ v.order = "Late")
    <2>1. s = StartBlock(asm, id, n, v) /\ Index(asm, id) = {} /\ v.order # "Late"
      BY Zenon, <1>4, <1>6
    <2>2. Top(asm.started) <= n /\ (~setup.restartable => Top(asm.started) < n /\
              v.missed = IF asm.started = {} THEN 0 ELSE (n - Top(asm.started)) - 1)
      BY Zenon, <2>1, FreshVerdict
    <2>. QED  BY Zenon, <1>3, <2>1, <2>2 DEF Opens
  <1>. QED  BY <1>5, <1>6

\* last_block_id stays the id of the newest block started.
LEMMA AdmitNewest ==
  ASSUME AssemblyInv, Timely, Newest(asm, sent), ~setup.restartable => Consecutive(sent),
         NEW p \in net, ~Misleading(p), NEW leader \in BOOLEAN, leader => p[2] = 0,
         NEW s, s = admit(asm, sent[p[1]].id, p[1], leader)
  PROVE  Newest(s, sent)
  <1>1. CASE s = asm
    BY <1>1
  <1>2. CASE Opens(s, p)
    <2>1. PICK v : v.missed \in Nat /\ s = StartBlock(asm, sent[p[1]].id, p[1], v)
      BY <1>2 DEF Opens
    <2>7. Index(asm, sent[p[1]].id) = {} /\ Top(asm.started) <= p[1]
      BY <1>2 DEF Opens
    <2>2. s.last = sent[p[1]].id /\ s.started = asm.started \cup {p[1]}
      BY <2>1, <2>7, StartsFacts
    <2>3. asm.started \subseteq 1..Len(sent) /\ Len(sent) \in Nat /\ p[1] \in 1..Len(sent) /\ DOMAIN sent = 1..Len(sent)
      BY PacketBlock DEF Newest
    <2>. DEFINE n == p[1]
                T == asm.started
    <2>4. T \subseteq 1..Len(sent) /\ n \in 1..Len(sent) /\ Top(T) <= n
      BY <2>3, <2>7
    <2>. HIDE DEF n, T
    <2>5. Max(T \cup {n}) = n
      BY <2>3, <2>4, TopAdd
    <2>6. s.last = sent[n].id /\ s.started = T \cup {n}
      BY <2>2 DEF n, T
    <2>. QED  BY <2>3, <2>4, <2>5, <2>6 DEF Newest
  <1>. QED  BY <1>1, <1>2, AdmitCases

\* A started block keeps the order, and the ids skipped keep the count.
LEMMA AdmitBooks ==
  ASSUME AssemblyInv, Timely, Newest(asm, sent), ~setup.restartable => Consecutive(sent), ~setup.restartable,
         NEW p \in net, ~Misleading(p), NEW leader \in BOOLEAN, leader => p[2] = 0,
         NEW s, s = admit(asm, sent[p[1]].id, p[1], leader),
         NEW pre \in Seq(Block), NEW k \in Nat, Books(asm, pre, k)
  PROVE  /\ Books(s, pre, k)
         /\ \/ s = asm
            \/ \E j \in 1..Len(s.in_flight) : s.in_flight[j].id = sent[p[1]].id /\ s.in_flight[j].from = {p[1]}
  <1>1. CASE s = asm
    BY <1>1
  <1>2. CASE Opens(s, p)
    <2>. DEFINE n == p[1]
                id == sent[n].id
                T == asm.started
                L == Len(sent)
                x == NewBlock(id, n)
    <2>1. PICK v : /\ v.missed \in Nat /\ s = StartBlock(asm, id, n, v) /\ Top(T) < n
                   /\ v.missed = IF T = {} THEN 0 ELSE (n - Top(T)) - 1
      BY <1>2 DEF Opens
    <2>19. Index(asm, sent[p[1]].id) = {} /\ v.missed \in Nat /\ s = StartBlock(asm, sent[p[1]].id, p[1], v)
      BY <1>2, <2>1 DEF Opens
    <2>2. s.missed = asm.missed + v.missed /\ s.started = T \cup {n}
      BY <2>19, StartsFacts
    <2>3. PICK c, room : /\ AsmOK(c, sent, setup.resend) /\ Moved(c, asm) /\ (room = c \/ room = emit(c))
                         /\ room \in AsmState
                         /\ s.in_flight = Append(room.in_flight, x)
                         /\ s.out = room.out
                         /\ s.unsupported = room.unsupported
      <3>1. Continues(s, asm, sent, setup.resend, id, n)
        BY <2>19, StartsFacts
      <3>. HIDE DEF id, n, x
      <3>2. \E c, room : /\ AsmOK(c, sent, setup.resend) /\ Moved(c, asm) /\ (room = c \/ room = emit(c)) /\ room \in AsmState
                         /\ s.in_flight = Append(room.in_flight, x)
                         /\ s.out = room.out /\ s.unsupported = room.unsupported
        BY Zenon, <3>1 DEF Continues, x
      <3>. QED  BY Zenon, <3>2
    <2>4. T \subseteq 1..L /\ n \in 1..L /\ L \in Nat /\ n \in Nat /\ n \in DOMAIN sent /\ sent \in Seq(SentBlock)
      BY PacketBlock DEF Newest
    <2>5. asm \in AsmState /\ asm.missed \in Nat /\ asm.out \in Seq(Block) /\ asm.in_flight \in Seq(Block) /\ asm.unsupported \in Nat
      BY DEF AssemblyInv, Good, AsmOK, AsmState
    <2>6. x \in Block /\ x.from = {n} /\ x.id = id
      <3>1. BlockInv(x, sent, setup.resend)
        BY <2>4, NewBlockInv
      <3>. QED  BY <3>1, NewBlockFields DEF BlockInv
    <2>. HIDE DEF n, id, T, L, x
    <2>7. Ordered(pre \o asm.out, asm.in_flight, Top(T)) /\ Held(asm, k) + asm.missed = Span(T)
      BY DEF Books, T
    <2>8. Top(T) \in Nat
      <3>1. T # {} => Max(T) \in 1..L
        BY <2>4, StartedTop
      <3>. QED  BY <3>1 DEF Top
    <2>9. Ordered(pre \o c.out, c.in_flight, Top(T)) /\ Held(c, k) = Held(asm, k) /\ c \in AsmState
      <3>1. Held(c, k) = Held(asm, k)
        BY <2>3, MovedHeld
      <3>2. c.out = asm.out /\ c \in AsmState
        BY <2>3 DEF Moved, AsmOK
      <3>. DEFINE D == pre \o asm.out
      <3>3. Ordered(D, asm.in_flight, Top(T))
        BY <2>7
      <3>. HIDE DEF D
      <3>4. Ordered(D, c.in_flight, Top(T))
        BY <2>3, <3>3, MovedOrdered
      <3>. QED  BY <3>1, <3>2, <3>4 DEF D
    <2>10. Ordered(pre \o room.out, room.in_flight, Top(T)) /\ Held(room, k) = Held(asm, k)
      <3>1. CASE room = c
        BY <2>9, <3>1
      <3>2. CASE room = emit(c)
        <4>1. Ordered(pre \o emit(c).out, emit(c).in_flight, Top(T))
          BY <2>9, EmitOrdered
        <4>2. Held(emit(c), k) = Held(c, k)
          BY <2>9, EmitHeld
        <4>. QED  BY <2>9, <3>2, <4>1, <4>2
      <3>. QED  BY <2>3, <3>1, <3>2
    <2>11. room.in_flight \in Seq(Block) /\ room.out \in Seq(Block) /\ room.unsupported \in Nat
      BY <2>3 DEF AsmState
    <2>12. Ordered(pre \o s.out, s.in_flight, n)
      <3>. DEFINE D == pre \o room.out
      <3>1. Ordered(D, room.in_flight, Top(T))
        BY <2>10
      <3>. HIDE DEF D
      <3>2. Ordered(D, Append(room.in_flight, x), n)
        BY <2>1, <2>4, <2>6, <2>8, <2>11, <3>1, AppendOrdered
      <3>. QED  BY <2>3, <3>2 DEF D
    <2>13. Top(T \cup {n}) = n
      <3>1. Top(T) <= n
        BY <2>1, <2>4, <2>8
      <3>. QED  BY <2>4, <3>1, TopAdd
    <2>14. /\ Len(s.in_flight) = Len(room.in_flight) + 1 /\ s.in_flight[Len(room.in_flight) + 1] = x
           /\ Len(room.in_flight) \in Nat /\ Len(room.out) \in Nat
      BY <2>3, <2>6, <2>11, AppendFields
    <2>15. Held(s, k) = Held(asm, k) + 1
      <3>. DEFINE f == Len(room.in_flight)
                  o == Len(room.out)
                  u == room.unsupported
      <3>1. Held(s, k) = k + o + (f + 1) + u
        BY <2>3, <2>14 DEF Held
      <3>2. Held(asm, k) = k + o + f + u
        BY <2>10 DEF Held
      <3>3. f \in Nat /\ o \in Nat /\ u \in Nat
        BY <2>11, <2>14
      <3>. HIDE DEF f, o, u
      <3>. QED  BY <3>1, <3>2, <3>3
    <2>16. Held(s, k) + s.missed = Span(T \cup {n})
      <3>1. Span(T \cup {n}) = IF T = {} THEN 1 ELSE Span(T) + (n - Top(T))
        BY <2>1, <2>4, SpanAdd
      <3>. DEFINE h == Held(asm, k)
                  g == asm.missed
                  z == v.missed
                  d == Span(T)
                  t == Top(T)
      <3>2. h \in Nat
        <4>. DEFINE f == Len(asm.in_flight)
                    o == Len(asm.out)
                    u == asm.unsupported
        <4>1. f \in Nat /\ o \in Nat /\ u \in Nat
          BY <2>5
        <4>2. h = k + o + f + u
          BY DEF Held
        <4>. HIDE DEF h, f, o, u
        <4>. QED  BY <4>1, <4>2
      <3>3. Held(s, k) + s.missed = h + 1 + (g + z) /\ h + g = d /\ g \in Nat /\ z \in Nat /\ t \in Nat
        BY <2>1, <2>2, <2>5, <2>7, <2>8, <2>15
      <3>4. CASE T = {}
        <4>1. d = 0 /\ z = 0 /\ Span(T \cup {n}) = 1
          BY <2>1, <3>1, <3>4 DEF Span
        <4>. HIDE DEF h, g, z, d
        <4>. QED  BY <3>2, <3>3, <4>1
      <3>5. CASE T # {}
        <4>1. z = (n - t) - 1 /\ Span(T \cup {n}) = d + (n - t)
          BY <2>1, <3>1, <3>5
        <4>. HIDE DEF h, g, z, d, t
        <4>. QED  BY <2>4, <3>2, <3>3, <4>1
      <3>. QED  BY <3>4, <3>5
    <2>17. Books(s, pre, k)
      BY <2>2, <2>12, <2>13, <2>16 DEF Books
    <2>18. \E j \in 1..Len(s.in_flight) : s.in_flight[j].id = id /\ s.in_flight[j].from = {n}
      <3>1. Len(room.in_flight) + 1 \in 1..Len(s.in_flight)
        BY <2>14
      <3>. QED  BY <2>6, <2>14, <3>1
    <2>. QED  BY Zenon, <2>17, <2>18 DEF n, id
  <1>. QED  BY <1>1, <1>2, AdmitCases

\* A packet of the camera's keeps last_block_id, and forgets no block that was started.
LEMMA IngestNewest ==
  ASSUME AssemblyInv, Timely, Newest(asm, sent), ~setup.restartable => Consecutive(sent), NEW p \in net, ~Misleading(p)
  PROVE  Newest(ingest(asm, p[1], p[2]), sent)
  <1>. DEFINE n == p[1]
              l == p[2] = 0
              s == admit(asm, sent[n].id, n, l)
              r == ingest(asm, n, p[2])
  <1>1. n \in DOMAIN sent /\ p[2] \in 0..(sent[n].last + 1) /\ sent \in Seq(SentBlock)
    BY PacketBlock
  <1>2. Takes(r, s, sent, setup.resend, n)
    BY <1>1, IngestOK DEF AssemblyInv
  <1>3. l \in BOOLEAN /\ (l => p[2] = 0)
    OBVIOUS
  <1>. HIDE DEF l
  <1>4. Newest(s, sent)
    BY <1>3, AdmitNewest
  <1>. HIDE DEF s, r, n
  <1>5. PICK c : AsmOK(c, sent, setup.resend) /\ Updated(c, s) /\ (r = c \/ r = emit(c))
    BY <1>2 DEF Takes
  <1>6. SameBooks(c, s) /\ c \in AsmState
    BY <1>5 DEF Updated, AsmOK
  <1>7. SameBooks(emit(c), c)
    BY <1>6, EmitFields DEF Emits
  <1>8. SameBooks(r, s)
    BY <1>5, <1>6, <1>7 DEF SameBooks
  <1>9. Newest(r, sent)
    BY <1>4, <1>8, MovedNewest
  <1>. QED  BY <1>9 DEF r, n

\* And it keeps the order and the count, as long as the ids tell its block.
LEMMA IngestBooks ==
  ASSUME AssemblyInv, Timely, Newest(asm, sent), ~setup.restartable => Consecutive(sent), ~setup.restartable,
         NEW p \in net, ~Misleading(p), NEW pre \in Seq(Block), NEW k \in Nat, Books(asm, pre, k)
  PROVE  Books(ingest(asm, p[1], p[2]), pre, k)
  <1>. DEFINE n == p[1]
              id == sent[n].id
              l == p[2] = 0
              s == admit(asm, id, n, l)
              r == ingest(asm, n, p[2])
  <1>1. n \in DOMAIN sent /\ p[2] \in 0..(sent[n].last + 1) /\ sent \in Seq(SentBlock) /\ n \in Nat /\ DOMAIN sent = 1..Len(sent)
    BY PacketBlock
  <1>2. Takes(r, s, sent, setup.resend, n)
    BY <1>1, IngestOK DEF AssemblyInv
  <1>3. l \in BOOLEAN /\ (l => p[2] = 0)
    OBVIOUS
  <1>. HIDE DEF l
  <1>4. Books(s, pre, k) /\ (s = asm \/ \E j \in 1..Len(s.in_flight) : s.in_flight[j].id = id /\ s.in_flight[j].from = {n})
    BY <1>3, AdmitBooks
  <1>5. AsmOK(s, sent, setup.resend)
    <2>1. Good(s, sent, setup.resend)
      BY <1>1, <1>3, AdmitOK DEF AssemblyInv
    <2>. QED  BY <2>1 DEF Good
  <1>. HIDE DEF s, r, n, id
  <1>6. PICK c : /\ AsmOK(c, sent, setup.resend) /\ Updated(c, s) /\ (r = c \/ r = emit(c))
                 /\ \A j \in 1..Len(c.in_flight) :
                       \/ c.in_flight[j].from = s.in_flight[j].from
                       \/ c.in_flight[j].id = id /\ c.in_flight[j].from = s.in_flight[j].from \cup {n}
    BY <1>2 DEF Takes, id
  <1>7. ASSUME NEW j \in 1..Len(s.in_flight), s.in_flight[j].id = id PROVE n \in s.in_flight[j].from
    <2>1. CASE s = asm
      <3>1. asm.in_flight \in Seq(Block) /\ AsmOK(asm, sent, setup.resend)
        BY DEF AssemblyInv, Good, AsmOK, AsmState
      <3>2. j \in DOMAIN asm.in_flight /\ j \in 1..Len(asm.in_flight)
        BY <2>1, <3>1
      <3>3. asm.started # {}
        <4>. SUFFICES ASSUME asm.started = {} PROVE FALSE
          OBVIOUS
        <4>1. UpTo(asm.in_flight, 0)
          BY DEF Books, Ordered, Top
        <4>2. IsOne(asm.in_flight[j], 0)
          BY <3>2, <4>1 DEF UpTo
        <4>3. asm.in_flight[j].from = {0}
          BY <4>2 DEF IsOne
        <4>4. Who(asm.in_flight[j], sent)
          BY <3>1, <3>2 DEF AsmOK, BlockInv
        <4>. QED  BY <1>1, <4>3, <4>4 DEF Who
      <3>4. \A i \in DOMAIN asm.in_flight : asm.in_flight[i].id = sent[p[1]].id => p[1] \in asm.in_flight[i].from
        BY <3>3 DEF Timely
      <3>. QED  BY <1>7, <2>1, <3>2, <3>4 DEF n, id
    <2>2. CASE \E i \in 1..Len(s.in_flight) : s.in_flight[i].id = id /\ s.in_flight[i].from = {n}
      BY <1>5, <1>7, <2>2 DEF AsmOK
    <2>. QED  BY <1>4, <2>1, <2>2
  <1>8. Moved(c, s) /\ SameBooks(c, s)
    <2>1. SameFrom(c, s)
      <3>. SUFFICES ASSUME NEW j \in 1..Len(s.in_flight) PROVE c.in_flight[j].from = s.in_flight[j].from
        BY DEF SameFrom
      <3>1. c.in_flight[j].id = s.in_flight[j].id /\ j \in 1..Len(c.in_flight)
        BY <1>6 DEF Updated
      <3>2. \/ c.in_flight[j].from = s.in_flight[j].from
            \/ s.in_flight[j].id = id /\ c.in_flight[j].from = s.in_flight[j].from \cup {n}
        <4>1. \/ c.in_flight[j].from = s.in_flight[j].from
              \/ c.in_flight[j].id = id /\ c.in_flight[j].from = s.in_flight[j].from \cup {n}
          BY <1>6, <3>1
        <4>. QED  BY <3>1, <4>1
      <3>3. s.in_flight[j].id = id => n \in s.in_flight[j].from
        BY <1>7
      <3>. QED  BY <3>2, <3>3
    <2>. QED  BY <1>6, <2>1 DEF Moved, Updated
  <1>9. Books(c, pre, k) /\ c \in AsmState
    BY <1>4, <1>6, <1>8, MovedBooks DEF AsmOK
  <1>10. Books(emit(c), pre, k)
    BY <1>9, EmitBooks
  <1>11. Books(r, pre, k)
    BY <1>6, <1>9, <1>10
  <1>. QED  BY <1>11 DEF r, n

\* So does poll, which hands out what it closes in its turn.
LEMMA PollBooks ==
  ASSUME AssemblyInv
  PROVE  /\ SameBooks(poll(asm), asm)
         /\ \A pre \in Seq(Block), k \in Nat : Books(asm, pre, k) => Books(poll(asm), pre, k)
  <1>1. \A n \in DOMAIN sent : sent[n] \in SentBlock
    BY DEF AssemblyInv
  <1>2. PICK c : AsmOK(c, sent, setup.resend) /\ Moved(c, asm) /\ SameBooks(c, asm) /\ poll(asm) = emit(c)
    BY <1>1, PollOK DEF AssemblyInv
  <1>3. c \in AsmState
    BY <1>2 DEF AsmOK
  <1>4. SameBooks(poll(asm), asm)
    <2>1. SameBooks(emit(c), c)
      BY <1>3, EmitFields DEF Emits
    <2>. QED  BY <1>2, <2>1 DEF SameBooks
  <1>5. ASSUME NEW pre \in Seq(Block), NEW k \in Nat, Books(asm, pre, k) PROVE Books(poll(asm), pre, k)
    <2>1. Books(c, pre, k)
      BY <1>2, <1>5, MovedBooks
    <2>2. Books(emit(c), pre, k)
      BY <1>3, <2>1, EmitBooks
    <2>. QED  BY <1>2, <2>2
  <1>. QED  BY <1>4, <1>5

-----------------------------------------------------------------------------
(* The order and the count of the system. *)

\* What is true of the newest block and the ids at every moment: last_block_id is the id
\* of the newest block, until a leader of block 1 passes for a new acquisition.
NewestInv ==
    /\ asm.started \subseteq DOMAIN sent
    /\ ~setup.restartable => Consecutive(sent)
    /\ ~misled => Newest(asm, sent)

LEMMA MisledStays ==
  ASSUME [Next]_vars
  PROVE  /\ setup' = setup
         /\ ~misled' => ~misled
         /\ \A p \in net : Ingest(p) /\ ~misled' => ~Misleading(p)
  <1>1. setup' = setup
    BY DEF Next, vars, CameraSend, Ingest, IngestIgnored, Tick, Poll, ResendDue, CameraResend, CameraGone
  <1>2. ASSUME NEW p \in net, Ingest(p), ~misled' PROVE ~misled /\ ~Misleading(p)
    <2>1. misled' = (misled \/ Misleading(p))
      BY <1>2 DEF Ingest
    <2>. QED  BY Zenon, <1>2, <2>1
  <1>3. (\E p \in net : Ingest(p)) \/ misled' = misled
    BY DEF Next, vars, CameraSend, IngestIgnored, Tick, Poll, ResendDue, CameraResend, CameraGone
  <1>. QED  BY <1>1, <1>2, <1>3

LEMMA NewestInit == Init => NewestInv
  <1>. SUFFICES ASSUME Init PROVE NewestInv
    OBVIOUS
  <1>1. asm.started = {} /\ asm.last = None
    BY EmptyFields DEF Init
  <1>2. sent = <<>> /\ Len(sent) = 0
    BY DEF Init
  <1>3. Consecutive(sent)
    BY <1>2 DEF Consecutive, Chain
  <1>4. asm.started \subseteq DOMAIN sent
    BY <1>1
  <1>. QED  BY <1>1, <1>3, <1>4 DEF NewestInv, Newest

LEMMA SentKeepsNewest ==
  ASSUME AssemblyInv, NewestInv, NEW kind \in setup.kinds, CameraSend(kind)
  PROVE  NewestInv'
  <1>1. /\ sent' \in Seq(SentBlock) /\ Len(sent') = Len(sent) + 1
        /\ \A n \in 1..Len(sent) : sent'[n] = sent[n]
        /\ sent = <<>> \/ setup.restartable \/ sent'[Len(sent) + 1].id = NextId(sent[Len(sent)].id)
    BY CameraSends DEF AssemblyInv
  <1>2. sent \in Seq(SentBlock) /\ Len(sent) \in Nat /\ DOMAIN sent = 1..Len(sent) /\ DOMAIN sent' = 1..(Len(sent) + 1)
    BY <1>1 DEF AssemblyInv
  <1>3. asm' = asm /\ setup' = setup /\ misled' = misled
    BY DEF CameraSend
  <1>6. asm.started \subseteq DOMAIN sent'
    BY <1>2 DEF NewestInv
  <1>4. ASSUME ~misled PROVE Newest(asm, sent')
    <2>1. asm.started \subseteq 1..Len(sent)
      BY <1>2 DEF NewestInv
    <2>2. asm.started # {} => Max(asm.started) \in 1..Len(sent)
      BY <1>2, <2>1, StartedTop
    <2>. QED  BY <1>1, <1>2, <1>4, <2>1, <2>2 DEF NewestInv, Newest
  <1>5. ASSUME ~setup.restartable PROVE Consecutive(sent')
    <2>1. \A k \in 2..Len(sent) : sent[k].id = NextId(sent[k - 1].id)
      BY <1>5 DEF NewestInv, Consecutive, Chain
    <2>. SUFFICES ASSUME NEW k \in 2..(Len(sent) + 1) PROVE sent'[k].id = NextId(sent'[k - 1].id)
      BY <1>1, <1>2 DEF Consecutive, Chain
    <2>2. CASE k \in 2..Len(sent)
      <3>1. k \in 1..Len(sent) /\ k - 1 \in 1..Len(sent)
        BY <1>2, <2>2
      <3>. QED  BY <1>1, <2>1, <2>2, <3>1
    <2>3. CASE k = Len(sent) + 1
      <3>1. k - 1 = Len(sent) /\ Len(sent) \in 1..Len(sent) /\ sent # <<>>
        BY <1>2, <2>3
      <3>. QED  BY <1>1, <1>5, <2>3, <3>1
    <2>. QED  BY <1>2, <2>2, <2>3
  <1>. QED  BY <1>3, <1>4, <1>5, <1>6 DEF NewestInv

\* A packet forgets no block, and adds its own unless that is in flight or late.
LEMMA IngestStarted ==
  ASSUME AssemblyInv, NEW p \in net
  PROVE  /\ asm.started \subseteq ingest(asm, p[1], p[2]).started
         /\ ingest(asm, p[1], p[2]).started \subseteq asm.started \cup {p[1]}
         /\ \/ Index(asm, sent[p[1]].id) # {}
            \/ classify(asm.last, sent[p[1]].id, FALSE, p[2] = 0).order = "Late"
            \/ p[1] \in ingest(asm, p[1], p[2]).started
  <1>. DEFINE n == p[1]
              l == p[2] = 0
              s == admit(asm, sent[n].id, n, l)
              r == ingest(asm, n, p[2])
              v == classify(asm.last, sent[n].id, FALSE, l)
  <1>1. n \in DOMAIN sent /\ p[2] \in 0..(sent[n].last + 1) /\ sent \in Seq(SentBlock)
    BY PacketBlock
  <1>2. Takes(r, s, sent, setup.resend, n)
    BY <1>1, IngestOK DEF AssemblyInv
  <1>3. l \in BOOLEAN
    OBVIOUS
  <1>4. s = IF Index(asm, sent[n].id) # {} \/ v.order = "Late" THEN asm ELSE StartBlock(asm, sent[n].id, n, v)
    BY Zenon DEF admit
  <1>5. v.missed \in Nat
    <2>1. asm.last \in (1..Cycle) \cup {None} /\ sent[n].id \in 1..Cycle
      BY PacketBlock DEF AssemblyInv, Good, AsmOK, AsmState
    <2>. HIDE DEF l
    <2>. QED  BY Zenon, <1>3, <2>1, MissedIsNat
  <1>. HIDE DEF l, s, r, v
  <1>6. r.started = s.started
    <2>1. PICK c : AsmOK(c, sent, setup.resend) /\ Updated(c, s) /\ (r = c \/ r = emit(c))
      BY <1>2 DEF Takes
    <2>2. SameBooks(c, s) /\ c \in AsmState
      BY <2>1 DEF Updated, AsmOK
    <2>3. SameBooks(emit(c), c)
      BY <2>2, EmitFields DEF Emits
    <2>. QED  BY <2>1, <2>2, <2>3 DEF SameBooks
  <1>7. CASE Index(asm, sent[n].id) # {} \/ v.order = "Late"
    <2>1. r.started = asm.started
      BY <1>4, <1>6, <1>7
    <2>. QED  BY Zenon, <1>7, <2>1 DEF r, v, l
  <1>8. CASE ~(Index(asm, sent[n].id) # {} \/ v.order = "Late")
    <2>1. s = StartBlock(asm, sent[n].id, n, v) /\ Index(asm, sent[n].id) = {}
      BY Zenon, <1>4, <1>8
    <2>2. s.started = asm.started \cup {n}
      BY <1>5, <2>1, StartsFacts
    <2>3. asm.started \subseteq r.started /\ r.started \subseteq asm.started \cup {n} /\ n \in r.started
      BY <1>6, <2>2
    <2>. QED  BY Zenon, <2>3 DEF r
  <1>. QED  BY <1>7, <1>8

\* Every step but the camera's leaves its blocks alone, and the newest is moved by a
\* packet only.
LEMMA NewestStep == AssemblyInv /\ NewestInv /\ Timely /\ [Next]_vars => NewestInv'
  <1>. SUFFICES ASSUME AssemblyInv, NewestInv, Timely, [Next]_vars PROVE NewestInv'
    OBVIOUS
  <1>0. ASSUME SameBooks(asm', asm), setup' = setup, sent' = sent PROVE NewestInv'
    <2>1. ~misled' => ~misled
      BY MisledStays
    <2>. QED  BY <1>0, <2>1 DEF NewestInv, Newest, SameBooks
  <1>1. CASE \E kind \in setup.kinds : CameraSend(kind)
    BY <1>1, SentKeepsNewest
  <1>2. ASSUME NEW p \in net, Ingest(p) PROVE NewestInv'
    <2>1. ASSUME ~misled' PROVE Newest(ingest(asm, p[1], p[2]), sent)
      <3>1. ~misled /\ ~Misleading(p)
        BY <1>2, <2>1, MisledStays
      <3>. QED  BY <3>1, IngestNewest DEF NewestInv
    <2>2. asm' = ingest(asm, p[1], p[2]) /\ setup' = setup /\ sent' = sent
      BY <1>2 DEF Ingest
    <2>3. asm'.started \subseteq DOMAIN sent
      <3>1. p[1] \in DOMAIN sent
        BY PacketBlock
      <3>. QED  BY <2>2, <3>1, IngestStarted DEF NewestInv
    <2>. QED  BY <2>1, <2>2, <2>3 DEF NewestInv
  <1>3. ASSUME NEW p \in net, IngestIgnored(p) PROVE NewestInv'
    <2>1. SameBooks(touch(asm, sent[p[1]].id), asm)
      BY TouchOK DEF AssemblyInv
    <2>. QED  BY <1>0, <1>3, <2>1 DEF IngestIgnored
  <1>4. CASE Tick
    <2>1. SameBooks(Ticked(asm), asm)
      BY TickOK DEF AssemblyInv
    <2>2. asm' = Ticked(asm)
      BY Zenon, <1>4 DEF Tick, Ticked
    <2>. QED  BY <1>0, <1>4, <2>1, <2>2 DEF Tick
  <1>5. CASE Poll
    BY <1>0, <1>5, PollBooks DEF Poll
  <1>6. CASE ResendDue
    <2>1. SameBooks(PlannedAll(asm), asm)
      <3>1. \A n \in DOMAIN sent : sent[n] \in SentBlock
        BY DEF AssemblyInv
      <3>. QED  BY <3>1, ResendDueOK DEF AssemblyInv
    <2>2. asm' = PlannedAll(asm)
      BY Zenon, <1>6 DEF ResendDue, PlannedAll
    <2>. QED  BY <1>0, <1>6, <2>1, <2>2 DEF ResendDue
  <1>7. ASSUME NEW p \in asks, CameraResend(p) PROVE NewestInv'
    BY <1>0, <1>7 DEF CameraResend, SameBooks
  <1>8. ASSUME NEW p \in asks, NEW answer \in {"Gone", "GoneWithPrevious"}, CameraGone(p, answer) PROVE NewestInv'
    <2>. DEFINE id == sent[p[1]].id
                a == touch(asm, id)
                c == on_resend_answer(a, id, p[2], answer)
    <2>1. Good(a, sent, setup.resend) /\ SameBooks(a, asm)
      BY TouchOK DEF AssemblyInv
    <2>2. p[2] \in Nat
      BY DEF AssemblyInv, AsksOK
    <2>3. asm' = c /\ setup' = setup /\ sent' = sent
      BY <1>8 DEF CameraGone
    <2>. HIDE DEF a, id
    <2>4. SameBooks(c, a)
      BY <2>1, <2>2, AnswerOK
    <2>. HIDE DEF c
    <2>5. SameBooks(asm', asm)
      BY <2>1, <2>3, <2>4 DEF SameBooks
    <2>. QED  BY <1>0, <2>3, <2>5
  <1>9. CASE UNCHANGED vars
    BY <1>9 DEF vars, NewestInv
  <1>. QED  BY <1>1, <1>2, <1>3, <1>4, <1>5, <1>6, <1>7, <1>8, <1>9 DEF Next

\* Every step keeps the order and the count, as far as the ids tell.
LEMMA StepBooks ==
  ASSUME AssemblyInv, NewestInv, Timely, [Next]_vars, ~setup.restartable, ~misled',
         NEW pre \in Seq(Block), NEW k \in Nat, Books(asm, pre, k)
  PROVE  Books(asm', pre, k)
  <1>0. ASSUME Moved(asm', asm), SameBooks(asm', asm) PROVE Books(asm', pre, k)
    BY <1>0, MovedBooks
  <1>1. CASE \E kind \in setup.kinds : CameraSend(kind)
    BY <1>1 DEF CameraSend
  <1>2. ASSUME NEW p \in net, Ingest(p) PROVE Books(asm', pre, k)
    <2>2. ~misled /\ ~Misleading(p)
      BY <1>2, MisledStays
    <2>1. Books(ingest(asm, p[1], p[2]), pre, k)
      BY <2>2, IngestBooks DEF NewestInv
    <2>. QED  BY <1>2, <2>1 DEF Ingest
  <1>3. ASSUME NEW p \in net, IngestIgnored(p) PROVE Books(asm', pre, k)
    <2>1. Moved(touch(asm, sent[p[1]].id), asm) /\ SameBooks(touch(asm, sent[p[1]].id), asm)
      BY TouchOK DEF AssemblyInv
    <2>. QED  BY <1>0, <1>3, <2>1 DEF IngestIgnored
  <1>4. CASE Tick
    <2>1. Moved(Ticked(asm), asm) /\ SameBooks(Ticked(asm), asm)
      BY TickOK DEF AssemblyInv
    <2>2. asm' = Ticked(asm)
      BY Zenon, <1>4 DEF Tick, Ticked
    <2>. QED  BY <1>0, <2>1, <2>2
  <1>5. CASE Poll
    BY <1>5, PollBooks DEF Poll
  <1>6. CASE ResendDue
    <2>1. Moved(PlannedAll(asm), asm) /\ SameBooks(PlannedAll(asm), asm)
      <3>1. \A n \in DOMAIN sent : sent[n] \in SentBlock
        BY DEF AssemblyInv
      <3>. QED  BY <3>1, ResendDueOK DEF AssemblyInv
    <2>2. asm' = PlannedAll(asm)
      BY Zenon, <1>6 DEF ResendDue, PlannedAll
    <2>. QED  BY <1>0, <2>1, <2>2
  <1>7. ASSUME NEW p \in asks, CameraResend(p) PROVE Books(asm', pre, k)
    BY <1>7 DEF CameraResend
  <1>8. ASSUME NEW p \in asks, NEW answer \in {"Gone", "GoneWithPrevious"}, CameraGone(p, answer)
        PROVE  Books(asm', pre, k)
    <2>. DEFINE id == sent[p[1]].id
                a == touch(asm, id)
                c == on_resend_answer(a, id, p[2], answer)
    <2>1. Good(a, sent, setup.resend) /\ Moved(a, asm) /\ SameBooks(a, asm)
      BY TouchOK DEF AssemblyInv
    <2>2. p[2] \in Nat
      BY DEF AssemblyInv, AsksOK
    <2>3. asm' = c
      BY <1>8 DEF CameraGone
    <2>. HIDE DEF a, id
    <2>4. Moved(c, a) /\ SameBooks(c, a)
      BY <2>1, <2>2, AnswerOK
    <2>. HIDE DEF c
    <2>5. Books(a, pre, k)
      BY <2>1, MovedBooks
    <2>6. Books(c, pre, k)
      BY <2>4, <2>5, MovedBooks
    <2>. QED  BY <2>3, <2>6
  <1>9. CASE UNCHANGED vars
    BY <1>9 DEF vars
  <1>. QED  BY <1>1, <1>2, <1>3, <1>4, <1>5, <1>6, <1>7, <1>8, <1>9 DEF Next

\* Nothing was started, handed out or counted yet.
LEMMA BooksInit == Init => Books(asm, <<>>, 0)
  <1>. SUFFICES ASSUME Init PROVE Books(asm, <<>>, 0)
    OBVIOUS
  <1>1. /\ asm.in_flight = <<>> /\ asm.out = <<>> /\ asm.missed = 0 /\ asm.unsupported = 0
        /\ asm.started = {}
    BY EmptyFields DEF Init
  <1>2. <<>> \o asm.out = <<>> /\ Len(<<>>) = 0
    BY <1>1
  <1>3. Ordered(<<>>, <<>>, 0)
    BY <1>2 DEF Ordered, Rising, Below, UpTo
  <1>. QED  BY <1>1, <1>2, <1>3 DEF Books, Top, Span, Held

\* The accounting of StreamStats, for any stream and camera whose packets come while
\* their 16-bit ids still say where they belong (Timely): every block from the first the
\* stream started to the newest is handed out, in flight, unsupported or counted as missed,
\* once, and blocks leave in the order the camera sent them (Assembler::admit, emit, and
\* `missed` in classify).  With the exceptions CountedOnce states: a camera that may start
\* its count again, and a stream in which a leader of block 1 has passed for a restart.
THEOREM BlocksAreCountedOnce == Spec /\ []Timely => []CountedOnce
  <1>. DEFINE BooksInv == ~setup.restartable /\ ~misled => Books(asm, <<>>, 0)
              Inv == AssemblyInv /\ NewestInv /\ BooksInv
  <1>1. Init => Inv
    BY AssemblyInit, NewestInit, BooksInit
  <1>2. Inv /\ Timely /\ [Next]_vars => Inv'
    <2>. SUFFICES ASSUME Inv, Timely, [Next]_vars PROVE Inv'
      OBVIOUS
    <2>1. AssemblyInv' /\ NewestInv'
      BY AssemblyStep, NewestStep
    <2>2. setup' = setup /\ (~misled' => ~misled)
      BY MisledStays
    <2>3. <<>> \in Seq(Block) /\ 0 \in Nat
      OBVIOUS
    <2>4. ASSUME ~setup.restartable, ~misled' PROVE Books(asm', <<>>, 0)
      BY <2>2, <2>3, <2>4, StepBooks
    <2>. QED  BY <2>1, <2>2, <2>4
  <1>3. Inv => CountedOnce
    <2>. SUFFICES ASSUME Inv, ~setup.restartable, ~misled PROVE CountedOnce
      BY DEF CountedOnce
    <2>1. Ordered(<<>> \o asm.out, asm.in_flight, Top(asm.started)) /\ Held(asm, 0) + asm.missed = Span(asm.started)
      BY DEF Books
    <2>2. asm.out \in Seq(Block) /\ asm.in_flight \in Seq(Block) /\ asm.missed \in Nat /\ asm.unsupported \in Nat
      BY DEF AssemblyInv, Good, AsmOK, AsmState
    <2>3. <<>> \o asm.out = asm.out /\ DOMAIN asm.out = 1..Len(asm.out) /\ Len(asm.out) \in Nat /\ Len(asm.in_flight) \in Nat
      BY <2>2
    <2>4. Rising(asm.out)
      BY <2>1, <2>3 DEF Ordered
    <2>5. \A i, j \in DOMAIN asm.out : i < j => Origin(Out(i)) < Origin(Out(j))
      BY <2>3, <2>4 DEF Rising, Out
    <2>6. ASSUME asm.started # {}
          PROVE  Len(asm.out) + Len(asm.in_flight) + asm.unsupported + asm.missed
                    = Max(asm.started) - Min(asm.started) + 1
      <3>. DEFINE x == Len(asm.out)
                  y == Len(asm.in_flight)
                  z == asm.unsupported
                  m == asm.missed
      <3>1. Held(asm, 0) = 0 + x + y + z
        BY DEF Held
      <3>2. x \in Nat /\ y \in Nat /\ z \in Nat /\ m \in Nat
        BY <2>2, <2>3
      <3>3. Held(asm, 0) + m = Max(asm.started) - Min(asm.started) + 1
        BY <2>1, <2>6 DEF Span
      <3>. HIDE DEF x, y, z, m
      <3>4. x + y + z + m = Held(asm, 0) + m
        BY <3>1, <3>2
      <3>. QED  BY <3>3, <3>4 DEF x, y, z, m
    <2>. QED  BY <2>5, <2>6 DEF CountedOnce
  <1>. HIDE DEF Inv
  <1>. QED  BY <1>1, <1>2, <1>3, PTL DEF Spec

-----------------------------------------------------------------------------
(* The newest block is started. *)

LEMMA DistanceZero ==
  ASSUME NEW last \in 1..Cycle, NEW next \in 1..Cycle, distance16(last, next) = 0
  PROVE  last = next
  <1>1. Cycle \in Nat /\ Cycle \div 2 \in Nat /\ 2 * (Cycle \div 2) <= Cycle
    BY BlockOrderAssumption, Half
  <1>. QED  BY <1>1, DistanceByCases

LEMMA DistanceIsInt ==
  ASSUME NEW last \in 1..Cycle, NEW next \in 1..Cycle
  PROVE  distance16(last, next) \in Int
  <1>1. Cycle \in Nat /\ Cycle \div 2 \in Nat
    BY BlockOrderAssumption, Half
  <1>. QED  BY <1>1, DistanceByCases

\* classify calls a block late only if its distance is not positive, and never the
\* leader of a first block unless the newest so far was a first block too.
LEMMA NotLate ==
  ASSUME NEW last \in 1..Cycle, NEW next \in 1..Cycle, NEW leader \in BOOLEAN,
         distance16(last, next) > 0 \/ (next = 1 /\ leader /\ last # 1)
  PROVE  classify(last, next, FALSE, leader).order # "Late"
  <1>. DEFINE d == distance16(last, next)
              v == classify(last, next, FALSE, leader)
              q == Restarts(next, leader, d)
  <1>1. d \in Int
    BY DistanceIsInt
  <1>2. last # None /\ next # 0
    BY BlockOrderAssumption DEF None
  <1>3. v = IF q \/ d < -LateWindow
            THEN [order |-> "Restart", missed |-> 0]
            ELSE IF d > 0 THEN [order |-> "Next", missed |-> d - 1]
                          ELSE [order |-> "Late", missed |-> 0]
    BY <1>2 DEF classify, Distance
  <1>4. q \/ d > 0
    <2>. SUFFICES ASSUME ~(d > 0) PROVE q
      OBVIOUS
    <2>1. next = 1 /\ leader /\ last # next
      OBVIOUS
    <2>2. d # 0
      BY <2>1, DistanceZero
    <2>3. d \notin {0, 1}
      BY <1>1, <2>2
    <2>. HIDE DEF d
    <2>. QED  BY Zenon, <2>1, <2>3 DEF Restarts
  <1>. HIDE DEF d, v, q
  <1>5. v = [order |-> "Restart", missed |-> 0] \/ v = [order |-> "Next", missed |-> d - 1]
    BY Zenon, <1>3, <1>4
  <1>6. v.order # "Late"
    BY <1>5
  <1>. QED  BY Zenon, <1>6 DEF v

\* The leader of the camera's newest block, with nothing in flight.
LEMMA HeadStarts ==
  ASSUME AssemblyInv, NewestInv, ~misled, Timely, NEW p \in net, p[1] = Len(sent), p[2] = 0,
         asm.in_flight = <<>>, Recognisable(p[1])
  PROVE  p[1] \in ingest(asm, p[1], p[2]).started
  <1>. DEFINE n == p[1]
              M == Max(asm.started)
              v == classify(asm.last, sent[n].id, FALSE, TRUE)
  <1>1. /\ sent \in Seq(SentBlock) /\ Len(sent) \in Nat /\ DOMAIN sent = 1..Len(sent) /\ n \in DOMAIN sent /\ n \in Nat
        /\ sent[n].id \in 1..Cycle
    BY PacketBlock
  <1>2. Index(asm, sent[n].id) = {}
    <2>1. Len(asm.in_flight) = 0
      OBVIOUS
    <2>. QED  BY <2>1 DEF Index
  <1>3. asm.started \subseteq ingest(asm, n, p[2]).started
    BY IngestStarted
  <1>4. v.order # "Late" => n \in ingest(asm, n, p[2]).started
    <2>1. \/ Index(asm, sent[n].id) # {}
          \/ classify(asm.last, sent[n].id, FALSE, p[2] = 0).order = "Late"
          \/ n \in ingest(asm, n, p[2]).started
      BY Zenon, IngestStarted
    <2>2. (p[2] = 0) = TRUE
      OBVIOUS
    <2>3. classify(asm.last, sent[n].id, FALSE, p[2] = 0) = v
      BY Zenon, <2>2
    <2>. HIDE DEF v
    <2>. QED  BY Zenon, <1>2, <2>1, <2>3
  <1>5. CASE n \in asm.started
    BY <1>3, <1>5
  <1>6. CASE n \notin asm.started /\ asm.started = {}
    <2>1. asm.last = None
      BY <1>6 DEF NewestInv, Newest
    <2>2. v = [order |-> "Unordered", missed |-> 0]
      BY <2>1 DEF classify
    <2>. HIDE DEF v
    <2>3. v.order # "Late"
      BY <2>2
    <2>. QED  BY <1>4, <2>3
  <1>7. CASE n \notin asm.started /\ asm.started # {}
    <2>1. asm.started \subseteq 1..Len(sent)
      BY <1>1 DEF NewestInv, Newest
    <2>2. M \in asm.started /\ M \in 1..Len(sent) /\ asm.last = sent[M].id /\ \A m \in asm.started : m <= M
      BY <1>1, <1>7, <2>1, StartedTop DEF NewestInv, Newest
    <2>3. M < n /\ M \in DOMAIN sent
      BY <1>1, <1>7, <2>2
    <2>4. sent[M].id \in 1..Cycle
      <3>1. sent[M] \in SentBlock
        BY <1>1, <2>3
      <3>. QED  BY <3>1 DEF SentBlock
    <2>5. distance16(sent[M].id, sent[n].id) > 0 \/ (sent[n].id = 1 /\ sent[M].id # 1)
      <3>1. CASE \E m \in asm.started : m < n /\ \A k \in (m + 1)..n : sent[k].id = NextId(sent[k - 1].id)
        <4>1. PICK m \in asm.started : \A k \in (m + 1)..n : sent[k].id = NextId(sent[k - 1].id)
          BY <3>1
        <4>2. \A k \in (M + 1)..n : k \in (m + 1)..n
          BY <1>1, <2>1, <2>2
        <4>3. Chain(sent, M, n)
          BY <4>1, <4>2 DEF Chain
        <4>4. n - M <= Cycle \div 2
          BY <1>7 DEF Timely
        <4>. DEFINE j == n - M
                    x == sent[M].id
        <4>5. Cycle \in Nat /\ Cycle \div 2 \in Nat /\ 2 * (Cycle \div 2) <= Cycle
          BY BlockOrderAssumption, Half
        <4>6. j \in 0..(Cycle \div 2) /\ j > 0 /\ j <= Cycle - 1 /\ M <= n
          BY <1>1, <2>2, <2>3, <4>4, <4>5
        <4>7. sent[n].id = After(x, j)
          BY <1>1, <2>3, <4>3, <4>6, ChainIds
        <4>8. x \in 1..Cycle
          BY <2>4
        <4>. HIDE DEF j, x
        <4>9. distance16(x, After(x, j)) = j
          BY <4>6, <4>8, DistanceAhead
        <4>. QED  BY <4>6, <4>7, <4>9 DEF x
      <3>2. CASE sent[n].id = 1 /\ asm.last # 1
        BY <2>2, <3>2
      <3>. QED  BY <1>7, <3>1, <3>2 DEF Recognisable
    <2>6. classify(sent[M].id, sent[n].id, FALSE, TRUE).order # "Late"
      <3>. DEFINE x == sent[M].id
                  y == sent[n].id
      <3>1. x \in 1..Cycle /\ y \in 1..Cycle /\ (distance16(x, y) > 0 \/ (y = 1 /\ TRUE /\ x # 1))
        BY <1>1, <2>4, <2>5
      <3>. HIDE DEF x, y
      <3>2. classify(x, y, FALSE, TRUE).order # "Late"
        BY Zenon, <3>1, NotLate
      <3>. QED  BY Zenon, <3>2 DEF x, y
    <2>7. v.order # "Late"
      BY Zenon, <2>2, <2>6
    <2>. HIDE DEF v
    <2>. QED  BY <1>4, <2>7
  <1>. QED  BY <1>5, <1>6, <1>7

\* No step forgets a block that was started, nor adds a head that was not.
LEMMA HeadsStep ==
  ASSUME AssemblyInv, NewestInv, Timely, NewestIsStarted, Next, ~misled'
  PROVE  NewestIsStarted'
  <1>9. ~misled
    BY MisledStays
  <1>0. ASSUME asm.started \subseteq asm'.started, heads' = heads PROVE NewestIsStarted'
    BY <1>0, <1>9 DEF NewestIsStarted
  <1>1. ASSUME NEW kind \in setup.kinds, CameraSend(kind) PROVE NewestIsStarted'
    BY <1>0, <1>1 DEF CameraSend
  <1>2. ASSUME NEW p \in net, Ingest(p) PROVE NewestIsStarted'
    <2>1. asm' = ingest(asm, p[1], p[2])
      BY <1>2 DEF Ingest
    <2>2. asm.started \subseteq asm'.started
      BY <2>1, IngestStarted
    <2>3. CASE p = <<Len(sent), 0>> /\ asm.in_flight = <<>> /\ Recognisable(p[1])
      <3>1. p[1] = Len(sent) /\ p[2] = 0
        BY <2>3
      <3>2. p[1] \in asm'.started
        BY <1>9, <2>1, <2>3, <3>1, HeadStarts
      <3>3. heads' = heads \cup {p[1]}
        BY <1>2, <2>3 DEF Ingest
      <3>. QED  BY <1>9, <2>2, <3>2, <3>3 DEF NewestIsStarted
    <2>4. CASE ~(p = <<Len(sent), 0>> /\ asm.in_flight = <<>> /\ Recognisable(p[1]))
      <3>1. heads' = heads
        BY <1>2, <2>4 DEF Ingest
      <3>. QED  BY <1>0, <2>2, <3>1
    <2>. QED  BY <2>3, <2>4
  <1>3. ASSUME NEW p \in net, IngestIgnored(p) PROVE NewestIsStarted'
    <2>1. SameBooks(touch(asm, sent[p[1]].id), asm)
      BY TouchOK DEF AssemblyInv
    <2>. QED  BY <1>0, <1>3, <2>1 DEF IngestIgnored, SameBooks
  <1>4. CASE Tick
    <2>1. SameBooks(Ticked(asm), asm)
      BY TickOK DEF AssemblyInv
    <2>2. asm' = Ticked(asm)
      BY Zenon, <1>4 DEF Tick, Ticked
    <2>3. asm'.started = asm.started
      BY <2>1, <2>2 DEF SameBooks
    <2>4. heads' = heads
      BY <1>4 DEF Tick
    <2>. QED  BY <1>0, <2>3, <2>4
  <1>5. CASE Poll
    <2>1. asm' = poll(asm) /\ heads' = heads
      BY <1>5 DEF Poll
    <2>2. SameBooks(asm', asm)
      BY <2>1, PollBooks
    <2>. QED  BY <1>0, <2>1, <2>2 DEF SameBooks
  <1>6. CASE ResendDue
    <2>1. SameBooks(PlannedAll(asm), asm)
      <3>1. \A n \in DOMAIN sent : sent[n] \in SentBlock
        BY DEF AssemblyInv
      <3>. QED  BY <3>1, ResendDueOK DEF AssemblyInv
    <2>2. asm' = PlannedAll(asm)
      BY Zenon, <1>6 DEF ResendDue, PlannedAll
    <2>3. asm'.started = asm.started
      BY <2>1, <2>2 DEF SameBooks
    <2>4. heads' = heads
      BY <1>6 DEF ResendDue
    <2>. QED  BY <1>0, <2>3, <2>4
  <1>7. ASSUME NEW p \in asks, CameraResend(p) PROVE NewestIsStarted'
    BY <1>0, <1>7 DEF CameraResend
  <1>8. ASSUME NEW p \in asks, NEW answer \in {"Gone", "GoneWithPrevious"}, CameraGone(p, answer)
        PROVE  NewestIsStarted'
    <2>. DEFINE id == sent[p[1]].id
                a == touch(asm, id)
                c == on_resend_answer(a, id, p[2], answer)
    <2>1. Good(a, sent, setup.resend) /\ SameBooks(a, asm)
      BY TouchOK DEF AssemblyInv
    <2>2. p[2] \in Nat
      BY DEF AssemblyInv, AsksOK
    <2>3. asm' = c /\ heads' = heads
      BY <1>8 DEF CameraGone
    <2>. HIDE DEF a, id
    <2>4. SameBooks(c, a)
      BY <2>1, <2>2, AnswerOK
    <2>. HIDE DEF c
    <2>. QED  BY <1>0, <2>1, <2>3, <2>4 DEF SameBooks
  <1>. QED  BY <1>1, <1>2, <1>3, <1>4, <1>5, <1>6, <1>7, <1>8 DEF Next

\* A block whose leader arrives with nothing in flight, while it is the newest the camera
\* has sent and its id shows it to be new, is started: also after lost blocks, across the
\* wrap of the ids, and as the first block of a new acquisition (classify, admit); unless
\* a leader of block 1 has passed for a new acquisition, after which the ids look old.
THEOREM NewestBlockIsStarted == Spec /\ []Timely => []NewestIsStarted
  <1>. DEFINE Inv == AssemblyInv /\ NewestInv /\ NewestIsStarted
  <1>1. Init => Inv
    BY AssemblyInit, NewestInit DEF Init, NewestIsStarted
  <1>2. Inv /\ Timely /\ [Next]_vars => Inv'
    <2>. SUFFICES ASSUME AssemblyInv, NewestInv, NewestIsStarted, Timely, [Next]_vars
                  PROVE  AssemblyInv' /\ NewestInv' /\ NewestIsStarted'
      OBVIOUS
    <2>1. AssemblyInv' /\ NewestInv'
      BY AssemblyStep, NewestStep
    <2>2. ASSUME Next PROVE NewestIsStarted'
      <3>1. CASE misled'
        BY <3>1 DEF NewestIsStarted
      <3>2. CASE ~misled'
        BY <2>2, <3>2, HeadsStep
      <3>. QED  BY <3>1, <3>2
    <2>3. ASSUME UNCHANGED vars PROVE NewestIsStarted'
      BY <2>3 DEF vars, NewestIsStarted
    <2>4. NewestIsStarted'
      BY <2>2, <2>3
    <2>. QED  BY <2>1, <2>4
  <1>3. Inv => NewestIsStarted
    OBVIOUS
  <1>. HIDE DEF Inv
  <1>. QED  BY <1>1, <1>2, <1>3, PTL DEF Spec

-----------------------------------------------------------------------------
(* The stream around the assembler. *)

\* What left the assembler: the frames still with the stream or its application, in
\* order, and how many have left in all, those refused or evicted too.
Evicting == IF thread = "evicted" THEN 1 ELSE 0
Waiting  == (given \o held) \o queue
Taken    == stats.complete + stats.incomplete + stats.backpressure + Len(queue) + Len(held) + Evicting

\* The application holds a frame exactly between taking it off the queue and its account.
StreamOK ==
    /\ given \in Seq(Block) /\ held \in Seq(Block) /\ queue \in Seq(Block)
    /\ stats \in [complete : Nat, incomplete : Nat, backpressure : Nat]
    /\ app = "take" => Len(held) = 1
    /\ app # "take" => held = <<>>

\* The inductive invariant of the stream: Books, of the frames that left the assembler,
\* until a leader of block 1 passes for a new acquisition.
StreamInv ==
    /\ AssemblyInv /\ NewestInv /\ ~setup.restartable
    /\ StreamOK
    /\ ~misled => Books(asm, Waiting, Taken)

LEMMA TakenIs ==
  ASSUME StreamOK
  PROVE  /\ Taken \in Nat /\ Waiting \in Seq(Block) /\ Evicting \in {0, 1} /\ given \o held \in Seq(Block)
         /\ stats.complete \in Nat /\ stats.incomplete \in Nat /\ stats.backpressure \in Nat
         /\ Len(queue) \in Nat /\ Len(held) \in Nat
  <1>1. stats.complete \in Nat /\ stats.incomplete \in Nat /\ stats.backpressure \in Nat
    BY DEF StreamOK
  <1>2. Len(queue) \in Nat /\ Len(held) \in Nat /\ given \o held \in Seq(Block)
    BY DEF StreamOK
  <1>3. Evicting \in {0, 1}
    BY DEF Evicting
  <1>4. Waiting \in Seq(Block)
    BY <1>2 DEF StreamOK, Waiting
  <1>5. Taken \in Nat
    <2>. DEFINE w == stats.complete
                x == stats.incomplete
                y == stats.backpressure
                q == Len(queue)
                h == Len(held)
    <2>1. Taken = w + x + y + q + h + Evicting
      BY DEF Taken
    <2>2. w \in Nat /\ x \in Nat /\ y \in Nat /\ q \in Nat /\ h \in Nat
      BY <1>1, <1>2
    <2>. HIDE DEF w, x, y, q, h
    <2>. QED  BY <1>3, <2>1, <2>2
  <1>. QED  BY <1>1, <1>2, <1>3, <1>4, <1>5

LEMMA StreamInit == SInit /\ ~setup.restartable => StreamInv
  <1>. SUFFICES ASSUME SInit, ~setup.restartable PROVE StreamInv
    OBVIOUS
  <1>1. AssemblyInv /\ NewestInv
    BY AssemblyInit, NewestInit DEF SInit
  <1>2. given = <<>> /\ held = <<>> /\ queue = <<>> /\ app = "idle"
    BY DEF SInit
  <1>3. StreamOK
    BY <1>2 DEF StreamOK, SInit
  <1>4. Waiting = <<>>
    BY <1>2 DEF Waiting
  <1>5. Taken = 0
    <2>1. stats.complete = 0 /\ stats.incomplete = 0 /\ stats.backpressure = 0 /\ Evicting = 0
      BY DEF SInit, Evicting
    <2>2. Len(queue) = 0 /\ Len(held) = 0
      BY <1>2
    <2>. QED  BY <2>1, <2>2 DEF Taken
  <1>6. Books(asm, <<>>, 0)
    BY BooksInit DEF SInit
  <1>. QED  BY <1>1, <1>3, <1>4, <1>5, <1>6 DEF StreamInv

\* A step of the assembler, the network or the camera moves no frame of the stream.
LEMMA AroundStep ==
  ASSUME StreamInv, Timely, [Next]_vars, UNCHANGED <<given, held, queue, stats, app>>, Evicting' = Evicting
  PROVE  StreamInv'
  <1>1. AssemblyInv' /\ NewestInv'
    BY AssemblyStep, NewestStep DEF StreamInv
  <1>2. setup' = setup /\ (~misled' => ~misled)
    BY MisledStays
  <1>3. StreamOK /\ StreamOK'
    BY DEF StreamInv, StreamOK
  <1>4. Waiting' = Waiting /\ Taken' = Taken
    BY DEF Waiting, Taken
  <1>5. ASSUME ~misled' PROVE Books(asm', Waiting, Taken)
    BY <1>2, <1>3, <1>5, StepBooks, TakenIs DEF StreamInv
  <1>. QED  BY <1>1, <1>2, <1>3, <1>4, <1>5 DEF StreamInv

\* A step that leaves the assembler alone.
LEMMA StreamStep ==
  ASSUME StreamInv, UNCHANGED vars, StreamOK', Waiting' = Waiting, Taken' = Taken
  PROVE  StreamInv'
  <1>1. UNCHANGED <<setup, asm, sent, net, asks, misled>>
    BY DEF vars
  <1>2. AssemblyInv' /\ NewestInv' /\ (~setup.restartable)'
    <2>1. AssemblyInv'
      BY <1>1, AssemblyStep DEF StreamInv, vars
    <2>. QED  BY <1>1, <2>1 DEF StreamInv, NewestInv
  <1>. QED  BY <1>1, <1>2 DEF StreamInv

LEMMA PollStep ==
  ASSUME StreamInv, asm' = poll(asm), UNCHANGED <<setup, sent, net, asks, misled>>,
         UNCHANGED <<given, held, queue, stats, app>>, Evicting' = Evicting
  PROVE  StreamInv'
  <1>1. AssemblyInv'
    BY PollInv DEF StreamInv
  <1>2. SameBooks(poll(asm), asm)
    BY PollBooks DEF StreamInv
  <1>3. NewestInv'
    BY <1>2 DEF StreamInv, NewestInv, Newest, SameBooks
  <1>4. StreamOK /\ StreamOK'
    BY DEF StreamInv, StreamOK
  <1>5. Waiting' = Waiting /\ Taken' = Taken
    BY DEF Waiting, Taken
  <1>6. ASSUME ~misled PROVE Books(asm', Waiting, Taken)
    BY <1>4, <1>6, PollBooks, TakenIs DEF StreamInv
  <1>. QED  BY <1>1, <1>3, <1>4, <1>5, <1>6 DEF StreamInv

\* Frames leave the middle of a sequence: the rest stays in order.
LEMMA DropOrdered ==
  ASSUME NEW s \in Seq(Block), NEW m \in Seq(Block), NEW t \in Seq(Block), NEW q \in Seq(Block), NEW M,
         Ordered((s \o m) \o t, q, M)
  PROVE  Ordered(s \o t, q, M)
  <1>1. s \o m \in Seq(Block) /\ s \o t \in Seq(Block)
    OBVIOUS
  <1>2. Rising((s \o m) \o t) /\ Rising(q) /\ Below((s \o m) \o t, q) /\ UpTo((s \o m) \o t, M) /\ UpTo(q, M)
    BY DEF Ordered
  <1>3. Rising(s \o m) /\ Rising(t) /\ Below(s \o m, t)
    BY <1>1, <1>2, RisingConcat
  <1>4. Rising(s)
    BY <1>3, RisingConcat
  <1>5. Below(s, t)
    BY <1>3, BelowConcat
  <1>6. Rising(s \o t)
    BY <1>3, <1>4, <1>5, RisingConcat
  <1>7. Below(s \o m, q) /\ Below(t, q)
    BY <1>1, <1>2, BelowConcat
  <1>8. Below(s, q)
    BY <1>7, BelowConcat
  <1>9. Below(s \o t, q)
    BY <1>7, <1>8, BelowConcat
  <1>10. UpTo(s \o m, M) /\ UpTo(t, M)
    BY <1>1, <1>2, UpToConcat
  <1>11. UpTo(s, M)
    BY <1>10, UpToConcat
  <1>12. UpTo(s \o t, M)
    BY <1>10, <1>11, UpToConcat
  <1>. QED  BY <1>2, <1>6, <1>9, <1>12 DEF Ordered

LEMMA HeadTail ==
  ASSUME NEW q \in Seq(Block), q # <<>>
  PROVE  /\ Head(q) \in Block /\ Tail(q) \in Seq(Block) /\ <<Head(q)>> \in Seq(Block)
         /\ <<Head(q)>> \o Tail(q) = q
         /\ Len(q) \in Nat /\ Len(q) >= 1 /\ Len(Tail(q)) = Len(q) - 1
         /\ \A i \in 1..Len(Tail(q)) : Tail(q)[i] = q[i + 1] /\ i + 1 \in 1..Len(q)
  OBVIOUS

LEMMA HeadShift ==
  ASSUME NEW s \in Seq(Block), NEW q \in Seq(Block), q # <<>>
  PROVE  (s \o <<Head(q)>>) \o Tail(q) = s \o q
  OBVIOUS

LEMMA AppendIs ==
  ASSUME NEW q \in Seq(Block), NEW b \in Block
  PROVE  Append(q, b) = q \o <<b>> /\ Append(q, b) \in Seq(Block)
  OBVIOUS

\* The first of the frames handed out is taken off the list.
Delivers(c, a) ==
    /\ a.out # <<>> /\ c.out = Tail(a.out)
    /\ c.in_flight = a.in_flight /\ c.unsupported = a.unsupported /\ SameBooks(c, a)

LEMMA DeliversBooks ==
  ASSUME NEW a \in AsmState, NEW c, Delivers(c, a), NEW pre \in Seq(Block), NEW k \in Nat, Books(a, pre, k)
  PROVE  Books(c, pre \o <<Head(a.out)>>, k + 1)
  <1>1. a.out \in Seq(Block) /\ a.out # <<>> /\ a.in_flight \in Seq(Block) /\ a.unsupported \in Nat
    BY DEF AsmState, Delivers
  <1>. DEFINE h == <<Head(a.out)>>
              T == Tail(a.out)
  <1>2. h \in Seq(Block) /\ T \in Seq(Block) /\ h \o T = a.out /\ Len(a.out) \in Nat /\ Len(T) = Len(a.out) - 1
    BY <1>1, HeadTail
  <1>3. c.out = T /\ c.in_flight = a.in_flight /\ c.unsupported = a.unsupported
        /\ c.missed = a.missed /\ c.started = a.started
    BY DEF Delivers, SameBooks
  <1>. HIDE DEF h, T
  <1>4. (pre \o h) \o T = pre \o a.out
    BY <1>1, HeadShift DEF h, T
  <1>5. Ordered((pre \o h) \o c.out, c.in_flight, Top(c.started))
    BY <1>3, <1>4 DEF Books
  <1>6. Held(c, k + 1) = Held(a, k)
    <2>. DEFINE x == Len(a.out)
                y == Len(a.in_flight)
                z == a.unsupported
    <2>1. x \in Nat /\ y \in Nat /\ z \in Nat
      BY <1>1, <1>2
    <2>2. Held(a, k) = k + x + y + z
      BY DEF Held
    <2>3. Held(c, k + 1) = (k + 1) + (x - 1) + y + z
      BY <1>2, <1>3 DEF Held
    <2>. HIDE DEF x, y, z
    <2>. QED  BY <2>1, <2>2, <2>3
  <1>7. Held(c, k + 1) + c.missed = Span(c.started)
    BY <1>3, <1>6 DEF Books
  <1>. QED  BY <1>5, <1>7 DEF Books, h

\* It is refused, and counted.
LEMMA RefusedBooks ==
  ASSUME NEW a \in AsmState, NEW c, Delivers(c, a), NEW pre \in Seq(Block), NEW k \in Nat, Books(a, pre, k)
  PROVE  Books(c, pre, k + 1)
  <1>1. a.out \in Seq(Block) /\ a.out # <<>> /\ a.in_flight \in Seq(Block)
    BY DEF AsmState, Delivers
  <1>. DEFINE h == <<Head(a.out)>>
  <1>2. h \in Seq(Block) /\ Tail(a.out) \in Seq(Block)
    BY <1>1, HeadTail
  <1>3. c.out \in Seq(Block) /\ c.in_flight \in Seq(Block)
    BY <1>1, <1>2 DEF Delivers
  <1>4. Books(c, pre \o h, k + 1)
    BY DeliversBooks
  <1>. HIDE DEF h
  <1>5. Ordered(pre \o c.out, c.in_flight, Top(c.started))
    BY <1>2, <1>3, <1>4, DropOrdered DEF Books
  <1>. QED  BY <1>4, <1>5 DEF Books

\* It is pushed, and the oldest frame of a full queue leaves.
LEMMA EvictedBooks ==
  ASSUME NEW a \in AsmState, NEW c, Delivers(c, a), NEW s \in Seq(Block), NEW q \in Seq(Block), q # <<>>,
         NEW k \in Nat, Books(a, s \o q, k)
  PROVE  Books(c, s \o Append(Tail(q), Head(a.out)), k + 1)
  <1>1. a.out \in Seq(Block) /\ a.out # <<>> /\ a.in_flight \in Seq(Block)
    BY DEF AsmState, Delivers
  <1>. DEFINE b == Head(a.out)
              h == <<b>>
              x == <<Head(q)>>
              t == Tail(q)
              u == t \o h
  <1>2. h \in Seq(Block) /\ Tail(a.out) \in Seq(Block) /\ b \in Block
    BY <1>1, HeadTail
  <1>3. c.out \in Seq(Block) /\ c.in_flight \in Seq(Block)
    BY <1>1, <1>2 DEF Delivers
  <1>4. x \in Seq(Block) /\ t \in Seq(Block) /\ x \o t = q
    BY HeadTail
  <1>5. u \in Seq(Block) /\ Append(t, b) = u
    BY <1>2, <1>4, AppendIs
  <1>6. s \o q \in Seq(Block)
    OBVIOUS
  <1>7. Books(c, (s \o q) \o h, k + 1)
    BY <1>6, DeliversBooks
  <1>. HIDE DEF h, x, t, b
  <1>8. s \o x \in Seq(Block) /\ u \o c.out \in Seq(Block)
    BY <1>3, <1>4, <1>5
  <1>9. (s \o q) \o h = (s \o x) \o u
    <2>1. s \o q = (s \o x) \o t
      BY <1>4, ConcatAssoc
    <2>2. ((s \o x) \o t) \o h = (s \o x) \o (t \o h)
      <3>1. s \o x \in Seq(Block)
        BY <1>8
      <3>2. t \in Seq(Block)
        BY <1>4
      <3>3. h \in Seq(Block)
        BY <1>2
      <3>. QED  BY <3>1, <3>2, <3>3, ConcatAssoc, SMTT(60)
    <2>. QED  BY <2>1, <2>2
  <1>. HIDE DEF u
  <1>10. ((s \o x) \o u) \o c.out = (s \o x) \o (u \o c.out)
    <2>1. s \o x \in Seq(Block)
      BY <1>8
    <2>2. u \in Seq(Block)
      BY <1>5
    <2>3. c.out \in Seq(Block)
      BY <1>3
    <2>. QED  BY <2>1, <2>2, <2>3, ConcatAssoc, ZenonT(60)
  <1>11. Ordered((s \o x) \o (u \o c.out), c.in_flight, Top(c.started))
    BY <1>7, <1>9, <1>10 DEF Books
  <1>12. Ordered(s \o (u \o c.out), c.in_flight, Top(c.started))
    BY <1>3, <1>4, <1>8, <1>11, DropOrdered
  <1>13. (s \o u) \o c.out = s \o (u \o c.out)
    BY <1>3, <1>5, ConcatAssoc, ZenonT(60)
  <1>14. Books(c, s \o u, k + 1)
    BY <1>7, <1>12, <1>13 DEF Books
  <1>. QED  BY <1>5, <1>14 DEF b, t

\* The list of frames handed out is all of the assembler's state that changes.
LEMMA DeliversGood ==
  ASSUME NEW a, NEW S, NEW on, Good(a, S, on), a.out # <<>>
  PROVE  /\ Good([a EXCEPT !.out = Tail(a.out)], S, on)
         /\ Delivers([a EXCEPT !.out = Tail(a.out)], a)
  <1>. DEFINE c == [a EXCEPT !.out = Tail(a.out)]
              t == Tail(a.out)
  <1>1. a \in AsmState /\ a.out \in Seq(Block)
    BY DEF Good, AsmOK, AsmState
  <1>2. t \in Seq(Block) /\ \A i \in 1..Len(t) : t[i] = a.out[i + 1] /\ i + 1 \in 1..Len(a.out)
    BY <1>1, HeadTail
  <1>3. /\ c.out = t /\ c.in_flight = a.in_flight /\ c.unsupported = a.unsupported
        /\ c.last = a.last /\ c.missed = a.missed /\ c.started = a.started
    BY <1>1 DEF AsmState
  <1>4. c \in AsmState
    <2>. HIDE DEF t
    <2>1. c = [a EXCEPT !.out = t]
      BY DEF t
    <2>. HIDE DEF c
    <2>. QED  BY <1>1, <1>2, <2>1 DEF AsmState
  <1>. HIDE DEF c, t
  <1>5. \A i \in 1..Len(c.out) : Delivered(c.out[i], S)
    BY <1>2, <1>3 DEF Good, AsmOK
  <1>6. AsmOK(c, S, on)
    BY <1>3, <1>4, <1>5 DEF Good, AsmOK
  <1>7. Front(c) /\ Len(c.in_flight) <= MaxInFlight
    BY <1>3 DEF Good, Front
  <1>8. Delivers(c, a)
    BY <1>3 DEF Delivers, SameBooks, t
  <1>. QED  BY <1>6, <1>7, <1>8 DEF Good, c

\* The counts of a step that counts a refused frame, or pushes one.
LEMMA TakenRefused ==
  ASSUME StreamOK, stats' = [stats EXCEPT !.incomplete = stats.incomplete + 1],
         UNCHANGED <<queue, held, given, app>>, Evicting' = Evicting
  PROVE  StreamOK' /\ Taken' = Taken + 1 /\ Waiting' = Waiting
  <1>1. stats'.incomplete = stats.incomplete + 1 /\ stats'.complete = stats.complete
        /\ stats'.backpressure = stats.backpressure
    BY DEF StreamOK
  <1>2. StreamOK'
    BY DEF StreamOK
  <1>3. Taken' = Taken + 1
    <2>. DEFINE w == stats.complete
                x == stats.incomplete
                y == stats.backpressure
                q == Len(queue)
                h == Len(held)
    <2>1. Taken = w + x + y + q + h + Evicting
      BY DEF Taken
    <2>2. w \in Nat /\ x \in Nat /\ y \in Nat /\ q \in Nat /\ h \in Nat /\ Evicting \in {0, 1}
      BY TakenIs
    <2>3. Taken' = w + (x + 1) + y + q + h + Evicting
      BY <1>1 DEF Taken
    <2>. HIDE DEF w, x, y, q, h
    <2>. QED  BY <2>1, <2>2, <2>3
  <1>. QED  BY <1>2, <1>3 DEF Waiting

LEMMA TakenPushed ==
  ASSUME StreamOK, UNCHANGED <<stats, held, given, app>>, queue' \in Seq(Block),
         NEW e \in {0, 1}, Evicting' = e, Evicting = 0, Len(queue') = Len(queue) + 1 - e
  PROVE  StreamOK' /\ Taken' = Taken + 1
  <1>1. StreamOK'
    BY DEF StreamOK
  <1>2. Taken' = Taken + 1
    <2>. DEFINE w == stats.complete
                x == stats.incomplete
                y == stats.backpressure
                q == Len(queue)
                h == Len(held)
    <2>1. Taken = w + x + y + q + h + 0
      BY DEF Taken
    <2>2. w \in Nat /\ x \in Nat /\ y \in Nat /\ q \in Nat /\ h \in Nat
      BY TakenIs
    <2>3. Taken' = w + x + y + (q + 1 - e) + h + e
      BY DEF Taken
    <2>. HIDE DEF w, x, y, q, h
    <2>. QED  BY <2>1, <2>2, <2>3
  <1>. QED  BY <1>1, <1>2

LEMMA DeliverStep == ASSUME StreamInv, DeliverBlock PROVE StreamInv'
  <1>. DEFINE b == Head(asm.out)
  <1>1. asm.out # <<>> /\ thread = "deliver" /\ Evicting = 0
    BY DEF DeliverBlock, Evicting
  <1>2. Good(asm, sent, setup.resend) /\ asm \in AsmState /\ asm.out \in Seq(Block)
    BY DEF StreamInv, AssemblyInv, Good, AsmOK, AsmState
  <1>3. asm' = [asm EXCEPT !.out = Tail(asm.out)]
    BY DEF DeliverBlock
  <1>4. /\ setup' = setup /\ sent' = sent /\ net' = net /\ asks' = asks /\ misled' = misled
        /\ app' = app /\ held' = held /\ given' = given
    BY DEF DeliverBlock
  <1>5. Good(asm', sent, setup.resend) /\ Delivers(asm', asm)
    BY <1>1, <1>2, <1>3, DeliversGood
  <1>6. AssemblyInv'
    BY <1>4, <1>5 DEF StreamInv, AssemblyInv
  <1>7. NewestInv'
    BY <1>4, <1>5 DEF StreamInv, NewestInv, Newest, Delivers, SameBooks
  <1>8. /\ StreamOK /\ Taken \in Nat /\ Waiting \in Seq(Block) /\ given \o held \in Seq(Block)
        /\ queue \in Seq(Block) /\ Len(queue) \in Nat /\ b \in Block
    BY <1>1, <1>2, TakenIs, HeadTail DEF StreamInv, StreamOK
  <1>9. ~misled => Books(asm, Waiting, Taken)
    BY DEF StreamInv
  <1>10. \/ Refused(b) /\ CountRefused /\ thread' = thread /\ queue' = queue
         \/ /\ queue' = Append(IF Len(queue) >= Capacity THEN Tail(queue) ELSE queue, b)
            /\ Evicts /\ stats' = stats
    BY DEF DeliverBlock
  <1>. HIDE DEF b
  <1>11. CASE Refused(b) /\ CountRefused /\ thread' = thread /\ queue' = queue
    <2>1. stats' = [stats EXCEPT !.incomplete = stats.incomplete + 1]
      BY <1>11 DEF CountRefused
    <2>2. Evicting' = Evicting
      BY <1>11 DEF Evicting
    <2>3. StreamOK' /\ Taken' = Taken + 1 /\ Waiting' = Waiting
      BY <1>4, <1>8, <1>11, <2>1, <2>2, TakenRefused
    <2>4. ASSUME ~misled PROVE Books(asm', Waiting, Taken + 1)
      BY <2>4, <1>2, <1>5, <1>8, <1>9, RefusedBooks
    <2>. QED  BY <1>4, <1>6, <1>7, <2>3, <2>4 DEF StreamInv
  <1>12. CASE Len(queue) < Capacity /\ queue' = Append(queue, b) /\ Evicts /\ stats' = stats
    <2>1. Evicting' = 0
      BY <1>8, <1>12, FrameStreamAssumption DEF Evicts, Evicting
    <2>2. queue' = queue \o <<b>> /\ queue' \in Seq(Block) /\ Len(queue') = Len(queue) + 1 - 0
      BY <1>8, <1>12, AppendIs
    <2>3. StreamOK' /\ Taken' = Taken + 1
      BY <1>1, <1>4, <1>8, <1>12, <2>1, <2>2, TakenPushed
    <2>4. ASSUME ~misled PROVE Books(asm', Waiting \o <<b>>, Taken + 1)
      BY <2>4, <1>2, <1>5, <1>8, <1>9, DeliversBooks DEF b
    <2>5. <<b>> \in Seq(Block)
      BY <1>8
    <2>6. Waiting' = Waiting \o <<b>>
      <3>1. ((given \o held) \o queue) \o <<b>> = (given \o held) \o (queue \o <<b>>)
        <4>1. given \o held \in Seq(Block)
          BY <1>8
        <4>2. queue \in Seq(Block)
          BY <1>8
        <4>. QED  BY <2>5, <4>1, <4>2, ConcatAssoc
      <3>. QED  BY <1>4, <2>2, <3>1 DEF Waiting
    <2>. QED  BY <1>4, <1>6, <1>7, <2>3, <2>4, <2>6 DEF StreamInv
  <1>13. CASE Len(queue) >= Capacity /\ queue' = Append(Tail(queue), b) /\ Evicts /\ stats' = stats
    <2>1. Evicting' = 1
      BY <1>8, <1>13 DEF Evicts, Evicting
    <2>2. queue # <<>>
      BY <1>8, <1>13, FrameStreamAssumption
    <2>3. Tail(queue) \in Seq(Block) /\ Len(Tail(queue)) = Len(queue) - 1
      BY <1>8, <2>2, HeadTail
    <2>4. queue' \in Seq(Block) /\ Len(queue') = Len(queue) + 1 - 1
      BY <1>8, <1>13, <2>3
    <2>5. StreamOK' /\ Taken' = Taken + 1
      BY <1>1, <1>4, <1>8, <1>13, <2>1, <2>4, TakenPushed
    <2>6. ASSUME ~misled PROVE Books(asm', (given \o held) \o Append(Tail(queue), b), Taken + 1)
      BY <2>6, <1>2, <1>5, <1>8, <1>9, <2>2, EvictedBooks DEF Waiting, b
    <2>7. Waiting' = (given \o held) \o Append(Tail(queue), b)
      BY <1>4, <1>13 DEF Waiting
    <2>. QED  BY <1>4, <1>6, <1>7, <2>5, <2>6, <2>7 DEF StreamInv
  <1>. QED  BY <1>8, <1>10, <1>11, <1>12, <1>13, FrameStreamAssumption

\* The evicted frame is counted at last.
LEMMA CountEvictedStep == ASSUME StreamInv, CountEvicted PROVE StreamInv'
  <1>1. StreamOK /\ UNCHANGED vars /\ UNCHANGED <<given, held, queue, app>>
    BY DEF StreamInv, CountEvicted
  <1>2. Evicting = 1 /\ Evicting' = 0
    BY DEF CountEvicted, Evicting
  <1>3. stats' = [stats EXCEPT !.backpressure = stats.backpressure + 1]
    BY DEF CountEvicted
  <1>4. stats'.backpressure = stats.backpressure + 1 /\ stats'.complete = stats.complete
        /\ stats'.incomplete = stats.incomplete
    BY <1>1, <1>3 DEF StreamOK
  <1>5. StreamOK'
    BY <1>1, <1>3, SMTT(60) DEF StreamOK
  <1>6. Taken' = Taken
    <2>. DEFINE w == stats.complete
                x == stats.incomplete
                y == stats.backpressure
                q == Len(queue)
                h == Len(held)
    <2>1. Taken = w + x + y + q + h + 1
      BY <1>2 DEF Taken
    <2>2. w \in Nat /\ x \in Nat /\ y \in Nat /\ q \in Nat /\ h \in Nat
      BY <1>1, TakenIs
    <2>3. Taken' = w + x + (y + 1) + q + h + 0
      BY <1>1, <1>2, <1>4 DEF Taken
    <2>. HIDE DEF w, x, y, q, h
    <2>. QED  BY <2>1, <2>2, <2>3
  <1>7. Waiting' = Waiting
    BY <1>1 DEF Waiting
  <1>. QED  BY <1>1, <1>5, <1>6, <1>7, StreamStep

\* The application takes the oldest frame off the queue.
LEMMA PopStep == ASSUME StreamInv, Pop PROVE StreamInv'
  <1>1. StreamOK /\ UNCHANGED vars /\ UNCHANGED <<given, stats, thread>> /\ app = "idle" /\ app' = "take"
    BY DEF StreamInv, Pop
  <1>2. held = <<>> /\ queue \in Seq(Block) /\ given \in Seq(Block) /\ queue # <<>>
    BY <1>1 DEF StreamOK, Pop
  <1>3. held' = <<Head(queue)>> /\ queue' = Tail(queue)
    BY DEF Pop
  <1>4. held' \in Seq(Block) /\ queue' \in Seq(Block) /\ Len(held') = 1 /\ Len(queue') = Len(queue) - 1
    BY <1>2, <1>3, HeadTail
  <1>5. StreamOK'
    BY <1>1, <1>4 DEF StreamOK
  <1>6. Waiting' = Waiting
    <2>1. (given \o <<Head(queue)>>) \o Tail(queue) = given \o queue
      BY <1>2, HeadShift
    <2>2. given \o held = given
      BY <1>2
    <2>. QED  BY <1>1, <1>3, <2>1, <2>2 DEF Waiting
  <1>7. Taken' = Taken
    <2>. DEFINE w == stats.complete
                x == stats.incomplete
                y == stats.backpressure
                q == Len(queue)
    <2>1. Len(held) = 0
      BY <1>2
    <2>2. Taken = w + x + y + q + 0 + Evicting
      BY <2>1 DEF Taken
    <2>3. w \in Nat /\ x \in Nat /\ y \in Nat /\ q \in Nat /\ Evicting \in {0, 1}
      BY <1>1, TakenIs
    <2>4. Taken' = w + x + y + (q - 1) + 1 + Evicting
      BY <1>1, <1>4 DEF Taken, Evicting
    <2>. HIDE DEF w, x, y, q
    <2>. QED  BY <2>2, <2>3, <2>4
  <1>. QED  BY <1>1, <1>5, <1>6, <1>7, StreamStep

\* It accounts for the frame, and gives it to the application.
LEMMA TakeStep == ASSUME StreamInv, take PROVE StreamInv'
  <1>1. StreamOK /\ UNCHANGED vars /\ UNCHANGED <<queue, thread>> /\ app = "take" /\ app' = "idle"
    BY DEF StreamInv, take
  <1>2. held \in Seq(Block) /\ Len(held) = 1 /\ given \in Seq(Block) /\ queue \in Seq(Block)
    BY <1>1 DEF StreamOK
  <1>3. held' = <<>> /\ given' = given \o held
    BY DEF take
  <1>4. \/ stats' = [stats EXCEPT !.complete = stats.complete + 1]
        \/ stats' = [stats EXCEPT !.incomplete = stats.incomplete + 1]
    BY DEF take
  <1>5. /\ stats' \in [complete : Nat, incomplete : Nat, backpressure : Nat]
        /\ stats'.backpressure = stats.backpressure
        /\ \/ stats'.complete = stats.complete + 1 /\ stats'.incomplete = stats.incomplete
           \/ stats'.complete = stats.complete /\ stats'.incomplete = stats.incomplete + 1
    BY <1>1, <1>4 DEF StreamOK
  <1>6. StreamOK'
    <2>1. given' \in Seq(Block) /\ held' \in Seq(Block)
      BY <1>2, <1>3
    <2>. QED  BY <1>1, <1>2, <1>3, <1>5, <2>1 DEF StreamOK
  <1>7. Waiting' = Waiting
    <2>1. given \o held \in Seq(Block)
      BY <1>2
    <2>. DEFINE g == given \o held
    <2>. HIDE DEF g
    <2>2. g \o <<>> = g
      BY <2>1 DEF g
    <2>. QED  BY <1>1, <1>3, <2>2 DEF Waiting, g
  <1>8. Taken' = Taken
    <2>. DEFINE w == stats.complete
                x == stats.incomplete
                y == stats.backpressure
                q == Len(queue)
                w1 == stats'.complete
                x1 == stats'.incomplete
    <2>1. Taken = w + x + y + q + 1 + Evicting
      BY <1>2 DEF Taken
    <2>2. w \in Nat /\ x \in Nat /\ y \in Nat /\ q \in Nat /\ Evicting \in {0, 1}
      BY <1>1, TakenIs
    <2>3. Len(held') = 0
      BY <1>3
    <2>4. Taken' = w1 + x1 + y + q + 0 + Evicting
      BY <1>1, <1>5, <2>3 DEF Taken, Evicting
    <2>5. \/ w1 = w + 1 /\ x1 = x
          \/ w1 = w /\ x1 = x + 1
      BY <1>5
    <2>. HIDE DEF w, x, y, q, w1, x1
    <2>. QED  BY <2>1, <2>2, <2>4, <2>5
  <1>. QED  BY <1>1, <1>6, <1>7, <1>8, StreamStep

\* Every other step of the thread and of the application leaves the frames where they are.
LEMMA QuietStep ==
  ASSUME StreamInv, UNCHANGED <<given, held, queue, stats>>, UNCHANGED vars, Evicting' = Evicting,
         app' = app \/ (app # "take" /\ app' # "take")
  PROVE  StreamInv'
  <1>1. StreamOK'
    BY DEF StreamInv, StreamOK
  <1>2. Waiting' = Waiting /\ Taken' = Taken
    BY DEF Waiting, Taken
  <1>. QED  BY <1>1, <1>2, StreamStep

LEMMA StreamNext == StreamInv /\ Timely /\ [SNext]_allVars => StreamInv'
  <1>. SUFFICES ASSUME StreamInv, Timely, [SNext]_allVars PROVE StreamInv'
    OBVIOUS
  <1>0. ASSUME Next, UNCHANGED ownVars PROVE StreamInv'
    <2>1. Evicting' = Evicting /\ UNCHANGED <<given, held, queue, stats, app>>
      BY <1>0 DEF ownVars, Evicting
    <2>. QED  BY <1>0, <2>1, AroundStep
  <1>1. CASE LoopHead
    BY <1>1, QuietStep DEF LoopHead, Evicting
  <1>2. CASE RecvForeign
    BY <1>2, QuietStep DEF RecvForeign, Evicting
  <1>3. CASE RecvNothing
    BY <1>3, QuietStep DEF RecvNothing, Evicting
  <1>4. CASE RecvFailed
    BY <1>4, QuietStep DEF RecvFailed, Evicting
  <1>5. CASE PollAll
    <2>1. asm' = poll(asm) /\ UNCHANGED <<setup, sent, net, asks, misled>> /\ UNCHANGED <<given, held, queue, stats, app>>
      BY <1>5 DEF PollAll
    <2>2. Evicting' = Evicting
      BY <1>5 DEF PollAll, Evicting
    <2>. QED  BY <2>1, <2>2, PollStep
  <1>6. CASE DeliverBlock
    BY <1>6, DeliverStep
  <1>7. CASE CountEvicted
    BY <1>7, CountEvictedStep
  <1>8. CASE EndIteration
    BY <1>8, QuietStep DEF EndIteration, Evicting
  <1>9. CASE Exit
    BY <1>9, QuietStep DEF Exit, Evicting
  <1>10. ASSUME NEW p \in net, RecvPacket(p) PROVE StreamInv'
    <2>1. Next
      BY <1>10 DEF RecvPacket, Next
    <2>2. Evicting' = Evicting /\ UNCHANGED <<given, held, queue, stats, app>>
      BY <1>10 DEF RecvPacket, Evicting
    <2>. QED  BY <2>1, <2>2, AroundStep
  <1>11. CASE Pop
    BY <1>11, PopStep
  <1>12. CASE take
    BY <1>12, TakeStep
  <1>13. CASE PopEnd
    BY <1>13, QuietStep DEF PopEnd, Evicting
  <1>14. CASE DropStream
    BY <1>14, QuietStep DEF DropStream, Evicting
  <1>15. CASE DropJoined
    BY <1>15, QuietStep DEF DropJoined, Evicting
  <1>16. ASSUME NEW v \in BOOLEAN, set_deliver_incomplete(v) PROVE StreamInv'
    BY <1>16, QuietStep DEF set_deliver_incomplete, Evicting
  <1>17. CASE Time
    BY <1>0, <1>17 DEF Time, Next
  <1>18. CASE Camera
    BY <1>0, <1>18 DEF Camera, Next
  <1>19. CASE GraceOver
    BY <1>19, QuietStep DEF GraceOver, Evicting
  <1>20. CASE UNCHANGED allVars
    BY <1>20, QuietStep DEF allVars, ownVars, Evicting
  <1>21. CASE Thread
    BY <1>1, <1>2, <1>3, <1>4, <1>5, <1>6, <1>7, <1>8, <1>9, <1>10, <1>21 DEF Thread
  <1>22. CASE App
    BY <1>11, <1>12, <1>13, <1>14, <1>15, <1>16, <1>22 DEF App
  <1>. QED  BY <1>17, <1>18, <1>19, <1>20, <1>21, <1>22 DEF SNext

LEMMA CountFollows == StreamInv => EveryFrameCounted
  <1>. SUFFICES ASSUME StreamInv, asm.started # {}, ~misled
                PROVE  stats.complete + stats.incomplete + stats.backpressure + asm.missed + asm.unsupported
                         + Len(asm.in_flight) + Len(asm.out) + Len(queue) + Len(held) + Evicting
                           = Max(asm.started) - Min(asm.started) + 1
    BY DEF EveryFrameCounted, Evicting
  <1>1. StreamOK /\ asm \in AsmState
    BY DEF StreamInv, AssemblyInv, Good, AsmOK
  <1>2. Held(asm, Taken) + asm.missed = Max(asm.started) - Min(asm.started) + 1
    BY DEF StreamInv, Books, Span
  <1>. DEFINE w == stats.complete
              x == stats.incomplete
              y == stats.backpressure
              q == Len(queue)
              h == Len(held)
              m == asm.missed
              z == asm.unsupported
              f == Len(asm.in_flight)
              o == Len(asm.out)
  <1>3. Held(asm, Taken) = (w + x + y + q + h + Evicting) + o + f + z
    BY DEF Held, Taken
  <1>4. w \in Nat /\ x \in Nat /\ y \in Nat /\ q \in Nat /\ h \in Nat /\ Evicting \in {0, 1}
    BY <1>1, TakenIs
  <1>5. m \in Nat /\ z \in Nat /\ f \in Nat /\ o \in Nat
    BY <1>1 DEF AsmState
  <1>. HIDE DEF w, x, y, q, h, m, z, f, o
  <1>6. w + x + y + m + z + f + o + q + h + Evicting = Held(asm, Taken) + asm.missed
    BY <1>3, <1>4, <1>5 DEF m
  <1>. QED  BY <1>2, <1>6 DEF w, x, y, q, h, m, z, f, o

\* The equation of StreamStats, for every stream whose camera does not start its count
\* again and whose packets come while their ids say where they belong: of the camera's
\* blocks from the first started to the newest, each is in one counter or still on its
\* way (deliver, DeliveryQueue::push, FrameStream::take and stats of the assembler).
THEOREM StreamCountsEveryFrame == SSpec /\ ~setup.restartable /\ []Timely => []EveryFrameCounted
  <1>1. StreamInv /\ Timely /\ [SNext]_allVars => StreamInv'
    BY StreamNext
  <1>. QED  BY StreamInit, <1>1, CountFollows, PTL DEF SSpec

LEMMA OrderFollows == StreamInv => DeliveredInOrder
  <1>. DEFINE all == given \o held \o queue \o asm.out \o asm.in_flight
  <1>. SUFFICES ASSUME StreamInv, ~misled PROVE \A i, j \in DOMAIN all : i < j => Origin(all[i]) < Origin(all[j])
    BY DEF DeliveredInOrder
  <1>1. Waiting \in Seq(Block) /\ asm.out \in Seq(Block) /\ asm.in_flight \in Seq(Block)
    BY TakenIs DEF StreamInv, AssemblyInv, Good, AsmOK, AsmState
  <1>2. Waiting \o asm.out \in Seq(Block)
    BY <1>1
  <1>3. /\ Rising(Waiting \o asm.out) /\ Rising(asm.in_flight) /\ Below(Waiting \o asm.out, asm.in_flight)
    BY DEF StreamInv, Books, Ordered
  <1>4. all = (Waiting \o asm.out) \o asm.in_flight
    BY DEF Waiting
  <1>. HIDE DEF all
  <1>5. Rising(all) /\ all \in Seq(Block)
    <2>1. Rising((Waiting \o asm.out) \o asm.in_flight)
      BY <1>1, <1>2, <1>3, RisingConcat
    <2>2. (Waiting \o asm.out) \o asm.in_flight \in Seq(Block)
      BY <1>1, <1>2
    <2>. QED  BY <1>4, <2>1, <2>2
  <1>6. DOMAIN all = 1..Len(all)
    BY <1>5
  <1>7. \A i, j \in DOMAIN all : i < j => Origin(all[i]) < Origin(all[j])
    BY <1>5, <1>6 DEF Rising
  <1>. QED  BY <1>7

\* For the same streams, what the application has been given, what it holds and what
\* waits for it is in the order the camera sent it, each frame once, whatever the queue
\* evicted or the settings refused in between (deliver, DeliveryQueue, next_block).
THEOREM StreamDeliversInOrder == SSpec /\ ~setup.restartable /\ []Timely => []DeliveredInOrder
  <1>1. StreamInv /\ Timely /\ [SNext]_allVars => StreamInv'
    BY StreamNext
  <1>. QED  BY StreamInit, <1>1, OrderFollows, PTL DEF SSpec

-----------------------------------------------------------------------------
(* Streams that are short enough for their ids: Timely follows from how they are set up. *)

\* No restarts and no resends, and at most half a cycle of blocks whose ids do not wrap.
\* (That packets are at most LATE_WINDOW blocks late is part of every Setup.)
Short(s) ==
    /\ ~s.restartable /\ ~s.resend
    /\ s.blocks <= Cycle \div 2
    /\ \A id \in s.starts : id + s.blocks <= Cycle + 1

\* No packet of block 1 comes after one of another block.
OneComesFirst(s) == 1 \in s.starts => s.reordering = 0

\* What is on the network of a short stream.
ShortInv ==
    /\ Short(setup)
    /\ asks = {}
    /\ Len(sent) <= setup.blocks
    /\ sent # <<>> => sent[1].id \in setup.starts
    /\ \A p \in net : p[1] + setup.reordering >= Len(sent)

LEMMA ShortInit == Init /\ Short(setup) => ShortInv
  <1>. SUFFICES ASSUME Init, Short(setup) PROVE ShortInv
    OBVIOUS
  <1>1. sent = <<>> /\ Len(sent) = 0 /\ asks = {} /\ net = {} /\ setup \in Setup
    BY AssemblyAssumption DEF Init
  <1>2. setup.blocks \in Nat
    BY <1>1 DEF Setup
  <1>. QED  BY <1>1, <1>2 DEF ShortInv

LEMMA ShortStep ==
  ASSUME AssemblyInv, ShortInv, [Next]_vars \/ UNCHANGED <<setup, sent, net, asks>>
  PROVE  ShortInv'
  <1>1. sent \in Seq(SentBlock) /\ setup \in Setup /\ asks = {} /\ ~setup.resend
    BY DEF AssemblyInv, ShortInv, Short
  <1>2. ASSUME setup' = setup, sent' = sent, asks' = asks, net' \subseteq net PROVE ShortInv'
    BY <1>2 DEF ShortInv
  <1>3. ASSUME NEW kind \in setup.kinds, CameraSend(kind) PROVE ShortInv'
    <2>1. PICK id : /\ id \in (IF sent = <<>> THEN setup.starts
                        ELSE {NextId(sent[Len(sent)].id)} \cup (IF setup.restartable THEN {1} ELSE {}))
                    /\ sent' = Append(sent, Numbered(id, kind))
      BY <1>3 DEF CameraSend
    <2>2. Len(sent') = Len(sent) + 1 /\ Len(sent) \in Nat /\ sent' # <<>>
      BY <1>1, <2>1
    <2>3. sent'[1].id \in setup.starts
      <3>1. CASE sent = <<>>
        <4>1. sent' = <<Numbered(id, kind)>> /\ id \in setup.starts
          BY <2>1, <3>1
        <4>. QED  BY <4>1 DEF Numbered
      <3>2. CASE sent # <<>>
        <4>1. 1 \in 1..Len(sent) /\ sent'[1] = sent[1]
          BY <1>1, <2>1, <3>2
        <4>. QED  BY <3>2, <4>1 DEF ShortInv
      <3>. QED  BY <3>1, <3>2
    <2>4. Len(sent') <= setup.blocks
      <3>1. setup.blocks \in Nat /\ Len(sent) < setup.blocks
        BY <1>1, <1>3 DEF CameraSend, Setup
      <3>. QED  BY <2>2, <3>1
    <2>5. \A p \in net' : p[1] + setup.reordering >= Len(sent')
      BY <1>3, <2>2 DEF CameraSend, Reaches
    <2>6. setup' = setup /\ asks' = asks
      BY <1>3 DEF CameraSend
    <2>. QED  BY <2>2, <2>3, <2>4, <2>5, <2>6 DEF ShortInv
  <1>4. ASSUME NEW p \in net, Ingest(p) PROVE ShortInv'
    BY <1>2, <1>4 DEF Ingest, Deliver
  <1>5. ASSUME NEW p \in net, IngestIgnored(p) PROVE ShortInv'
    BY <1>2, <1>5 DEF IngestIgnored
  <1>6. CASE Tick
    BY <1>2, <1>6 DEF Tick
  <1>7. CASE Poll
    BY <1>2, <1>7 DEF Poll
  <1>8. CASE ResendDue
    BY <1>1, <1>8 DEF ResendDue
  <1>9. CASE UNCHANGED vars
    BY <1>2, <1>9 DEF vars
  <1>10. CASE UNCHANGED <<setup, sent, net, asks>>
    BY <1>2, <1>10
  <1>11. CASE Next
    BY <1>1, <1>3, <1>4, <1>5, <1>6, <1>7, <1>8, <1>11 DEF Next
  <1>. QED  BY <1>9, <1>10, <1>11

\* The ids of a short stream count up.
LEMMA ShortIds ==
  ASSUME AssemblyInv, NewestInv, ShortInv, NEW n \in DOMAIN sent
  PROVE  /\ sent[1].id \in 1..Cycle /\ sent[n].id = sent[1].id + (n - 1)
         /\ n \in Nat /\ n >= 1 /\ n <= Len(sent) /\ Len(sent) \in Nat
  <1>1. sent \in Seq(SentBlock) /\ setup \in Setup /\ DOMAIN sent = 1..Len(sent) /\ Len(sent) \in Nat
    BY DEF AssemblyInv
  <1>2. n \in 1..Len(sent) /\ 1 \in DOMAIN sent /\ sent # <<>>
    BY <1>1
  <1>3. sent[1].id \in 1..Cycle
    <2>1. sent[1] \in SentBlock
      BY <1>1, <1>2
    <2>. QED  BY <2>1 DEF SentBlock
  <1>4. Chain(sent, 1, n)
    <2>1. Chain(sent, 1, Len(sent))
      BY DEF NewestInv, Consecutive, ShortInv, Short
    <2>. QED  BY <1>1, <1>2, <2>1 DEF Chain
  <1>5. setup.blocks \in Nat /\ Len(sent) <= setup.blocks /\ setup.blocks <= Cycle \div 2
        /\ sent[1].id + setup.blocks <= Cycle + 1
    BY <1>1, <1>2 DEF ShortInv, Short, Setup
  <1>6. Cycle \in Nat /\ Cycle \div 2 \in Nat /\ 2 * (Cycle \div 2) <= Cycle
    BY BlockOrderAssumption, Half
  <1>. DEFINE x == sent[1].id
              B == setup.blocks
              L == Len(sent)
              H == Cycle \div 2
  <1>7. x \in 1..Cycle /\ n \in 1..L /\ L \in Nat /\ B \in Nat /\ L <= B /\ B <= H /\ H \in Nat /\ 2 * H <= Cycle
        /\ x + B <= Cycle + 1
    BY <1>1, <1>2, <1>3, <1>5, <1>6
  <1>8. sent[n].id = After(x, n - 1)
    <2>. HIDE DEF B, H, x
    <2>1. n - 1 <= Cycle - 1 /\ 1 <= n
      BY <1>6, <1>7
    <2>. QED  BY <1>1, <1>2, <1>4, <2>1, ChainIds DEF x
  <1>. HIDE DEF x, B, L, H
  <1>9. x + (n - 1) <= Cycle
    BY <1>6, <1>7
  <1>10. After(x, n - 1) = x + (n - 1)
    BY <1>9 DEF After
  <1>11. n \in Nat /\ n >= 1 /\ n <= L /\ L \in Nat
    BY <1>7
  <1>. QED  BY <1>3, <1>8, <1>10, <1>11 DEF x, L

LEMMA ShortIsTimely == AssemblyInv /\ NewestInv /\ ShortInv => Timely
  <1>. SUFFICES ASSUME AssemblyInv, NewestInv, ShortInv, asm.started # {}, NEW p \in net
                PROVE  /\ p[1] - Max(asm.started) <= Cycle \div 2
                       /\ p[1] - Max(asm.started) >= -LateWindow
                       /\ \A i \in DOMAIN asm.in_flight :
                             asm.in_flight[i].id = sent[p[1]].id => p[1] \in asm.in_flight[i].from
    BY DEF Timely, ShortInv, Short
  <1>1. sent \in Seq(SentBlock) /\ setup \in Setup /\ p[1] \in DOMAIN sent
    BY DEF AssemblyInv, NetOK
  <1>2. Max(asm.started) \in DOMAIN sent
    <2>1. asm.started \in SUBSET (1..Len(sent)) /\ DOMAIN sent = 1..Len(sent) /\ Len(sent) \in Nat
      BY <1>1 DEF NewestInv, Newest
    <2>2. asm.started \subseteq Nat /\ \A y \in asm.started : y <= Len(sent)
      BY <2>1
    <2>3. Max(asm.started) \in asm.started
      BY <2>1, <2>2, MaxIsGreatest
    <2>. QED  BY <2>1, <2>3
  <1>. DEFINE M == Max(asm.started)
              n == p[1]
              L == Len(sent)
              R == setup.reordering
              B == setup.blocks
              H == Cycle \div 2
              x == sent[1].id
  <1>3. x \in 1..Cycle /\ sent[n].id = x + (n - 1) /\ n \in Nat /\ n >= 1 /\ n <= L /\ L \in Nat
    BY <1>1, ShortIds
  <1>4. M \in Nat /\ M >= 1 /\ M <= L
    BY <1>2, ShortIds
  <1>5. n + R >= L /\ R \in Nat /\ R <= LateWindow /\ L <= B /\ B \in Nat /\ B <= H
    BY <1>1, BlockOrderAssumption DEF ShortInv, Short, Setup
  <1>6. H \in Nat /\ LateWindow \in Nat
    BY BlockOrderAssumption, Half
  <1>8. ASSUME NEW i \in DOMAIN asm.in_flight, asm.in_flight[i].id = sent[n].id PROVE n \in asm.in_flight[i].from
    <2>1. asm.in_flight \in Seq(Block) /\ BlockInv(asm.in_flight[i], sent, setup.resend)
      BY DEF AssemblyInv, Good, AsmOK, AsmState
    <2>2. Who(asm.in_flight[i], sent)
      BY <2>1 DEF BlockInv
    <2>3. PICK m : m \in asm.in_flight[i].from /\ m \in DOMAIN sent /\ sent[m].id = sent[n].id
      BY <1>8, <2>2 DEF Who
    <2>4. sent[m].id = x + (m - 1) /\ m \in Nat
      BY <2>3, ShortIds
    <2>. HIDE DEF n, x
    <2>5. m = n
      BY <1>3, <2>3, <2>4
    <2>. QED  BY <2>3, <2>5
  <1>. HIDE DEF M, n, L, R, B, H, x
  <1>9. n - M <= H /\ n - M >= -LateWindow
    BY <1>3, <1>4, <1>5, <1>6
  <1>. QED  BY <1>8, <1>9 DEF M, n, H

\* Where block 1 comes first, its leader is never late.
LEMMA NotMisleading ==
  ASSUME AssemblyInv, NewestInv, ShortInv, OneComesFirst(setup), NEW p \in net
  PROVE  ~Misleading(p)
  <1>. SUFFICES ASSUME asm.started # {}, sent[p[1]].id = 1 PROVE p[1] - Max(asm.started) \in {0, 1}
    BY DEF Misleading
  <1>1. sent \in Seq(SentBlock) /\ setup \in Setup /\ p[1] \in DOMAIN sent
    BY DEF AssemblyInv, NetOK
  <1>2. Max(asm.started) \in DOMAIN sent
    <2>1. asm.started \in SUBSET (1..Len(sent)) /\ DOMAIN sent = 1..Len(sent) /\ Len(sent) \in Nat
      BY <1>1 DEF NewestInv
    <2>2. asm.started \subseteq Nat /\ \A y \in asm.started : y <= Len(sent)
      BY <2>1
    <2>3. Max(asm.started) \in asm.started
      BY <2>1, <2>2, MaxIsGreatest
    <2>. QED  BY <2>1, <2>3
  <1>. DEFINE M == Max(asm.started)
              n == p[1]
              L == Len(sent)
              R == setup.reordering
              x == sent[1].id
  <1>3. x \in 1..Cycle /\ sent[n].id = x + (n - 1) /\ n \in Nat /\ n >= 1 /\ n <= L /\ L \in Nat
    BY <1>1, ShortIds
  <1>4. M \in Nat /\ M >= 1 /\ M <= L
    BY <1>2, ShortIds
  <1>5. n + R >= L /\ (x = 1 => R = 0) /\ sent[n].id = 1
    BY <1>1, <1>3 DEF ShortInv, OneComesFirst
  <1>. HIDE DEF M, n, L, R, x
  <1>6. x = 1 /\ n = 1
    BY <1>3, <1>5
  <1>7. L = 1
    BY <1>3, <1>5, <1>6
  <1>. QED  BY <1>4, <1>6, <1>7 DEF M, n

\* What Timely asks of the network holds in every stream of at most half a cycle of blocks
\* that neither wraps its ids, restarts nor asks for packets again, if its packets are at
\* most LATE_WINDOW blocks late: in such a stream every block is counted once, and the newest
\* is started when its leader comes, as long as no leader of block 1 that came after another
\* block has passed for a restart (classify, admit).
THEOREM ShortStreamsAreTimely == Spec /\ Short(setup) => [](Timely /\ CountedOnce /\ NewestIsStarted)
  <1>. DEFINE Inv == AssemblyInv /\ NewestInv /\ ShortInv
  <1>1. Init /\ Short(setup) => Inv
    BY AssemblyInit, NewestInit, ShortInit
  <1>2. Inv /\ [Next]_vars => Inv'
    <2>. SUFFICES ASSUME AssemblyInv, NewestInv, ShortInv, [Next]_vars
                  PROVE  AssemblyInv' /\ NewestInv' /\ ShortInv'
      OBVIOUS
    <2>1. Timely
      BY ShortIsTimely
    <2>. QED  BY <2>1, AssemblyStep, NewestStep, ShortStep
  <1>3. Inv => Timely
    BY ShortIsTimely
  <1>. HIDE DEF Inv
  <1>4. Spec /\ Short(setup) => []Timely
    BY <1>1, <1>2, <1>3, PTL DEF Spec
  <1>. QED  BY <1>4, BlocksAreCountedOnce, NewestBlockIsStarted, PTL

\* That exception needs a packet of block 1 to come after one of another block: a short
\* stream that begins at a later id, or whose blocks do not overtake each other, has none
\* (the arm of classify that returns Restart for a leader of block 1).
THEOREM ShortStreamsAreNotMisled == Spec /\ Short(setup) /\ OneComesFirst(setup) => []~misled
  <1>. DEFINE Inv == AssemblyInv /\ NewestInv /\ ShortInv /\ OneComesFirst(setup) /\ ~misled
  <1>1. Init /\ Short(setup) /\ OneComesFirst(setup) => Inv
    BY AssemblyInit, NewestInit, ShortInit DEF Init
  <1>2. Inv /\ [Next]_vars => Inv'
    <2>. SUFFICES ASSUME AssemblyInv, NewestInv, ShortInv, OneComesFirst(setup), ~misled, [Next]_vars
                  PROVE  AssemblyInv' /\ NewestInv' /\ ShortInv' /\ OneComesFirst(setup)' /\ ~misled'
      OBVIOUS
    <2>1. AssemblyInv' /\ NewestInv' /\ ShortInv'
      BY ShortIsTimely, AssemblyStep, NewestStep, ShortStep
    <2>2. OneComesFirst(setup)'
      BY MisledStays DEF OneComesFirst
    <2>3. CASE \E p \in net : Ingest(p)
      <3>1. PICK p \in net : Ingest(p)
        BY <2>3
      <3>2. misled' = (misled \/ Misleading(p)) /\ ~Misleading(p)
        BY <3>1, NotMisleading DEF Ingest
      <3>. QED  BY Zenon, <2>1, <2>2, <3>2
    <2>4. CASE ~\E p \in net : Ingest(p)
      <3>1. misled' = misled
        BY <2>4 DEF Next, vars, CameraSend, IngestIgnored, Tick, Poll, ResendDue, CameraResend, CameraGone
      <3>. QED  BY Zenon, <2>1, <2>2, <3>1
    <2>. QED  BY <2>3, <2>4
  <1>3. Inv => ~misled
    OBVIOUS
  <1>. HIDE DEF Inv
  <1>. QED  BY <1>1, <1>2, <1>3, PTL DEF Spec

\* For the same streams, with the same exception: every frame is counted once and frames
\* are handed out in order, whatever is lost, repeated, or reordered within LATE_WINDOW
\* blocks (classify, deliver, DeliveryQueue::push).
THEOREM ShortStreamsAreExact == SSpec /\ Short(setup) => [](EveryFrameCounted /\ DeliveredInOrder)
  <1>. DEFINE Inv == StreamInv /\ ShortInv
  <1>1. SInit /\ Short(setup) => Inv
    <2>1. Short(setup) => ~setup.restartable
      BY DEF Short
    <2>. QED  BY <2>1, StreamInit, ShortInit DEF SInit
  <1>2. Inv /\ [SNext]_allVars => Inv'
    <2>. SUFFICES ASSUME StreamInv, ShortInv, [SNext]_allVars PROVE StreamInv' /\ ShortInv'
      OBVIOUS
    <2>1. AssemblyInv /\ NewestInv
      BY DEF StreamInv
    <2>2. StreamInv'
      BY <2>1, ShortIsTimely, StreamNext
    <2>3. [Next]_vars \/ UNCHANGED <<setup, sent, net, asks>>
      BY DEF SNext, Thread, App, Time, Camera, allVars, vars, Next, LoopHead, RecvForeign, RecvNothing,
             RecvFailed, PollAll, DeliverBlock, CountEvicted, EndIteration, Exit, RecvPacket, Pop, take,
             PopEnd, DropStream, DropJoined, set_deliver_incomplete, GraceOver
    <2>4. ShortInv'
      BY <2>1, <2>3, ShortStep
    <2>. QED  BY <2>2, <2>4
  <1>3. Inv => EveryFrameCounted /\ DeliveredInOrder
    BY CountFollows, OrderFollows
  <1>. HIDE DEF Inv
  <1>. QED  BY <1>1, <1>2, <1>3, PTL DEF SSpec
=============================================================================
