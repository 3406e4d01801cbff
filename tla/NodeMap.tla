------------------------------ MODULE NodeMap ------------------------------
(***************************************************************************)
(* What the GenApi node map keeps of a camera's registers, and when it     *)
(* forgets it (viva-genapi, nodemap.rs and nodemap/refresh.rs).            *)
(*                                                                         *)
(* A node map answers a read from the caches of the nodes on the value     *)
(* path as far as <Cachable> and <PollingTime> let it, drops the caches of *)
(* everything that depends on a node that is written, and records in which *)
(* generation each node last changed, for a viewer to ask what it has to   *)
(* read again.  The map is used by one thread; what it must keep up with   *)
(* is the camera, which stores something else than it is told, changes     *)
(* registers by itself, works on a command while the host goes on, and     *)
(* carries out writes whose acknowledgement is lost.                       *)
(*                                                                         *)
(* A document has a record for each node name, and says what the camera    *)
(* it describes does; a value is 0 or 1, a register a word of named bit    *)
(* fields, and a converter adds its variables modulo 2.  Restrictions,     *)
(* predicates, ports and the formulas themselves are left out.             *)
(***************************************************************************)
EXTENDS Integers, FiniteSets, SequencesExt

CONSTANTS
    Documents,   \* the documents considered: [nodes, banked, moves, rounds, loads, fields]
    MaxChanges,  \* generations explored
    MaxTime,     \* moments of the clock explored
    MaxFaults    \* writes whose answer is lost

ASSUME Bounds == {MaxChanges, MaxTime, MaxFaults} \subseteq Nat

VARIABLES
    doc,     \* the document the map was built from
    built,   \* what building it resolved, for every node: see Build
    mem,     \* the camera's registers: cell -> field -> value
    map,     \* [cache, raw, since, generation, changed, all_changed]
    now,     \* the map's clock
    viewer,  \* [shown, seen]: the values shown, the generation they are of
    own,     \* cell -> when the camera last changed it by itself, if polled
    quiet,   \* <<cell, why>>: changed behind the map's back, not reported since
    undone,  \* nodes whose bits a write to another node has changed
    faults   \* writes whose answer was lost

vars == <<doc, built, mem, map, now, viewer, own, quiet, undone, faults>>

WriteThrough == 0
WriteAround == 1
NoCache == 2

None == -1

-----------------------------------------------------------------------------
(* The document, as it is resolved when the map is built.                  *)

NodesOf(d) == DOMAIN d.nodes

N(d, n) == d.nodes[n]

(* n followed by each node its value is taken from through <pValue>.       *)
value_chain(d, n) ==
    LET chain[k \in NodesOf(d)] ==
          IF N(d, k).from = <<>> THEN <<k>> ELSE <<k>> \o chain[N(d, k).from[1]]
    IN  chain[n]

(* link_selected_values: a selector is linked to the registers behind the  *)
(* features it selects as well, unless the feature is a command.           *)
link_selected_values(d) ==
    UNION { {<<s, l>> : l \in ToSet(value_chain(d, f))} :
              <<s, f>> \in {p \in NodesOf(d) \X NodesOf(d) :
                              /\ p[2] \in N(d, p[1]).selected
                              /\ N(d, p[2]).kind # "command"} }

(* Mutated form: pInvalidator is not a dependency.                         *)
UninvalidatedDependents(d) ==
    { p \in NodesOf(d) \X NodesOf(d) :
        \/ p[1] \in ToSet(N(d, p[2]).from)
        \/ p[1] \in N(d, p[2]).index
        \/ p[2] \in N(d, p[1]).selected }
      \cup link_selected_values(d)

(* The dependents of every node, as build_node records them.               *)
dependents(d) ==
    { p \in NodesOf(d) \X NodesOf(d) :
        \/ p[1] \in ToSet(N(d, p[2]).from)
        \/ p[1] \in N(d, p[2]).index
        \/ p[1] \in N(d, p[2]).invalidators
        \/ p[2] \in N(d, p[1]).selected }
      \cup link_selected_values(d)

(* Every node invalidate_recursive visits from the dependents of a node.   *)
Reached(d, n) ==
    LET step(S) == S \cup {m \in NodesOf(d) : \E k \in S : <<k, m>> \in dependents(d)}
        grown[i \in 0..Cardinality(NodesOf(d))] ==
          IF i = 0 THEN {m \in NodesOf(d) : <<n, m>> \in dependents(d)} ELSE step(grown[i - 1])
    IN  grown[Cardinality(NodesOf(d))]

(* The caching mode and whether a polled node is read through, along the   *)
(* value path (resolve).                                                   *)
resolve(d, n) ==
    LET over[k \in NodesOf(d)] ==
          LET sources == {over[m] : m \in ToSet(N(d, k).from)}
              modes == {N(d, k).mode} \cup {r.mode : r \in sources}
          IN  [mode |-> CHOOSE x \in modes : \A y \in modes : y <= x,
               via_polled |-> \/ \E r \in sources : r.via_polled
                              \/ \E m \in ToSet(N(d, k).from) : N(d, m).period > 0]
    IN  over[n]

Build(d) ==
    [n \in NodesOf(d) |->
       [chain |-> value_chain(d, n), below |-> Reached(d, n), path |-> resolve(d, n)]]

Nodes == NodesOf(doc)
Node(n) == N(doc, n)
Chain(n) == built[n].chain
Register(n) == Last(Chain(n))
Mode(n) == built[n].path.mode
ViaPolled(n) == built[n].path.via_polled
Fields(a) == doc.fields[a]
Features == {n \in Nodes : Node(n).feature}
Commands == {n \in Nodes : Node(n).kind = "command"}
Readable(n) == Node(n).kind # "command" /\ Node(Register(n)).access # "WO"
Settable(n) == Node(n).kind # "command" /\ Node(Register(n)).access # "RO"

-----------------------------------------------------------------------------
(* The camera.  A banked register shows the bank its selector is set to.   *)

Addresses == DOMAIN doc.fields

(* One cell for an address, two where a bank or an index chooses.          *)
Cells ==
    {<<a, i>> \in Addresses \X {0, 1} :
       \/ i = 0
       \/ doc.banked[a] # {}
       \/ \E n \in Nodes : Node(n).at = a /\ Node(n).index # {}}

CellAt(a, i) ==
    <<a, IF doc.banked[a] = {} THEN i
         ELSE LET s == CHOOSE x \in doc.banked[a] : TRUE
              IN  mem[<<s, 0>>][CHOOSE f \in Fields(s) : TRUE]>>

(* What the camera holds for a node now.                                   *)
Truth ==
    LET true[n \in Nodes] ==
          LET node == Node(n)
              at == IF node.index = {} THEN 0 ELSE true[CHOOSE i \in node.index : TRUE]
          IN  CASE node.kind = "register" -> mem[CellAt(node.at, at)][node.bits]
                [] node.kind = "converter" ->
                     FoldLeft(LAMBDA x, m : (x + true[m]) % 2, 0, node.from)
                [] OTHER -> true[node.from[1]]
    IN  true

(* The registers n's value is read from, its index nodes' included, and    *)
(* the addresses it hangs on, those that select a bank included.           *)
RegistersOf(n) ==
    LET regs[k \in Nodes] ==
          (IF Node(k).kind = "register" THEN {k} ELSE {})
            \cup UNION {regs[p] : p \in ToSet(Node(k).from) \cup Node(k).index}
    IN  regs[n]

AddressesOf(n) ==
    UNION {{Node(r).at} \cup doc.banked[Node(r).at] : r \in RegistersOf(n)}

-----------------------------------------------------------------------------
(* Reading: may_serve, may_cache, keeps_written and the getters.           *)

(* Whether an enumeration polled while self-clearing is active now.        *)
self_clearing_active(m, n) ==
    Node(n).kind = "enum" /\ Node(n).period > 0 /\ m.since[n] # None

may_serve(m, n) ==
    /\ Mode(n) # NoCache
    /\ ~ViaPolled(n)
    /\ Node(n).period > 0 =>
         IF Node(n).kind = "enum" THEN m.since[n] = None
         ELSE m.since[n] # None /\ now - m.since[n] < Node(n).period

may_cache(n) == Mode(n) # NoCache /\ ~ViaPolled(n)

keeps_written(n) == Mode(n) = WriteThrough /\ ~ViaPolled(n)

Forgotten(m, S) == [m EXCEPT !.cache = [n \in Nodes |-> IF n \in S THEN <<>> ELSE @[n]],
                             !.raw = [n \in Nodes |-> IF n \in S THEN <<>> ELSE @[n]]]

(* The caches a read of n starts from: an active self-clearing enumeration *)
(* is read past every cache on its value path.                             *)
ReadFrom(m, n) == IF self_clearing_active(m, n) THEN Forgotten(m, ToSet(Chain(n))) ELSE m

(* A formula's cache holds for the generation it was computed in only.     *)
Serves(m, n) ==
    /\ Node(n).kind \in {"register", "enum", "converter"}
    /\ may_serve(m, n)
    /\ m.cache[n] # <<>>
    /\ Node(n).kind = "converter" => m.cache[n][2] = m.generation

(* The value every node answers with.  A register is located, through its  *)
(* index node, before its cache is looked at.                              *)
Answers(m) ==
    LET ans[n \in Nodes] ==
          LET node == Node(n)
              at == IF node.index = {} THEN 0 ELSE ans[CHOOSE i \in node.index : TRUE]
          IN  IF Serves(m, n) THEN m.cache[n][1]
              ELSE CASE node.kind = "register" -> mem[CellAt(node.at, at)][node.bits]
                     [] node.kind = "converter" ->
                          FoldLeft(LAMBDA x, k : (x + ans[k]) % 2, 0, node.from)
                     [] OTHER -> ans[node.from[1]]
    IN  ans

(* The nodes whose getter runs when n is read.                             *)
Visited(m, n) ==
    LET visited[k \in Nodes] ==
          LET more == Node(k).index \cup (IF Serves(m, k) THEN {} ELSE ToSet(Node(k).from))
          IN  {k} \cup UNION {visited[p] : p \in more}
    IN  visited[n]

CellOf(m, r) ==
    CellAt(Node(r).at,
           IF Node(r).index = {} THEN 0 ELSE Answers(m)[CHOOSE i \in Node(r).index : TRUE])

(* The caches once the getters of the nodes in S have run: get_integer,    *)
(* get_enum, get_converter with note_read and note_entry.                  *)
Gotten(m, S) ==
    LET ans == Answers(m)
        asked == {n \in S : ~Serves(m, n) /\ Node(n).kind # "front"}
    IN  [m EXCEPT
          !.cache = [n \in Nodes |->
             IF n \notin asked THEN @[n]
             ELSE IF ~may_cache(n) THEN <<>>
             ELSE IF Node(n).kind = "converter" THEN <<ans[n], m.generation>> ELSE <<ans[n]>>],
          !.raw = [n \in Nodes |->
             IF n \notin asked \/ Node(n).kind # "register" THEN @[n]
             ELSE IF may_cache(n) THEN <<mem[CellOf(m, n)]>> ELSE <<>>],
          !.since = [n \in Nodes |->
             IF n \notin asked \/ Node(n).period = 0 THEN @[n]
             ELSE IF Node(n).kind = "enum" THEN IF ans[n] = 1 THEN now ELSE None
             ELSE now]]

get(m, n) == Gotten(ReadFrom(m, n), Visited(ReadFrom(m, n), n))

ValueOf(m, n) == Answers(ReadFrom(m, n))[n]

-----------------------------------------------------------------------------
(* Forgetting: invalidate_recursive, invalidate_dependents.                *)

note_changed(m, S) ==
    [m EXCEPT !.changed = [n \in Nodes |-> IF n \in S THEN m.generation ELSE @[n]]]

(* Mutated form: the dropped dependents are not recorded as changed.       *)
DropUnrecorded(m, n) ==
    note_changed(Forgotten([m EXCEPT !.generation = @ + 1], built[n].below), {n})

(* A new generation, recorded against n and against everything that        *)
(* depends on it, whose caches are dropped.                                *)
invalidate_dependents(m, n) ==
    LET below == built[n].below
    IN  note_changed(Forgotten([m EXCEPT !.generation = @ + 1], below), below \cup {n})

-----------------------------------------------------------------------------
(* Writing: set_integer, set_float, set_enum, set_converter.               *)

(* The register's other bits: cached, unless the cached reading may have   *)
(* been overtaken by the camera, else read (get_raw_or_read).              *)
get_raw_or_read(m, r, cell) ==
    IF m.raw[r] # <<>> /\ (Node(r).access = "WO" \/ may_serve(m, r))
    THEN m.raw[r][1] ELSE mem[cell]

(* A masked write to a write-only register that was never written is       *)
(* refused: the other bits cannot be had.                                  *)
Unwritable(m, r) ==
    /\ Node(r).access = "WO"
    /\ m.raw[r] = <<>>
    /\ Cardinality(Fields(Node(r).at)) > 1

after_register_write(m, r, value, word) ==
    IF keeps_written(r)
    THEN [m EXCEPT !.cache[r] = <<value>>, !.raw[r] = <<word>>,
                   !.since[r] = IF Node(r).period > 0 THEN now ELSE @]
    ELSE [m EXCEPT !.cache[r] = <<>>,
                   !.raw[r] = IF Node(r).access = "WO" THEN <<word>> ELSE <<>>]

(* What the nodes in front of the register do once it is written: a front  *)
(* node has nothing to do, an enumeration, converter or command forgets    *)
(* and passes the change on.                                               *)
Outward(m, n, value) ==
    CASE Node(n).kind = "front" -> m
      [] Node(n).kind = "converter" -> invalidate_dependents(m, n)
      [] Node(n).kind = "enum" ->
           invalidate_dependents(
             [Forgotten(m, {n}) EXCEPT
                !.since[n] = IF Node(n).period = 0 \/ value = 0 THEN None ELSE now], n)
      [] Node(n).kind = "command" ->
           invalidate_dependents(
             [m EXCEPT !.since[n] = IF Node(n).period > 0 /\ Node(Register(n)).access # "WO"
                                    THEN now ELSE @], n)

(* FormulaTo along the path: the formulas' variables, modulo 2.            *)
RawValue(m, n, value) ==
    FoldLeft(LAMBDA x, k : FoldLeft(LAMBDA y, p : (y + Answers(m)[p]) % 2, x, Tail(Node(k).from)),
             value, SelectSeq(Chain(n), LAMBDA k : Node(k).kind = "converter"))

(* The nodes read to write n: the register's index node and the formulas'  *)
(* variables.                                                              *)
ReadToWrite(m, n) ==
    UNION { Visited(m, k) :
              k \in Node(Register(n)).index
                    \cup UNION {ToSet(Tail(Node(c).from)) :
                                  c \in {x \in ToSet(Chain(n)) : Node(x).kind = "converter"}} }

(* The map once the write of raw through n was acknowledged.               *)
Written(m, n, raw, word) ==
    LET r == Register(n)
        done == invalidate_dependents(after_register_write(m, r, raw, word), r)
        front == SubSeq(Chain(n), 1, Len(Chain(n)) - 1)
    IN  FoldLeft(LAMBDA x, k : Outward(x, k, raw), done, Reverse(front))

-----------------------------------------------------------------------------
Empty(d) ==
    [cache |-> [n \in NodesOf(d) |-> <<>>],
     raw |-> [n \in NodesOf(d) |-> <<>>],
     since |-> [n \in NodesOf(d) |-> None],
     generation |-> 0,
     changed |-> [n \in NodesOf(d) |-> 0],
     all_changed |-> 0]

Init ==
    /\ doc \in Documents
    /\ built = Build(doc)
    /\ mem = [c \in Cells |-> [f \in Fields(c[1]) |-> c[2]]]
    /\ map = Empty(doc)
    /\ now = 0
    /\ viewer = [shown |-> [n \in Features |-> None], seen |-> 0]
    /\ own = [c \in Cells |-> None]
    /\ quiet = {} /\ undone = {}
    /\ faults = 0

Read(n) ==
    /\ Readable(n)
    /\ map' = get(map, n)
    /\ UNCHANGED <<doc, built, mem, now, viewer, own, quiet, undone, faults>>

(* The word a write of value through n puts into the register.             *)
NewWord(m, n, value) ==
    [get_raw_or_read(m, Register(n), CellOf(m, Register(n)))
       EXCEPT ![Node(Register(n)).bits] = RawValue(m, n, value)]

(* The nodes over the other bits of the register that a write changes; a   *)
(* write that was reported as failed may be undone.                        *)
Disturbed(cell, r, word) ==
    {k \in Nodes : /\ Node(k).kind = "register" /\ Node(k).at = Node(r).at
                   /\ Node(k).bits # Node(r).bits
                   /\ <<cell, "unanswered">> \notin quiet
                   /\ word[Node(k).bits] # mem[cell][Node(k).bits]}

(* The camera stores what is written, or what it makes of it.              *)
Store(cell, r, word) ==
    \E v \in IF Node(r).at \in doc.rounds THEN {0, 1} ELSE {word[Node(r).bits]} :
       /\ mem' = [mem EXCEPT ![cell] = [word EXCEPT ![Node(r).bits] = v]]
       /\ undone' = undone \cup Disturbed(cell, r, word)

Set(n, value) ==
    LET m == Gotten(map, ReadToWrite(map, n))
        r == Register(n)
        cell == CellOf(map, r)
        word == NewWord(map, n, value)
    IN  /\ ~Unwritable(map, r)
        /\ map.generation < MaxChanges
        /\ map' = Written(m, n, RawValue(map, n, value), word)
        /\ Store(cell, r, word)
        /\ quiet' = IF Cardinality(Fields(Node(r).at)) = 1 THEN {q \in quiet : q[1] # cell} ELSE quiet
        /\ UNCHANGED <<doc, built, now, viewer, own, faults>>

Write(n, value) == Settable(n) /\ Set(n, value)

(* io.write fails: nothing is noted, and the camera may have carried the   *)
(* write out.  The cached bits of an expired reading are gone already.     *)
WriteFails(n, value) ==
    LET r == Register(n)
        m == Gotten(map, ReadToWrite(map, n))
    IN  /\ Settable(n) /\ ~Unwritable(map, r)
        /\ faults < MaxFaults
        /\ faults' = faults + 1
        /\ map' = IF Node(r).access = "WO" \/ may_serve(map, r) THEN m ELSE [m EXCEPT !.raw[r] = <<>>]
        /\ Store(CellOf(map, r), r, NewWord(map, n, value))
        /\ quiet' = quiet \cup {<<CellOf(map, r), "unanswered">>}
        /\ UNCHANGED <<doc, built, now, viewer, own>>

-----------------------------------------------------------------------------
(* Commands.                                                               *)

exec_command(c) == c \in Commands /\ Set(c, 1)

(* Mutated form: the end of the command invalidates nothing.               *)
DoneUnnoticed(c) ==
    LET path == Tail(Chain(c))
        fresh == Forgotten(map, ToSet(path))
        done == ValueOf(fresh, path[1]) # 1
    IN  /\ c \in Commands /\ Node(Register(c)).access # "WO"
        /\ map.generation < MaxChanges
        /\ map' = [get(fresh, path[1]) EXCEPT !.since[c] = IF done THEN None ELSE @]
        /\ quiet' = IF done THEN {q \in quiet : q[2] # "loaded" \/ q[1][1] \notin doc.loads[c]}
                    ELSE quiet
        /\ UNCHANGED <<doc, built, mem, now, viewer, own, undone, faults>>

(* The register is read past the caches on the path; when it no longer     *)
(* holds the command value, everything depending on it is invalidated.     *)
is_done(c) ==
    LET path == Tail(Chain(c))
        fresh == Forgotten(map, ToSet(path))
        read == get(fresh, path[1])
        done == ValueOf(fresh, path[1]) # 1
    IN  /\ c \in Commands /\ Node(Register(c)).access # "WO"
        /\ map.generation < MaxChanges
        /\ map' = IF ~done THEN read
                  ELSE FoldLeft(invalidate_dependents,
                                [read EXCEPT !.since[c] = None], <<c>> \o path)
        /\ quiet' = IF done THEN {q \in quiet : q[2] # "loaded" \/ q[1][1] \notin doc.loads[c]}
                    ELSE quiet
        /\ UNCHANGED <<doc, built, mem, now, viewer, own, undone, faults>>

-----------------------------------------------------------------------------
(* What the application may ask of the map besides.                        *)

(* Nodes that read the same register and do not depend on n are not told.  *)
SeenElsewhere(cell, n) ==
    \E k \in Features : cell[1] \in AddressesOf(k) /\ k \notin {n} \cup built[n].below

invalidate(n) ==
    LET reach == ToSet(Chain(n))
        m == Forgotten([map EXCEPT !.generation = @ + 1], reach)
    IN  /\ map.generation < MaxChanges
        /\ map' = invalidate_dependents(note_changed(m, reach), n)
        /\ quiet' = {q \in quiet : q[1] # CellOf(map, Register(n)) \/ SeenElsewhere(q[1], n)}
        /\ UNCHANGED <<doc, built, mem, now, viewer, own, undone, faults>>

invalidate_all ==
    /\ map.generation < MaxChanges
    /\ LET m == Forgotten([map EXCEPT !.generation = @ + 1], Nodes)
       IN  map' = [m EXCEPT !.all_changed = m.generation]
    /\ quiet' = {}
    /\ UNCHANGED <<doc, built, mem, now, viewer, own, undone, faults>>

(* The polled nodes whose time has passed are invalidated with all that    *)
(* depends on them; a value once, a command or an entry again and again.   *)
Due == {n \in Nodes : /\ Node(n).period > 0 /\ map.since[n] # None
                      /\ now - map.since[n] >= Node(n).period}

poll ==
    LET touched == Due \cup UNION {built[n].below : n \in Due}
        m == [map EXCEPT !.generation = @ + 1,
                         !.since = [n \in Nodes |->
                            IF n \notin Due THEN @[n]
                            ELSE IF Node(n).kind \in {"enum", "command"} THEN now ELSE None]]
    IN  /\ Due # {}
        /\ map.generation < MaxChanges
        /\ map' = note_changed(Forgotten(m, touched), touched)
        /\ quiet' = {q \in quiet : \A n \in Due : q[1] # CellOf(map, Register(n)) \/ q[2] = "loaded"}
        /\ UNCHANGED <<doc, built, mem, now, viewer, own, undone, faults>>

changed_since(g) ==
    IF map.all_changed > g THEN Nodes ELSE {n \in Nodes : map.changed[n] > g}

(* A viewer asks what has changed since what it shows and reads that, and  *)
(* what it does not show yet, again.                                       *)
ViewerRefresh ==
    LET again == {n \in Features : /\ Readable(n)
                                   /\ n \in changed_since(viewer.seen) \/ viewer.shown[n] = None}
        active == UNION {ToSet(Chain(n)) : n \in {k \in again : self_clearing_active(map, k)}}
        m == Forgotten(map, active)
    IN  /\ again # {} \/ viewer.seen # map.generation
        /\ viewer' = [shown |-> [n \in Features |->
                                   IF n \in again THEN Answers(m)[n] ELSE viewer.shown[n]],
                      seen |-> map.generation]
        /\ map' = Gotten(m, UNION {Visited(m, n) : n \in again})
        /\ UNCHANGED <<doc, built, mem, now, own, quiet, undone, faults>>

-----------------------------------------------------------------------------
(* The camera and the clock.                                               *)

Tick ==
    /\ now < MaxTime
    /\ \E n \in Nodes : Node(n).period > 0
    /\ now' = now + 1
    /\ UNCHANGED <<doc, built, mem, map, viewer, own, quiet, undone, faults>>

(* The camera changes a field of a register it drives.                     *)
CameraMoves(cell, f) ==
    /\ <<cell[1], f>> \in doc.moves
    /\ mem' = [mem EXCEPT ![cell][f] = 1 - @]
    /\ own' = IF \E n \in Nodes : Node(n).at = cell[1] /\ Node(n).period > 0
              THEN [own EXCEPT ![cell] = now] ELSE own
    /\ quiet' = quiet \cup {<<cell, "moved">>}
    /\ UNCHANGED <<doc, built, map, now, viewer, undone, faults>>

(* A self-clearing entry goes back to 0.                                   *)
CameraClears(n) ==
    LET cell == <<Node(Register(n)).at, 0>>
        f == Node(Register(n)).bits
    IN  /\ Node(n).kind = "enum" /\ Node(n).period > 0
        /\ mem[cell][f] = 1
        /\ mem' = [mem EXCEPT ![cell][f] = 0]
        /\ quiet' = quiet \cup {<<cell, "cleared">>}
        /\ UNCHANGED <<doc, built, map, now, viewer, own, undone, faults>>

(* The camera finishes a command: its register reads 0 and the registers   *)
(* it loads hold something else.                                           *)
CameraFinishes(c) ==
    LET cell == <<Node(Register(c)).at, 0>>
        f == Node(Register(c)).bits
        loaded == {<<a, 0>> : a \in doc.loads[c]}
    IN  /\ c \in Commands /\ mem[cell][f] = 1
        /\ mem' = [x \in DOMAIN mem |->
                     IF x = cell THEN [mem[x] EXCEPT ![f] = 0]
                     ELSE IF x \in loaded THEN [g \in DOMAIN mem[x] |-> 1 - mem[x][g]] ELSE mem[x]]
        /\ quiet' = quiet \cup {<<x, "loaded">> : x \in loaded}
        /\ UNCHANGED <<doc, built, map, now, viewer, own, undone, faults>>

Next ==
    \/ \E n \in Features : Read(n)
    \/ \E n \in Features, v \in {0, 1} : Write(n, v)
    \/ \E n \in Features, v \in {0, 1} : WriteFails(n, v)
    \/ \E c \in Commands : exec_command(c)
    \/ \E c \in Commands : is_done(c)
    \/ \E n \in Features : Readable(n) /\ invalidate(n)
    \/ invalidate_all
    \/ poll
    \/ ViewerRefresh
    \/ Tick
    \/ \E cell \in DOMAIN mem : \E f \in Fields(cell[1]) : CameraMoves(cell, f)
    \/ \E n \in Nodes : CameraClears(n)
    \/ \E c \in Commands : CameraFinishes(c)

Spec == Init /\ [][Next]_vars

-----------------------------------------------------------------------------
(* A read answers with what the camera holds, whatever was written through *)
(* whichever node, selected, executed or invalidated before, except that a *)
(* polled register may have moved for less than its polling time, and that *)
(* nobody has looked since the camera finished a command or carried out a  *)
(* write it did not acknowledge (may_serve, invalidate_dependents,         *)
(* is_done: "the reading that never answers with a stale value").          *)
AnswersAreCurrent ==
    \A n \in Features :
       (Readable(n) /\ ValueOf(map, n) # Truth[n]) =>
         \/ \E r \in RegistersOf(n), c \in Cells :
               /\ c[1] = Node(r).at /\ own[c] # None
               /\ now - own[c] < Node(r).period
         \/ \E q \in quiet : q[1][1] \in AddressesOf(n) /\ q[2] \in {"loaded", "unanswered"}

(* A value a viewer shows that is no longer the camera's is among those    *)
(* changed_since names, or was changed by the camera and not reported by   *)
(* poll or is_done since: no write through another node, no selection and  *)
(* no invalidation leaves a viewer with an old value it is not told of     *)
(* (note_changed, poll).                                                   *)
ViewerIsTold ==
    \A n \in Features :
       (viewer.shown[n] # None /\ viewer.shown[n] # Truth[n]) =>
         \/ n \in changed_since(viewer.seen)
         \/ \E q \in quiet : q[1][1] \in AddressesOf(n)

(* A write through one node changes no bits of another: the bits it writes *)
(* back around its own are the camera's (set_integer, get_raw_or_read).    *)
OtherBitsSurvive == undone = {}
=============================================================================
