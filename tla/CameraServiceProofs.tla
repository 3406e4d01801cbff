------------------------- MODULE CameraServiceProofs -------------------------
(***************************************************************************)
(* Proofs about the camera service, for any number of sessions, requests    *)
(* and faults: a retired session is quiet, the camera is let go of as it    *)
(* was found but for what a failed start began, and the acquisition status  *)
(* is true.                                                                 *)
(***************************************************************************)
EXTENDS CameraService, FiniteSetTheorems, TLAPS

AcqTask == [pc : {"none", "idle", "stop", "camera_stop", "inactive", "open", "spawn", "camera_start", "undo",
                  "active", "ended", "aborted"},
            task : BOOLEAN, stop : BOOLEAN, then : {"idle", "open", "ended"}]

EvTask == [pc : {"none", "idle", "join", "restore", "start", "start_empty", "status", "last_status", "ended", "aborted"},
           monitor : {"off", "on", "failed"},
           then : {"idle", "start", "start_empty", "status", "last_status"}]

Bus == [status : {"none", "connected", "disconnected"}, acquisition : {"none", "active", "inactive"},
        events : {"none", "active", "inactive"}, late : SUBSET {"announce", "image", "event", "acquisition", "events"}]

Camera == [at : Nat, acquiring : BOOLEAN, stray : BOOLEAN, events : {"own", "changed"}]

DPlaces == {"discover", "lost", "retire", "gone", "found", "serve", "spawn", "announce", "sleep",
            "await_announcing", "drain", "done"}

TypeInv ==
    /\ d \in [pc : DPlaces, found : Nat, ok : BOOLEAN, served : Nat, old : Nat]
    /\ n \in Nat /\ n <= MaxSessions /\ told \subseteq Sessions
    /\ acq \in [Sessions -> AcqTask] /\ ev \in [Sessions -> EvTask]
    /\ loop \in [Sessions -> Seq({"running", "closing", "ended"})]
    /\ link \in [Sessions -> Nat]
    /\ cam \in Camera
    /\ bus \in Bus /\ botched \in BOOLEAN

\* A session's frame loops run one after the other, and none runs where the acquisition
\* task does not expect one.
QuietLoops(s) == \A k \in DOMAIN loop[s] : loop[s][k] = "ended"

Silent(t) == t.pc \in {"none", "open", "spawn", "ended"} \/ (t.pc = "idle" /\ ~t.task)

LoopInv(s) ==
    /\ \A k \in DOMAIN loop[s] : k < Len(loop[s]) => loop[s][k] = "ended"
    /\ Silent(acq[s]) \/ acq[s].pc \in {"camera_stop", "inactive"} => QuietLoops(s)

\* A session is served, retiring, told to stop, or about to be served.
Unserved(s) == acq[s].pc = "none" /\ ev[s].pc = "none"

SessionInv ==
    /\ d.served \in {0, n} /\ told \subseteq 1..n
    /\ d.served # 0 => d.served \notin told /\ d.pc \notin {"retire", "drain", "gone", "serve", "spawn", "done"}
    /\ d.old # 0 <=> d.pc \in {"retire", "drain"}
    /\ d.old # 0 => d.old \in told
    /\ d.pc \in {"serve", "spawn"} => n # 0 /\ n \notin told /\ Unserved(n)
    /\ \A s \in 1..n : s \in told \/ s = d.served \/ (d.pc \in {"serve", "spawn"} /\ s = n)
    /\ \A s \in Sessions : s > n => Unserved(s)
    /\ \A s \in told : s # d.old /\ ~Aborted(s) => Over(acq[s]) /\ Over(ev[s])

NoneAborted == \A s \in 1..n : ~Aborted(s)

BusInv ==
    /\ bus.status = "disconnected" => d.served = 0 /\ d.old = 0 /\ d.pc \notin {"spawn", "announce"}
    /\ NoneAborted => bus.late \subseteq {"announce"}

\* Where the acquisition task has said, or has had its frame loop say, that it is inactive.
Settled(s) == Silent(acq[s]) \/ (acq[s].pc \in {"camera_start", "undo"} /\ QuietLoops(s))

StatusInv ==
    NoneAborted /\ (\A s \in {d.served, d.old} \ {0} : Settled(s)) => bus.acquisition # "active"

\* Who will put the camera back.
WillStop(t)    == t.pc \in {"active", "stop", "camera_stop"} \/ (t.pc = "idle" /\ t.task)
WillRestore(t) == t.pc = "restore" \/ (t.monitor # "off" /\ t.pc \in {"idle", "join", "status"})

CameraInv ==
    ~botched =>
        /\ cam.acquiring => cam.stray \/ \E s \in Sessions : Reaches(s) /\ WillStop(acq[s])
        /\ cam.events # "own" => \E s \in Sessions : link[s] \in {0, cam.at} /\ WillRestore(ev[s])

IInv == TypeInv /\ (\A s \in Sessions : LoopInv(s)) /\ SessionInv /\ BusInv /\ StatusInv /\ CameraInv
-----------------------------------------------------------------------------
(* How a step of one task leaves the rest. *)

LEMMA SessionNumbers == Sessions \subseteq Nat \ {0} /\ (\A k : k \in Nat /\ k <= MaxSessions => 1..k \subseteq Sessions)
  BY ServiceAssumption DEF Sessions

LEMMA AcqMoves ==
    ASSUME TypeInv, NEW s \in Sessions, NEW r \in AcqTask, acq' = [acq EXCEPT ![s] = r]
    PROVE  /\ acq' \in [Sessions -> AcqTask] /\ acq'[s] = r
           /\ \A q \in Sessions : q # s => acq'[q] = acq[q]
  BY DEF TypeInv

LEMMA EvMoves ==
    ASSUME TypeInv, NEW s \in Sessions, NEW r \in EvTask, ev' = [ev EXCEPT ![s] = r]
    PROVE  /\ ev' \in [Sessions -> EvTask] /\ ev'[s] = r
           /\ \A q \in Sessions : q # s => ev'[q] = ev[q]
  BY DEF TypeInv

\* A task that goes on is one of a session that is served or retiring.
LEMMA WhoIsLive ==
    ASSUME IInv, NEW s \in Sessions, ~Aborted(s),
           ~Over(acq[s]) \/ ~Over(ev[s]) \/ ~QuietLoops(s)
    PROVE  /\ s \in 1..n /\ s \in {d.served, d.old} /\ s # 0
           /\ d.served = 0 \/ d.old = 0
  <1>1. ~Unserved(s)
    BY DEF IInv, LoopInv, Silent, Unserved, Over
  <1>2. ~(Over(acq[s]) /\ Over(ev[s]))
    BY DEF IInv, LoopInv, Silent, Over, Aborted
  <1>3. s \in 1..n
    BY <1>1, SessionNumbers DEF IInv, SessionInv, TypeInv
  <1>4. s \in {d.served, d.old}
    BY <1>1, <1>2, <1>3 DEF IInv, SessionInv
  <1>5. d.served = 0 \/ d.old = 0
    BY DEF IInv, SessionInv
  <1>. QED  BY <1>3, <1>4, <1>5, SessionNumbers

\* Sessions keep their places when tasks that are not over take steps.
LEMMA SessionKeeps ==
    ASSUME IInv, UNCHANGED <<d, n, told>>,
           \A q \in Sessions : acq'[q] = acq[q] \/ (~Over(acq[q]) /\ acq'[q].pc # "none"),
           \A q \in Sessions : ev'[q] = ev[q] \/ (~Over(ev[q]) /\ ev'[q].pc # "none")
    PROVE  SessionInv' /\ (NoneAborted' => NoneAborted)
  <1>1. \A q \in Sessions : Unserved(q) => Unserved(q)'
    BY DEF Unserved, Over
  <1>2. \A q \in Sessions : Aborted(q) => Aborted(q)'
    BY DEF Aborted, Over
  <1>3. 1..n \subseteq Sessions /\ n \in Nat
    BY SessionNumbers DEF IInv, TypeInv
  <1>4. NoneAborted' => NoneAborted
    BY <1>2, <1>3 DEF NoneAborted
  <1>5. ASSUME NEW q \in told, q # d.old, ~Aborted(q)' PROVE Over(acq'[q]) /\ Over(ev'[q])
    <2>1. q \in Sessions
      BY DEF IInv, TypeInv
    <2>2. Over(acq[q]) /\ Over(ev[q])
      BY <1>2, <1>5, <2>1 DEF IInv, SessionInv
    <2>. QED  BY <2>1, <2>2
  <1>6. d.pc \in {"serve", "spawn"} => Unserved(n)'
    <2>1. d.pc \in {"serve", "spawn"} => n \in Sessions /\ Unserved(n)
      BY <1>3 DEF IInv, SessionInv
    <2>. QED  BY <1>1, <2>1
  <1>7. \A q \in Sessions : q > n => Unserved(q)'
    BY <1>1 DEF IInv, SessionInv
  <1>8. /\ d.served \in {0, n} /\ told \subseteq 1..n
        /\ d.served # 0 => d.served \notin told /\ d.pc \notin {"retire", "drain", "gone", "serve", "spawn", "done"}
        /\ d.old # 0 <=> d.pc \in {"retire", "drain"}
        /\ d.old # 0 => d.old \in told
        /\ d.pc \in {"serve", "spawn"} => n # 0 /\ n \notin told
        /\ \A s \in 1..n : s \in told \/ s = d.served \/ (d.pc \in {"serve", "spawn"} /\ s = n)
    BY DEF IInv, SessionInv
  <1>. QED  BY <1>4, <1>5, <1>6, <1>7, <1>8 DEF SessionInv

LEMMA PublishIs ==
    ASSUME bus \in Bus, NEW v \in {"active", "inactive"}
    PROVE  /\ Publish("acquisition", v) =>
                 /\ bus' \in Bus /\ bus'.acquisition = v /\ bus'.status = bus.status
                 /\ bus.status # "disconnected" => bus'.late = bus.late
           /\ Publish("events", v) =>
                 /\ bus' \in Bus /\ bus'.acquisition = bus.acquisition /\ bus'.status = bus.status
                 /\ bus.status # "disconnected" => bus'.late = bus.late
  BY ZenonT(40) DEF Publish, Bus

LEMMA PublishDataIs ==
    ASSUME bus \in Bus, NEW w \in {"announce", "image", "event"}, PublishData(w)
    PROVE  /\ bus' \in Bus /\ bus'.acquisition = bus.acquisition /\ bus'.status = bus.status
           /\ bus.status # "disconnected" => bus'.late = bus.late
           /\ bus'.late \subseteq bus.late \cup {w}
  BY DEF PublishData, Bus

LEMMA LiveIsServed ==
    ASSUME IInv, NEW s \in Sessions, ~Over(acq[s]) \/ ~Over(ev[s]) \/ ~QuietLoops(s), NoneAborted
    PROVE  s \in {d.served, d.old} \ {0}
  <1>1. ~Aborted(s)
    <2>1. CASE s \in 1..n
      BY <2>1 DEF NoneAborted
    <2>2. CASE s \notin 1..n
      <3>1. Unserved(s)
        BY <2>2, SessionNumbers DEF IInv, SessionInv, TypeInv
      <3>. QED  BY <3>1 DEF Unserved, Aborted
    <2>. QED  BY <2>1, <2>2
  <1>. QED  BY <1>1, WhoIsLive

\* What a live task publishes never follows "disconnected".
LEMMA LiveIsConnected ==
    ASSUME IInv, NEW s \in Sessions, ~Over(acq[s]) \/ ~Over(ev[s]) \/ ~QuietLoops(s), NoneAborted
    PROVE  bus.status # "disconnected"
  BY LiveIsServed DEF IInv, BusInv

LEMMA BusKeeps ==
    ASSUME IInv, UNCHANGED <<d, n>>, NoneAborted' => NoneAborted, bus'.status = bus.status,
           NoneAborted => bus'.late \subseteq bus.late \cup {"announce"}
    PROVE  BusInv'
  BY DEF IInv, BusInv

LEMMA LoopsKeep ==
    ASSUME IInv, NEW s \in Sessions, loop' = loop, \A q \in Sessions : q # s => acq'[q] = acq[q],
           Silent(acq'[s]) \/ acq'[s].pc \in {"camera_stop", "inactive"} => QuietLoops(s)
    PROVE  \A q \in Sessions : LoopInv(q)'
  BY DEF IInv, LoopInv, QuietLoops

LEMMA StatusKeeps ==
    ASSUME IInv, {d'.served, d'.old} \ {0} = {d.served, d.old} \ {0}, NoneAborted' => NoneAborted,
           \A q \in {d.served, d.old} \ {0} : Settled(q)' => Settled(q), bus'.acquisition = bus.acquisition
    PROVE  StatusInv'
  BY DEF IInv, StatusInv

LEMMA CameraKeeps ==
    ASSUME IInv, UNCHANGED <<cam, link, botched>>,
           \A q \in Sessions : WillStop(acq[q]) => WillStop(acq'[q]),
           \A q \in Sessions : WillRestore(ev[q]) => WillRestore(ev'[q])
    PROVE  CameraInv'
  BY DEF IInv, CameraInv, Reaches

-----------------------------------------------------------------------------
(* The acquisition task. *)

LEMMA ServedIsSession == ASSUME IInv PROVE {d.served, d.old} \ {0} \subseteq Sessions
  BY SessionNumbers DEF IInv, SessionInv, TypeInv

LEMMA AcqStep ==
    ASSUME IInv, NEW s \in Sessions, NEW r \in AcqTask, acq' = [acq EXCEPT ![s] = r],
           ~Over(acq[s]), r.pc # "none",
           UNCHANGED <<d, n, told, ev, link, loop, cam, bus, botched>>,
           Silent(r) => Settled(s),
           r.pc \in {"camera_start", "undo"} /\ QuietLoops(s) => Settled(s),
           Silent(r) \/ r.pc \in {"camera_stop", "inactive"} => QuietLoops(s),
           WillStop(acq[s]) => WillStop(r)
    PROVE  IInv'
  <1>1. /\ acq' \in [Sessions -> AcqTask] /\ acq'[s] = r
        /\ \A q \in Sessions : q # s => acq'[q] = acq[q]
    BY AcqMoves DEF IInv
  <1>2. TypeInv'
    BY <1>1 DEF IInv, TypeInv
  <1>3. SessionInv' /\ (NoneAborted' => NoneAborted)
    BY <1>1, SessionKeeps
  <1>4. BusInv'
    BY <1>3, BusKeeps
  <1>5. \A q \in Sessions : LoopInv(q)'
    BY <1>1, LoopsKeep
  <1>6. \A q \in {d.served, d.old} \ {0} : Settled(q)' => Settled(q)
    BY <1>1, ServedIsSession DEF Settled, QuietLoops
  <1>7. StatusInv'
    BY <1>3, <1>6, StatusKeeps
  <1>8. CameraInv'
    BY <1>1, CameraKeeps
  <1>. QED  BY <1>2, <1>3, <1>4, <1>5, <1>7, <1>8 DEF IInv

\* Steps that only move the task on.
LEMMA AcqMovesOn ==
    ASSUME IInv, NEW s \in Sessions,
           \/ StartRequest(s) \/ StopRequest(s) \/ AcqShutdown(s) \/ handle_stop(s) \/ AwaitLoop(s)
           \/ \E failed \in BOOLEAN : open_stream(s, failed)
    PROVE  IInv'
  <1>1. acq[s] \in AcqTask /\ acq \in [Sessions -> AcqTask]
    BY DEF IInv, TypeInv
  <1>2. LoopInv(s)
    BY DEF IInv
  <1>3. CASE StartRequest(s)
    <2>. DEFINE p == IF ~acq[s].task THEN "open" ELSE IF TaskFinished(s) THEN "stop" ELSE "idle"
                r == [acq[s] EXCEPT !.pc = p, !.then = "open"]
    <2>1. acq' = [acq EXCEPT ![s] = r] /\ acq[s].pc = "idle"
      BY <1>1, <1>3 DEF StartRequest
    <2>2. p \in {"open", "stop", "idle"} /\ (acq[s].task => p # "open") /\ (~acq[s].task => p = "open")
      OBVIOUS
    <2>. HIDE DEF p
    <2>3. r \in AcqTask /\ r.pc = p /\ r.task = acq[s].task
      BY <1>1, <2>2 DEF AcqTask
    <2>4. UNCHANGED <<d, n, told, ev, link, loop, cam, bus, botched>>
      BY <1>3 DEF StartRequest, AcqKeep
    <2>. HIDE DEF r
    <2>. QED  BY <1>2, <2>1, <2>2, <2>3, <2>4, AcqStep DEF Over, Silent, Settled, LoopInv, WillStop
  <1>4. CASE StopRequest(s)
    <2>. DEFINE r == [acq[s] EXCEPT !.pc = "stop", !.then = "idle"]
    <2>1. acq' = [acq EXCEPT ![s] = r] /\ acq[s].pc = "idle"
      BY <1>1, <1>4 DEF StopRequest
    <2>3. r \in AcqTask /\ r.pc = "stop"
      BY <1>1 DEF AcqTask
    <2>4. UNCHANGED <<d, n, told, ev, link, loop, cam, bus, botched>>
      BY <1>4 DEF StopRequest, AcqKeep
    <2>. HIDE DEF r
    <2>. QED  BY <2>1, <2>3, <2>4, AcqStep DEF Over, Silent, WillStop
  <1>5. CASE AcqShutdown(s)
    <2>. DEFINE p == IF acq[s].task THEN "stop" ELSE "ended"
                r == [acq[s] EXCEPT !.pc = p, !.then = "ended"]
    <2>1. acq' = [acq EXCEPT ![s] = r] /\ acq[s].pc = "idle"
      BY <1>1, <1>5 DEF AcqShutdown
    <2>2. (acq[s].task => p = "stop") /\ (~acq[s].task => p = "ended")
      OBVIOUS
    <2>. HIDE DEF p
    <2>3. r \in AcqTask /\ r.pc = p
      BY <1>1, <2>2 DEF AcqTask
    <2>4. UNCHANGED <<d, n, told, ev, link, loop, cam, bus, botched>>
      BY <1>5 DEF AcqShutdown, AcqKeep
    <2>. HIDE DEF r
    <2>. QED  BY <1>2, <2>1, <2>2, <2>3, <2>4, AcqStep DEF Over, Silent, Settled, LoopInv, WillStop
  <1>6. CASE handle_stop(s)
    <2>1. acq[s].pc = "stop" /\ UNCHANGED <<d, n, told, ev, link, loop, cam, bus, botched>>
      BY <1>6 DEF handle_stop, AcqKeep
    <2>2. CASE acq[s].stop /\ TaskFinished(s)
      <3>. DEFINE r == [acq[s] EXCEPT !.task = FALSE, !.pc = "camera_stop"]
      <3>1. acq' = [acq EXCEPT ![s] = r]
        BY <1>1, <1>6, <2>2 DEF handle_stop
      <3>2. r \in AcqTask /\ r.pc = "camera_stop"
        BY <1>1 DEF AcqTask
      <3>3. QuietLoops(s)
        BY <1>2, <2>2 DEF TaskFinished, Newest, LoopInv, QuietLoops, IInv, TypeInv
      <3>. HIDE DEF r
      <3>. QED  BY <2>1, <3>1, <3>2, <3>3, AcqStep DEF Over, Silent, WillStop
    <2>3. CASE ~(acq[s].stop /\ TaskFinished(s))
      <3>. DEFINE r == [acq[s] EXCEPT !.stop = TRUE]
      <3>1. acq' = [acq EXCEPT ![s] = r]
        BY <1>1, <1>6, <2>3 DEF handle_stop
      <3>2. r \in AcqTask /\ r.pc = "stop"
        BY <1>1, <2>1 DEF AcqTask
      <3>. HIDE DEF r
      <3>. QED  BY <2>1, <3>1, <3>2, AcqStep DEF Over, Silent, WillStop
    <2>. QED  BY <2>2, <2>3
  <1>7. CASE AwaitLoop(s)
    <2>. DEFINE r == [acq[s] EXCEPT !.pc = "idle"]
    <2>1. acq' = [acq EXCEPT ![s] = r] /\ acq[s].pc = "undo" /\ TaskFinished(s)
      BY <1>1, <1>7 DEF AwaitLoop
    <2>2. QuietLoops(s)
      BY <1>2, <2>1 DEF TaskFinished, Newest, LoopInv, QuietLoops, IInv, TypeInv
    <2>3. r \in AcqTask /\ r.pc = "idle"
      BY <1>1 DEF AcqTask
    <2>4. UNCHANGED <<d, n, told, ev, link, loop, cam, bus, botched>>
      BY <1>7 DEF AwaitLoop, AcqKeep
    <2>. HIDE DEF r
    <2>. QED  BY <2>1, <2>2, <2>3, <2>4, AcqStep DEF Over, Settled, WillStop
  <1>8. ASSUME NEW failed \in BOOLEAN, open_stream(s, failed) PROVE IInv'
    <2>. DEFINE p == IF failed THEN "idle" ELSE "spawn"
                r == [acq[s] EXCEPT !.pc = p]
    <2>1. acq' = [acq EXCEPT ![s] = r] /\ acq[s].pc = "open"
      BY <1>1, <1>8 DEF open_stream
    <2>2. p \in {"idle", "spawn"}
      OBVIOUS
    <2>. HIDE DEF p
    <2>3. r \in AcqTask /\ r.pc = p
      BY <1>1, <2>2 DEF AcqTask
    <2>4. UNCHANGED <<d, n, told, ev, link, loop, cam, bus, botched>>
      BY <1>8 DEF open_stream, AcqKeep
    <2>. HIDE DEF r
    <2>. QED  BY <1>2, <2>1, <2>2, <2>3, <2>4, AcqStep DEF Over, Silent, Settled, LoopInv, WillStop
  <1>. QED  BY <1>3, <1>4, <1>5, <1>6, <1>7, <1>8

LEMMA AcqParts ==
    ASSUME IInv, NEW s \in Sessions, NEW r \in AcqTask, acq' = [acq EXCEPT ![s] = r],
           ~Over(acq[s]), r.pc # "none", UNCHANGED <<d, n, told, ev, link>>
    PROVE  /\ acq' \in [Sessions -> AcqTask] /\ acq'[s] = r
           /\ \A q \in Sessions : q # s => acq'[q] = acq[q]
           /\ SessionInv' /\ (NoneAborted' => NoneAborted)
  <1>1. /\ acq' \in [Sessions -> AcqTask] /\ acq'[s] = r
        /\ \A q \in Sessions : q # s => acq'[q] = acq[q]
    BY AcqMoves DEF IInv
  <1>. QED  BY <1>1, SessionKeeps

LEMMA AcqStopStep ==
    ASSUME IInv, NEW s \in Sessions, NEW failed \in BOOLEAN, acquisition_stop(s, failed)
    PROVE  IInv'
  <1>. DEFINE r == [acq[s] EXCEPT !.pc = "inactive"]
  <1>1. acq[s] \in AcqTask /\ acq \in [Sessions -> AcqTask] /\ LoopInv(s)
        /\ cam \in Camera
    BY DEF IInv, TypeInv
  <1>2. /\ acq' = [acq EXCEPT ![s] = r] /\ acq[s].pc = "camera_stop"
        /\ UNCHANGED <<d, n, told, ev, link, loop, bus>>
        /\ botched' = (botched \/ (failed /\ link[s] \in {0, cam.at}))
    BY <1>1 DEF acquisition_stop, AcqKeep
  <1>3. r \in AcqTask /\ r.pc = "inactive"
    BY <1>1 DEF AcqTask
  <1>4. /\ cam' \in Camera
        /\ cam'.at = cam.at /\ cam'.events = cam.events /\ (failed => cam' = cam) /\ (~failed => ~cam'.acquiring)
    BY <1>1 DEF acquisition_stop, Camera
  <1>. HIDE DEF r
  <1>5. /\ acq' \in [Sessions -> AcqTask] /\ acq'[s] = r
        /\ \A q \in Sessions : q # s => acq'[q] = acq[q]
        /\ SessionInv' /\ (NoneAborted' => NoneAborted)
    BY <1>2, <1>3, AcqParts DEF Over
  <1>6. TypeInv'
    <2>1. botched' \in BOOLEAN
      BY <1>2
    <2>. QED  BY <1>2, <1>4, <1>5, <2>1 DEF IInv, TypeInv
  <1>7. BusInv'
    BY <1>2, <1>5, BusKeeps
  <1>8. \A q \in Sessions : LoopInv(q)'
    BY <1>1, <1>2, <1>3, <1>5, LoopsKeep DEF LoopInv
  <1>9. StatusInv'
    <2>1. \A q \in {d.served, d.old} \ {0} : Settled(q)' => Settled(q)
      BY <1>2, <1>3, <1>5, ServedIsSession DEF Settled, QuietLoops, Silent
    <2>. QED  BY <1>2, <1>5, <2>1, StatusKeeps
  <1>10. CameraInv'
    <2>. SUFFICES ASSUME ~botched'
                  PROVE  /\ cam'.acquiring => cam'.stray \/ \E q \in Sessions : Reaches(q)' /\ WillStop(acq'[q])
                         /\ cam'.events # "own" => \E q \in Sessions : link'[q] \in {0, cam'.at} /\ WillRestore(ev'[q])
      BY DEF CameraInv
    <2>1. ~botched /\ (failed => link[s] \notin {0, cam.at})
      BY <1>2
    <2>2. cam'.events # "own" => \E q \in Sessions : link'[q] \in {0, cam'.at} /\ WillRestore(ev'[q])
      BY <1>2, <1>4, <2>1 DEF IInv, CameraInv
    <2>3. ASSUME failed, cam.acquiring, ~cam.stray
          PROVE  \E q \in Sessions : Reaches(q)' /\ WillStop(acq'[q])
      <3>1. PICK q \in Sessions : Reaches(q) /\ WillStop(acq[q])
        BY <2>1, <2>3 DEF IInv, CameraInv
      <3>2. q # s
        BY <2>1, <2>3, <3>1 DEF Reaches
      <3>. QED  BY <1>2, <1>4, <1>5, <3>1, <3>2 DEF Reaches
    <2>. QED  BY <1>4, <2>2, <2>3
  <1>. QED  BY <1>5, <1>6, <1>7, <1>8, <1>9, <1>10 DEF IInv

LEMMA StoppedStatusStep ==
    ASSUME IInv, NEW s \in Sessions, StoppedStatus(s)
    PROVE  IInv'
  <1>. DEFINE r == [acq[s] EXCEPT !.pc = acq[s].then]
  <1>1. acq[s] \in AcqTask /\ acq \in [Sessions -> AcqTask] /\ LoopInv(s) /\ bus \in Bus
    BY DEF IInv, TypeInv
  <1>2. /\ acq' = [acq EXCEPT ![s] = r] /\ acq[s].pc = "inactive" /\ Publish("acquisition", "inactive")
        /\ UNCHANGED <<d, n, told, ev, link, loop, cam, botched>>
    BY <1>1 DEF StoppedStatus, AcqKeep
  <1>3. r \in AcqTask /\ r.pc \in {"idle", "open", "ended"}
    BY <1>1 DEF AcqTask
  <1>. HIDE DEF r
  <1>4. /\ acq' \in [Sessions -> AcqTask] /\ acq'[s] = r
        /\ \A q \in Sessions : q # s => acq'[q] = acq[q]
        /\ SessionInv' /\ (NoneAborted' => NoneAborted)
    BY <1>2, <1>3, AcqParts DEF Over
  <1>5. /\ bus' \in Bus /\ bus'.acquisition = "inactive" /\ bus'.status = bus.status
        /\ bus.status # "disconnected" => bus'.late = bus.late
    BY <1>1, <1>2, PublishIs
  <1>6. NoneAborted => bus.status # "disconnected"
    BY <1>2, LiveIsConnected DEF Over
  <1>7. BusInv'
    BY <1>2, <1>4, <1>5, <1>6, BusKeeps
  <1>8. TypeInv'
    BY <1>2, <1>4, <1>5 DEF IInv, TypeInv
  <1>9. \A q \in Sessions : LoopInv(q)'
    BY <1>1, <1>2, <1>4, LoopsKeep DEF LoopInv
  <1>10. StatusInv'
    BY <1>5 DEF StatusInv
  <1>11. CameraInv'
    BY <1>2, <1>4, CameraKeeps DEF WillStop
  <1>. QED  BY <1>4, <1>7, <1>8, <1>9, <1>10, <1>11 DEF IInv

LEMMA SpawnLoopStep ==
    ASSUME IInv, NEW s \in Sessions, SpawnLoop(s)
    PROVE  IInv'
  <1>. DEFINE r == [acq[s] EXCEPT !.pc = "camera_start", !.stop = FALSE]
              l == Append(loop[s], "running")
  <1>1. acq[s] \in AcqTask /\ acq \in [Sessions -> AcqTask] /\ LoopInv(s)
        /\ loop \in [Sessions -> Seq({"running", "closing", "ended"})]
    BY DEF IInv, TypeInv
  <1>2. /\ acq' = [acq EXCEPT ![s] = r] /\ acq[s].pc = "spawn" /\ loop' = [loop EXCEPT ![s] = l]
        /\ UNCHANGED <<d, n, told, ev, link, bus, cam, botched>>
    BY <1>1 DEF SpawnLoop, AcqKeep
  <1>3. r \in AcqTask /\ r.pc = "camera_start"
    BY <1>1 DEF AcqTask
  <1>4. /\ l \in Seq({"running", "closing", "ended"})
        /\ \A k \in DOMAIN l : k < Len(l) => l[k] = "ended"
    <2>1. QuietLoops(s)
      BY <1>1, <1>2 DEF LoopInv, Silent
    <2>2. loop[s] \in Seq({"running", "closing", "ended"})
      BY <1>1
    <2>. QED  BY <2>1, <2>2 DEF QuietLoops
  <1>. HIDE DEF r, l
  <1>5. /\ acq' \in [Sessions -> AcqTask] /\ acq'[s] = r
        /\ \A q \in Sessions : q # s => acq'[q] = acq[q]
        /\ SessionInv' /\ (NoneAborted' => NoneAborted)
    BY <1>2, <1>3, AcqParts DEF Over
  <1>6. /\ loop' \in [Sessions -> Seq({"running", "closing", "ended"})] /\ loop'[s] = l
        /\ \A q \in Sessions : q # s => loop'[q] = loop[q]
    BY <1>1, <1>2, <1>4
  <1>7. TypeInv'
    BY <1>2, <1>5, <1>6 DEF IInv, TypeInv
  <1>8. BusInv'
    BY <1>2, <1>5, BusKeeps
  <1>9. \A q \in Sessions : LoopInv(q)'
    BY <1>3, <1>4, <1>5, <1>6 DEF IInv, LoopInv, QuietLoops, Silent
  <1>10. StatusInv'
    <2>1. \A q \in {d.served, d.old} \ {0} : Settled(q)' => Settled(q)
      BY <1>2, <1>5, <1>6, ServedIsSession DEF Settled, QuietLoops, Silent
    <2>. QED  BY <1>2, <1>5, <2>1, StatusKeeps
  <1>11. CameraInv'
    BY <1>2, <1>5, CameraKeeps DEF WillStop
  <1>. QED  BY <1>5, <1>7, <1>8, <1>9, <1>10, <1>11 DEF IInv

LEMMA AcqStartStep ==
    ASSUME IInv, NEW s \in Sessions, NEW failed \in BOOLEAN, acquisition_start(s, failed)
    PROVE  IInv'
  <1>. DEFINE p == IF failed THEN "undo" ELSE "active"
              r == [acq[s] EXCEPT !.pc = p, !.stop = failed]
  <1>1. acq[s] \in AcqTask /\ acq \in [Sessions -> AcqTask] /\ LoopInv(s)
        /\ cam \in Camera
    BY DEF IInv, TypeInv
  <1>2. /\ acq' = [acq EXCEPT ![s] = r] /\ acq[s].pc = "camera_start"
        /\ UNCHANGED <<d, n, told, ev, link, loop, bus, botched>> /\ (~failed => Reaches(s))
    BY <1>1 DEF acquisition_start, AcqKeep, Call
  <1>3. (failed => p = "undo") /\ (~failed => p = "active")
    OBVIOUS
  <1>. HIDE DEF p
  <1>4. r \in AcqTask /\ r.pc = p
    BY <1>1, <1>3 DEF AcqTask
  <1>5. /\ cam' \in Camera
        /\ cam'.at = cam.at /\ cam'.events = cam.events /\ (failed => cam' = cam \/ cam'.stray)
    <2>1. PICK began \in BOOLEAN :
              cam' = IF began THEN [cam EXCEPT !.acquiring = TRUE, !.stray = failed] ELSE cam
      BY DEF acquisition_start
    <2>2. CASE began
      <3>1. cam' = [cam EXCEPT !.acquiring = TRUE, !.stray = failed]
        BY <2>1, <2>2
      <3>. QED  BY <1>1, <3>1 DEF Camera
    <2>3. CASE ~began
      <3>1. cam' = cam
        BY <2>1, <2>3
      <3>. QED  BY <1>1, <3>1 DEF Camera
    <2>. QED  BY <2>2, <2>3
  <1>. HIDE DEF r
  <1>6. /\ acq' \in [Sessions -> AcqTask] /\ acq'[s] = r
        /\ \A q \in Sessions : q # s => acq'[q] = acq[q]
        /\ SessionInv' /\ (NoneAborted' => NoneAborted)
    BY <1>2, <1>3, <1>4, AcqParts DEF Over
  <1>7. TypeInv'
    BY <1>2, <1>5, <1>6 DEF IInv, TypeInv
  <1>8. BusInv'
    BY <1>2, <1>6, BusKeeps
  <1>9. \A q \in Sessions : LoopInv(q)'
    BY <1>2, <1>3, <1>4, <1>6, LoopsKeep DEF Silent
  <1>10. StatusInv'
    <2>1. \A q \in {d.served, d.old} \ {0} : Settled(q)' => Settled(q)
      BY <1>2, <1>3, <1>4, <1>6, ServedIsSession DEF Settled, QuietLoops, Silent
    <2>. QED  BY <1>2, <1>6, <2>1, StatusKeeps
  <1>11. CameraInv'
    <2>. SUFFICES ASSUME ~botched'
                  PROVE  /\ cam'.acquiring => cam'.stray \/ \E q \in Sessions : Reaches(q)' /\ WillStop(acq'[q])
                         /\ cam'.events # "own" => \E q \in Sessions : link'[q] \in {0, cam'.at} /\ WillRestore(ev'[q])
      BY DEF CameraInv
    <2>1. ~botched
      BY <1>2
    <2>2. cam'.events # "own" => \E q \in Sessions : link'[q] \in {0, cam'.at} /\ WillRestore(ev'[q])
      BY <1>2, <1>5, <2>1 DEF IInv, CameraInv
    <2>3. ASSUME failed, cam' = cam, cam.acquiring, ~cam.stray
          PROVE  \E q \in Sessions : Reaches(q)' /\ WillStop(acq'[q])
      <3>1. PICK q \in Sessions : Reaches(q) /\ WillStop(acq[q])
        BY <2>1, <2>3 DEF IInv, CameraInv
      <3>2. q # s
        BY <1>2, <3>1 DEF WillStop
      <3>. QED  BY <1>2, <1>5, <1>6, <3>1, <3>2 DEF Reaches
    <2>4. ASSUME ~failed PROVE Reaches(s)' /\ WillStop(acq'[s])
      BY <1>2, <1>3, <1>4, <1>5, <1>6, <2>4 DEF Reaches, WillStop
    <2>. QED  BY <1>5, <2>2, <2>3, <2>4
  <1>. QED  BY <1>6, <1>7, <1>8, <1>9, <1>10, <1>11 DEF IInv

LEMMA StartedStatusStep ==
    ASSUME IInv, NEW s \in Sessions, StartedStatus(s)
    PROVE  IInv'
  <1>. DEFINE r == [acq[s] EXCEPT !.pc = "idle", !.task = TRUE]
  <1>1. acq[s] \in AcqTask /\ acq \in [Sessions -> AcqTask] /\ LoopInv(s) /\ bus \in Bus
    BY DEF IInv, TypeInv
  <1>2. /\ acq' = [acq EXCEPT ![s] = r] /\ acq[s].pc = "active" /\ Publish("acquisition", "active")
        /\ UNCHANGED <<d, n, told, ev, link, loop, cam, botched>>
    BY <1>1 DEF StartedStatus, AcqKeep
  <1>3. r \in AcqTask /\ r.pc = "idle" /\ r.task
    BY <1>1 DEF AcqTask
  <1>. HIDE DEF r
  <1>4. /\ acq' \in [Sessions -> AcqTask] /\ acq'[s] = r
        /\ \A q \in Sessions : q # s => acq'[q] = acq[q]
        /\ SessionInv' /\ (NoneAborted' => NoneAborted)
    BY <1>2, <1>3, AcqParts DEF Over
  <1>5. /\ bus' \in Bus /\ bus'.acquisition = "active" /\ bus'.status = bus.status
        /\ bus.status # "disconnected" => bus'.late = bus.late
    BY <1>1, <1>2, PublishIs
  <1>6. NoneAborted => bus.status # "disconnected"
    BY <1>2, LiveIsConnected DEF Over
  <1>7. BusInv'
    BY <1>2, <1>4, <1>5, <1>6, BusKeeps
  <1>8. TypeInv'
    BY <1>2, <1>4, <1>5 DEF IInv, TypeInv
  <1>9. \A q \in Sessions : LoopInv(q)'
    BY <1>2, <1>3, <1>4, LoopsKeep DEF Silent
  <1>10. StatusInv'
    <2>. SUFFICES ASSUME NoneAborted'
                  PROVE  \E q \in {d'.served, d'.old} \ {0} : ~Settled(q)'
      BY DEF StatusInv
    <2>1. s \in {d.served, d.old} \ {0}
      BY <1>2, <1>4, LiveIsServed DEF Over
    <2>2. ~Settled(s)'
      BY <1>3, <1>4 DEF Settled, Silent
    <2>. QED  BY <1>2, <2>1, <2>2
  <1>11. CameraInv'
    BY <1>2, <1>3, <1>4, CameraKeeps DEF WillStop
  <1>. QED  BY <1>4, <1>7, <1>8, <1>9, <1>10, <1>11 DEF IInv

-----------------------------------------------------------------------------
(* The frame loops. *)

\* A publication of a live task, or an announce, that says nothing new of acquisition.
LEMMA PublishStep ==
    ASSUME IInv, UNCHANGED <<d, n, told, acq, loop, ev, link, cam, botched>>,
           bus' \in Bus, bus'.status = bus.status, NoneAborted => bus'.late \subseteq bus.late \cup {"announce"},
           bus'.acquisition = bus.acquisition
    PROVE  IInv'
  <1>1. TypeInv'
    BY DEF IInv, TypeInv
  <1>2. SessionInv' /\ (NoneAborted' => NoneAborted)
    BY SessionKeeps
  <1>3. BusInv'
    BY <1>2, BusKeeps
  <1>4. \A q \in Sessions : LoopInv(q)'
    BY DEF IInv, LoopInv, QuietLoops
  <1>5. StatusInv'
    <2>1. \A q : Settled(q)' => Settled(q)
      BY DEF Settled, QuietLoops
    <2>. QED  BY <1>2, <2>1, StatusKeeps
  <1>6. CameraInv'
    BY CameraKeeps
  <1>. QED  BY <1>1, <1>2, <1>3, <1>4, <1>5, <1>6 DEF IInv

LEMMA FrameBlockStep ==
    ASSUME IInv, NEW s \in Sessions, NEW k \in DOMAIN loop[s], FrameBlock(s, k)
    PROVE  IInv'
  <1>1. PublishData("image") /\ UNCHANGED <<d, n, told, acq, loop, ev, link, cam, botched>> /\ loop[s][k] = "running"
    BY DEF FrameBlock, LoopKeep
  <1>2. bus \in Bus
    BY DEF IInv, TypeInv
  <1>3. NoneAborted => bus.status # "disconnected"
    BY <1>1, LiveIsConnected DEF QuietLoops
  <1>4. /\ bus' \in Bus /\ bus'.acquisition = bus.acquisition /\ bus'.status = bus.status
        /\ bus.status # "disconnected" => bus'.late = bus.late
    BY <1>1, <1>2, PublishDataIs
  <1>. QED  BY <1>1, <1>3, <1>4, PublishStep

LEMMA StatusTickStep ==
    ASSUME IInv, NEW s \in Sessions, NEW k \in DOMAIN loop[s], StatusTick(s, k)
    PROVE  IInv'
  <1>1. /\ Publish("acquisition", "active") /\ loop[s][k] = "running"
        /\ UNCHANGED <<d, n, told, acq, loop, ev, link, cam, botched>>
    BY DEF StatusTick, LoopKeep
  <1>2. bus \in Bus /\ LoopInv(s)
    BY DEF IInv, TypeInv
  <1>3. NoneAborted => bus.status # "disconnected"
    BY <1>1, LiveIsConnected DEF QuietLoops
  <1>4. /\ bus' \in Bus /\ bus'.acquisition = "active" /\ bus'.status = bus.status
        /\ bus.status # "disconnected" => bus'.late = bus.late
    BY <1>1, <1>2, PublishIs
  <1>5. TypeInv'
    BY <1>1, <1>4 DEF IInv, TypeInv
  <1>6. SessionInv' /\ (NoneAborted' => NoneAborted)
    BY <1>1, SessionKeeps
  <1>7. BusInv'
    BY <1>1, <1>3, <1>4, <1>6, BusKeeps
  <1>8. \A q \in Sessions : LoopInv(q)'
    BY <1>1 DEF IInv, LoopInv, QuietLoops
  <1>9. StatusInv'
    <2>. SUFFICES ASSUME NoneAborted'
                  PROVE  \E q \in {d'.served, d'.old} \ {0} : ~Settled(q)'
      BY DEF StatusInv
    <2>1. s \in {d.served, d.old} \ {0}
      BY <1>1, <1>6, LiveIsServed DEF QuietLoops
    <2>2. ~Settled(s)'
      BY <1>1, <1>2 DEF Settled, LoopInv, QuietLoops
    <2>. QED  BY <1>1, <2>1, <2>2
  <1>10. CameraInv'
    BY <1>1, CameraKeeps
  <1>. QED  BY <1>5, <1>6, <1>7, <1>8, <1>9, <1>10 DEF IInv

LEMMA LoopMoves ==
    ASSUME IInv, NEW s \in Sessions, NEW k \in DOMAIN loop[s], loop[s][k] # "ended",
           NEW v \in {"closing", "ended"}, loop' = [loop EXCEPT ![s][k] = v],
           UNCHANGED <<d, n, told, acq, ev, link, cam, botched>>
    PROVE  /\ loop' \in [Sessions -> Seq({"running", "closing", "ended"})]
           /\ SessionInv' /\ (NoneAborted' => NoneAborted) /\ (\A q \in Sessions : LoopInv(q)') /\ CameraInv'
           /\ v = "closing" => \A q \in Sessions : Settled(q)' => Settled(q)
  <1>1. loop \in [Sessions -> Seq({"running", "closing", "ended"})] /\ LoopInv(s)
    BY DEF IInv, TypeInv
  <1>2. /\ loop'[s] = [loop[s] EXCEPT ![k] = v]
        /\ \A q \in Sessions : q # s => loop'[q] = loop[q]
    BY <1>1
  <1>3. /\ loop'[s] \in Seq({"running", "closing", "ended"}) /\ Len(loop'[s]) = Len(loop[s])
        /\ DOMAIN loop'[s] = DOMAIN loop[s] /\ loop'[s][k] = v
        /\ \A j \in DOMAIN loop[s] : j # k => loop'[s][j] = loop[s][j]
    <2>1. loop[s] \in Seq({"running", "closing", "ended"})
      BY <1>1
    <2>. QED  BY <1>2, <2>1
  <1>4. loop' \in [Sessions -> Seq({"running", "closing", "ended"})]
    BY <1>1, <1>3
  <1>5. SessionInv' /\ (NoneAborted' => NoneAborted)
    BY SessionKeeps
  <1>6. CameraInv'
    BY CameraKeeps
  <1>7. ~QuietLoops(s)
    BY DEF QuietLoops
  <1>8. LoopInv(s)'
    BY <1>1, <1>3, <1>7 DEF LoopInv
  <1>9. \A q \in Sessions : LoopInv(q)'
    BY <1>2, <1>8 DEF IInv, LoopInv, QuietLoops
  <1>10. ASSUME v = "closing", NEW q \in Sessions, Settled(q)' PROVE Settled(q)
    <2>1. ~QuietLoops(s)'
      BY <1>3, <1>10 DEF QuietLoops
    <2>. QED  BY <1>2, <1>10, <2>1 DEF Settled, QuietLoops
  <1>. QED  BY <1>4, <1>5, <1>6, <1>9, <1>10

LEMMA LoopStep ==
    ASSUME IInv, NEW s \in Sessions, NEW k \in DOMAIN loop[s],
           LoopStopped(s, k) \/ StreamEnds(s, k) \/ LoopCloses(s, k)
    PROVE  IInv'
  <1>1. CASE LoopStopped(s, k) \/ StreamEnds(s, k)
    <2>1. /\ loop' = [loop EXCEPT ![s][k] = "closing"] /\ loop[s][k] # "ended"
          /\ UNCHANGED <<d, n, told, acq, ev, link, cam, botched>> /\ bus' = bus
      BY <1>1 DEF LoopStopped, StreamEnds, LoopKeep
    <2>2. /\ loop' \in [Sessions -> Seq({"running", "closing", "ended"})]
          /\ SessionInv' /\ (NoneAborted' => NoneAborted) /\ (\A q \in Sessions : LoopInv(q)') /\ CameraInv'
          /\ \A q \in Sessions : Settled(q)' => Settled(q)
      BY <2>1, LoopMoves
    <2>3. TypeInv'
      BY <2>1, <2>2 DEF IInv, TypeInv
    <2>4. BusInv'
      BY <2>1, <2>2, BusKeeps
    <2>5. StatusInv'
      BY <2>1, <2>2, ServedIsSession, StatusKeeps
    <2>. QED  BY <2>2, <2>3, <2>4, <2>5 DEF IInv
  <1>2. CASE LoopCloses(s, k)
    <2>1. /\ loop' = [loop EXCEPT ![s][k] = "ended"] /\ loop[s][k] = "closing"
          /\ UNCHANGED <<d, n, told, acq, ev, link, cam, botched>> /\ Publish("acquisition", "inactive")
      BY <1>2 DEF LoopCloses, LoopKeep
    <2>2. /\ loop' \in [Sessions -> Seq({"running", "closing", "ended"})]
          /\ SessionInv' /\ (NoneAborted' => NoneAborted) /\ (\A q \in Sessions : LoopInv(q)') /\ CameraInv'
      BY <2>1, LoopMoves
    <2>3. bus \in Bus
      BY DEF IInv, TypeInv
    <2>4. NoneAborted => bus.status # "disconnected"
      BY <2>1, LiveIsConnected DEF QuietLoops
    <2>5. /\ bus' \in Bus /\ bus'.acquisition = "inactive" /\ bus'.status = bus.status
          /\ bus.status # "disconnected" => bus'.late = bus.late
      BY <2>1, <2>3, PublishIs
    <2>6. TypeInv'
      BY <2>1, <2>2, <2>5 DEF IInv, TypeInv
    <2>7. BusInv'
      BY <2>1, <2>2, <2>4, <2>5, BusKeeps
    <2>8. StatusInv'
      BY <2>5 DEF StatusInv
    <2>. QED  BY <2>2, <2>6, <2>7, <2>8 DEF IInv
  <1>. QED  BY <1>1, <1>2

-----------------------------------------------------------------------------
(* The event task. *)

LEMMA EvParts ==
    ASSUME IInv, NEW s \in Sessions, NEW r \in EvTask, ev' = [ev EXCEPT ![s] = r],
           ~Over(ev[s]), r.pc # "none", UNCHANGED <<d, n, told, acq, loop, link>>
    PROVE  /\ ev' \in [Sessions -> EvTask] /\ ev'[s] = r
           /\ \A q \in Sessions : q # s => ev'[q] = ev[q]
           /\ SessionInv' /\ (NoneAborted' => NoneAborted)
           /\ (\A q \in Sessions : LoopInv(q)')
           /\ bus'.acquisition = bus.acquisition => StatusInv'
  <1>1. /\ ev' \in [Sessions -> EvTask] /\ ev'[s] = r
        /\ \A q \in Sessions : q # s => ev'[q] = ev[q]
    BY EvMoves DEF IInv
  <1>2. SessionInv' /\ (NoneAborted' => NoneAborted)
    BY <1>1, SessionKeeps
  <1>3. \A q \in Sessions : LoopInv(q)'
    BY DEF IInv, LoopInv, QuietLoops
  <1>4. ASSUME bus'.acquisition = bus.acquisition PROVE StatusInv'
    <2>1. \A q : Settled(q)' => Settled(q)
      BY DEF Settled, QuietLoops
    <2>. QED  BY <1>2, <1>4, <2>1, StatusKeeps
  <1>. QED  BY <1>1, <1>2, <1>3, <1>4

LEMMA EvStep ==
    ASSUME IInv, NEW s \in Sessions, NEW r \in EvTask, ev' = [ev EXCEPT ![s] = r],
           ~Over(ev[s]), r.pc # "none", UNCHANGED <<d, n, told, acq, loop, link, cam, bus, botched>>,
           WillRestore(ev[s]) => WillRestore(r)
    PROVE  IInv'
  <1>1. /\ ev' \in [Sessions -> EvTask] /\ ev'[s] = r
        /\ \A q \in Sessions : q # s => ev'[q] = ev[q]
        /\ SessionInv' /\ (NoneAborted' => NoneAborted)
        /\ (\A q \in Sessions : LoopInv(q)') /\ StatusInv'
    BY EvParts
  <1>2. TypeInv'
    BY <1>1 DEF IInv, TypeInv
  <1>3. BusInv'
    BY <1>1, BusKeeps
  <1>4. CameraInv'
    BY <1>1, CameraKeeps
  <1>. QED  BY <1>1, <1>2, <1>3, <1>4 DEF IInv

LEMMA EvMovesOn ==
    ASSUME IInv, NEW s \in Sessions,
           \/ \E command \in {"start", "start_empty", "stop"} : EventRequest(s, command)
           \/ MonitorEnded(s) \/ EventsShutdown(s) \/ ChannelFails(s) \/ JoinForward(s)
    PROVE  IInv'
  <1>1. ev[s] \in EvTask /\ ev \in [Sessions -> EvTask]
    BY DEF IInv, TypeInv
  <1>2. ASSUME NEW command \in {"start", "start_empty", "stop"}, EventRequest(s, command) PROVE IInv'
    <2>. DEFINE t == IF command = "stop" THEN "status" ELSE command
                p == IF ev[s].monitor # "off" THEN "join" ELSE t
                r == [ev[s] EXCEPT !.pc = p, !.then = t]
    <2>1. ev' = [ev EXCEPT ![s] = r] /\ ev[s].pc = "idle"
      BY <1>1, <1>2 DEF EventRequest
    <2>2. t \in {"start", "start_empty", "status"} /\ (ev[s].monitor # "off" => p = "join") /\ p \in {t, "join"}
      OBVIOUS
    <2>. HIDE DEF t, p
    <2>3. r \in EvTask /\ r.pc = p /\ r.monitor = ev[s].monitor
      BY <1>1, <2>2 DEF EvTask
    <2>4. UNCHANGED <<d, n, told, acq, loop, link, cam, bus, botched>>
      BY <1>2 DEF EventRequest, EvKeep
    <2>. HIDE DEF r
    <2>. QED  BY <2>1, <2>2, <2>3, <2>4, EvStep DEF Over, WillRestore
  <1>3. CASE MonitorEnded(s)
    <2>. DEFINE r == [ev[s] EXCEPT !.pc = "join", !.then = "status"]
    <2>1. ev' = [ev EXCEPT ![s] = r] /\ ev[s].pc = "idle" /\ UNCHANGED <<d, n, told, acq, loop, link, cam, bus, botched>>
      BY <1>1, <1>3 DEF MonitorEnded, EvKeep
    <2>2. r \in EvTask /\ r.pc = "join" /\ r.monitor = ev[s].monitor
      BY <1>1 DEF EvTask
    <2>. HIDE DEF r
    <2>. QED  BY <2>1, <2>2, EvStep DEF Over, WillRestore
  <1>4. CASE EventsShutdown(s)
    <2>. DEFINE p == IF ev[s].monitor = "off" THEN "ended" ELSE "join"
                r == [ev[s] EXCEPT !.pc = p, !.then = "last_status"]
    <2>1. ev' = [ev EXCEPT ![s] = r] /\ ev[s].pc = "idle" /\ UNCHANGED <<d, n, told, acq, loop, link, cam, bus, botched>>
      BY <1>1, <1>4 DEF EventsShutdown, EvKeep
    <2>2. p \in {"ended", "join"} /\ (ev[s].monitor # "off" => p = "join")
      OBVIOUS
    <2>. HIDE DEF p
    <2>3. r \in EvTask /\ r.pc = p /\ r.monitor = ev[s].monitor
      BY <1>1, <2>2 DEF EvTask
    <2>. HIDE DEF r
    <2>. QED  BY <2>1, <2>2, <2>3, EvStep DEF Over, WillRestore
  <1>5. CASE ChannelFails(s)
    <2>. DEFINE r == [ev[s] EXCEPT !.monitor = "failed"]
    <2>1. ev' = [ev EXCEPT ![s] = r] /\ ~Over(ev[s]) /\ UNCHANGED <<d, n, told, acq, loop, link, cam, bus, botched>>
      BY <1>1, <1>5 DEF ChannelFails, EvKeep
    <2>2. r \in EvTask /\ r.pc = ev[s].pc /\ r.monitor = "failed"
      BY <1>1 DEF EvTask
    <2>. HIDE DEF r
    <2>. QED  BY <2>1, <2>2, EvStep DEF Over, WillRestore
  <1>6. CASE JoinForward(s)
    <2>. DEFINE r == [ev[s] EXCEPT !.pc = "restore", !.monitor = "off"]
    <2>1. ev' = [ev EXCEPT ![s] = r] /\ ev[s].pc = "join" /\ UNCHANGED <<d, n, told, acq, loop, link, cam, bus, botched>>
      BY <1>1, <1>6 DEF JoinForward, EvKeep
    <2>2. r \in EvTask /\ r.pc = "restore"
      BY <1>1 DEF EvTask
    <2>. HIDE DEF r
    <2>. QED  BY <2>1, <2>2, EvStep DEF Over, WillRestore
  <1>. QED  BY <1>2, <1>3, <1>4, <1>5, <1>6

LEMMA ForwardStep ==
    ASSUME IInv, NEW s \in Sessions, ForwardEvent(s)
    PROVE  IInv'
  <1>1. PublishData("event") /\ UNCHANGED <<d, n, told, acq, loop, ev, link, cam, botched>> /\ ~Over(ev[s])
    BY DEF ForwardEvent, EvKeep
  <1>2. bus \in Bus
    BY DEF IInv, TypeInv
  <1>3. NoneAborted => bus.status # "disconnected"
    BY <1>1, LiveIsConnected
  <1>4. /\ bus' \in Bus /\ bus'.acquisition = bus.acquisition /\ bus'.status = bus.status
        /\ bus.status # "disconnected" => bus'.late = bus.late
    BY <1>1, <1>2, PublishDataIs
  <1>. QED  BY <1>1, <1>3, <1>4, PublishStep

LEMMA FinishStep ==
    ASSUME IInv, NEW s \in Sessions, NEW failed \in BOOLEAN, finish(s, failed)
    PROVE  IInv'
  <1>. DEFINE r == [ev[s] EXCEPT !.pc = ev[s].then]
  <1>1. ev[s] \in EvTask /\ ev \in [Sessions -> EvTask]
        /\ cam \in Camera
    BY DEF IInv, TypeInv
  <1>2. /\ ev' = [ev EXCEPT ![s] = r] /\ ev[s].pc = "restore"
        /\ UNCHANGED <<d, n, told, acq, loop, link, bus>>
        /\ botched' = (botched \/ (failed /\ link[s] \in {0, cam.at}))
    BY <1>1 DEF finish, EvKeep
  <1>3. r \in EvTask /\ r.pc # "none"
    BY <1>1 DEF EvTask
  <1>4. /\ cam' \in Camera
        /\ cam'.at = cam.at /\ cam'.acquiring = cam.acquiring /\ cam'.stray = cam.stray
        /\ (failed => cam' = cam) /\ (~failed => cam'.events = "own")
    BY <1>1 DEF finish, Camera
  <1>. HIDE DEF r
  <1>5. /\ ev' \in [Sessions -> EvTask] /\ ev'[s] = r
        /\ \A q \in Sessions : q # s => ev'[q] = ev[q]
        /\ SessionInv' /\ (NoneAborted' => NoneAborted)
        /\ (\A q \in Sessions : LoopInv(q)') /\ StatusInv'
    BY <1>2, <1>3, EvParts DEF Over
  <1>6. TypeInv'
    <2>1. botched' \in BOOLEAN
      BY <1>2
    <2>. QED  BY <1>2, <1>4, <1>5, <2>1 DEF IInv, TypeInv
  <1>7. BusInv'
    BY <1>2, <1>5, BusKeeps
  <1>8. CameraInv'
    <2>. SUFFICES ASSUME ~botched'
                  PROVE  /\ cam'.acquiring => cam'.stray \/ \E q \in Sessions : Reaches(q)' /\ WillStop(acq'[q])
                         /\ cam'.events # "own" => \E q \in Sessions : link'[q] \in {0, cam'.at} /\ WillRestore(ev'[q])
      BY DEF CameraInv
    <2>1. ~botched /\ (failed => link[s] \notin {0, cam.at})
      BY <1>2
    <2>2. cam'.acquiring => cam'.stray \/ \E q \in Sessions : Reaches(q)' /\ WillStop(acq'[q])
      BY <1>2, <1>4, <2>1 DEF IInv, CameraInv, Reaches
    <2>3. ASSUME failed, cam.events # "own"
          PROVE  \E q \in Sessions : link'[q] \in {0, cam'.at} /\ WillRestore(ev'[q])
      <3>1. PICK q \in Sessions : link[q] \in {0, cam.at} /\ WillRestore(ev[q])
        BY <2>1, <2>3 DEF IInv, CameraInv
      <3>2. q # s
        BY <2>1, <2>3, <3>1
      <3>. QED  BY <1>2, <1>4, <1>5, <3>1, <3>2
    <2>. QED  BY <1>4, <2>2, <2>3
  <1>. QED  BY <1>5, <1>6, <1>7, <1>8 DEF IInv

LEMMA StartStep ==
    ASSUME IInv, NEW s \in Sessions, NEW failed \in BOOLEAN, start(s, failed)
    PROVE  IInv'
  <1>. DEFINE p == IF failed THEN "idle" ELSE "status"
              m == IF failed THEN "off" ELSE "on"
              r == [ev[s] EXCEPT !.pc = p, !.monitor = m]
  <1>1. ev[s] \in EvTask /\ ev \in [Sessions -> EvTask]
        /\ cam \in Camera
    BY DEF IInv, TypeInv
  <1>2. /\ ev' = [ev EXCEPT ![s] = r] /\ ev[s].pc \in {"start", "start_empty"}
        /\ UNCHANGED <<d, n, told, acq, loop, link, bus>> /\ (~failed => Reaches(s))
    BY <1>1 DEF start, EvKeep, Call
  <1>3. p \in {"idle", "status"} /\ m \in {"off", "on"} /\ (~failed => p = "status" /\ m = "on")
    OBVIOUS
  <1>. HIDE DEF p, m
  <1>4. r \in EvTask /\ r.pc = p /\ r.monitor = m
    BY <1>1, <1>3 DEF EvTask
  <1>5. /\ cam' \in Camera
        /\ cam'.at = cam.at /\ cam'.acquiring = cam.acquiring /\ cam'.stray = cam.stray
        /\ botched' \in BOOLEAN /\ (~botched' => ~botched /\ (failed => cam' = cam))
    <2>1. PICK changed \in BOOLEAN :
              /\ cam' = IF changed THEN [cam EXCEPT !.events = "changed"] ELSE cam
              /\ botched' = (botched \/ (failed /\ changed))
      BY DEF start
    <2>2. CASE changed
      <3>1. cam' = [cam EXCEPT !.events = "changed"]
        BY <2>1, <2>2
      <3>. QED  BY <1>1, <2>1, <2>2, <3>1 DEF Camera
    <2>3. CASE ~changed
      <3>1. cam' = cam /\ botched' \in BOOLEAN /\ (~botched' => ~botched)
        BY <2>1, <2>3
      <3>. QED  BY <1>1, <3>1 DEF Camera
    <2>. QED  BY <2>2, <2>3
  <1>. HIDE DEF r
  <1>6. /\ ev' \in [Sessions -> EvTask] /\ ev'[s] = r
        /\ \A q \in Sessions : q # s => ev'[q] = ev[q]
        /\ SessionInv' /\ (NoneAborted' => NoneAborted)
        /\ (\A q \in Sessions : LoopInv(q)') /\ StatusInv'
    BY <1>2, <1>3, <1>4, EvParts DEF Over
  <1>7. TypeInv'
    BY <1>2, <1>5, <1>6 DEF IInv, TypeInv
  <1>8. BusInv'
    BY <1>2, <1>6, BusKeeps
  <1>9. CameraInv'
    <2>. SUFFICES ASSUME ~botched'
                  PROVE  /\ cam'.acquiring => cam'.stray \/ \E q \in Sessions : Reaches(q)' /\ WillStop(acq'[q])
                         /\ cam'.events # "own" => \E q \in Sessions : link'[q] \in {0, cam'.at} /\ WillRestore(ev'[q])
      BY DEF CameraInv
    <2>1. ~botched /\ (failed => cam' = cam)
      BY <1>5
    <2>2. cam'.acquiring => cam'.stray \/ \E q \in Sessions : Reaches(q)' /\ WillStop(acq'[q])
      BY <1>2, <1>5, <2>1 DEF IInv, CameraInv, Reaches
    <2>3. ASSUME failed, cam.events # "own"
          PROVE  \E q \in Sessions : link'[q] \in {0, cam'.at} /\ WillRestore(ev'[q])
      <3>1. PICK q \in Sessions : link[q] \in {0, cam.at} /\ WillRestore(ev[q])
        BY <2>1, <2>3 DEF IInv, CameraInv
      <3>2. q # s
        BY <1>2, <3>1 DEF WillRestore
      <3>. QED  BY <1>2, <1>5, <1>6, <3>1, <3>2
    <2>4. ASSUME ~failed PROVE link'[s] \in {0, cam'.at} /\ WillRestore(ev'[s])
      BY <1>2, <1>3, <1>4, <1>5, <1>6, <2>4 DEF Reaches, WillRestore
    <2>. QED  BY <1>5, <2>2, <2>3, <2>4
  <1>. QED  BY <1>6, <1>7, <1>8, <1>9 DEF IInv

LEMMA EventStatusStep ==
    ASSUME IInv, NEW s \in Sessions, EventStatus(s)
    PROVE  IInv'
  <1>. DEFINE p == IF ev[s].pc = "status" THEN "idle" ELSE "ended"
              v == IF ev[s].monitor = "off" THEN "inactive" ELSE "active"
              r == [ev[s] EXCEPT !.pc = p]
  <1>1. ev[s] \in EvTask /\ ev \in [Sessions -> EvTask] /\ bus \in Bus
    BY DEF IInv, TypeInv
  <1>2. /\ ev' = [ev EXCEPT ![s] = r] /\ ev[s].pc \in {"status", "last_status"} /\ Publish("events", v)
        /\ UNCHANGED <<d, n, told, acq, loop, link, cam, botched>>
    BY <1>1 DEF EventStatus, EvKeep
  <1>3. p \in {"idle", "ended"} /\ (ev[s].pc = "status" => p = "idle") /\ v \in {"active", "inactive"}
    OBVIOUS
  <1>. HIDE DEF p, v
  <1>4. r \in EvTask /\ r.pc = p /\ r.monitor = ev[s].monitor
    BY <1>1, <1>3 DEF EvTask
  <1>. HIDE DEF r
  <1>5. /\ bus' \in Bus /\ bus'.acquisition = bus.acquisition /\ bus'.status = bus.status
        /\ bus.status # "disconnected" => bus'.late = bus.late
    BY <1>1, <1>2, <1>3, PublishIs
  <1>6. NoneAborted => bus.status # "disconnected"
    BY <1>2, LiveIsConnected DEF Over
  <1>7. /\ ev' \in [Sessions -> EvTask] /\ ev'[s] = r
        /\ \A q \in Sessions : q # s => ev'[q] = ev[q]
        /\ SessionInv' /\ (NoneAborted' => NoneAborted)
        /\ (\A q \in Sessions : LoopInv(q)') /\ StatusInv'
    BY <1>2, <1>3, <1>4, <1>5, EvParts DEF Over
  <1>8. TypeInv'
    BY <1>2, <1>5, <1>7 DEF IInv, TypeInv
  <1>9. BusInv'
    BY <1>2, <1>5, <1>6, <1>7, BusKeeps
  <1>10. CameraInv'
    BY <1>2, <1>3, <1>4, <1>7, CameraKeeps DEF WillRestore
  <1>. QED  BY <1>7, <1>8, <1>9, <1>10 DEF IInv

-----------------------------------------------------------------------------
(* The camera, the announce loop and the abort of a task. *)

LEMMA CameraStep ==
    ASSUME IInv, (\E at \in 0..2 : CameraMoves(at)) \/ (\E s \in Sessions : SessionLost(s))
    PROVE  IInv'
  <1>1. cam \in Camera /\ link \in [Sessions -> Nat]
    BY DEF IInv, TypeInv
  <1>2. UNCHANGED <<d, n, told, acq, loop, ev, bus, botched>>
    BY DEF CameraMoves, SessionLost, EnvKeep
  <1>3. /\ cam' \in Camera
        /\ link' \in [Sessions -> Nat]
    <2>1. CASE \E at \in 0..2 : CameraMoves(at)
      BY <1>1, <2>1 DEF CameraMoves, Camera
    <2>2. ASSUME NEW s \in Sessions, SessionLost(s)
          PROVE  /\ cam' \in Camera
                 /\ link' \in [Sessions -> Nat]
      <3>. DEFINE a == IF Reaches(s) THEN FALSE ELSE cam.acquiring
      <3>1. cam' = [cam EXCEPT !.acquiring = a] /\ link' = [link EXCEPT ![s] = 0]
        BY <2>2 DEF SessionLost
      <3>2. a \in BOOLEAN
        BY <1>1 DEF Camera
      <3>. HIDE DEF a
      <3>. QED  BY <1>1, <3>1, <3>2 DEF Camera
    <2>. QED  BY <2>1, <2>2
  <1>4. TypeInv'
    BY <1>2, <1>3 DEF IInv, TypeInv
  <1>5. SessionInv' /\ (NoneAborted' => NoneAborted)
    BY <1>2, SessionKeeps
  <1>6. BusInv'
    BY <1>2, <1>5, BusKeeps
  <1>7. \A q \in Sessions : LoopInv(q)'
    BY <1>2 DEF IInv, LoopInv, QuietLoops
  <1>8. StatusInv'
    <2>1. \A q : Settled(q)' => Settled(q)
      BY <1>2 DEF Settled, QuietLoops
    <2>. QED  BY <1>2, <1>5, <2>1, StatusKeeps
  <1>9. CASE \E at \in 0..2 : CameraMoves(at)
    <2>1. cam'.events = "own" /\ ~cam'.acquiring
      BY <1>9 DEF CameraMoves
    <2>2. CameraInv'
      BY <2>1 DEF CameraInv
    <2>. QED  BY <1>4, <1>5, <1>6, <1>7, <1>8, <2>2 DEF IInv
  <1>10. ASSUME NEW s \in Sessions, SessionLost(s) PROVE IInv'
    <2>1. /\ link'[s] = 0 /\ \A q \in Sessions : q # s => link'[q] = link[q]
          /\ cam'.at = cam.at /\ cam'.events = cam.events /\ cam'.stray = cam.stray
          /\ cam'.acquiring => cam.acquiring /\ ~Reaches(s)
      BY <1>1, <1>10 DEF SessionLost, Camera
    <2>. SUFFICES ASSUME ~botched'
                  PROVE  /\ cam'.acquiring => cam'.stray \/ \E q \in Sessions : Reaches(q)' /\ WillStop(acq'[q])
                         /\ cam'.events # "own" => \E q \in Sessions : link'[q] \in {0, cam'.at} /\ WillRestore(ev'[q])
      BY <1>4, <1>5, <1>6, <1>7, <1>8 DEF IInv, CameraInv
    <2>2. ASSUME cam'.acquiring, ~cam.stray
          PROVE  \E q \in Sessions : Reaches(q)' /\ WillStop(acq'[q])
      <3>1. PICK q \in Sessions : Reaches(q) /\ WillStop(acq[q])
        BY <1>2, <2>1, <2>2 DEF IInv, CameraInv
      <3>2. q # s
        BY <2>1, <2>2, <3>1
      <3>. QED  BY <1>2, <2>1, <3>1, <3>2 DEF Reaches
    <2>3. ASSUME cam'.events # "own"
          PROVE  \E q \in Sessions : link'[q] \in {0, cam'.at} /\ WillRestore(ev'[q])
      <3>1. PICK q \in Sessions : link[q] \in {0, cam.at} /\ WillRestore(ev[q])
        BY <1>2, <2>1, <2>3 DEF IInv, CameraInv
      <3>2. link'[q] \in {0, cam'.at}
        BY <2>1, <3>1
      <3>. QED  BY <1>2, <3>1, <3>2
    <2>. QED  BY <2>1, <2>2, <2>3
  <1>. QED  BY <1>9, <1>10

LEMMA AnnounceStep ==
    ASSUME IInv, AnnounceLoop \/ Interrupt
    PROVE  IInv'
  <1>1. bus \in Bus
    BY DEF IInv, TypeInv
  <1>2. UNCHANGED <<d, n, told, acq, loop, ev, link, cam, botched>>
    BY DEF AnnounceLoop, Snapshot, PutAnnounce, AnnounceSleep, Interrupt, AnnKeep, EnvKeep
  <1>3. CASE PutAnnounce
    <2>1. /\ bus' \in Bus /\ bus'.acquisition = bus.acquisition /\ bus'.status = bus.status
          /\ bus'.late \subseteq bus.late \cup {"announce"}
      BY <1>1, <1>3, PublishDataIs DEF PutAnnounce
    <2>. QED  BY <1>2, <2>1, PublishStep
  <1>4. CASE bus' = bus
    BY <1>1, <1>2, <1>4, PublishStep
  <1>. QED  BY <1>3, <1>4 DEF AnnounceLoop, Snapshot, AnnounceSleep, Interrupt, AnnKeep, EnvKeep

LEMMA RetireTimeoutStep ==
    ASSUME IInv, RetireTimeout
    PROVE  IInv'
  <1>. DEFINE s == d.old
  <1>1. /\ d.old # 0 /\ botched' = TRUE /\ UNCHANGED <<d, n, told, loop, link, cam, bus>>
        /\ \/ ~Over(ev[s]) /\ ev' = [ev EXCEPT ![s].pc = "aborted"] /\ acq' = acq
           \/ ~Over(acq[s]) /\ acq' = [acq EXCEPT ![s].pc = "aborted"] /\ ev' = ev
    BY DEF RetireTimeout, DKeep
  <1>2. s \in Sessions /\ acq[s] \in AcqTask /\ ev[s] \in EvTask
    BY <1>1, ServedIsSession DEF IInv, TypeInv
  <1>3. CameraInv'
    BY <1>1 DEF CameraInv
  <1>4. CASE ~Over(ev[s]) /\ ev' = [ev EXCEPT ![s].pc = "aborted"] /\ acq' = acq
    <2>. DEFINE r == [ev[s] EXCEPT !.pc = "aborted"]
    <2>1. ev' = [ev EXCEPT ![s] = r]
      BY <1>2, <1>4 DEF IInv, TypeInv
    <2>2. r \in EvTask /\ r.pc # "none"
      BY <1>2 DEF EvTask
    <2>. HIDE DEF r, s
    <2>3. /\ ev' \in [Sessions -> EvTask]
          /\ SessionInv' /\ (NoneAborted' => NoneAborted)
          /\ (\A q \in Sessions : LoopInv(q)') /\ StatusInv'
      BY <1>1, <1>2, <1>4, <2>1, <2>2, EvParts
    <2>4. TypeInv'
      BY <1>1, <1>4, <2>3 DEF IInv, TypeInv
    <2>5. BusInv'
      BY <1>1, <2>3, BusKeeps
    <2>. QED  BY <1>3, <2>3, <2>4, <2>5 DEF IInv
  <1>5. CASE ~Over(acq[s]) /\ acq' = [acq EXCEPT ![s].pc = "aborted"] /\ ev' = ev
    <2>. DEFINE r == [acq[s] EXCEPT !.pc = "aborted"]
    <2>1. acq' = [acq EXCEPT ![s] = r]
      BY <1>2, <1>5 DEF IInv, TypeInv
    <2>2. r \in AcqTask /\ r.pc = "aborted"
      BY <1>2 DEF AcqTask
    <2>. HIDE DEF r, s
    <2>3. /\ acq' \in [Sessions -> AcqTask] /\ acq'[s] = r
          /\ \A q \in Sessions : q # s => acq'[q] = acq[q]
          /\ SessionInv' /\ (NoneAborted' => NoneAborted)
      BY <1>1, <1>2, <1>5, <2>1, <2>2, AcqParts
    <2>4. TypeInv'
      BY <1>1, <1>5, <2>3 DEF IInv, TypeInv
    <2>5. BusInv'
      BY <1>1, <2>3, BusKeeps
    <2>6. \A q \in Sessions : LoopInv(q)'
      BY <1>1, <1>2, <2>2, <2>3, LoopsKeep DEF Silent
    <2>7. StatusInv'
      <3>1. \A q \in {d.served, d.old} \ {0} : Settled(q)' => Settled(q)
        BY <1>1, <2>2, <2>3, ServedIsSession DEF Settled, QuietLoops, Silent
      <3>. QED  BY <1>1, <2>3, <3>1, StatusKeeps
    <2>. QED  BY <1>3, <2>3, <2>4, <2>5, <2>6, <2>7 DEF IInv
  <1>. QED  BY <1>1, <1>4, <1>5

-----------------------------------------------------------------------------
(* run_discovery. *)

Discoverer == [pc : DPlaces, found : Nat, ok : BOOLEAN, served : Nat, old : Nat]

\* Steps within a pass that leave every session where it is.
LEMMA PassStep ==
    ASSUME IInv, d' \in Discoverer, d'.served = d.served, d'.old = d.old,
           d.pc \notin {"retire", "drain", "serve", "spawn"},
           d'.pc \notin {"retire", "drain", "gone", "serve", "spawn", "announce", "done"},
           UNCHANGED <<n, told, acq, loop, ev, link, cam, botched>>,
           bus' \in Bus, bus'.status = bus.status, bus'.acquisition = bus.acquisition,
           bus'.late \subseteq bus.late \cup {"announce"}
    PROVE  IInv'
  <1>1. TypeInv'
    BY DEF IInv, TypeInv, Discoverer
  <1>2. NoneAborted' => NoneAborted
    BY DEF NoneAborted, Aborted
  <1>3. SessionInv'
    <2>1. \A q : (Unserved(q) => Unserved(q)') /\ (~Aborted(q)' => ~Aborted(q))
      BY DEF Unserved, Aborted
    <2>. QED  BY <2>1 DEF IInv, SessionInv
  <1>4. BusInv'
    BY <1>2 DEF IInv, BusInv
  <1>5. \A q \in Sessions : LoopInv(q)'
    BY DEF IInv, LoopInv, QuietLoops
  <1>6. StatusInv'
    <2>1. \A q : Settled(q)' => Settled(q)
      BY DEF Settled, QuietLoops
    <2>. QED  BY <1>2, <2>1, StatusKeeps
  <1>7. CameraInv'
    BY CameraKeeps
  <1>. QED  BY <1>1, <1>3, <1>4, <1>5, <1>6, <1>7 DEF IInv

LEMMA PassSteps ==
    ASSUME IInv,
           \/ \E failed \in BOOLEAN : discover(failed)
           \/ LetGo /\ ~Lost
           \/ \E failed \in BOOLEAN : Found(failed) /\ n' = n
           \/ AnnounceNew \/ Sleep \/ Drain
    PROVE  IInv'
  <1>1. d \in Discoverer /\ bus \in Bus /\ cam.at \in Nat
    BY DEF IInv, TypeInv, Discoverer, Camera
  <1>2. ASSUME NEW failed \in BOOLEAN, discover(failed) PROVE IInv'
    <2>. DEFINE o == ~failed
                f == IF failed THEN 0 ELSE cam.at
    <2>1. /\ d' = [d EXCEPT !.pc = "lost", !.ok = o, !.found = f] /\ d.pc = "discover"
          /\ UNCHANGED <<n, told, acq, loop, ev, link, cam, bus, botched>>
      BY <1>2 DEF discover, DKeep
    <2>2. o \in BOOLEAN /\ f \in Nat
      BY <1>1
    <2>. HIDE DEF o, f
    <2>3. d' \in Discoverer /\ d'.served = d.served /\ d'.old = d.old /\ d'.pc = "lost"
      BY <1>1, <2>1, <2>2 DEF Discoverer, DPlaces
    <2>. QED  BY <1>1, <2>1, <2>3, PassStep
  <1>3. CASE LetGo /\ ~Lost
    <2>1. /\ d' = [d EXCEPT !.pc = "found"] /\ d.pc = "lost"
          /\ UNCHANGED <<n, told, acq, loop, ev, link, cam, bus, botched>>
      BY <1>3 DEF LetGo, DKeep
    <2>2. d' \in Discoverer /\ d'.served = d.served /\ d'.old = d.old /\ d'.pc = "found"
      BY <1>1, <2>1 DEF Discoverer, DPlaces
    <2>. QED  BY <1>1, <2>1, <2>2, PassStep
  <1>4. ASSUME NEW failed \in BOOLEAN, Found(failed), n' = n PROVE IInv'
    <2>1. n \in Nat /\ n + 1 # n
      BY DEF IInv, TypeInv
    <2>2. /\ d' = [d EXCEPT !.pc = "sleep"] /\ d.pc = "found"
          /\ UNCHANGED <<n, told, acq, loop, ev, link, cam, bus, botched>>
      BY <1>4, <2>1 DEF Found, DKeep
    <2>3. d' \in Discoverer /\ d'.served = d.served /\ d'.old = d.old /\ d'.pc = "sleep"
      BY <1>1, <2>2 DEF Discoverer, DPlaces
    <2>. QED  BY <1>1, <2>2, <2>3, PassStep
  <1>5. CASE AnnounceNew
    <2>1. /\ d' = [d EXCEPT !.pc = "sleep"] /\ d.pc = "announce" /\ PublishData("announce")
          /\ UNCHANGED <<n, told, acq, loop, ev, link, cam, botched>>
      BY <1>5 DEF AnnounceNew, DKeep
    <2>2. d' \in Discoverer /\ d'.served = d.served /\ d'.old = d.old /\ d'.pc = "sleep"
      BY <1>1, <2>1 DEF Discoverer, DPlaces
    <2>3. /\ bus' \in Bus /\ bus'.acquisition = bus.acquisition /\ bus'.status = bus.status
          /\ bus'.late \subseteq bus.late \cup {"announce"}
      BY <1>1, <2>1, PublishDataIs
    <2>. QED  BY <2>1, <2>2, <2>3, PassStep
  <1>6. CASE Sleep \/ Drain
    <2>1. /\ d.pc = "sleep" /\ UNCHANGED <<n, told, acq, loop, ev, link, cam, bus, botched>>
          /\ d' = [d EXCEPT !.pc = "discover"] \/ d' = [d EXCEPT !.pc = "await_announcing"]
      BY <1>6 DEF Sleep, Drain, DKeep
    <2>2. d' \in Discoverer /\ d'.served = d.served /\ d'.old = d.old /\ d'.pc \in {"discover", "await_announcing"}
      BY <1>1, <2>1 DEF Discoverer, DPlaces
    <2>. QED  BY <1>1, <2>1, <2>2, PassStep
  <1>. QED  BY <1>2, <1>3, <1>4, <1>5, <1>6

\* The served session is told to stop, and retires.
LEMMA TellStep ==
    ASSUME IInv, (LetGo /\ Lost) \/ DrainServed
    PROVE  IInv'
  <1>1. d \in Discoverer
    BY DEF IInv, TypeInv, Discoverer
  <1>2. UNCHANGED <<n, acq, loop, ev, link, cam, bus, botched>> /\ d.pc \in {"lost", "await_announcing"}
    BY DEF LetGo, DrainServed, DKeep
  <1>3. /\ d' \in Discoverer /\ d'.served = 0 /\ d'.old = d.served
        /\ told' = told \cup ({d.served} \ {0})
        /\ d'.pc = (IF d.served = 0 THEN "done" ELSE IF d.pc = "lost" THEN "retire" ELSE "drain")
    <2>1. CASE LetGo /\ Lost
      <3>1. d.served # 0 /\ told' = told \cup {d.served} /\ d.pc = "lost"
            /\ d' = [d EXCEPT !.pc = "retire", !.old = d.served, !.served = 0]
        BY <2>1 DEF LetGo, Lost
      <3>. QED  BY <1>1, <3>1 DEF Discoverer, DPlaces
    <2>2. CASE DrainServed
      <3>. DEFINE p == IF d.served = 0 THEN "done" ELSE "drain"
      <3>1. d' = [d EXCEPT !.pc = p, !.old = d.served, !.served = 0] /\ told' = told \cup ({d.served} \ {0})
            /\ d.pc = "await_announcing"
        BY <2>2 DEF DrainServed
      <3>2. p \in DPlaces /\ p = (IF d.served = 0 THEN "done" ELSE "drain")
        BY DEF DPlaces
      <3>. HIDE DEF p
      <3>3. d' \in Discoverer /\ d'.served = 0 /\ d'.old = d.served /\ d'.pc = p
        BY <1>1, <3>1, <3>2 DEF Discoverer
      <3>. QED  BY <3>1, <3>2, <3>3
    <2>. QED  BY <2>1, <2>2
  <1>4. d.old = 0
    BY <1>2 DEF IInv, SessionInv
  <1>5. TypeInv'
    <2>1. told' \subseteq Sessions
      BY <1>3, ServedIsSession DEF IInv, TypeInv
    <2>. QED  BY <1>2, <1>3, <2>1 DEF IInv, TypeInv, Discoverer
  <1>6. NoneAborted' => NoneAborted
    BY <1>2 DEF NoneAborted, Aborted
  <1>7. SessionInv'
    <2>1. \A q : (Unserved(q) => Unserved(q)') /\ (~Aborted(q)' => ~Aborted(q))
      BY <1>2 DEF Unserved, Aborted
    <2>2. told' \subseteq 1..n /\ d.served \in Nat /\ n \in Nat
      <3>1. d.served \in Nat /\ n \in Nat
        BY <1>1 DEF IInv, TypeInv, Discoverer
      <3>2. d.served \in {0, n} /\ told \subseteq 1..n
        BY DEF IInv, SessionInv
      <3>3. d.served # 0 => d.served \in 1..n
        BY <3>1, <3>2
      <3>. QED  BY <1>3, <3>1, <3>2, <3>3
    <2>3. \A q \in 1..n : q \in told'
      BY <1>2, <1>3 DEF IInv, SessionInv
    <2>4. \A q \in told' : q # d'.old /\ ~Aborted(q)' => Over(acq'[q]) /\ Over(ev'[q])
      <3>. SUFFICES ASSUME NEW q \in told', q # d.served, ~Aborted(q) PROVE Over(acq[q]) /\ Over(ev[q])
        BY <1>2, <1>3, <2>1
      <3>1. q \in told /\ q # d.old
        BY <1>3, <1>4, <2>2
      <3>. QED  BY <3>1 DEF IInv, SessionInv
    <2>5. \A q \in Sessions : q > n => Unserved(q)'
      BY <2>1 DEF IInv, SessionInv
    <2>6. d'.old # 0 <=> d'.pc \in {"retire", "drain"}
      BY <1>2, <1>3
    <2>7. d'.pc \notin {"serve", "spawn"}
      BY <1>3
    <2>. QED  BY <1>2, <1>3, <2>2, <2>3, <2>4, <2>5, <2>6, <2>7 DEF SessionInv
  <1>8. BusInv'
    <2>1. bus.status = "disconnected" => d.served = 0
      BY DEF IInv, BusInv
    <2>. QED  BY <1>2, <1>3, <1>6, <2>1 DEF IInv, BusInv
  <1>9. \A q \in Sessions : LoopInv(q)'
    BY <1>2 DEF IInv, LoopInv, QuietLoops
  <1>10. StatusInv'
    <2>1. \A q : Settled(q)' => Settled(q)
      BY <1>2 DEF Settled, QuietLoops
    <2>. QED  BY <1>2, <1>3, <1>4, <1>6, <2>1, StatusKeeps
  <1>11. CameraInv'
    BY <1>2, CameraKeeps
  <1>. QED  BY <1>5, <1>7, <1>8, <1>9, <1>10, <1>11 DEF IInv

LEMMA RetireStep ==
    ASSUME IInv, retire
    PROVE  IInv'
  <1>. DEFINE p == AfterRetire
  <1>1. d \in Discoverer
    BY DEF IInv, TypeInv, Discoverer
  <1>2. /\ UNCHANGED <<n, told, acq, loop, ev, link, cam, bus, botched>> /\ d.old # 0
        /\ Over(acq[d.old]) /\ Over(ev[d.old]) /\ d' = [d EXCEPT !.pc = p, !.old = 0]
    BY DEF retire, DKeep
  <1>3. p \in {"done", "gone"}
    BY DEF AfterRetire
  <1>. HIDE DEF p
  <1>4. d' \in Discoverer /\ d'.served = d.served /\ d'.old = 0 /\ d'.pc = p
    BY <1>1, <1>2, <1>3 DEF Discoverer, DPlaces
  <1>5. d.served = 0 /\ d.pc \in {"retire", "drain"} /\ d.old \in told /\ bus.status # "disconnected"
    BY <1>2 DEF IInv, SessionInv, BusInv
  <1>6. TypeInv'
    BY <1>2, <1>4 DEF IInv, TypeInv, Discoverer
  <1>7. NoneAborted' => NoneAborted
    BY <1>2 DEF NoneAborted, Aborted
  <1>8. SessionInv'
    <2>1. \A q : (Unserved(q) => Unserved(q)') /\ (~Aborted(q)' => ~Aborted(q))
      BY <1>2 DEF Unserved, Aborted
    <2>2. \A q \in told' : ~Aborted(q)' => Over(acq'[q]) /\ Over(ev'[q])
      BY <1>2, <2>1 DEF IInv, SessionInv
    <2>. QED  BY <1>2, <1>3, <1>4, <1>5, <2>1, <2>2 DEF IInv, SessionInv
  <1>9. BusInv'
    BY <1>2, <1>5, <1>7 DEF IInv, BusInv
  <1>10. \A q \in Sessions : LoopInv(q)'
    BY <1>2 DEF IInv, LoopInv, QuietLoops
  <1>11. StatusInv'
    <2>. SUFFICES ASSUME NoneAborted' PROVE bus'.acquisition # "active"
      BY DEF StatusInv
    <2>1. d.old \in 1..n
      BY <1>5 DEF IInv, SessionInv
    <2>2. Settled(d.old)
      BY <1>2, <1>7, <2>1 DEF NoneAborted, Aborted, Over, Settled, Silent
    <2>. QED  BY <1>2, <1>5, <1>7, <2>2 DEF IInv, StatusInv
  <1>12. CameraInv'
    BY <1>2, CameraKeeps
  <1>. QED  BY <1>6, <1>8, <1>9, <1>10, <1>11, <1>12 DEF IInv

\* "disconnected", when nothing is left of the session; "connected", before its tasks start.
LEMMA ConnectionStep ==
    ASSUME IInv, PublishDisconnected \/ PublishConnected
    PROVE  IInv'
  <1>1. d \in Discoverer /\ bus \in Bus
    BY DEF IInv, TypeInv, Discoverer
  <1>2. UNCHANGED <<n, told, acq, loop, ev, link, cam, botched>>
    BY DEF PublishDisconnected, PublishConnected, DKeep
  <1>3. \/ d.pc = "gone" /\ d' = [d EXCEPT !.pc = "found"] /\ bus' = [bus EXCEPT !.status = "disconnected", !.late = {}]
        \/ d.pc = "serve" /\ d' = [d EXCEPT !.pc = "spawn"] /\ bus' = [bus EXCEPT !.status = "connected"]
    BY DEF PublishDisconnected, PublishConnected
  <1>4. /\ d' \in Discoverer /\ d'.served = d.served /\ d'.old = d.old
        /\ (d.pc = "gone" /\ d'.pc = "found") \/ (d.pc = "serve" /\ d'.pc = "spawn")
    <2>1. ASSUME NEW p \in {"found", "spawn"}, d' = [d EXCEPT !.pc = p]
          PROVE  d' \in Discoverer /\ d'.served = d.served /\ d'.old = d.old /\ d'.pc = p
      BY <1>1, <2>1 DEF Discoverer, DPlaces
    <2>. QED  BY <1>3, <2>1
  <1>5. /\ bus' \in Bus /\ bus'.acquisition = bus.acquisition /\ bus'.late \subseteq bus.late
        /\ d.pc = "serve" => bus'.status = "connected"
    BY <1>1, <1>3 DEF Bus
  <1>6. d.served = 0 /\ d.old = 0
    BY <1>4 DEF IInv, SessionInv
  <1>7. TypeInv'
    BY <1>2, <1>4, <1>5 DEF IInv, TypeInv, Discoverer
  <1>8. NoneAborted' => NoneAborted
    BY <1>2 DEF NoneAborted, Aborted
  <1>9. SessionInv'
    <2>1. \A q : (Unserved(q) => Unserved(q)') /\ (~Aborted(q)' => ~Aborted(q))
      BY <1>2 DEF Unserved, Aborted
    <2>. QED  BY <1>2, <1>4, <1>6, <2>1 DEF IInv, SessionInv
  <1>10. BusInv'
    BY <1>2, <1>4, <1>5, <1>6, <1>8 DEF IInv, BusInv
  <1>11. \A q \in Sessions : LoopInv(q)'
    BY <1>2 DEF IInv, LoopInv, QuietLoops
  <1>12. StatusInv'
    <2>1. \A q : Settled(q)' => Settled(q)
      BY <1>2 DEF Settled, QuietLoops
    <2>. QED  BY <1>4, <1>5, <1>8, <2>1, StatusKeeps
  <1>13. CameraInv'
    BY <1>2, CameraKeeps
  <1>. QED  BY <1>7, <1>9, <1>10, <1>11, <1>12, <1>13 DEF IInv

\* A camera is found that is not served: its session is about to be.
LEMMA FoundStep ==
    ASSUME IInv, NEW failed \in BOOLEAN, Found(failed), n' # n
    PROVE  IInv'
  <1>1. d \in Discoverer /\ n \in Nat /\ link \in [Sessions -> Nat]
    BY DEF IInv, TypeInv, Discoverer
  <1>2. /\ UNCHANGED <<told, acq, loop, ev, cam, bus, botched>> /\ d.pc = "found" /\ d.served = 0
        /\ n' = n + 1 /\ n < MaxSessions /\ link' = [link EXCEPT ![n + 1] = d.found]
        /\ d' = [d EXCEPT !.pc = "serve"]
    <2>1. d.pc = "found" /\ UNCHANGED <<told, acq, loop, ev, cam, bus, botched>>
      BY DEF Found, DKeep
    <2>2. d.found # 0 /\ d.served = 0 /\ ~failed
      BY DEF Found
    <2>3. n < MaxSessions
      BY <2>2 DEF Found
    <2>. QED  BY <2>1, <2>2, <2>3 DEF Found
  <1>3. n + 1 \in Sessions /\ n' \in Nat /\ n' <= MaxSessions
    BY <1>1, <1>2, ServiceAssumption DEF Sessions
  <1>4. d' \in Discoverer /\ d'.served = 0 /\ d'.old = d.old /\ d'.pc = "serve"
    BY <1>1, <1>2 DEF Discoverer, DPlaces
  <1>5. /\ link' \in [Sessions -> Nat] /\ \A q \in Sessions : q # n + 1 => link'[q] = link[q]
    BY <1>1, <1>2 DEF Discoverer
  <1>6. d.old = 0
    BY <1>2 DEF IInv, SessionInv
  <1>7. TypeInv'
    BY <1>2, <1>3, <1>4, <1>5 DEF IInv, TypeInv, Discoverer
  <1>8. \A q : (Unserved(q) => Unserved(q)') /\ (~Aborted(q)' => ~Aborted(q))
    BY <1>2 DEF Unserved, Aborted
  <1>9. NoneAborted' => NoneAborted
    <2>1. 1..n \subseteq 1..n'
      BY <1>1, <1>2
    <2>. QED  BY <1>8, <2>1 DEF NoneAborted
  <1>10. Unserved(n + 1)
    BY <1>1, <1>3 DEF IInv, SessionInv
  <1>11. SessionInv'
    <2>1. told' \subseteq 1..n' /\ n' \notin told'
      <3>1. told \subseteq 1..n
        BY DEF IInv, SessionInv
      <3>2. 1..n \subseteq 1..(n + 1) /\ n + 1 \notin 1..n
        BY <1>1
      <3>. QED  BY <1>2, <3>1, <3>2
    <2>2. \A q \in 1..n' : q \in told' \/ q = n'
      <3>1. \A q \in 1..n : q \in told
        BY <1>1, <1>2 DEF IInv, SessionInv
      <3>2. \A q \in 1..n' : q \in 1..n \/ q = n'
        BY <1>1, <1>2
      <3>. QED  BY <1>2, <3>1, <3>2
    <2>3. \A q \in Sessions : q > n' => Unserved(q)'
      <3>1. \A q \in Sessions : q > n' => q > n
        BY <1>1, <1>2, SessionNumbers
      <3>. QED  BY <1>8, <3>1 DEF IInv, SessionInv
    <2>4. \A q \in told' : q # d'.old /\ ~Aborted(q)' => Over(acq'[q]) /\ Over(ev'[q])
      BY <1>2, <1>4, <1>8 DEF IInv, SessionInv
    <2>5. n' # 0 /\ Unserved(n)'
      BY <1>1, <1>2, <1>10 DEF Unserved
    <2>. QED  BY <1>4, <1>6, <2>1, <2>2, <2>3, <2>4, <2>5 DEF SessionInv
  <1>12. BusInv'
    BY <1>2, <1>4, <1>6, <1>9 DEF IInv, BusInv
  <1>13. \A q \in Sessions : LoopInv(q)'
    BY <1>2 DEF IInv, LoopInv, QuietLoops
  <1>14. StatusInv'
    <2>1. \A q : Settled(q)' => Settled(q)
      BY <1>2 DEF Settled, QuietLoops
    <2>. QED  BY <1>2, <1>4, <1>9, <2>1, StatusKeeps
  <1>15. CameraInv'
    <2>1. ASSUME NEW q \in Sessions, WillStop(acq[q]) \/ WillRestore(ev[q]) PROVE link'[q] = link[q]
      <3>1. q # n + 1
        BY <1>10, <2>1 DEF Unserved, WillStop, WillRestore
      <3>. QED  BY <1>5, <3>1
    <2>. QED  BY <1>2, <2>1 DEF IInv, CameraInv, Reaches
  <1>. QED  BY <1>7, <1>11, <1>12, <1>13, <1>14, <1>15 DEF IInv

LEMMA ServeStep ==
    ASSUME IInv, serve_device
    PROVE  IInv'
  <1>1. d \in Discoverer /\ n \in Nat
    BY DEF IInv, TypeInv, Discoverer
  <1>2. /\ UNCHANGED <<n, told, loop, link, cam, bus, botched>> /\ d.pc = "spawn"
        /\ acq' = [acq EXCEPT ![n] = NewAcquisition] /\ ev' = [ev EXCEPT ![n] = NewEvents]
        /\ d' = [d EXCEPT !.pc = "announce", !.served = n]
    BY DEF serve_device, DKeep
  <1>3. /\ n # 0 /\ n \notin told /\ Unserved(n) /\ d.served = 0 /\ d.old = 0 /\ bus.status # "disconnected"
    BY <1>2 DEF IInv, SessionInv, BusInv
  <1>4. n \in Sessions
    BY <1>1, <1>3, SessionNumbers DEF IInv, TypeInv
  <1>5. d' \in Discoverer /\ d'.served = n /\ d'.old = 0 /\ d'.pc = "announce"
    BY <1>1, <1>2, <1>3 DEF Discoverer, DPlaces
  <1>6. NewAcquisition \in AcqTask /\ NewEvents \in EvTask
    BY DEF NewAcquisition, NewEvents, AcqTask, EvTask
  <1>7. /\ acq' \in [Sessions -> AcqTask] /\ acq'[n] = NewAcquisition
        /\ \A q \in Sessions : q # n => acq'[q] = acq[q]
    BY <1>2, <1>4, <1>6, AcqMoves DEF IInv
  <1>8. /\ ev' \in [Sessions -> EvTask] /\ ev'[n] = NewEvents
        /\ \A q \in Sessions : q # n => ev'[q] = ev[q]
    BY <1>2, <1>4, <1>6, EvMoves DEF IInv
  <1>9. TypeInv'
    BY <1>2, <1>5, <1>7, <1>8 DEF IInv, TypeInv, Discoverer
  <1>10. \A q \in Sessions : q # n => (Unserved(q) => Unserved(q)') /\ (Aborted(q)' <=> Aborted(q))
    BY <1>7, <1>8 DEF Unserved, Aborted
  <1>11. NoneAborted' => NoneAborted
    <2>1. ~Aborted(n)
      BY <1>3 DEF Unserved, Aborted
    <2>2. 1..n \subseteq Sessions
      BY <1>1, SessionNumbers DEF IInv, TypeInv
    <2>. QED  BY <1>2, <1>10, <2>1, <2>2 DEF NoneAborted
  <1>12. SessionInv'
    <2>1. \A q \in Sessions : q > n => Unserved(q)'
      <3>1. \A q \in Sessions : q > n => q # n
        BY <1>1, SessionNumbers
      <3>. QED  BY <1>10, <3>1 DEF IInv, SessionInv
    <2>2. ASSUME NEW q \in told, ~Aborted(q)' PROVE Over(acq'[q]) /\ Over(ev'[q])
      <3>1. q \in Sessions /\ q # n /\ q # d.old
        BY <1>3, SessionNumbers DEF IInv, TypeInv
      <3>2. Over(acq[q]) /\ Over(ev[q])
        BY <1>10, <2>2, <3>1 DEF IInv, SessionInv
      <3>. QED  BY <1>7, <1>8, <3>1, <3>2
    <2>3. told \subseteq 1..n /\ \A q \in 1..n : q \in told \/ q = n
      BY <1>2, <1>3 DEF IInv, SessionInv
    <2>. QED  BY <1>2, <1>3, <1>5, <2>1, <2>2, <2>3 DEF SessionInv
  <1>13. BusInv'
    BY <1>2, <1>3, <1>11 DEF IInv, BusInv
  <1>14. \A q \in Sessions : LoopInv(q)'
    <2>1. QuietLoops(n)
      BY <1>3, <1>4 DEF IInv, LoopInv, Silent, Unserved
    <2>. QED  BY <1>2, <1>7, <2>1, LoopsKeep
  <1>15. StatusInv'
    BY <1>2, <1>3, <1>11 DEF IInv, StatusInv
  <1>16. CameraInv'
    <2>1. \A q \in Sessions : WillStop(acq[q]) => WillStop(acq'[q])
      BY <1>3, <1>7 DEF Unserved, WillStop
    <2>2. \A q \in Sessions : WillRestore(ev[q]) => WillRestore(ev'[q])
      BY <1>3, <1>8 DEF Unserved, WillRestore
    <2>. QED  BY <1>2, <2>1, <2>2, CameraKeeps
  <1>. QED  BY <1>9, <1>12, <1>13, <1>14, <1>15, <1>16 DEF IInv

-----------------------------------------------------------------------------
(* The specification. *)

LEMMA InitHolds ==
    ASSUME Init
    PROVE  IInv
  <1>1. /\ d = [pc |-> "discover", found |-> 0, ok |-> FALSE, served |-> 0, old |-> 0] /\ n = 0 /\ told = {}
        /\ acq = [s \in Sessions |-> NotServed(NewAcquisition)] /\ ev = [s \in Sessions |-> NotServed(NewEvents)]
        /\ loop = [s \in Sessions |-> <<>>] /\ link = [s \in Sessions |-> 0]
        /\ cam = [at |-> 1, acquiring |-> FALSE, stray |-> FALSE, events |-> "own"] /\ ~botched /\ botched = FALSE
        /\ bus = [status |-> "none", acquisition |-> "none", events |-> "none", late |-> {}]
    BY DEF Init
  <1>2. /\ NotServed(NewAcquisition) \in AcqTask /\ NotServed(NewAcquisition).pc = "none"
        /\ NotServed(NewEvents) \in EvTask /\ NotServed(NewEvents).pc = "none"
    BY DEF NotServed, NewAcquisition, NewEvents, AcqTask, EvTask
  <1>3. \A s \in Sessions : Unserved(s) /\ loop[s] = <<>>
    BY <1>1, <1>2 DEF Unserved
  <1>4. TypeInv
    <2>1. acq \in [Sessions -> AcqTask] /\ ev \in [Sessions -> EvTask] /\ link \in [Sessions -> Nat]
      BY <1>1, <1>2
    <2>2. loop \in [Sessions -> Seq({"running", "closing", "ended"})]
      BY <1>1
    <2>3. d \in [pc : DPlaces, found : Nat, ok : BOOLEAN, served : Nat, old : Nat]
      BY <1>1 DEF DPlaces
    <2>4. cam \in Camera
      BY <1>1 DEF Camera
    <2>5. bus \in Bus
      BY <1>1 DEF Bus
    <2>6. n \in Nat /\ n <= MaxSessions /\ told \subseteq Sessions
      BY <1>1, ServiceAssumption
    <2>7. botched \in BOOLEAN
      BY <1>1
    <2>. QED  BY <2>1, <2>2, <2>3, <2>4, <2>5, <2>6, <2>7 DEF TypeInv
  <1>5. \A s \in Sessions : LoopInv(s)
    BY <1>3 DEF LoopInv, QuietLoops
  <1>6. SessionInv
    BY <1>1, <1>3 DEF SessionInv
  <1>7. BusInv /\ StatusInv
    BY <1>1 DEF BusInv, StatusInv
  <1>8. CameraInv
    BY <1>1 DEF CameraInv
  <1>. QED  BY <1>4, <1>5, <1>6, <1>7, <1>8 DEF IInv

LEMMA NextKeeps ==
    ASSUME IInv, [Next]_vars
    PROVE  IInv'
  <1>1. CASE UNCHANGED vars
    <2>1. UNCHANGED <<d, n, told, acq, loop, ev, link, cam, botched, bus>>
      BY <1>1 DEF vars
    <2>2. bus \in Bus
      BY DEF IInv, TypeInv
    <2>. QED  BY <2>1, <2>2, PublishStep
  <1>2. CASE Discovery
    <2>1. ASSUME NEW failed \in BOOLEAN, Found(failed) PROVE IInv'
      BY <2>1, PassSteps, FoundStep
    <2>2. CASE LetGo
      BY <2>2, PassSteps, TellStep
    <2>. QED  BY <1>2, <2>1, <2>2, PassSteps, TellStep, RetireStep, ConnectionStep, ServeStep DEF Discovery
  <1>3. ASSUME NEW s \in Sessions, Acquisition(s) PROVE IInv'
    BY <1>3, AcqMovesOn, AcqStopStep, StoppedStatusStep, SpawnLoopStep, AcqStartStep, StartedStatusStep DEF Acquisition
  <1>4. ASSUME NEW s \in Sessions, FrameLoop(s) PROVE IInv'
    BY <1>4, LoopStep DEF FrameLoop
  <1>5. ASSUME NEW s \in Sessions, Events(s) PROVE IInv'
    BY <1>5, EvMovesOn, FinishStep, StartStep, EventStatusStep DEF Events
  <1>6. ASSUME NEW s \in Sessions, Clients(s) PROVE IInv'
    BY <1>6, AcqMovesOn, EvMovesOn DEF Clients
  <1>7. ASSUME NEW s \in Sessions, Traffic(s) PROVE IInv'
    BY <1>7, FrameBlockStep, StatusTickStep, LoopStep, ForwardStep, EvMovesOn DEF Traffic
  <1>. QED  BY <1>1, <1>2, <1>3, <1>4, <1>5, <1>6, <1>7, RetireTimeoutStep, AnnounceStep, CameraStep DEF Next

\* Every reachable state has the inductive invariant.
LEMMA Invariance == Spec => []IInv
  BY InitHolds, NextKeeps, PTL DEF Spec

LEMMA AtMostOne ==
    ASSUME NEW S, \A x, y \in S : x = y
    PROVE  Cardinality(S) <= 1
  <1>1. CASE S = {}
    BY <1>1, FS_EmptySet
  <1>2. CASE S # {}
    <2>1. PICK x : x \in S
      BY <1>2
    <2>2. S = {x}
      BY <2>1
    <2>3. Cardinality({x}) = 1
      BY FS_Singleton
    <2>. QED  BY <2>2, <2>3
  <1>. QED  BY <1>1, <1>2

\* Whatever the tasks of a camera were doing when it was lost, moved or the service was
\* interrupted, a session that was retired and not aborted is quiet, no two frame loops
\* of a camera run, and only an announce follows "disconnected".
THEOREM RetiredStaysQuiet == Spec => []RetiredIsQuiet
  <1>1. IInv => RetiredIsQuiet
    <2>. SUFFICES ASSUME IInv PROVE RetiredIsQuiet
      OBVIOUS
    <2>. DEFINE mine == {s \in 1..n : ~Aborted(s)}
    <2>0. mine \subseteq Sessions
      BY SessionNumbers DEF IInv, TypeInv
    <2>1. ASSUME NEW s \in mine, Alive(s) # {} PROVE ~QuietLoops(s)
      BY <2>1 DEF Alive, QuietLoops
    <2>2. ASSUME NEW s \in mine, s \in told, s # d.old PROVE Over(acq[s]) /\ Over(ev[s]) /\ Alive(s) = {}
      <3>1. Over(acq[s]) /\ Over(ev[s])
        BY <2>2 DEF IInv, SessionInv
      <3>2. QuietLoops(s)
        BY <2>0, <3>1 DEF IInv, LoopInv, Silent, Over, Aborted
      <3>. QED  BY <2>1, <3>1, <3>2
    <2>3. ASSUME NEW s \in mine PROVE Cardinality(Alive(s)) <= 1
      <3>1. loop[s] \in Seq({"running", "closing", "ended"}) /\ LoopInv(s)
        BY <2>0 DEF IInv, TypeInv
      <3>2. DOMAIN loop[s] = 1..Len(loop[s]) /\ Len(loop[s]) \in Nat
        BY <3>1
      <3>3. \A k \in Alive(s) : k = Len(loop[s])
        BY <3>1, <3>2 DEF Alive, LoopInv
      <3>. QED  BY <3>3, AtMostOne
    <2>4. Cardinality({s \in mine : Alive(s) # {}}) <= 1
      <3>1. ASSUME NEW s \in mine, Alive(s) # {} PROVE s \in {d.served, d.old} \ {0} /\ (d.served = 0 \/ d.old = 0)
        BY <2>0, <2>1, <3>1, WhoIsLive
      <3>2. \A x, y \in {s \in mine : Alive(s) # {}} : x = y
        BY <3>1
      <3>. HIDE DEF mine
      <3>. QED  BY <3>2, AtMostOne
    <2>5. mine = 1..n => bus.late \subseteq {"announce"}
      BY DEF IInv, BusInv, NoneAborted
    <2>. QED  BY <2>2, <2>3, <2>4, <2>5, Zenon DEF RetiredIsQuiet
  <1>. QED  BY <1>1, Invariance, PTL

\* Unless the call that puts the camera back failed or its task was aborted, a camera that
\* can be reached has its own event settings once no task is left, and acquires only for a
\* start that failed here although the camera carried it out: whichever task changed the
\* camera puts it back before it is over.
THEOREM CameraIsReleased == Spec => []CameraReleased
  <1>1. IInv => CameraReleased
    BY DEF IInv, CameraInv, CameraReleased, Unattended, Over, WillStop, WillRestore
  <1>. QED  BY <1>1, Invariance, PTL

\* The acquisition status is "active" only while the acquisition task has or may have a
\* frame loop, over any number of sessions.
THEOREM StatusStaysTrue == Spec => []StatusIsTrue
  <1>1. IInv => StatusIsTrue
    <2>. SUFFICES ASSUME IInv, NoneAborted, NEW s \in 1..n, acq[s].pc = "idle", ~acq[s].task
                  PROVE  bus.acquisition # "active"
      BY DEF StatusIsTrue, NoneAborted
    <2>1. s \in Sessions
      BY SessionNumbers DEF IInv, TypeInv
    <2>2. s \in {d.served, d.old} /\ s # 0 /\ (d.served = 0 \/ d.old = 0)
      BY <2>1, WhoIsLive DEF NoneAborted, Over
    <2>3. \A q \in {d.served, d.old} \ {0} : q = s
      BY <2>2
    <2>4. Settled(s)
      BY DEF Settled, Silent
    <2>. QED  BY <2>3, <2>4 DEF IInv, StatusInv
  <1>. QED  BY <1>1, Invariance, PTL

=============================================================================
