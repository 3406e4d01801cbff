---------------------------- MODULE CameraService ----------------------------
(***************************************************************************)
(* The camera service: `run_discovery` and its announce loop                *)
(* (viva-service's discovery.rs and serve.rs), and of the tasks it starts   *)
(* for a camera the two that hold something of it: acquisition control with *)
(* its frame loop (acquisition.rs) and event monitoring (events.rs).        *)
(*                                                                          *)
(* One camera, served under one id by one session after another.  Every     *)
(* await is a step of its own, so the tasks interleave at each.             *)
(***************************************************************************)
EXTENDS Integers, Sequences, FiniteSets

CONSTANTS
    MaxSessions,   \* model bound: times the camera is served
    MaxRequests,   \* model bound: requests of clients
    MaxFaults      \* model bound: failures and changes of the camera

ASSUME ServiceAssumption == {MaxSessions, MaxRequests, MaxFaults} \subseteq Nat

VARIABLES
    d,          \* run_discovery: where it is, what the pass found, the served session, the one retiring
    n,          \* sessions so far
    told,       \* sessions whose `stop` says stop
    announces,  \* whether the camera is among the announces
    ann,        \* announce_loop: where it is, whether its snapshot has the camera
    acq,        \* the acquisition task of each session
    loop,       \* the frame loops each session has spawned, oldest first
    ev,         \* the event task of each session
    shutdown,   \* CTRL+C
    cam,        \* the camera: its endpoint (0: absent), whether it acquires, its event settings;
                \* history: `stray` when it acquires for a start that failed here
    link,       \* each session's endpoint; 0 once its transport reports the camera gone
    bus,        \* last published: connection, acquisition, events; what followed "disconnected"
    botched,    \* history: a call that should have put the camera back failed, or its task was aborted
    requests, faults

vars == <<d, n, told, announces, ann, acq, loop, ev, shutdown, cam, link, bus, botched, requests, faults>>

Sessions == 1..MaxSessions

\* frame_task, and the channel that stops the frame loops; what follows handle_stop.
NewAcquisition == [pc |-> "idle", task |-> FALSE, stop |-> FALSE, then |-> "idle"]
\* Monitor: "off", "on", or "failed" when forwarding ended by itself; the request in hand.
NewEvents == [pc |-> "idle", monitor |-> "off", then |-> "idle"]
\* Before the session is served.
NotServed(task) == [task EXCEPT !.pc = "none"]

Init ==
    /\ d = [pc |-> "discover", found |-> 0, ok |-> FALSE, served |-> 0, old |-> 0]
    /\ n = 0 /\ told = {} /\ announces = FALSE
    /\ ann = [pc |-> "snapshot", has |-> FALSE]
    /\ acq = [s \in Sessions |-> NotServed(NewAcquisition)]
    /\ loop = [s \in Sessions |-> <<>>]
    /\ ev = [s \in Sessions |-> NotServed(NewEvents)]
    /\ shutdown = FALSE
    /\ cam = [at |-> 1, acquiring |-> FALSE, stray |-> FALSE, events |-> "own"]
    /\ link = [s \in Sessions |-> 0]
    /\ bus = [status |-> "none", acquisition |-> "none", events |-> "none", late |-> {}]
    /\ botched = FALSE
    /\ requests = 0 /\ faults = 0

Fault  == faults < MaxFaults /\ faults' = faults + 1
Fails(failed) == IF failed THEN Fault ELSE UNCHANGED faults

\* Publish on the topic `what`, under the camera's id.
Publish(what, value) ==
    bus' = [bus EXCEPT ![what] = value, !.late = IF bus.status = "disconnected" THEN @ \cup {what} ELSE @]

\* Publications that only matter by being there: announces, images, events.
PublishData(what) ==
    bus' = [bus EXCEPT !.late = IF bus.status = "disconnected" THEN @ \cup {what} ELSE @]

Reaches(s) == link[s] # 0 /\ link[s] = cam.at

\* A call on session s's camera: it fails if the camera is not there, and may fail anyway.
Call(s, failed) == IF Reaches(s) THEN Fails(failed) ELSE failed /\ UNCHANGED faults

Over(t) == t.pc \in {"none", "ended", "aborted"}

-----------------------------------------------------------------------------
(* acquisition::run. *)

AcqKeep == UNCHANGED <<d, n, told, announces, ann, ev, shutdown, link>>

Newest(s) == loop[s][Len(loop[s])]
TaskFinished(s) == loop[s] # <<>> /\ Newest(s) = "ended"

Request == requests < MaxRequests /\ requests' = requests + 1

\* Start: refused while a frame loop runs; one that ended by itself is stopped first.
StartRequest(s) ==
    /\ acq[s].pc = "idle" /\ Request
    /\ acq' = [acq EXCEPT ![s].pc = IF ~acq[s].task THEN "open" ELSE IF TaskFinished(s) THEN "stop" ELSE "idle",
                          ![s].then = "open"]
    /\ AcqKeep /\ UNCHANGED <<loop, cam, bus, botched, faults>>

StopRequest(s) ==
    /\ acq[s].pc = "idle" /\ acq[s].task /\ Request
    /\ acq' = [acq EXCEPT ![s].pc = "stop", ![s].then = "idle"]
    /\ AcqKeep /\ UNCHANGED <<loop, cam, bus, botched, faults>>

\* Told to stop, the task stops the frame loop and acquisition first.
AcqShutdown(s) ==
    /\ acq[s].pc = "idle" /\ s \in told
    /\ acq' = [acq EXCEPT ![s].pc = IF acq[s].task THEN "stop" ELSE "ended", ![s].then = "ended"]
    /\ AcqKeep /\ UNCHANGED <<loop, cam, bus, botched, requests, faults>>

\* Mutated form: the frame loop is awaited before it is told to stop.
AwaitThenStop(s) ==
    /\ acq[s].pc = "stop" /\ TaskFinished(s)
    /\ acq' = [acq EXCEPT ![s].stop = TRUE, ![s].task = FALSE, ![s].pc = "camera_stop"]
    /\ AcqKeep /\ UNCHANGED <<loop, cam, bus, botched, requests, faults>>

\* handle_stop: tell the frame loop and wait for it,
handle_stop(s) ==
    /\ acq[s].pc = "stop"
    /\ IF acq[s].stop /\ TaskFinished(s)
       THEN acq' = [acq EXCEPT ![s].task = FALSE, ![s].pc = "camera_stop"]
       ELSE ~acq[s].stop /\ acq' = [acq EXCEPT ![s].stop = TRUE]
    /\ AcqKeep /\ UNCHANGED <<loop, cam, bus, botched, requests, faults>>

\* Mutated form: acquisition is left running.
NoAcquisitionStop(s, failed) ==
    /\ acq[s].pc = "camera_stop" /\ ~failed
    /\ acq' = [acq EXCEPT ![s].pc = "inactive"]
    /\ AcqKeep /\ UNCHANGED <<loop, cam, bus, botched, requests, faults>>

\* stop acquisition on the camera,
acquisition_stop(s, failed) ==
    /\ acq[s].pc = "camera_stop" /\ Call(s, failed)
    /\ cam' = IF failed THEN cam ELSE [cam EXCEPT !.acquiring = FALSE, !.stray = FALSE]
    /\ botched' = (botched \/ (failed /\ link[s] \in {0, cam.at}))
    /\ acq' = [acq EXCEPT ![s].pc = "inactive"]
    /\ AcqKeep /\ UNCHANGED <<loop, bus, requests>>

\* and publish it.
StoppedStatus(s) ==
    /\ acq[s].pc = "inactive"
    /\ Publish("acquisition", "inactive")
    /\ acq' = [acq EXCEPT ![s].pc = acq[s].then]
    /\ AcqKeep /\ UNCHANGED <<loop, cam, botched, requests, faults>>

\* handle_start: open the stream,
open_stream(s, failed) ==
    /\ acq[s].pc = "open" /\ Call(s, failed)
    /\ acq' = [acq EXCEPT ![s].pc = IF failed THEN "idle" ELSE "spawn"]
    /\ AcqKeep /\ UNCHANGED <<loop, cam, bus, botched, requests>>

\* clear the stop channel and spawn the frame loop,
SpawnLoop(s) ==
    /\ acq[s].pc = "spawn"
    /\ acq' = [acq EXCEPT ![s].pc = "camera_start", ![s].stop = FALSE]
    /\ loop' = [loop EXCEPT ![s] = Append(@, "running")]
    /\ AcqKeep /\ UNCHANGED <<cam, bus, botched, requests, faults>>

\* start acquisition on the camera: a call that fails may still have reached it, and
\* nothing stops what it began,
acquisition_start(s, failed) ==
    /\ acq[s].pc = "camera_start" /\ Call(s, failed)
    /\ \E began \in BOOLEAN :
          /\ ~failed => began
          /\ began => Reaches(s)
          /\ cam' = IF began THEN [cam EXCEPT !.acquiring = TRUE, !.stray = failed] ELSE cam
    /\ acq' = [acq EXCEPT ![s].pc = IF failed THEN "undo" ELSE "active", ![s].stop = failed]
    /\ AcqKeep /\ UNCHANGED <<loop, bus, botched, requests>>

\* Mutated form: the loop is not waited for.
LeaveLoop(s) ==
    /\ acq[s].pc = "undo"
    /\ acq' = [acq EXCEPT ![s].pc = "idle"]
    /\ AcqKeep /\ UNCHANGED <<loop, cam, bus, botched, requests, faults>>

\* on failure wait for the loop to end,
AwaitLoop(s) ==
    /\ acq[s].pc = "undo" /\ TaskFinished(s)
    /\ acq' = [acq EXCEPT ![s].pc = "idle"]
    /\ AcqKeep /\ UNCHANGED <<loop, cam, bus, botched, requests, faults>>

\* and publish it otherwise.
StartedStatus(s) ==
    /\ acq[s].pc = "active"
    /\ Publish("acquisition", "active")
    /\ acq' = [acq EXCEPT ![s].pc = "idle", ![s].task = TRUE]
    /\ AcqKeep /\ UNCHANGED <<loop, cam, botched, requests, faults>>

-----------------------------------------------------------------------------
(* frame_loop. *)

LoopKeep == UNCHANGED <<d, n, told, announces, ann, acq, ev, shutdown, cam, link, botched, requests>>

FrameBlock(s, k) ==
    /\ loop[s][k] = "running" /\ cam.acquiring
    /\ PublishData("image")
    /\ LoopKeep /\ UNCHANGED <<loop, faults>>

StatusTick(s, k) ==
    /\ loop[s][k] = "running"
    /\ Publish("acquisition", "active")
    /\ LoopKeep /\ UNCHANGED <<loop, faults>>

\* `stop` says so or its sender is gone.
LoopStopped(s, k) ==
    /\ loop[s][k] = "running" /\ (acq[s].pc = "aborted" \/ acq[s].stop)
    /\ loop' = [loop EXCEPT ![s][k] = "closing"]
    /\ LoopKeep /\ UNCHANGED <<bus, faults>>

\* The stream ends by itself: the camera is gone, or it failed.
StreamEnds(s, k) ==
    /\ loop[s][k] = "running" /\ Call(s, TRUE)
    /\ loop' = [loop EXCEPT ![s][k] = "closing"]
    /\ LoopKeep /\ UNCHANGED bus

\* The stream is closed and its final status published.
LoopCloses(s, k) ==
    /\ loop[s][k] = "closing"
    /\ loop' = [loop EXCEPT ![s][k] = "ended"]
    /\ Publish("acquisition", "inactive")
    /\ LoopKeep /\ UNCHANGED faults

-----------------------------------------------------------------------------
(* events::run. *)

EvKeep == UNCHANGED <<d, n, told, announces, ann, acq, loop, shutdown, link>>

\* A request: Start, with or without event names, or Stop.
EventRequest(s, command) ==
    /\ ev[s].pc = "idle" /\ Request
    /\ ev' = [ev EXCEPT ![s].pc = IF ev[s].monitor # "off" THEN "join"
                                  ELSE IF command = "stop" THEN "status" ELSE command,
                        ![s].then = IF command = "stop" THEN "status" ELSE command]
    /\ EvKeep /\ UNCHANGED <<cam, bus, botched, faults>>

\* The forwarding task ended by itself, or `shutdown` says stop.
MonitorEnded(s) ==
    /\ ev[s].pc = "idle" /\ ev[s].monitor = "failed"
    /\ ev' = [ev EXCEPT ![s].pc = "join", ![s].then = "status"]
    /\ EvKeep /\ UNCHANGED <<cam, bus, botched, requests, faults>>

EventsShutdown(s) ==
    /\ ev[s].pc = "idle" /\ s \in told
    /\ ev' = [ev EXCEPT ![s].pc = IF ev[s].monitor = "off" THEN "ended" ELSE "join", ![s].then = "last_status"]
    /\ EvKeep /\ UNCHANGED <<cam, bus, botched, requests, faults>>

\* forward: an event is published, or the channel fails.
ForwardEvent(s) ==
    /\ ~Over(ev[s]) /\ ev[s].monitor = "on"
    /\ PublishData("event")
    /\ EvKeep /\ UNCHANGED <<ev, cam, botched, requests, faults>>

ChannelFails(s) ==
    /\ ~Over(ev[s]) /\ ev[s].monitor = "on" /\ Call(s, TRUE)
    /\ ev' = [ev EXCEPT ![s].monitor = "failed"]
    /\ EvKeep /\ UNCHANGED <<cam, bus, botched, requests>>

\* stop: forwarding ends,
JoinForward(s) ==
    /\ ev[s].pc = "join"
    /\ ev' = [ev EXCEPT ![s].pc = "restore", ![s].monitor = "off"]
    /\ EvKeep /\ UNCHANGED <<cam, bus, botched, requests, faults>>

\* finish: the settings are put back; what cannot be is a warning.
finish(s, failed) ==
    /\ ev[s].pc = "restore" /\ Call(s, failed)
    /\ cam' = [cam EXCEPT !.events = IF failed THEN @ ELSE "own"]
    /\ botched' = (botched \/ (failed /\ link[s] \in {0, cam.at}))
    /\ ev' = [ev EXCEPT ![s].pc = ev[s].then]
    /\ EvKeep /\ UNCHANGED <<bus, requests>>

\* start: nothing to monitor is refused, and so is a camera that cannot be set up; a
\* rollback that fails as well leaves its settings changed.
start(s, failed) ==
    /\ ev[s].pc \in {"start", "start_empty"}
    /\ IF ev[s].pc = "start_empty" THEN failed /\ UNCHANGED faults ELSE Call(s, failed)
    /\ \E changed \in BOOLEAN :
          /\ ~failed => changed
          /\ changed => ev[s].pc = "start" /\ Reaches(s)
          /\ cam' = IF changed THEN [cam EXCEPT !.events = "changed"] ELSE cam
          /\ botched' = (botched \/ (failed /\ changed))
    /\ ev' = [ev EXCEPT ![s].pc = IF failed THEN "idle" ELSE "status", ![s].monitor = IF failed THEN "off" ELSE "on"]
    /\ EvKeep /\ UNCHANGED <<bus, requests>>

EventStatus(s) ==
    /\ ev[s].pc \in {"status", "last_status"}
    /\ Publish("events", IF ev[s].monitor = "off" THEN "inactive" ELSE "active")
    /\ ev' = [ev EXCEPT ![s].pc = IF @ = "status" THEN "idle" ELSE "ended"]
    /\ EvKeep /\ UNCHANGED <<cam, botched, requests, faults>>

-----------------------------------------------------------------------------
(* run_discovery. *)

DKeep == UNCHANGED <<ann, loop, shutdown, cam, requests>>

\* A pass sees the camera where it is, or not at all, or fails.
discover(failed) ==
    /\ d.pc = "discover" /\ Fails(failed)
    /\ d' = [d EXCEPT !.pc = "lost", !.ok = ~failed, !.found = IF failed THEN 0 ELSE cam.at]
    /\ DKeep /\ UNCHANGED <<n, told, announces, acq, ev, link, bus, botched>>

\* Lost: not found by a pass that succeeded, reported gone, or found somewhere else.
Lost ==
    /\ d.served # 0
    /\ \/ d.ok /\ d.found = 0
       \/ link[d.served] = 0
       \/ d.found # 0 /\ d.found # link[d.served]

\* Lost cameras are no longer announced and are told to stop.
LetGo ==
    /\ d.pc = "lost"
    /\ IF Lost
       THEN /\ announces' = FALSE /\ told' = told \cup {d.served}
            /\ d' = [d EXCEPT !.pc = "retire", !.old = d.served, !.served = 0]
       ELSE d' = [d EXCEPT !.pc = "found"] /\ UNCHANGED <<announces, told>>
    /\ DKeep /\ UNCHANGED <<n, acq, ev, link, bus, botched, faults>>

AfterRetire == IF shutdown /\ ann.pc = "ended" /\ d.pc = "drain" THEN "done" ELSE "gone"

\* Mutated form: the acquisition task is not awaited.
RetireEventsOnly ==
    /\ d.pc \in {"retire", "drain"} /\ d.old # 0
    /\ Over(ev[d.old])
    /\ d' = [d EXCEPT !.pc = AfterRetire, !.old = 0]
    /\ DKeep /\ UNCHANGED <<n, told, announces, acq, ev, link, bus, botched, faults>>

\* Each task is awaited.
retire ==
    /\ d.pc \in {"retire", "drain"} /\ d.old # 0
    /\ Over(ev[d.old]) /\ Over(acq[d.old])
    /\ d' = [d EXCEPT !.pc = AfterRetire, !.old = 0]
    /\ DKeep /\ UNCHANGED <<n, told, announces, acq, ev, link, bus, botched, faults>>

\* The task awaited outlasts RETIRE_TIMEOUT and is aborted; the event task is awaited first.
RetireTimeout ==
    /\ d.pc \in {"retire", "drain"} /\ d.old # 0 /\ Fault
    /\ IF ~Over(ev[d.old])
       THEN ev' = [ev EXCEPT ![d.old].pc = "aborted"] /\ UNCHANGED acq
       ELSE ~Over(acq[d.old]) /\ acq' = [acq EXCEPT ![d.old].pc = "aborted"] /\ UNCHANGED ev
    /\ botched' = TRUE
    /\ DKeep /\ UNCHANGED <<d, n, told, announces, link, bus>>

PublishDisconnected ==
    /\ d.pc = "gone"
    /\ bus' = [bus EXCEPT !.status = "disconnected", !.late = {}]
    /\ d' = [d EXCEPT !.pc = "found"]
    /\ DKeep /\ UNCHANGED <<n, told, announces, acq, ev, link, botched, faults>>

\* A camera found: a new one is connected to, a known one announced as it was found.
Found(failed) ==
    /\ d.pc = "found"
    /\ IF d.found # 0 /\ d.served = 0
       THEN IF d.found = cam.at /\ n < MaxSessions THEN Fails(failed) ELSE failed /\ UNCHANGED faults
       ELSE ~failed /\ UNCHANGED faults
    /\ IF d.found # 0 /\ d.served = 0 /\ ~failed
       THEN /\ n' = n + 1
            /\ link' = [link EXCEPT ![n + 1] = d.found]
            /\ d' = [d EXCEPT !.pc = "serve"] /\ UNCHANGED announces
       ELSE /\ announces' = (d.served # 0 /\ (announces \/ d.found # 0))
            /\ d' = [d EXCEPT !.pc = "sleep"] /\ UNCHANGED <<n, link>>
    /\ DKeep /\ UNCHANGED <<told, acq, ev, bus, botched>>

\* serve_device: publish it connected, then start its tasks.
PublishConnected ==
    /\ d.pc = "serve"
    /\ bus' = [bus EXCEPT !.status = "connected"]
    /\ d' = [d EXCEPT !.pc = "spawn"]
    /\ DKeep /\ UNCHANGED <<n, told, announces, acq, ev, link, botched, faults>>

serve_device ==
    /\ d.pc = "spawn"
    /\ acq' = [acq EXCEPT ![n] = NewAcquisition] /\ ev' = [ev EXCEPT ![n] = NewEvents]
    /\ d' = [d EXCEPT !.pc = "announce", !.served = n]
    /\ DKeep /\ UNCHANGED <<n, told, announces, link, bus, botched, faults>>

AnnounceNew ==
    /\ d.pc = "announce"
    /\ PublishData("announce") /\ announces' = TRUE
    /\ d' = [d EXCEPT !.pc = "sleep"]
    /\ DKeep /\ UNCHANGED <<n, told, acq, ev, link, botched, faults>>

\* The interval passes, or the service shuts down: the announce loop first.
Sleep ==
    /\ d.pc = "sleep"
    /\ d' = [d EXCEPT !.pc = "discover"]
    /\ DKeep /\ UNCHANGED <<n, told, announces, acq, ev, link, bus, botched, faults>>

Drain ==
    /\ d.pc = "sleep" /\ shutdown
    /\ d' = [d EXCEPT !.pc = "await_announcing"]
    /\ DKeep /\ UNCHANGED <<n, told, announces, acq, ev, link, bus, botched, faults>>

DrainServed ==
    /\ d.pc = "await_announcing" /\ ann.pc = "ended"
    /\ d' = [d EXCEPT !.pc = IF d.served = 0 THEN "done" ELSE "drain", !.old = d.served, !.served = 0]
    /\ told' = told \cup ({d.served} \ {0})
    /\ DKeep /\ UNCHANGED <<n, announces, acq, ev, link, bus, botched, faults>>

-----------------------------------------------------------------------------
(* announce_loop: a snapshot of the announces is published, camera by camera. *)

AnnKeep == UNCHANGED <<d, n, told, announces, acq, loop, ev, shutdown, cam, link, botched, requests, faults>>

Snapshot ==
    /\ ann.pc = "snapshot"
    /\ ann' = [pc |-> IF announces THEN "put" ELSE "sleep", has |-> announces]
    /\ AnnKeep /\ UNCHANGED bus

PutAnnounce ==
    /\ ann.pc = "put"
    /\ PublishData("announce")
    /\ ann' = [pc |-> "sleep", has |-> FALSE]
    /\ AnnKeep

AnnounceSleep ==
    /\ ann.pc = "sleep"
    /\ ann' = [ann EXCEPT !.pc = IF shutdown THEN "ended" ELSE "snapshot"]
    /\ AnnKeep /\ UNCHANGED bus

-----------------------------------------------------------------------------
(* The camera and the operator. *)

EnvKeep == UNCHANGED <<d, n, told, announces, ann, acq, loop, ev, bus, botched, requests>>

\* The camera leaves, or comes back or moves to an endpoint, having lost its settings.
CameraMoves(at) ==
    /\ Fault /\ at # cam.at
    /\ cam' = [at |-> at, acquiring |-> FALSE, stray |-> FALSE, events |-> "own"]
    /\ EnvKeep /\ UNCHANGED <<shutdown, link>>

\* The transport reports the session gone: control was lost, and the camera stops streaming.
SessionLost(s) ==
    /\ Fault /\ link[s] # 0
    /\ link' = [link EXCEPT ![s] = 0]
    /\ cam' = [cam EXCEPT !.acquiring = IF Reaches(s) THEN FALSE ELSE @]
    /\ EnvKeep /\ UNCHANGED shutdown

Interrupt ==
    /\ ~shutdown /\ shutdown' = TRUE
    /\ EnvKeep /\ UNCHANGED <<cam, link, faults>>

-----------------------------------------------------------------------------
Acquisition(s) ==
    \/ AcqShutdown(s) \/ handle_stop(s) \/ StoppedStatus(s)
    \/ SpawnLoop(s) \/ AwaitLoop(s) \/ StartedStatus(s)
    \/ \E failed \in BOOLEAN : acquisition_stop(s, failed) \/ open_stream(s, failed) \/ acquisition_start(s, failed)

FrameLoop(s) == \E k \in DOMAIN loop[s] : LoopStopped(s, k) \/ LoopCloses(s, k)

Events(s) ==
    \/ MonitorEnded(s) \/ EventsShutdown(s) \/ JoinForward(s) \/ EventStatus(s)
    \/ \E failed \in BOOLEAN : finish(s, failed) \/ start(s, failed)

Clients(s) ==
    \/ StartRequest(s) \/ StopRequest(s)
    \/ \E command \in {"start", "start_empty", "stop"} : EventRequest(s, command)

\* What the camera sends, and its failures.
Traffic(s) ==
    \/ \E k \in DOMAIN loop[s] : FrameBlock(s, k) \/ StatusTick(s, k) \/ StreamEnds(s, k)
    \/ ForwardEvent(s) \/ ChannelFails(s)

Discovery ==
    \/ \E failed \in BOOLEAN : discover(failed) \/ Found(failed)
    \/ LetGo \/ retire \/ PublishDisconnected \/ PublishConnected \/ serve_device \/ AnnounceNew
    \/ Sleep \/ Drain \/ DrainServed

AnnounceLoop == Snapshot \/ PutAnnounce \/ AnnounceSleep

Next ==
    \/ Discovery \/ RetireTimeout \/ AnnounceLoop \/ Interrupt
    \/ \E s \in Sessions : Acquisition(s) \/ FrameLoop(s) \/ Events(s) \/ Clients(s) \/ Traffic(s) \/ SessionLost(s)
    \/ \E at \in 0..2 : CameraMoves(at)

Spec == Init /\ [][Next]_vars

Tasks == \E s \in Sessions : Acquisition(s) \/ FrameLoop(s) \/ Events(s)

\* The runtime runs what can run: the discovery loop, the announce loop and the tasks of a
\* camera, which take finitely many steps a request.  A discovery loop that sleeps sees the
\* shutdown before its interval is over.
FairSpec ==
    Spec /\ WF_vars(Discovery) /\ SF_vars(Drain) /\ WF_vars(AnnounceLoop) /\ WF_vars(Tasks)

-----------------------------------------------------------------------------
(* Properties. *)

Aborted(s) == acq[s].pc = "aborted" \/ ev[s].pc = "aborted"

Alive(s) == {k \in DOMAIN loop[s] : loop[s][k] # "ended"}

\* "When this returns nothing publishes under the camera's id any more": once a session is
\* retired its tasks and its frame loops are over, no two frame loops of the camera ever
\* run, and after "disconnected" nothing follows but an announce under way.  An aborted
\* task is the exception.
RetiredIsQuiet ==
    LET mine == {s \in 1..n : ~Aborted(s)}
    IN  /\ \A s \in mine : s \in told /\ s # d.old => Over(acq[s]) /\ Over(ev[s]) /\ Alive(s) = {}
        /\ \A s \in mine : Cardinality(Alive(s)) <= 1
        /\ Cardinality({s \in mine : Alive(s) # {}}) <= 1
        /\ mine = 1..n => bus.late \subseteq {"announce"}

Unattended(s) == (\A t \in Sessions : Over(acq[t]) /\ Over(ev[t])) /\ s \in 1..n /\ Reaches(s)

\* A camera that can be reached is let go of as it was found: when the service has shut
\* down, or nothing serves the camera, it does not acquire and its event settings are its
\* own.  The exceptions: a call that puts them back failed or was aborted, and a start of
\* acquisition that failed although the camera carried it out.
CameraReleased ==
    ~botched => \A s \in Sessions : Unattended(s) => (cam.acquiring => cam.stray) /\ cam.events = "own"

\* The acquisition status says what is: active only while a frame loop is there or was
\* not yet stopped, so a client that is told of a stop or of a failed start sees "inactive".
StatusIsTrue ==
    (\A s \in 1..n : ~Aborted(s))
        => \A s \in 1..n : acq[s].pc = "idle" /\ ~acq[s].task => bus.acquisition # "active"

\* CTRL+C ends the service, whatever the tasks and the camera are doing.
ShutdownEnds == shutdown ~> d.pc = "done"
=============================================================================
