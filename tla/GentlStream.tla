----------------------------- MODULE GentlStream -----------------------------
(***************************************************************************)
(* The Data Stream module of the GenTL producer (viva-gentl's stream.rs):   *)
(* announced buffers and their pools, the acquisition engine with its       *)
(* delivery thread, the new-buffer event, and the closing of the stream or  *)
(* of its device through the registry (library.rs, device.rs).              *)
(*                                                                          *)
(* Any number of consumer threads call.  A call is two or more steps: it    *)
(* looks its handles up in the registry (`Call`) and then acts, one step    *)
(* for each time it takes a lock.  `pc[c].at` is the step it is about to    *)
(* take.  Handles are never used twice, so they are numbers that grow.      *)
(* What a frame holds is its number; 0 is no frame.                         *)
(***************************************************************************)
EXTENDS Integers, Sequences, FiniteSetsExt, SequencesExt

CONSTANTS
    Callers,    \* the consumer's threads
    Memories,   \* what may be announced: the consumer's addresses, and 0 for the producer's own
    Counts,     \* values of iNumToAcquire, or NoLimit
    Prepared,   \* how many buffers are queued at the start: see InitWith
    MaxKeys,    \* model bound: buffers announced
    MaxEvents,  \* model bound: events registered
    MaxStarts,  \* model bound: delivery threads started
    MaxFrames,  \* model bound: frames the camera sends
    MaxCalls    \* model bound: calls of the consumer

NoLimit == -1

ASSUME GentlAssumption ==
    /\ IsFiniteSet(Callers)
    /\ Memories \subseteq Nat /\ Counts \subseteq (Nat \ {0}) \cup {NoLimit}
    /\ Prepared \subseteq 0..MaxKeys /\ MaxEvents > 0 /\ MaxStarts > 0
    /\ {MaxKeys, MaxEvents, MaxStarts, MaxFrames, MaxCalls} \subseteq Nat

VARIABLES
    pool,      \* State: buffers, input and output, and each buffer's location
    memory,    \* each buffer's base
    origin,    \* State::origin: whose memory the stream's buffers are
    fill,      \* the frame each buffer holds
    acq,       \* State: started, running, remaining, delivered, closed
    event,     \* State::event: its key, 0 for none, and the kills
    reg,       \* the registry: which of the handles name an open module
    io,        \* Device::io: whether the device is open
    engine,    \* the engine's mutex, its thread, 0 for none
    thread,    \* the delivery threads: see Threads
    stopping,  \* delivery threads whose stop flag is set
    pc,        \* what each consumer thread is about to do
    keys,      \* buffers announced so far
    events,    \* events registered so far
    starts,    \* delivery threads started so far
    frames,    \* frames read so far
    calls,     \* calls so far
    handed     \* history: the newest frame handed to the consumer

vars == <<pool, memory, origin, fill, acq, event, reg, io, engine, thread, stopping, pc,
          keys, events, starts, frames, calls, handed>>
poolVars   == <<pool, memory, origin, fill>>
engineVars == <<engine, thread, stopping>>
counts     == <<keys, events, starts, frames, calls>>

Keys     == 1..MaxKeys
Threads  == {"none", "loop", "read", "have", "notify", "gone"}
FlushOps == {"INPUT_TO_OUTPUT", "OUTPUT_DISCARD", "ALL_TO_INPUT", "UNQUEUED_TO_INPUT", "ALL_DISCARD"}

\* The step, the handle or number it is about, and whether a close takes the device too.
Idle == [at |-> "idle", arg |-> 0, device |-> FALSE]
At(c, step)      == pc[c].at = step
Go(c, step, arg) == pc' = [pc EXCEPT ![c].at = step, ![c].arg = arg]
Done(c)          == pc' = [pc EXCEPT ![c] = Idle]

\* The stream just opened, or one that has n queued buffers and a registered event.
InitWith(n) ==
    LET queued == [i \in 1..n |-> i]
        e      == IF n = 0 THEN 0 ELSE 1
    IN  /\ pool = [buffers |-> queued, input |-> queued, output |-> <<>>,
                   at |-> [k \in Keys |-> IF k <= n THEN "Input" ELSE "None"]]
        /\ origin = IF n = 0 THEN "None" ELSE "Producer"
        /\ event = [key |-> e, kills |-> 0]
        /\ reg = [device |-> TRUE, stream |-> TRUE, buffers |-> 1..n, events |-> {e} \ {0}]
        /\ keys = n /\ events = e

\* It may be acquiring.
InitAcquiring(on) ==
    /\ acq = [started |-> on, running |-> on, remaining |-> NoLimit, delivered |-> 0, closed |-> FALSE]
    /\ starts = IF on THEN 1 ELSE 0
    /\ engine = [lock |-> FALSE, thread |-> starts]
    /\ thread = [i \in 1..MaxStarts |-> IF i = starts THEN "loop" ELSE "none"] /\ stopping = {}

Init ==
    /\ \E n \in Prepared, on \in BOOLEAN : (on => n > 0) /\ InitWith(n) /\ InitAcquiring(on)
    /\ memory = [k \in Keys |-> 0] /\ fill = [k \in Keys |-> 0]
    /\ io = TRUE
    /\ pc = [c \in Callers |-> Idle]
    /\ frames = 0 /\ calls = 0 /\ handed = 0

-----------------------------------------------------------------------------
(* The buffer pools. *)

Placed(p, ks, place) == [p EXCEPT !.at = [k \in DOMAIN @ |-> IF k \in ks THEN place ELSE @[k]]]

\* Every buffer of the output queue back to the consumer.
discard_output(p) == Placed([p EXCEPT !.output = <<>>], Range(p.output), "Unqueued")

\* The announced buffers at these places, oldest first: handles grow.
Listed(p, places) ==
    LET S == {k \in Range(p.buffers) : p.at[k] \in places}
    IN  {ks \in [1..Cardinality(S) -> S] : Range(ks) = S /\ \A i, j \in DOMAIN ks : i < j => ks[i] < ks[j]}

\* Mutated form: buffers that are in the input pool already are added again.
ToInputAgain(p, places) ==
    {Placed([p EXCEPT !.input = @ \o ks], Range(ks), "Input") : ks \in Listed(p, places \cup {"Input"})}

\* The announced buffers at these places to the end of the input pool.
ToInput(p, places) ==
    {Placed([p EXCEPT !.input = @ \o ks], Range(ks), "Input") : ks \in Listed(p, places)}

\* The pools after a flush: one outcome, as a set.
flush(p, op) ==
    CASE op = "INPUT_TO_OUTPUT"   -> {Placed([p EXCEPT !.output = @ \o p.input, !.input = <<>>], Range(p.input), "Output")}
      [] op = "OUTPUT_DISCARD"    -> {discard_output(p)}
      [] op = "ALL_TO_INPUT"      -> ToInput([p EXCEPT !.output = <<>>], {"Unqueued", "Output"})
      [] op = "UNQUEUED_TO_INPUT" -> ToInput(p, {"Unqueued"})
      [] op = "ALL_DISCARD"       -> {Placed([discard_output(p) EXCEPT !.input = <<>>], Range(p.output) \cup Range(p.input), "Unqueued")}

\* The fill of the buffers that a flush moves to the input pool or, empty, to the output queue.
Refilled(p, q) ==
    [k \in Keys |-> IF q.at[k] # p.at[k] /\ q.at[k] \in {"Input", "Output"} THEN 0 ELSE fill[k]]

Announced(k) == k \in Range(pool.buffers)

\* The end of a call that changed something a wait may be for: notify_all comes
\* after the unlock.
ThenNotify(c) == Go(c, "notify", 0)

-----------------------------------------------------------------------------
(* Calls on buffers. *)

Call(c, step, arg) ==
    /\ At(c, "idle")
    /\ calls < MaxCalls
    /\ calls' = calls + 1
    /\ Go(c, step, arg)
    /\ UNCHANGED <<poolVars, acq, event, reg, io, engineVars, keys, events, starts, frames, handed>>

\* DSAnnounceBuffer and DSAllocAndAnnounceBuffer.
announce(c) ==
    /\ At(c, "announce")
    /\ LET base == pc[c].arg
           mine == IF base = 0 THEN "Producer" ELSE "Consumer"
           k    == keys + 1
       IN  IF origin \in {"None", mine} /\ (base = 0 \/ \A b \in Range(pool.buffers) : memory[b] # base)
           THEN /\ reg' = [reg EXCEPT !.buffers = @ \cup {k}]
                /\ origin' = mine
                /\ memory' = [memory EXCEPT ![k] = base]
                /\ pool' = Placed([pool EXCEPT !.buffers = Append(@, k)], {k}, "Unqueued")
                /\ keys' = k
           ELSE UNCHANGED <<reg, origin, memory, pool, keys>>
    /\ Done(c)
    /\ UNCHANGED <<fill, acq, event, io, engineVars, events, starts, frames, calls, handed>>

Revokable(k) == Announced(k) /\ pool.at[k] = "Unqueued"

\* DSRevokeBuffer: the buffer goes, then its handle.
revoke(c) ==
    /\ At(c, "revoke")
    /\ LET k == pc[c].arg
       IN  IF Revokable(k)
           THEN /\ \E index \in DOMAIN pool.buffers :
                      /\ pool.buffers[index] = k
                      /\ pool' = Placed([pool EXCEPT !.buffers = RemoveAt(@, index)], {k}, "None")
                /\ origin' = IF pool'.buffers = <<>> THEN "None" ELSE origin
                /\ Go(c, "forget", k)
           ELSE Done(c) /\ UNCHANGED <<pool, origin>>
    /\ UNCHANGED <<memory, fill, acq, event, reg, io, engineVars, counts, handed>>

forget(c) ==
    /\ At(c, "forget")
    /\ reg' = [reg EXCEPT !.buffers = @ \ {pc[c].arg}]
    /\ Done(c)
    /\ UNCHANGED <<poolVars, acq, event, io, engineVars, counts, handed>>

\* DSQueueBuffer.
queue(c) ==
    /\ At(c, "queue")
    /\ LET k == pc[c].arg
       IN  IF Announced(k) /\ pool.at[k] = "Unqueued"
           THEN /\ pool' = Placed([pool EXCEPT !.input = Append(@, k)], {k}, "Input")
                /\ fill' = [fill EXCEPT ![k] = 0]
           ELSE UNCHANGED <<pool, fill>>
    /\ Done(c)
    /\ UNCHANGED <<memory, origin, acq, event, reg, io, engineVars, counts, handed>>

\* DSFlushQueue.
Flush(c) ==
    /\ pc[c].at \in FlushOps
    /\ pool' \in flush(pool, pc[c].at)
    /\ fill' = Refilled(pool, pool')
    /\ IF At(c, "INPUT_TO_OUTPUT") /\ pool.input # <<>> THEN ThenNotify(c) ELSE Done(c)
    /\ UNCHANGED <<memory, origin, acq, event, reg, io, engineVars, counts, handed>>

-----------------------------------------------------------------------------
(* The acquisition. *)

Unlocked == [engine EXCEPT !.lock = FALSE]

\* DSStartAcquisition: the engine's mutex is held to the end.
start(c) ==
    /\ At(c, "start")
    /\ ~engine.lock
    /\ IF acq.started \/ pool.buffers = <<>>
       THEN Done(c) /\ UNCHANGED engine
       ELSE Go(c, "open", pc[c].arg) /\ engine' = [engine EXCEPT !.lock = TRUE]
    /\ UNCHANGED <<poolVars, acq, event, reg, io, thread, stopping, counts, handed>>

\* The camera's stream is opened, if the device is.
StartOpen(c, ok) ==
    /\ At(c, "open")
    /\ IF io /\ ok
       THEN Go(c, "mark", pc[c].arg) /\ UNCHANGED engine
       ELSE Done(c) /\ engine' = Unlocked
    /\ UNCHANGED <<poolVars, acq, event, reg, io, thread, stopping, counts, handed>>

StartMark(c) ==
    /\ At(c, "mark")
    /\ acq' = [acq EXCEPT !.started = TRUE, !.running = TRUE, !.delivered = 0, !.remaining = pc[c].arg]
    /\ Go(c, "spawn", 0)
    /\ UNCHANGED <<poolVars, event, reg, io, engineVars, counts, handed>>

\* The thread runs before the engine remembers it; it may also not start.
StartSpawn(c, ok) ==
    /\ At(c, "spawn")
    /\ IF ok
       THEN /\ starts' = starts + 1
            /\ thread' = [thread EXCEPT ![starts + 1] = "loop"]
            /\ Go(c, "remember", starts + 1)
            /\ UNCHANGED <<acq, engine>>
       ELSE /\ acq' = [acq EXCEPT !.started = FALSE, !.running = FALSE]
            /\ engine' = Unlocked
            /\ Done(c)
            /\ UNCHANGED <<starts, thread>>
    /\ UNCHANGED <<poolVars, event, reg, io, stopping, keys, events, frames, calls, handed>>

StartRemember(c) ==
    /\ At(c, "remember")
    /\ engine' = [lock |-> FALSE, thread |-> pc[c].arg]
    /\ Done(c)
    /\ UNCHANGED <<poolVars, acq, event, reg, io, thread, stopping, counts, handed>>

\* Mutated form: the engine forgets its thread without stopping it.
JoinNothing(c, step, arg) ==
    /\ engine' = [lock |-> TRUE, thread |-> 0]
    /\ Go(c, step, arg)
    /\ UNCHANGED stopping

\* join: the engine's thread is told to stop; the wait for it is the next step.
join(c, step, arg) ==
    /\ engine' = [lock |-> TRUE, thread |-> 0]
    /\ stopping' = stopping \cup ({engine.thread} \ {0})
    /\ Go(c, step, arg)

Joined == \A i \in stopping : thread[i] = "gone"

\* DSStopAcquisition.
stop(c) ==
    /\ At(c, "stop")
    /\ ~engine.lock
    /\ IF acq.started THEN join(c, "joinStop", 0) ELSE Done(c) /\ UNCHANGED <<engine, stopping>>
    /\ UNCHANGED <<poolVars, acq, event, reg, io, thread, counts, handed>>

StopJoined(c) ==
    /\ At(c, "joinStop")
    /\ Joined
    /\ acq' = [acq EXCEPT !.started = FALSE, !.running = FALSE]
    /\ engine' = Unlocked
    /\ Done(c)
    /\ UNCHANGED <<poolVars, event, reg, io, thread, stopping, counts, handed>>

\* The delivery thread: look at the flag, read a frame, deliver it.
ThreadLoop(i) ==
    /\ thread[i] = "loop"
    /\ thread' = [thread EXCEPT ![i] = IF i \in stopping THEN "gone" ELSE "read"]
    /\ UNCHANGED <<poolVars, acq, event, reg, io, engine, stopping, pc, counts, handed>>

\* next_frame_blocking: a frame, nothing in time, or the end of the stream.
ThreadRead(i, result) ==
    /\ thread[i] = "read"
    /\ result = "have" => frames < MaxFrames
    /\ thread' = [thread EXCEPT ![i] = result]
    /\ frames' = IF result = "have" THEN frames + 1 ELSE frames
    /\ UNCHANGED <<poolVars, acq, event, reg, io, engine, stopping, pc, keys, events, starts, calls, handed>>

More == acq.remaining = NoLimit \/ acq.remaining > 1

\* Mutated form: the frame goes to the front of the output queue.
FillNewestFirst(p) ==
    Placed([p EXCEPT !.input = Tail(@), !.output = <<Head(p.input)>> \o @], {Head(p.input)}, "Output")

\* The first buffer of the input pool, filled, to the end of the output queue.
Fill(p) == Placed([p EXCEPT !.input = Tail(@), !.output = Append(@, Head(p.input))], {Head(p.input)}, "Output")

deliver(i) ==
    /\ thread[i] = "have"
    /\ IF acq.running /\ pool.input # <<>>
       THEN /\ pool' = Fill(pool)
            /\ fill' = [fill EXCEPT ![Head(pool.input)] = frames]
            /\ acq' = [acq EXCEPT !.delivered = @ + 1, !.running = More,
                                  !.remaining = IF @ = NoLimit THEN @ ELSE @ - 1]
            /\ thread' = [thread EXCEPT ![i] = "notify"]
       ELSE /\ thread' = [thread EXCEPT ![i] = IF acq.running THEN "loop" ELSE "gone"]
            /\ UNCHANGED <<pool, fill, acq>>
    /\ UNCHANGED <<memory, origin, event, reg, io, engine, stopping, pc, counts, handed>>

-----------------------------------------------------------------------------
(* The new-buffer event. *)

Waiting == {c \in Callers : At(c, "waiting")}

Woken(cs, f) == [c \in Callers |-> IF c \in cs THEN [f[c] EXCEPT !.at = "get"] ELSE f[c]]

\* Mutated form: nobody is woken.
NotifyForgotten(f) == f

notify_all(f) == Woken(Waiting, f)

\* The delivery thread wakes the waits and goes on, or ends with the acquisition.
ThreadNotify(i) ==
    /\ thread[i] = "notify"
    /\ pc' = notify_all(pc)
    /\ thread' = [thread EXCEPT ![i] = IF acq.remaining = 0 THEN "gone" ELSE "loop"]
    /\ UNCHANGED <<poolVars, acq, event, reg, io, engine, stopping, counts, handed>>

Notify(c) ==
    /\ At(c, "notify")
    /\ pc' = notify_all([pc EXCEPT ![c] = Idle])
    /\ UNCHANGED <<poolVars, acq, event, reg, io, engineVars, counts, handed>>

\* GCRegisterEvent.
register_event(c) ==
    /\ At(c, "register")
    /\ IF event.key = 0
       THEN /\ events' = events + 1
            /\ event' = [key |-> events + 1, kills |-> 0]
            /\ reg' = [reg EXCEPT !.events = @ \cup {events + 1}]
       ELSE UNCHANGED <<events, event, reg>>
    /\ Done(c)
    /\ UNCHANGED <<poolVars, acq, io, engineVars, keys, starts, frames, calls, handed>>

\* GCUnregisterEvent: the registered key, its handle, then the event.
event_key(c) ==
    /\ At(c, "event_key")
    /\ IF event.key = 0 THEN Done(c) /\ UNCHANGED reg
       ELSE reg' = [reg EXCEPT !.events = @ \ {event.key}] /\ Go(c, "unregister", event.key)
    /\ UNCHANGED <<poolVars, acq, event, io, engineVars, counts, handed>>

Unregistered(key) ==
    IF event.key = key /\ key # 0
    THEN event' = [key |-> 0, kills |-> 0] /\ pool' = discard_output(pool)
    ELSE UNCHANGED <<event, pool>>

unregister_event(c) ==
    /\ At(c, "unregister")
    /\ Unregistered(pc[c].arg)
    /\ ThenNotify(c)
    /\ UNCHANGED <<memory, origin, fill, acq, reg, io, engineVars, counts, handed>>

\* EventGetData: the loop of next_event from one look at the state to the next.
next_event(c) ==
    /\ pc[c].at \in {"get", "last"}
    /\ IF event.key # pc[c].arg \/ acq.closed
       THEN Done(c) /\ UNCHANGED <<event, pool, handed>>
       ELSE IF event.kills > 0
       THEN Done(c) /\ event' = [event EXCEPT !.kills = @ - 1] /\ UNCHANGED <<pool, handed>>
       ELSE IF pool.output # <<>>
       THEN LET k == Head(pool.output)
            IN  /\ pool' = Placed([pool EXCEPT !.output = Tail(@)], {k}, "Unqueued")
                /\ handed' = IF fill[k] = 0 THEN handed ELSE fill[k]
                /\ Done(c)
                /\ UNCHANGED event
       ELSE /\ IF At(c, "last") THEN Done(c) ELSE Go(c, "waiting", pc[c].arg)
            /\ UNCHANGED <<event, pool, handed>>
    /\ UNCHANGED <<memory, origin, fill, acq, reg, io, engineVars, counts>>

\* The wait's time is over; the state is looked at once more.
WaitTimesOut(c) ==
    /\ At(c, "waiting")
    /\ Go(c, "last", pc[c].arg)
    /\ UNCHANGED <<poolVars, acq, event, reg, io, engineVars, counts, handed>>

kill_event(c) ==
    /\ At(c, "kill")
    /\ IF event.key = pc[c].arg
       THEN event' = [event EXCEPT !.kills = @ + 1] /\ ThenNotify(c)
       ELSE Done(c) /\ UNCHANGED event
    /\ UNCHANGED <<poolVars, acq, reg, io, engineVars, counts, handed>>

flush_event(c) ==
    /\ At(c, "flushEvent")
    /\ pool' = IF event.key = pc[c].arg THEN discard_output(pool) ELSE pool
    /\ Done(c)
    /\ UNCHANGED <<memory, origin, fill, acq, event, reg, io, engineVars, counts, handed>>

-----------------------------------------------------------------------------
(* Closing. *)

\* DSClose and DevClose: Library::close takes the module and all under it out of the
\* registry, then shuts them down from the leaves.
close(c) ==
    /\ pc[c].at \in {"close", "closeDevice"}
    /\ LET device == At(c, "closeDevice")
           next   == IF ~reg.stream THEN "release" ELSE IF reg.events # {} THEN "closeEvent" ELSE "shut"
       IN  IF IF device THEN reg.device ELSE reg.stream
           THEN /\ reg' = IF reg.stream
                          THEN [device |-> reg.device /\ ~device, stream |-> FALSE, buffers |-> {}, events |-> {}]
                          ELSE [reg EXCEPT !.device = FALSE]
                /\ \E e \in IF reg.events = {} THEN {0} ELSE reg.events :
                      pc' = [pc EXCEPT ![c] = [at |-> next, arg |-> e, device |-> device]]
           ELSE Done(c) /\ UNCHANGED reg
    /\ UNCHANGED <<poolVars, acq, event, io, engineVars, counts, handed>>

\* unregister_event for the event that was registered, with its notify_all.
CloseEvent(c) ==
    /\ At(c, "closeEvent")
    /\ Unregistered(pc[c].arg)
    /\ pc' = notify_all([pc EXCEPT ![c].at = "shut"])
    /\ UNCHANGED <<memory, origin, fill, acq, reg, io, engineVars, counts, handed>>

\* Stream::shut_down: stop the acquisition ...
ShutDown(c) ==
    /\ At(c, "shut")
    /\ ~engine.lock
    /\ join(c, "joinShut", pc[c].arg)
    /\ UNCHANGED <<poolVars, acq, event, reg, io, thread, counts, handed>>

\* ... then drop every buffer and the event ...
ShutJoined(c) ==
    /\ At(c, "joinShut")
    /\ Joined
    /\ engine' = Unlocked
    /\ Go(c, "clear", pc[c].arg)
    /\ UNCHANGED <<poolVars, acq, event, reg, io, thread, stopping, counts, handed>>

ShutClear(c) ==
    /\ At(c, "clear")
    /\ acq' = [acq EXCEPT !.closed = TRUE, !.started = FALSE, !.running = FALSE]
    /\ event' = [key |-> 0, kills |-> 0]
    /\ pool' = Placed([pool EXCEPT !.buffers = <<>>, !.input = <<>>, !.output = <<>>], Keys, "None")
    /\ Go(c, IF pc[c].device THEN "wakeRelease" ELSE "notify", 0)
    /\ UNCHANGED <<memory, origin, fill, reg, io, engineVars, counts, handed>>

\* ... and, with the device, release the camera.
ShutWake(c) ==
    /\ At(c, "wakeRelease")
    /\ pc' = notify_all([pc EXCEPT ![c].at = "release"])
    /\ UNCHANGED <<poolVars, acq, event, reg, io, engineVars, counts, handed>>

Release(c) ==
    /\ At(c, "release")
    /\ io' = FALSE
    /\ Done(c)
    /\ UNCHANGED <<poolVars, acq, event, reg, engineVars, counts, handed>>

-----------------------------------------------------------------------------
\* Consumer threads on their way through one of these steps.
Within(steps) == Cardinality({c \in Callers : pc[c].at \in steps})

\* The calls the registry lets through, with what they name.
Calls(c) ==
    \/ /\ reg.stream /\ keys + Within({"announce"}) < MaxKeys
       /\ \E m \in Memories : Call(c, "announce", m)
    \/ reg.stream /\ \E k \in reg.buffers, step \in {"revoke", "queue"} : Call(c, step, k)
    \/ reg.stream /\ \E op \in FlushOps : Call(c, op, 0)
    \/ /\ reg.stream /\ starts + Within({"start", "open", "mark", "spawn"}) < MaxStarts
       /\ \E n \in Counts : Call(c, "start", n)
    \/ reg.stream /\ events + Within({"register"}) < MaxEvents /\ Call(c, "register", 0)
    \/ reg.stream /\ \E step \in {"stop", "close", "event_key"} : Call(c, step, 0)
    \/ reg.device /\ Call(c, "closeDevice", 0)
    \/ \E e \in reg.events, step \in {"get", "flushEvent", "kill"} : Call(c, step, e)

Step(c) ==
    \/ announce(c) \/ revoke(c) \/ forget(c) \/ queue(c) \/ Flush(c)
    \/ start(c) \/ StartMark(c) \/ StartRemember(c)
    \/ \E ok \in BOOLEAN : StartOpen(c, ok) \/ StartSpawn(c, ok)
    \/ stop(c) \/ StopJoined(c)
    \/ register_event(c) \/ event_key(c) \/ unregister_event(c) \/ next_event(c)
    \/ kill_event(c) \/ flush_event(c) \/ Notify(c)
    \/ close(c) \/ CloseEvent(c) \/ ShutDown(c) \/ ShutJoined(c) \/ ShutClear(c) \/ ShutWake(c) \/ Release(c)

ThreadStep(i) ==
    \/ ThreadLoop(i) \/ deliver(i) \/ ThreadNotify(i)
    \/ \E result \in {"have", "loop", "gone"} : ThreadRead(i, result)

Next ==
    \/ \E c \in Callers : Calls(c) \/ Step(c) \/ WaitTimesOut(c)
    \/ \E i \in 1..MaxStarts : ThreadStep(i)

Spec == Init /\ [][Next]_vars

\* Calls go on and so does the delivery thread, whose read returns within POLL.
\* Nobody has to call, and a wait may be one without end.
FairSpec ==
    /\ Spec
    /\ WF_vars(\E c \in Callers : Step(c))
    /\ WF_vars(\E i \in 1..MaxStarts : ThreadStep(i))

-----------------------------------------------------------------------------
(* Properties. *)

At_(place) == {k \in Range(pool.buffers) : pool.at[k] = place}

\* Every announced buffer is in the one place its entry says, in each pool at most
\* once, and nothing else is: so deliver's unsafe copy only ever writes a buffer that
\* is announced and that the consumer has given back.
PoolsAgree ==
    /\ IsInjective(pool.buffers) /\ IsInjective(pool.input) /\ IsInjective(pool.output)
    /\ Range(pool.input) = At_("Input")
    /\ Range(pool.output) = At_("Output")
    /\ \A k \in Keys : pool.at[k] = "None" <=> ~Announced(k)

\* Frames reach the consumer in the camera's order: while the stream is open, those
\* waiting in the output queue are newer than the newest handed out, each newer than the
\* one before it, whatever was flushed, discarded, stopped or started again in between.
FramesInOrder ==
    ~acq.closed =>
        \A i \in DOMAIN pool.output : fill[pool.output[i]] # 0 =>
            /\ handed < fill[pool.output[i]]
            /\ \A j \in DOMAIN pool.output :
                  i < j /\ fill[pool.output[j]] # 0 => fill[pool.output[i]] < fill[pool.output[j]]

Alive(i) == thread[i] \notin {"none", "gone"}

\* Until the stream is closed there is one delivery thread at most, and somebody is in
\* charge of it: the engine remembers it, or the call that started it or that joins it
\* is still under way.  None outlives DSStopAcquisition.
ThreadOwned ==
    ~acq.closed =>
        /\ \A i, j \in DOMAIN thread : Alive(i) /\ Alive(j) => i = j
        /\ \A i \in DOMAIN thread : Alive(i) =>
              \/ engine.thread = i
              \/ \E c \in Callers : At(c, "remember") /\ pc[c].arg = i
              \/ i \in stopping /\ \E c \in Callers : pc[c].at \in {"joinStop", "joinShut"}
        /\ ~acq.started /\ ~engine.lock => \A i \in DOMAIN thread : ~Alive(i)

\* A call that is to go on: it is not waiting, or there is something for it to see.
Busy(c) ==
    IF At(c, "waiting")
    THEN event.key # pc[c].arg \/ acq.closed \/ event.kills > 0 \/ pool.output # <<>>
    ELSE ~At(c, "idle")

\* No wake-up is lost and no call is stuck on a lock or a join: a wait in EventGetData
\* ends, or what it was for has gone to another; every other call returns.
CallsReturn == \A c \in Callers : Busy(c) ~> ~Busy(c)
=============================================================================
