----------------------------- MODULE FrameStream -----------------------------
(***************************************************************************)
(* A GigE Vision stream from the socket to the application: the receive     *)
(* thread's loop (`run` and `deliver` of viva-genicam's stream/receiver.rs) *)
(* around the assembler, the delivery queue, and `FrameStream` of           *)
(* stream/mod.rs, which the application reads, reconfigures and drops.      *)
(*                                                                          *)
(* The queue is used through what it promises: see Handoff, which the       *)
(* DeliveryQueue module implements.  `asm.out` is the loop's `done`.  The   *)
(* stream has no resend target, so the loop sends no requests.              *)
(***************************************************************************)
EXTENDS Assembly

CONSTANTS
    Capacity,    \* DELIVERY_CAPACITY: 16 in the code
    MaxForeign,  \* model bound: datagrams from another address
    MaxSettings, \* model bound: calls of set_deliver_incomplete
    MayFail      \* whether the socket may fail for good

ASSUME FrameStreamAssumption ==
    /\ Capacity \in Nat \ {0} /\ MaxForeign \in Nat /\ MaxSettings \in Nat /\ MayFail \in BOOLEAN

VARIABLES
    thread,     \* the receive thread: see Threads
    asking,     \* the deliver_incomplete it read in this iteration
    queue,      \* frames waiting for the application
    end,        \* "None", "Failed" or "Finished"
    shared,     \* the settings and the flag the two sides share
    stats,      \* frames_complete, frames_incomplete, frames_backpressure
    silence,    \* SilenceWatch, and whether its grace period is over
    app,        \* what the application does: see Apps
    held,       \* the frame popped and not yet accounted for
    given       \* history: the frames handed to the application

ownVars == <<thread, asking, queue, end, shared, stats, silence, app, held, given>>
allVars == <<vars, ownVars>>

\* At the loop's condition, in the read, before poll, delivering what is done,
\* between a push that evicted a frame and its count, dropping FinishOnExit.
Threads == {"loop", "recv", "poll", "deliver", "evicted", "exiting", "gone"}
Apps    == {"idle", "take", "dropping", "dropped"}

SInit ==
    /\ Init /\ ~setup.resend
    /\ thread = "loop" /\ asking = FALSE
    /\ queue = <<>> /\ end = "None"
    /\ shared = [stop |-> FALSE, deliver_incomplete |-> FALSE, settings |-> 0]
    /\ stats = [complete |-> 0, incomplete |-> 0, backpressure |-> 0]
    /\ silence = [packet |-> FALSE, frame |-> FALSE, foreign |-> 0, late |-> FALSE, said |-> "Quiet"]
    /\ app = "idle" /\ held = <<>> /\ given = <<>>

-----------------------------------------------------------------------------
(* The receive thread. *)

\* Mutated form: the flag is not looked at.
LoopForever ==
    /\ thread = "loop"
    /\ thread' = "recv"
    /\ UNCHANGED <<vars, asking, queue, end, shared, stats, silence, app, held, given>>

\* while !shared.stop
LoopHead ==
    /\ thread = "loop"
    /\ thread' = IF shared.stop THEN "exiting" ELSE "recv"
    /\ UNCHANGED <<vars, asking, queue, end, shared, stats, silence, app, held, given>>

\* A datagram of the camera's: to the assembler, usable or not.
RecvPacket(p) ==
    /\ thread = "recv"
    /\ Ingest(p) \/ IngestIgnored(p)
    /\ thread' = "poll"
    /\ silence' = [silence EXCEPT !.packet = TRUE]
    /\ UNCHANGED <<asking, queue, end, shared, stats, app, held, given>>

\* A datagram that the source filter refuses.
RecvForeign ==
    /\ thread = "recv"
    /\ silence.foreign < MaxForeign
    /\ thread' = "poll"
    /\ silence' = [silence EXCEPT !.foreign = @ + 1]
    /\ UNCHANGED <<vars, asking, queue, end, shared, stats, app, held, given>>

\* The read timed out, or failed with an error that says nothing of the stream.
RecvNothing ==
    /\ thread = "recv"
    /\ thread' = "poll"
    /\ UNCHANGED <<vars, asking, queue, end, shared, stats, silence, app, held, given>>

SetEnd(e) == end' = IF end = "None" THEN e ELSE end

RecvFailed ==
    /\ MayFail
    /\ thread = "recv"
    /\ SetEnd("Failed")
    /\ thread' = "exiting"
    /\ UNCHANGED <<vars, asking, queue, shared, stats, silence, app, held, given>>

\* assembler.poll, and the setting for the frames of this iteration.
PollAll ==
    /\ thread = "poll"
    /\ asm' = poll(asm)
    /\ asking' = shared.deliver_incomplete
    /\ thread' = "deliver"
    /\ UNCHANGED <<setup, sent, net, duplicates, errors, asks, heads, misled>>
    /\ UNCHANGED <<queue, end, shared, stats, silence, app, held, given>>

Complete(b) == b.resolved = "Complete"

\* Mutated form: the eviction is not noticed.
EvictsUnnoticed == thread' = "deliver"

\* An incomplete frame that nobody asked for.
Refused(b) == ~Complete(b) /\ ~asking

CountRefused == stats' = [stats EXCEPT !.incomplete = @ + 1]

\* Whether the push returned a frame, to be counted next.
Evicts == thread' = IF Len(queue) >= Capacity THEN "evicted" ELSE "deliver"

\* deliver, for one block.
DeliverBlock ==
    /\ thread = "deliver"
    /\ asm.out # <<>>
    /\ LET b == Head(asm.out)
       IN  /\ silence' = [silence EXCEPT !.frame = @ \/ Complete(b)]
           /\ \/ Refused(b) /\ CountRefused /\ UNCHANGED <<thread, queue>>
              \/ /\ ~Refused(b)
                 /\ queue' = Append(IF Len(queue) >= Capacity THEN Tail(queue) ELSE queue, b)
                 /\ Evicts
                 /\ UNCHANGED stats
    /\ asm' = [asm EXCEPT !.out = Tail(@)]
    /\ UNCHANGED <<setup, sent, net, duplicates, errors, asks, heads, misled>>
    /\ UNCHANGED <<asking, end, shared, app, held, given>>

CountEvicted ==
    /\ thread = "evicted"
    /\ stats' = [stats EXCEPT !.backpressure = @ + 1]
    /\ thread' = "deliver"
    /\ UNCHANGED <<vars, asking, queue, end, shared, silence, app, held, given>>

\* SilenceWatch::assess: what the stream's one warning says, if it is due.
assess(s) ==
    IF s.said # "Quiet" \/ s.frame \/ ~s.late THEN s.said
    ELSE IF s.packet THEN "NoFrame" ELSE IF s.foreign > 0 THEN "OnlyForeign" ELSE "NoPacket"

EndIteration ==
    /\ thread = "deliver"
    /\ asm.out = <<>>
    /\ silence' = [silence EXCEPT !.said = assess(silence)]
    /\ thread' = "loop"
    /\ UNCHANGED <<vars, asking, queue, end, shared, stats, app, held, given>>

\* Drop for FinishOnExit.
Exit ==
    /\ thread = "exiting"
    /\ SetEnd("Finished")
    /\ thread' = "gone"
    /\ UNCHANGED <<vars, asking, queue, shared, stats, silence, app, held, given>>

\* SILENCE_GRACE has passed since the stream opened.
GraceOver ==
    /\ ~silence.late
    /\ silence' = [silence EXCEPT !.late = TRUE]
    /\ UNCHANGED <<vars, thread, asking, queue, end, shared, stats, app, held, given>>

-----------------------------------------------------------------------------
(* The application. *)

\* next_block: the frame leaves the queue, and is then accounted for.
Pop ==
    /\ app = "idle"
    /\ queue # <<>>
    /\ held' = <<Head(queue)>>
    /\ queue' = Tail(queue)
    /\ app' = "take"
    /\ UNCHANGED <<vars, thread, asking, end, shared, stats, silence, given>>

take ==
    /\ app = "take"
    /\ stats' = IF Complete(Head(held)) THEN [stats EXCEPT !.complete = @ + 1]
                                        ELSE [stats EXCEPT !.incomplete = @ + 1]
    /\ given' = given \o held
    /\ held' = <<>>
    /\ app' = "idle"
    /\ UNCHANGED <<vars, thread, asking, queue, end, shared, silence>>

\* The queue is drained and the thread has left: a failure, once, or the end.
PopEnd ==
    /\ app = "idle"
    /\ queue = <<>>
    /\ end # "None"
    /\ end' = "Finished"
    /\ UNCHANGED <<vars, thread, asking, queue, shared, stats, silence, app, held, given>>

set_deliver_incomplete(v) ==
    /\ app = "idle"
    /\ shared.settings < MaxSettings
    /\ shared' = [shared EXCEPT !.deliver_incomplete = v, !.settings = @ + 1]
    /\ UNCHANGED <<vars, thread, asking, queue, end, stats, silence, app, held, given>>

\* Drop for FrameStream: the flag, then the join.
DropStream ==
    /\ app = "idle"
    /\ shared' = [shared EXCEPT !.stop = TRUE]
    /\ app' = "dropping"
    /\ UNCHANGED <<vars, thread, asking, queue, end, stats, silence, held, given>>

DropJoined ==
    /\ app = "dropping"
    /\ thread = "gone"
    /\ app' = "dropped"
    /\ UNCHANGED <<vars, thread, asking, queue, end, shared, stats, silence, held, given>>

-----------------------------------------------------------------------------
Thread ==
    \/ LoopHead \/ RecvForeign \/ RecvNothing \/ RecvFailed \/ PollAll
    \/ DeliverBlock \/ CountEvicted \/ EndIteration \/ Exit
    \/ \E p \in net : RecvPacket(p)

App == Pop \/ take \/ PopEnd \/ DropStream \/ DropJoined \/ \E v \in BOOLEAN : set_deliver_incomplete(v)

Time   == Tick /\ UNCHANGED ownVars
Camera == (\E kind \in setup.kinds : CameraSend(kind)) /\ UNCHANGED ownVars

SNext == Thread \/ App \/ Time \/ Camera \/ GraceOver

SSpec == SInit /\ [][SNext]_allVars

\* Time passes and the thread runs, its read returning after READ_TIMEOUT at the
\* latest; the join returns once it can.  Nothing is assumed of camera and network.
SFairSpec == SSpec /\ WF_allVars(Thread) /\ WF_allVars(Time) /\ WF_allVars(DropJoined)

-----------------------------------------------------------------------------
(* Properties. *)

\* The equation of StreamStats, at every moment: of the camera's blocks from the
\* first started to the newest, each is in one counter or still on its way.  (Not once
\* a leader of block 1 that came after a later block, or after the loss of the one before
\* it, was taken for a new acquisition: see CountedOnce.)
EveryFrameCounted ==
    asm.started # {} /\ ~misled =>
        stats.complete + stats.incomplete + stats.backpressure + asm.missed + asm.unsupported
          + Len(asm.in_flight) + Len(asm.out) + Len(queue) + Len(held)
          + (IF thread = "evicted" THEN 1 ELSE 0)
            = Max(asm.started) - Min(asm.started) + 1

\* What the application has been given, what it holds and what waits for it, in
\* that order, is in the order the camera sent it, each frame once.  (With the same
\* exception: a block 1 that is overtaken by a later one starts after it.)
DeliveredInOrder ==
    LET all == given \o held \o queue \o asm.out \o asm.in_flight
    IN  ~misled => \A i, j \in DOMAIN all : i < j => Origin(all[i]) < Origin(all[j])

\* Dropping a stream returns: the thread sees the flag whatever it is doing.
DropReturns == app = "dropping" ~> app = "dropped"

\* A block of which more than its leader has come is not kept for ever: once its
\* packets stop coming it leaves the assembler, complete or not, unless the thread
\* itself leaves first.  The last block of a burst is not held back.
BlockLeaves ==
    \A n \in 1..Max({s.blocks : s \in Setups}) :
        (\E i \in DOMAIN asm.in_flight : n \in asm.in_flight[i].from /\ ~LeaderOnly(asm.in_flight[i]))
            ~> (thread = "gone" \/ ~(\E i \in DOMAIN asm.in_flight : n \in asm.in_flight[i].from))
=============================================================================
