# A TLA+ model of viva-genicam

viva-genicam is a set of Rust crates that talk to machine-vision cameras: GigE
Vision over UDP (GVCP for control, GVSP for images), USB3 Vision, the GenApi
description of a camera's features on top of both, and a service, a GenTL
producer, a Python binding, a command-line tool and a desktop application that
use them. This directory specifies the parts in which several actors, an
unreliable network or a camera with a will of its own meet the code, checks them
with TLC on small instances, and proves the central ones for every instance with
TLAPS. `PROJECT.json` maps each definition to the lines it models.

## 1. The system

| Component | State | Operations | Interacts with |
|---|---|---|---|
| Delivery queue (`stream/receiver.rs`) | items, end, a `Condvar`, a `Notify` | `push`, `fail`, `finish`, `wake`, `pop`, `pop_blocking` | written by the receive thread, read by the application |
| Resend planner (`stream/resend.rs`) | frontier, gaps, budget of one block | `arrived`, `trailer`, `unavailable`, `due` | called by the assembler |
| Assembler (`stream/assembly.rs`) | blocks in flight, newest id, statistics | `ingest`, `poll`, `resend_due`, `on_resend_answer` | packets from the socket; finished blocks to the receive loop |
| Receive loop and `FrameStream` (`stream/receiver.rs`, `stream/mod.rs`) | thread, stop flag, settings, `SilenceWatch`, statistics | `run`, `deliver`, `next_block`, `set_deliver_incomplete`, `Drop` | assembler, queue, application |
| Control session (`lib.rs`) | `ControlState`, device mutex, keepalive slot | connect, reclaim, release, refresh, write, `Drop`; the keepalive task | the camera's CCP register, other applications |
| GVCP channel (`viva-gige/gvcp.rs`) | next request id, `memory_access_only` | `transact_with_retry`, probes, READREG/READMEM fallback | the camera, over UDP |
| GVCP message channel (`viva-gige/message.rs`) | event queue, last message of a camera | acknowledge, queue, `recv`, `Drop` | camera to application |
| USB3 Vision stream (`viva-u3v/stream.rs`, `stream/u3v.rs`) | planned transfers, where in a block the device is, missed blocks | `fill`, `next_frame_within`, `absorb`, replan, `recover`, the reader loop | USB; feeds the same delivery queue |
| Node map (`viva-genapi`) | cached values and raw registers, generations | get, set, execute, `is_done`, poll, invalidate, `changed_since` | register I/O of either transport |
| Service (`viva-service`) | announced cameras, their tasks, stop channels | discovery, announce, retire, start and stop of acquisition and of events | Zenoh clients |
| GenTL producer (`viva-gentl`) | buffer pools, delivery thread, events, registry | announce, queue, flush, revoke, start, stop, wait, kill, close | a C consumer with threads of its own |
| Parsers, tables, encoders, bindings, tools | none that lasts | pure functions and sequential wrappers | |

How they meet. A receive thread reads GVSP datagrams, gives each to the
assembler, and pushes the finished blocks into the delivery queue, from which
the application pops, asynchronously or blocking; a USB reader thread feeds the
same queue from planned transfers. Every register access of the application, of
the node map and of the keepalive task goes through the session's device mutex
to a GVCP transaction. While a long transaction waits, probes of the same
channel keep the camera's heartbeat from expiring. The service and the GenTL
producer put tasks or threads of their own between these and their clients.

What is hard here, and what makes each part correct:

- **The queue** wakes its consumer outside its mutex, by two separate calls, and
  a consumer may be cancelled or time out between any two steps. Correct: no
  item lost, repeated or reordered, no wake-up lost, one failure report.
- **Resend** splits and closes ranges of packet ids in whatever order packets
  and refusals arrive. Correct: every id is accounted for, every statistic
  counts an id once, and the budget holds.
- **Assembly** sees packets lost, late, repeated and out of order, ids that wrap
  and that start again. Correct: a frame called complete is whole and of one
  block, frames leave in order, and every block is counted once.
- **The stream** ends by a drop, a socket error or a panic while the other side
  waits or changes settings. Correct: the counters add up, and a drop returns.
- **The session** shares a mutex with a background task that it starts and stops,
  with a camera that may lose commands, answers and patience. Correct: one
  keepalive, none after a release, no call stuck, the camera freed at the end.
- **A transaction** shares a socket and an id space with late answers and
  probes. Correct: an answer is its own command's, and every access returns. (That
  a slow command is never run again for somebody else's error, the code does not
  achieve: section 6.)
- **The message channel** acknowledges before the application has seen anything,
  and the acknowledgement may be lost. Correct: an event once and in order, and
  nothing acknowledged that is then lost uncounted.
- **The USB stream** must know where in a block each queued transfer will land,
  before the device has said how long the block is. Correct: no frame is made of
  two blocks, and every block is delivered or counted.
- **The node map** answers from memory what a camera may have changed. Correct: a
  read is current, a write leaves other bits alone, a viewer is told.
- **The service** retires a camera whose tasks are in the middle of something.
  Correct: nothing of it is published afterwards, the camera is left as it was,
  the published status is true, and a shutdown ends.
- **The GenTL stream** copies frames into memory that the consumer owns and may
  take back from any thread. Correct: each buffer in exactly one place, one
  delivery thread that somebody answers for, and no call stuck.

`PROJECT.json` lists the hazards one by one, at their lines, each with the
properties that cover it.

## 2. Modules

```
Handoff  <-implements-  DeliveryQueue  <-EXTENDS-  DeliveryQueueProofs
BlockOrder, ResendState <-EXTENDS- Assembly <-EXTENDS- FrameStream <-EXTENDS- FrameStreamProofs
ControlSession   <-EXTENDS-  ControlSessionProofs
GvcpTransaction  <-EXTENDS-  GvcpTransactionProofs
MessageChannel   <-EXTENDS-  MessageChannelProofs
GentlStream      <-EXTENDS-  GentlStreamProofs
CameraService    <-EXTENDS-  CameraServiceProofs
U3vStream        <-EXTENDS-  U3vStreamProofs
NodeMap
```

Each `MC...` module adds only the values its configurations use. Definitions
called "Mutated form" stand before the one they change: they are the plausible
mistakes against which each property is tried, and no specification uses them.

**Handoff** is what a queue promises, atomically: a bounded sequence in which a
new item displaces the oldest, and an end reported when the items are gone.

**DeliveryQueue** is the code of the queue. `items` and `end` are what the mutex
protects; an action that changes them is one critical section. `thread`/`then`
say which of the two calls of `wake` the producer still owes. `call`, `waiter`
and `permits` are the consumer's position, its `Notified` future and the stored
permit: `notified().enable()` before the check, the check, the await; or the
`Condvar` loop with its deadline. `DropFuture` is a cancelled `pop`. The
refinement mapping to Handoff is the identity on the variables they share
(`INSTANCE Handoff`, checked as `KeepsPromise` and proved).

**ResendState** has the functions of `ResendState` on a record: the set of gaps,
the frontier, what was asked for, whether the budget is spent.

**BlockOrder** is the arithmetic of block ids: `distance16`, `classify`.

**Assembly** is `Assembler` and, in each of its blocks, a `ResendState`, as
functions on a record that follow the methods of the code, applied to a camera
and a network. Pixel data is abstracted to the set of packets placed, length to
"full", "short" or "long" against the stride. A block remembers whose packets it
took, for the properties only. The network loses by never delivering, reorders
by choosing, duplicates a bounded number of times. Resend requests and the
camera's answers are in the model. `setup` says once, in the initial state, what
kind of camera, network and configuration a behaviour has. `EstimateCap` is what a
leader's geometry may size a buffer for. `misled` is a history variable: it turns
true when a camera that never starts its count again sends a leader of block 1
that `classify` nevertheless takes for a restart, because it came after a later
block was started or because the block before it was lost.

**FrameStream** adds the receive thread step by step (the flag, the read, the
poll, one delivery at a time, the count of an evicted frame as a step of its
own), the queue as Handoff's operations, the silence watch, and the application:
pops, the setting changed at any time, the drop and its join.

**ControlSession** is one session from connecting to its end. A call is cut into
the steps between which the keepalive can run: waiting for the mutex, the
exchange, publishing the new state, starting or draining the keepalive. The
camera holds who controls it and whether the heartbeat has been heard; an
exchange may go unanswered after having been carried out or not. The runtime is
a multi-threaded one: draining waits for the task to end.

**GvcpTransaction** is one access with its attempts, the fallback from register
to memory commands and the latch it may leave, PENDING_ACK, probes,
cancellation, and the datagrams on the network. `no` numbers the ids drawn, so
the model can tell two uses of one id apart, which the code cannot.

**MessageChannel** is `EventSocket` with its receive thread. A datagram takes it
four steps: it is acknowledged and compared with `last_message`; its events are
queued under the lock, the oldest giving way; they, and those that went
(`dropping`), are counted after the unlock, each counter by itself; and the callers
of `recv` are notified. Between any two of them callers look, take and are
cancelled, and the camera may see the acknowledgement. The camera resends until it has seen the
acknowledgement and holds later messages back, as GigE Vision cameras do.

**U3vStream** is the pipeline of transfers over a bulk endpoint. `u.planned` is
the stream's belief of what each queued transfer is for; `pending` is what the
endpoint has; the device fills transfers packet by packet with the lengths it
really has. `next_frame_within` is cut where it waits: filling the queue,
reaping a transfer (`absorb`), replanning after a block that left the plan,
recovering after errors or a halted endpoint. The reader loop of
`viva-genicam/stream/u3v.rs` counts the missed blocks. Handing over is
DeliveryQueue's business and not repeated.

**CameraService** is one camera id under `run_discovery`: a pass that finds, keeps
or retires it, the announce loop, and for each session the acquisition task with
its frame loops and the event task. Every await is a step, so a stop, a
restart, a disappearing camera, an aborted task and CTRL+C fall between any two.
`bus` is what was last published under the id. A call of the camera that fails may
have been carried out: `stray` says, for the properties, that the camera acquires
for a start that failed here, `botched` that a call which puts something back
failed or was aborted.

**GentlStream** is the data stream module under any number of consumer threads. A
call first looks its handles up in the registry and then takes one step for each
lock it holds, so a buffer, an event or the stream itself may be gone in between.
`pool` is `State`'s buffers and its input and output pools, `fill` the frame in
each buffer; `engine` is the mutex that start and stop hold while they start and
join the delivery thread. A flush moves the buffers in the order of `State`'s
`Vec`, in which they were announced; `close` closes an event of the stream that
is there. `FramesInOrder` and `ThreadOwned` speak of a stream that is not closed:
what a start may do to one that is, section 6 says.

**NodeMap** is the caching half of `nodemap.rs` and `nodemap/refresh.rs`. A
document is a function from node names to records with what matters to caching:
where the value comes from, the index and the selectors, `<Cachable>`,
`<PollingTime>`, `pInvalidator`, the access mode, the bits of the register. From
it follow the value chain, the nodes a change reaches and the caching mode along
the path; `built` keeps them, as the code computes them once when it builds the
map. `map` has the value and raw caches, their ages, and the generations
for `changed_since`. The camera rounds what is written, moves registers by
itself, finishes commands late, and carries out writes whose answer is lost.

## 3. Runs

| Run | Bounds | Distinct states | Shows |
|---|---|---|---|
| `delivery_queue` | capacity 2, 4 items, 3 reports | 3.7 thousand | `Conservation`, `NoLostWakeup`, `FailureOnceThenFinished`, `SuspendedCallServed`, and `KeepsPromise`: the queue implements Handoff |
| `assembly` | seven setups: 3 blocks overtaking with 1 duplicate, from a later id, from block 1 and from the id before the last; 2 blocks from block 1 with 1 duplicate; 3 blocks across the wrap, 2 faulty blocks there; 4 blocks with restarts; 1 block with 2 requests per gap, asked for after a delay | 2.45 million | `InFlightBounded`, `FramesAreTruthful`, `CountedOnce`, `NewestIsStarted`, `AsksOnlyForLost`, `OutcomeOnce` |
| `frame_stream` | 2 blocks, from block 1 or from a later one with 1 unusable packet; queue of 1, 1 change of the setting, a socket failure | 786 thousand | `EveryFrameCounted`, `DeliveredInOrder`, `DropReturns`, `BlockLeaves` |
| `control_session` | 2 task names | 37 thousand | `OneKeepalive`, `RefusalSettled`, `CallReturns`, `CameraFreed` |
| `gvcp` | 2 ids, 5 draws, 3 attempts, 1 PENDING_ACK | 577 thousand | `AnswerIsOurs`, `LatchEarned`, `AccessReturns` |
| `message_channel` | 3 messages with 4 events, queue of 2, 2 callers, 2 copies, 2 faults | 3.64 million | `OnceInOrder`, `AckedIsAccounted`, `NoLostWakeup` |
| `u3v_stream` | 3 blocks of 3 lengths, 5 transfers in flight, 2 faults | 5.98 million | `CompleteIsOneBlock`, `DeliveredOrMissed`, `LossHasCause` |
| `gentl_stream` | 2 threads, 3 calls, 3 buffers, 2 starts, 2 frames | 268 thousand | `PoolsAgree`, `FramesInOrder`, `ThreadOwned`, `CallsReturn` |
| `camera_service` | 2 sessions, 2 requests, 1 fault | 128 thousand | `RetiredIsQuiet`, `CameraReleased`, `StatusIsTrue`, `ShutdownEnds` |
| `node_map` | 8 documents, 3 changes, 3 moments, 1 lost answer | 178 thousand | `AnswersAreCurrent`, `OtherBitsSurvive`, `ViewerIsTold` |
| `u3v_replan` | no faults | violated | finding 1 |
| `node_map_bits` | 2 bit fields of one register | violated | finding 2 |

Why these bounds reach the interesting cases.

- A queue of two that receives four items is empty, partly full, full, and evicts
  twice.
- Three blocks with room for two overflow the limit of blocks in flight while one
  is open and one waits for its turn. A block of three data packets has five ids,
  the fewest in which a gap splits in the middle. `Cycle = 7` with
  `LateWindow = 2` keeps the shape of 65535 and 100: there are ids that are
  ahead, late and too far back. Streams begin at block 1, at a later id and at the
  last ids, and in each of these places blocks overtake and repeat each other, so
  that a leader of block 1 comes in time, late, twice, and after a lost
  predecessor. `Delay = 1` lets a packet be late for a while before it is asked
  for. `EstimateCap = 3` is the longest block's length: that a block exceeds the cap
  is left to the theorems, which hold for every cap.
- Two request ids, five times drawn, wrap twice, so a probe meets the id of its
  own command. Three attempts are the fewest in which what one attempt knew can be
  forgotten by a later one. A session never has more than one task that has not been told to
  stop besides one on its way out, so two names are enough.
- Four events for a queue of two overflow it in the middle of a message, and two
  faults lose an acknowledgement and reorder its copy.
- With a payload transfer of one packet and a final one of two, a block takes four
  transfers, and the three lengths end before the final transfer, fill the layout
  exactly, and exceed it. Five transfers in flight are more than one block's, so a
  change of size finds transfers queued that were planned for the block before:
  with a block that ends early and then one that fills the layout, a trailer comes
  at the end of a transfer that has payload in it. With four in flight it never
  does.
- Three calls that overlap are enough for every pair of operations with a close
  or a stop between their steps; `Prepared` starts some behaviours with buffers
  queued, so that frames flow within those calls.
- Two sessions are a camera retired and served again, the shortest history in
  which an old task can disturb a new one.
- The eight documents are in the shape of the repository's caching tests:
  selectors with the device's banks and with the host's address, formulas,
  polling, `NoCache` and `WriteAround`, a command that loads a set, an entry that
  clears itself, bit fields, and invalidators.

The seven setups of `assembly` are explored side by side and not all at once:
duplicates, faulty blocks, restarts and resend do not meet in one behaviour.
With restarts, packets of an earlier block are gone when the next is sent.
Where ids cannot show that the camera has started again, `NewestIsStarted` says
nothing; section 6 lists those cases. `CountedOnce`, `NewestIsStarted`,
`EveryFrameCounted` and `DeliveredInOrder` say nothing after a leader of block 1 was
taken for a restart (`misled`), which the setups that begin at block 1 or cross the
wrap reach: section 6 says what is lost or repeated then.

`CHECK_DEADLOCK FALSE` is set where the system may stop: the camera sends no
more, the session is gone, the draws, calls or requests are used up. The queue's
run has no need of it: `Over` is its one final state.

**Fairness.** In the queue: the receive thread takes its next step and an
executor polls a future that was woken; nothing on pushes, deadlines or the
caller, so a suspended call is released by its wake-up alone. In the stream: the
thread goes on, since its read returns after at most a tick, time passes, and
the join returns when it can. In the session: the runtime runs its tasks, a call
that has begun goes on, an exchange ends with or without an answer, the camera's
timer runs; and a mutex that is free again and again is obtained (strong
fairness: the device mutex is not a fair one, but the keepalive leaves it alone
for a whole period between two pings). In GVCP: the transaction is polled, time
passes, and a deadline that has passed is not passed over for ever, because
`select!` there is not biased. In the GenTL stream: a call that has begun and the
delivery thread, whose read returns within `POLL`, go on; nobody has to call. In
the service: the runtime runs the discovery loop and the tasks; the branch that
sees the shutdown, which is disabled and enabled again with each pass of the
loop, has strong fairness, since `select!` finds the shutdown ready on every
pass. Nothing is assumed anywhere of the camera's answers, the network or the
application.

**Environment assumptions.** A datagram does not outlive a full turn of the
request ids (`Lives`): with 65535 ids that is far longer than a network keeps
one, and without it no protocol with a 16-bit id could tell answers apart. A
camera numbers blocks in order within an acquisition. One thread uses a session
at a time, and one a node map. Extended (64-bit) ids are in BlockOrder and not in
Assembly's run.

## 4. Theorems

`DeliveryQueueProofs`, for every `Capacity` of at least 1 and every number of
items and reports:

- `TypeCorrect`, `ItemsConserved`, `WakeupNeverLost`, `FailureReportedOnce`;
- `ImplementsHandoff`: `Spec => Promise!Spec`.

The inductive invariant `IInv` is TypeInv with `HoldsNewest` (the queue is the
last items pushed, consecutive, so its head is older than the rest: without it
neither an eviction nor a pop can be shown to keep `Conservation`), `Conservation`
itself, `FutureMatchesCall` (a `Notified` exists exactly during an asynchronous
call), `NoLostWakeup`, and `EndIsOrdered` (while the thread can still push there
is no end; without it a push could follow a report). `InvariantStep` goes through
the actions; lemmas say once what a push and a pop do to the items. For the
refinement each action maps to Put, Close, Take or Report, or leaves the shared
variables alone: wake-ups, registrations, cancellations and timeouts.

`FrameStreamProofs`, from the ids to the application, for every limit, capacity,
length of blocks, cycle of ids, and late window up to half of it. Of the order
of ids:

- `NewerIsCounted`: a block sent up to half a cycle later is `Next` with exactly
  the skipped blocks missed, across the wrap that skips 0 too;
- `OlderIsLate`: a packet of a block at most `LATE_WINDOW` back is `Late`;

the leader of a block 1 excepted in both, and only it: section 6 describes that
exception. The proofs reduce `%` on small ranges to cases
(`ModSmall`, `ModNegative`) and derive the distance of two ids from them. Of the
assembler, with nothing assumed of the network:

- `AssemblyIsBounded`, `FramesTellTheTruth`, `ResendAsksOnlyForLost`,
  `EachPacketCountedOnce`: the four properties that speak of single blocks.

`BlockInv` is what one block knows of itself: the gaps of `ResendState` are
separate runs below the frontier; what was asked for, recovered and declared
gone are counted sets (`Counted`); whatever lies below the frontier has come, is
missing, or was given up (`Tracked`); and what it holds is what arrived of one
block of the camera (`Kept`). `Counted` and `Tracked` are true while the blocks
taken for this one have one length, `Kept` while there is one of them, so that
the properties are claimed exactly where the ids do not mix blocks up.
`AssemblyInv` is `BlockInv` of what is in flight and has left, with the limits.

Of the order and the count of blocks:

- `BlocksAreCountedOnce`, `NewestBlockIsStarted`: `Spec /\ []Timely => []...`;
- `StreamCountsEveryFrame`, `StreamDeliversInOrder`: the same for FrameStream, for a
  camera that does not start its count again;
- `ShortStreamsAreTimely`, `ShortStreamsAreExact`: in a stream from any id, 1
  included, of at most half a cycle without a wrap, a restart or resend, with
  packets at most `LATE_WINDOW` blocks late, `Timely` follows, and the four hold
  without the hypothesis;
- `ShortStreamsAreNotMisled`: in such a stream, if it begins at a later id than 1 or
  no packet comes after one of a later block (`OneComesFirst`), no leader is taken
  for a restart, so that the exception below never arises.

All of these but the last say what their property says, with the exceptions it
makes: nothing of a camera that starts its count again (for `NewestIsStarted`: where
its ids do not show it), and nothing once `misled` is true. A real stream begins at
id 1, so the exception is real: when the leader of its first block arrives after
block 2 has started, overtaken or repeated, the order and the count are lost
(section 6).

`Timely` is what a 16-bit id needs to tell its block: packets on the network are of
blocks at most half a cycle ahead of the newest one started and at most
`LATE_WINDOW` behind it, and a packet with the id of a block in flight is of that
block. Without it two blocks with one id cannot be told apart by any receiver, and
the properties are false. It says nothing of id 1: a leader of block 1 that
`classify` takes for a restart is timely too, and is what `misled` is for.
`NewestInv` links the assembler to the camera: `last_block_id` is the id of the
newest block started, and ids follow one another. `Books` is the invariant of
both levels: what has left and what is in flight, in this order, is the camera's
order, and the number of those and of the missed is the span from the first block
started to the newest. It is parameterised by what has left the assembler, so
FrameStream's `StreamInv` reuses it with the frames that the queue, an eviction
and the application hold or have counted.

`GvcpTransactionProofs`, for every number of request ids, draws, attempts and
PENDING_ACKs:

- `AnswersAreOwn`: an access is answered by its own answer although ids wrap;
- `LatchIsEarned`: silence never switches a session to memory access.

`IInv` says what an id tells. `IdsTell`: a datagram of a draw less than a turn ago
has the id that draw got (`IdOf` counts back from the next id), and during a
transaction no other datagram has its id; it is inductive because `Lives`, the
environment assumption of section 3, removes a datagram before its id is drawn
again. `ProofOnTheWay`: an answer on the network that will set the latch is
already evidence for it.

`ControlSessionProofs`, for any number of names of keepalive tasks:

- `KeepaliveIsOne`: no call starts a second keepalive or loses the one that runs,
  and a session without control has none;
- `RefusalIsSettled`, an action property: a check that leaves a refused session
  Held leaves the camera ours.

`OneKeepalive` looks at tasks that were not told to stop; the invariant has to
know of those that were. `Owned`: every task that runs is the slot's, or, while
a call drains, the one it waits for. `ReleaseIsQuiet`: the slot is empty before a
release writes, so that its success leaves nobody pinging. `StartHasClaimed` and
`NewHasNot`: a call about to start a keepalive has control, or had and lost it.

`MessageChannelProofs`, for any number of callers, any messages, any capacity,
and any losses and copies:

- `WakeupNeverLost`: no caller of `recv` sleeps on an event, a failure or the end;
- `EventsOnceInOrder`: events come once, in the camera's order, unless a datagram
  was overtaken;
- `AckedIsKept`: an acknowledged message's events are in the thread's hands, taken,
  queued, or among the oldest dropped, which are counted before another datagram
  is read.

`Accounted` counts the lost events of all messages heard of, also of those whose
acknowledgement is still under way or was lost: only of them is it inductive. The
message that is acknowledged and not yet queued is `InHand`, the events that are
queued and not yet counted are `Uncounted`.
`NetInOrder` (datagrams are copies of the last message or later ones, in order)
gives that a message which is not the last is newer than all before, and
`EventsInOrder` that what a full queue drops is older than what stays.

`GentlStreamProofs`, for any number of consumer threads, buffers, events and
acquisitions:

- `PoolsAlwaysAgree`: every announced buffer is in the one place its entry says;
- `FramesLeaveInOrder`: frames wait and leave in the camera's order;
- `ThreadsAreOwned`: until the close, one delivery thread at most, and somebody
  in charge of it.

`MutexHeld` says which steps hold the engine's mutex, and that one caller at most
is at any of them. `InCharge` says for each of those steps what is known of the
threads: none before the spawn, the new one until it is remembered, one told to
stop while it is joined. `PoolInv` adds to `PoolsAgree` that buffer keys still to
be announced are new ones, `FrameInv` that a frame in hand is newer than those
that wait.

`CameraServiceProofs`, for any number of sessions, requests and faults:

- `RetiredStaysQuiet`: nothing of a retired session runs, one frame loop of the
  camera at most, and only an announce follows "disconnected";
- `CameraIsReleased`: the camera is left as it was found, unless a call that puts it
  back failed or was aborted, or a start that failed here was carried out;
- `StatusStaysTrue`: the published acquisition status is true.

`SessionInv` places every session: retired, retiring, served, or about to be, at
most one of the latter three. `LoopInv` says where the acquisition task knows that
no frame loop runs, and that of its loops only the newest may. `BusInv`: after
"disconnected" there is no session that could publish. `StatusInv`: where the
task has said that it is inactive, or its loop has said it last, nothing says
"active". `CameraInv` names who will put the camera back: while it acquires, a
task that reaches it and will stop it, or nobody after a failed start (`stray`);
while its event settings are changed, a task that will restore them.

`U3vStreamProofs`, for every layout, any lengths of blocks, any number of transfers
in flight and any sequence of faults:

- `CompleteIsWhole`: a frame delivered as complete is one block's payload;
- `EveryBlockCounted`: frames come in order, and the delivered and the missed add
  up;
- `EveryLossHasCause`: a block is lost only for a fault, or where finding 1 says.

Nothing in the first two depends on the plan: whatever the host believed about where the
device is, the order in which packets were sent decides. `Apart(x, y, k)` says
that y was sent at least k packets after x, and `IInv` that this order holds of
what transfers have (`BusInOrder`; an open transfer is the last with data), of the
open block's payload from its leader on (`BlockInOrder`), and between the frames
that wait, the open block and what is still to come (`ReadyInOrder`). The
distances make an induction over the payload unnecessary (`PayloadIsWhole`): the
k-th packet taken in lies at least k after the leader and at least as far before
the trailer as there are packets behind it, so a payload as long as its trailer
says has no room for a packet of another block, a gap or a repeat.

The third does depend on the plan. `LossInv` follows each sound block, one that no
fault touched and no transfer cut. Its packets fill transfers without a hole, with
leader and trailer alone in theirs, back to what the open block has taken in
(`Chained`, `NextChained`); once its trailer was sent it is handed out or in a
transfer (`Ended`), and not handed out before (`Behind`); no transfer that failed
lies within it (`Spared`). Of the bus, `Shaped` says when a transfer is done and
`Planned` that each has its place in the plan. The last two are true until a drain
is given up (`Steady`), which costs every block still to come its soundness;
`Delivers`, that sound blocks passed by the reader were delivered complete, is true
ever after.

In each of these modules the lemmas are one for each action, or for each shape of
action, and a last one puts them together. TLC has checked each `IInv` as an
invariant, on the run's instance or a larger one, before it was proved.
Assumptions used are the named `ASSUME`s of the modules, which each run
evaluates on its own constants.

## 5. Only model-checked

Liveness (`SuspendedCallServed`, `DropReturns`, `BlockLeaves`, `CallReturns`,
`CameraFreed`, `AccessReturns`, `CallsReturn`, `ShutdownEnds`) is out of the
prover's reach, and so is `ENABLED`. Facts that need an induction over data are
too, such as what `value_chain` and the dependents of a node map compute, on
which NodeMap's three invariants rest: `OtherBitsSurvive`, `AnswersAreCurrent` and
`ViewerIsTold`. They are the only safety properties of passing runs without a
theorem; the properties of the two violation runs are what comments say and the
code does not do. That `Timely` holds of a long stream is an assumption on the
network and the camera.

## 6. Findings and observations

1. `u3v_replan` (`ReplanCostsNothing`): a block that ends early makes the stream
   cancel the queued transfers and absorb what had arrived in them of the next
   block. A cancelled transfer that was partly filled is
   shorter than requested, and `absorb` takes every short transfer for the end of
   the payload (`viva-u3v/src/stream.rs:550`). The rest of that block's payload then
   arrives where its trailer is expected, and the block comes out incomplete, although
   neither device nor bus did anything wrong. The module says it "plans again
   from where the device really is". There is a second way: transfers queued for a
   block that ended early are one place off for the next, and when that one fills
   the layout, with no short packet before its trailer, the trailer ends a transfer
   that has payload in it and is taken for payload (`stream.rs:530`). `cut` records
   both, and `LossHasCause` says, for every instance, that these and real
   faults are the only causes of a lost block.
2. `node_map_bits` (`OtherBitsSurvive`): each masked node has its own copy of the whole register, and
   a write drops only the copies of its dependents. Read A, write B, write A, both
   bit fields of one `WriteThrough` register that does not name the other as
   invalidator, and A's write puts B's old bits back (`nodemap.rs:743`); the
   comment there says that this must not happen. In `node_map` the documents
   with bit fields name each other as invalidators, and there it does not.

Exceptions that the properties make, and what they stand for:

- **Assembly.** Every leader of block 1 that follows neither block 1 nor its
  predecessor is a restarted camera for `classify` (`assembly.rs:260`); `misled`
  says that it was not one. A repeat of block 1's leader that arrives after block 2
  has started begins block 1 again, which is then counted and delivered twice, and
  one that block 2 overtook begins it after block 2, out of order. TLC finds both
  with two blocks. The comment above (`assembly.rs:258-259`), a test
  (`assembly.rs:1319`) and ADR 25 (lines 95-96) call a repeat of an old block 1 late;
  the test tries one only while block 1 is the newest. When block 65535 is lost, the
  leader of block 1 that follows is a restart for the same reason, and the lost block
  is in no counter, although `assembly.rs:25-26` and `stats.rs:18` say that every
  block is counted: ids alone cannot tell this from a restart. A camera that starts
  its count again
  while a block 1 is in flight has its packets mixed into that block
  (`FramesAreTruthful` asks that ids of the sent blocks differ). A camera that
  restarts after a single block repeats id 1, and its frame is dropped as late. A
  restart whose first leader is lost goes unnoticed, and up to `LATE_WINDOW`
  blocks are dropped as late and uncounted. `max_requests = 0` still asks once.
- **Session.** The keepalive publishes `Lost` and ends a moment later; a reclaim in
  between finds it unfinished and starts none (`lib.rs:1417`), so the session is
  `Held` with nothing to keep it so, against the comments at 1131 and 1337. A
  "not held" answer read before a reclaim and applied after it makes a granted
  session `Lost` (`lib.rs:1805`). `write` looks at the control state before it
  waits for the mutex. Another reclaim mends each of these.
- **GVCP.** What the device has said about a command is known to one attempt.
  `pending_seen` starts at 0 in each (`gvcp.rs:1656`), so a command that was pending,
  ran out of time and was sent again is sent a third time for an ICMP error
  (`gvcp.rs:1515-1521`), although the comment on `committed` (1583-1586) says that
  nothing on the socket may end the wait early, since a resend could run the command
  twice. No property is stated about it: within one attempt it would restate the
  guard of `RecvError`.
- **Message channel.** Only the last message of a camera is remembered, so a copy
  that another message overtakes is queued again (`OnceInOrder` asks that nothing
  was overtaken). Cameras that hold messages back until the acknowledgement, like
  the one modelled, need a reordering network for it.
- **USB3 Vision.** After a drain that times out, plan and queue are out of step
  until an error makes the stream recover. A block abandoned into `ready` when
  `recover` returns an error is neither delivered nor counted; the stream has
  ended then.
- **GenTL.** A `DSStartAcquisition` that looked its handle up before `DSClose`, and
  gets the engine's mutex between the join in `shut_down`
  (`viva-gentl/src/stream.rs:598`) and the clearing that follows, starts a
  delivery thread on a closed stream, which no call will join; `start` never looks
  at `closed`. ADR 31 (lines 189-190) says that "closing joins every thread the
  library started". `ThreadOwned` and `FramesInOrder` speak of a stream that is
  not closed.
- **Service.** A restart of event monitoring that fails after the old monitor was
  stopped publishes no status (`events.rs:95-98`). An announcement whose snapshot
  was taken before a camera was retired may be published after its
  "disconnected" (`serve.rs:129-131`); `RetiredIsQuiet` allows that one. A frame
  loop that ends by itself before the "started" status is published leaves
  "active" as the last one (`acquisition.rs:56-59`) until the next stop, and
  `StatusIsTrue` speaks of a task without a frame loop in hand. An aborted task
  leaves the camera as it was at that moment, and so does a call that puts it back
  and fails, the rollback of a failed event setup among them. When
  `AcquisitionStart` fails although the camera carried it out, `handle_start` sends
  no `AcquisitionStop` and keeps no `frame_task` (`acquisition.rs:163-167`), so the
  shutdown has nothing to stop (117) and the camera is let go of still acquiring,
  although the comments at 115-116 and at `discovery.rs:50-51` say that acquisition is
  stopped. `CameraReleased` excepts these; `stray` says which acquisition is the last
  kind.
- **Node map.** A write that failed although the camera carried it out leaves the
  caches as they were; so does a command the camera has finished and nobody has
  asked about. `AnswersAreCurrent` and `ViewerIsTold` except both. `invalidate`
  of one node tells a viewer nothing of other nodes over the same register.
  `value_reach` follows value links and not the variables of formulas. Three shapes
  are not among the documents, and of them the run says nothing: two nodes over the
  same bits, a `WriteThrough` register that the camera rounds, and a polled masked
  register that the camera moves within its polling time.

## 7. Not modelled

- GenApi XML, GVSP and GenCP parsing and encoding, pixel and feature tables,
  formula evaluation, bit extraction, chunk and event decoding, image output,
  clock fitting: pure functions, on bytes or floating point, which their unit
  tests reach.
- Sockets, network cards, discovery, FORCEIP, action commands, USB enumeration:
  operating-system I/O. `StreamBuilder`'s negotiation is a sequence of register
  writes under one mutex.
- The node map's access modes, limits and predicates that depend on other nodes,
  indexed values, chunk and event ports, and persistence.
- The service's queryables for nodes, XML, registers and reports, which answer a
  request at a time and keep nothing; the USB service, which runs the same tasks.
- The command-line tool, the Python binding and the desktop application, which
  call what is modelled. The fake cameras are test equipment; the cameras of
  these modules are allowed to behave worse.
- In ControlSession the current-thread runtime and several calling threads; in
  GvcpTransaction chunked transfers.

These are most of the repository's lines: the modules stand for the parts in
which state is shared, kept or out of step, a small share of a code base that
consists largely of parsers, tables, user interface and test equipment.

## 8. Plan

Done, in the order of how much can go wrong unseen: the receive path (queue,
resend, assembly, stream), the control path (session, transaction), the message
channel, the GenTL stream, the service, the USB stream, the node map's caches.

Proved: every safety property that a passing run checks, but NodeMap's three; those
of order and count of blocks under `Timely`, which short streams satisfy, and with
the exceptions they state.

Next, theorems: FrameStream's queue as a refinement of Handoff, which needs a
history that numbers the frames; `Timely` from bounds on the network alone, for
streams that wrap and ask for resends; and of NodeMap, with the tables that
`built` keeps taken as given, that a write drops every copy they name.

Next, modules: the patience loop of `reopen`; a second calling thread in
ControlSession, its exchanges by way of what GvcpTransaction promises; the node
map's predicates and limits.
