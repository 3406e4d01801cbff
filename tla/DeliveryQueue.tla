---------------------------- MODULE DeliveryQueue ----------------------------
(***************************************************************************)
(* The bounded, drop-oldest hand-off between a stream's receive thread and  *)
(* its one consumer: `DeliveryQueue` of viva-genicam's stream/receiver.rs,  *)
(* used by the GVSP receiver and by the USB3 Vision reader.                 *)
(*                                                                          *)
(* A mutex protects (items, end).  The producer wakes the consumer only     *)
(* AFTER it has released the mutex, and by two separate calls: the          *)
(* condition variable for a consumer in `pop_blocking`, then the tokio      *)
(* `Notify` for one in the async `pop`.  Each of these is a step here.      *)
(* The items are the numbers 1, 2, ... in the order they are pushed.        *)
(***************************************************************************)
EXTENDS Naturals, Sequences

CONSTANTS
    Capacity,   \* `capacity`: DELIVERY_CAPACITY is 16 in the code
    MaxPush,    \* model bound: the number of items the thread produces
    MaxReport   \* model bound: how often the consumer is told of the end

ASSUME CapacityAssumption == Capacity \in Nat \ {0}
ASSUME BoundsAssumption   == MaxPush \in Nat /\ MaxReport \in Nat

VARIABLES
    items,      \* QueueState::items
    end,        \* QueueState::end: "None", "Failed" or "Finished"
    thread,     \* what the receive thread does next: see Threads
    then,       \* what it does once it has woken the consumer
    pushed,     \* history: items pushed so far
    evicted,    \* history: the items a push into a full queue dropped
    taken,      \* history: the items handed to the consumer, in order
    call,       \* where the consumer is in its call
    waiter,     \* its `Notified` future: see Waiters
    permits,    \* permits stored in the `Notify`: 0 or 1
    reported    \* history: the Failed and Finished results, in order

queueVars  == <<items, end>>
threadVars == <<thread, then, pushed, evicted>>
callVars   == <<call, waiter, taken, reported>>
vars       == <<items, end, thread, then, pushed, evicted, taken, call, waiter, permits, reported>>

\* The loop of `run`; the drop of FinishOnExit; the thread has returned; the two
\* calls of `wake`, after which the thread goes on with `then`.
Continuations == {"running", "exiting", "gone"}
Threads       == Continuations \cup {"wakeCv", "wakeNotify"}

\* The consumer between calls, in the async `pop` (future registered and about
\* to check; suspended at the await), or in `pop_blocking` (waiting on the
\* condition variable; out of that wait and about to lock again).
Calls == {"idle", "check", "await", "cvWait", "cvWoken"}

\* No future; registered and not notified; notified while registered; completed
\* by the permit that `enable` found.
Waiters == {"none", "registered", "notified", "ready"}

Init ==
    /\ items = <<>>
    /\ end = "None"
    /\ thread = "running"
    /\ then = "running"
    /\ pushed = 0
    /\ evicted = {}
    /\ taken = <<>>
    /\ call = "idle"
    /\ waiter = "none"
    /\ permits = 0
    /\ reported = <<>>

-----------------------------------------------------------------------------
(* The receive thread. *)

\* Mutated forms, for the runs that show a property can fail.
WakeForgotten(k)    == thread' = k /\ then' = k
CondvarForgotten(k) == thread' = "wakeNotify" /\ then' = k
EndReplaced(e)      == end' = e

\* Every change of the queue is followed, outside the mutex, by `wake`.
WakeThen(k) == thread' = "wakeCv" /\ then' = k

Full == Len(items) >= Capacity

push ==
    /\ thread = "running"
    /\ pushed < MaxPush
    /\ pushed' = pushed + 1
    /\ items' = Append(IF Full THEN Tail(items) ELSE items, pushed + 1)
    /\ evicted' = IF Full THEN evicted \cup {Head(items)} ELSE evicted
    /\ WakeThen("running")
    /\ UNCHANGED <<end, callVars, permits>>

\* Neither a failure nor the end replaces an end already recorded.
SetEnd(e) == end' = IF end = "None" THEN e ELSE end

\* A receive error that is not one of the tolerated ones: the thread returns,
\* which drops FinishOnExit.
fail ==
    /\ thread = "running"
    /\ SetEnd("Failed")
    /\ WakeThen("exiting")
    /\ UNCHANGED <<items, pushed, evicted, callVars, permits>>

\* `stop` seen at the head of the loop, or a panic: only the guard runs.
leave ==
    /\ thread = "running"
    /\ thread' = "exiting"
    /\ UNCHANGED <<queueVars, then, pushed, evicted, callVars, permits>>

\* Drop for FinishOnExit.
finish ==
    /\ thread = "exiting"
    /\ SetEnd("Finished")
    /\ WakeThen("gone")
    /\ UNCHANGED <<items, pushed, evicted, callVars, permits>>

\* self.ready.notify_all()
wakeCondvar ==
    /\ thread = "wakeCv"
    /\ thread' = "wakeNotify"
    /\ call' = IF call = "cvWait" THEN "cvWoken" ELSE call
    /\ UNCHANGED <<queueVars, then, pushed, evicted, waiter, taken, reported, permits>>

\* self.notify.notify_one(): a registered future is notified, and with none
\* the permit is stored.
wakeNotify ==
    /\ thread = "wakeNotify"
    /\ thread' = then
    /\ IF waiter = "registered"
       THEN waiter' = "notified" /\ UNCHANGED permits
       ELSE permits' = 1 /\ UNCHANGED waiter
    /\ UNCHANGED <<queueVars, then, pushed, evicted, call, taken, reported>>

-----------------------------------------------------------------------------
(* The consumer. *)

Empty == items = <<>> /\ end = "None"

\* Mutated forms: an item is looked at and not removed; the failure that was
\* taken is put back; a queue that has not ended reports its end.
PopKeepsItem ==
    \/ items # <<>> /\ taken' = Append(taken, Head(items)) /\ UNCHANGED <<queueVars, reported>>
    \/ items = <<>> /\ end # "None" /\ reported' = Append(reported, end) /\ UNCHANGED <<queueVars, taken>>
PopKeepsFailure ==
    \/ items # <<>> /\ taken' = Append(taken, Head(items)) /\ items' = Tail(items) /\ UNCHANGED <<end, reported>>
    \/ items = <<>> /\ end # "None" /\ reported' = Append(reported, end) /\ UNCHANGED <<queueVars, taken>>

\* try_pop_locked when it finds something: an item first, then a failure once,
\* then the end, for ever.
try_pop_locked ==
    \/ /\ items # <<>>
       /\ taken' = Append(taken, Head(items))
       /\ items' = Tail(items)
       /\ UNCHANGED <<end, reported>>
    \/ /\ items = <<>>
       /\ end # "None"
       /\ reported' = Append(reported, end)
       /\ end' = "Finished"
       /\ UNCHANGED <<items, taken>>

\* A dropped future that was notified and never polled gives its notification
\* back; one that consumed the stored permit in `enable` does not.
DropFuture ==
    /\ waiter' = "none"
    /\ permits' = IF waiter = "notified" THEN 1 ELSE permits

MayAsk == Len(reported) < MaxReport

\* The async pop: notified() and enable().
popRegister ==
    /\ call = "idle"
    /\ MayAsk
    /\ call' = "check"
    /\ waiter' = IF permits = 1 THEN "ready" ELSE "registered"
    /\ permits' = 0
    /\ UNCHANGED <<queueVars, threadVars, taken, reported>>

popCheck ==
    /\ call = "check"
    /\ \/ /\ Empty
          /\ call' = "await"
          /\ UNCHANGED <<queueVars, waiter, permits, taken, reported>>
       \/ /\ try_pop_locked
          /\ call' = "idle"
          /\ DropFuture
    /\ UNCHANGED threadVars

\* `notified.await` completes, the loop builds a new future and registers it.
popResume ==
    /\ call = "await"
    /\ waiter \in {"notified", "ready"}
    /\ call' = "check"
    /\ waiter' = IF permits = 1 THEN "ready" ELSE "registered"
    /\ permits' = 0
    /\ UNCHANGED <<queueVars, threadVars, taken, reported>>

\* The caller drops the future, as `tokio::select!` does.
popCancel ==
    /\ call = "await"
    /\ call' = "idle"
    /\ DropFuture
    /\ UNCHANGED <<queueVars, threadVars, taken, reported>>

\* pop_blocking holds the mutex from its check until it waits: one step.
\* `expired` is whether the deadline has passed when the queue is found empty.
CheckOrWait(expired) ==
    /\ \/ /\ Empty
          /\ call' = IF expired THEN "idle" ELSE "cvWait"
          /\ UNCHANGED <<queueVars, taken, reported>>
       \/ /\ try_pop_locked
          /\ call' = "idle"
    /\ UNCHANGED <<threadVars, waiter, permits>>

popBlocking ==
    /\ call = "idle"
    /\ MayAsk
    /\ \E expired \in BOOLEAN : CheckOrWait(expired)

\* Out of the wait: look again, with the deadline passed or not.
popBlockingResume ==
    /\ call = "cvWoken"
    /\ \E expired \in BOOLEAN : CheckOrWait(expired)

\* wait_timeout returns on its own: at the deadline, or spuriously.
popBlockingTimeout ==
    /\ call = "cvWait"
    /\ call' = "cvWoken"
    /\ UNCHANGED <<queueVars, threadVars, waiter, permits, taken, reported>>

-----------------------------------------------------------------------------
Thread   == push \/ fail \/ leave \/ finish \/ wakeCondvar \/ wakeNotify
Consumer == \/ popRegister \/ popCheck \/ popResume \/ popCancel
            \/ popBlocking \/ popBlockingResume \/ popBlockingTimeout

\* Both sides have finished: the thread has returned and the consumer has been
\* told so.  Nothing else stops this system.
Over == thread = "gone" /\ call = "idle" /\ ~MayAsk /\ UNCHANGED vars

Next == Thread \/ Consumer \/ Over

Spec == Init /\ [][Next]_vars

\* The thread runs whenever it can, and an executor polls a future that has been
\* woken.  Nothing is assumed about pushes, about the deadline of a blocking
\* call, or about the caller: a suspended call is rescued by its wake-up alone.
Fairness ==
    /\ WF_vars(finish) /\ WF_vars(wakeCondvar) /\ WF_vars(wakeNotify)
    /\ WF_vars(popCheck) /\ WF_vars(popResume)
    /\ WF_vars(popBlockingResume)

FairSpec == Spec /\ Fairness

-----------------------------------------------------------------------------
(* Properties. *)

TypeInv ==
    /\ items \in Seq(Nat)
    /\ end \in {"None", "Failed", "Finished"}
    /\ thread \in Threads
    /\ then \in Continuations
    /\ pushed \in Nat
    /\ evicted \subseteq Nat
    /\ taken \in Seq(Nat)
    /\ call \in Calls
    /\ waiter \in Waiters
    /\ permits \in {0, 1}
    /\ reported \in Seq({"Failed", "Finished"})

\* What the queue holds is the newest items, in the order they were pushed,
\* and never more than the capacity.
HoldsNewest ==
    /\ Len(items) <= Capacity
    /\ Len(items) <= pushed
    /\ \A i \in 1..Len(items) : items[i] = pushed - Len(items) + i

Gone == {taken[i] : i \in 1..Len(taken)}

\* No item is lost or handed out twice: every item pushed is queued, was dropped
\* by a push into a full queue, or was handed to the consumer, exactly one of
\* the three, and the consumer got its items in the order they were pushed.
\* Cancelled and timed-out calls included (`pop` is documented cancel-safe).
Conservation ==
    /\ Gone \cup evicted = 1..(pushed - Len(items))
    /\ Gone \cap evicted = {}
    /\ \A i, j \in 1..Len(taken) : i < j => taken[i] < taken[j]

\* A consumer that waits while there is something for it is about to be woken:
\* the wake-up that its producer owes it has not happened yet.  This is what
\* waking outside the mutex and `enable` before the check have to guarantee.
NoLostWakeup ==
    /\ call = "cvWait" /\ ~Empty => thread = "wakeCv"
    /\ call = "await" /\ waiter = "registered" /\ ~Empty
          => thread \in {"wakeCv", "wakeNotify"}

\* A failure is reported once, and first; from the first report on the queue is
\* empty and stays ended (`fail`: items already queued are handed out first).
FailureOnceThenFinished ==
    /\ \A i \in 1..Len(reported) : reported[i] = "Failed" => i = 1
    /\ reported # <<>> => items = <<>> /\ end = "Finished"

\* A consumer suspended in either kind of call is not left suspended while an
\* item or the end of the stream is there for it, nor by a thread that leaves its
\* loop, however it came to (FinishOnExit).
SuspendedCallServed ==
    (call \in {"await", "cvWait"} /\ (~Empty \/ thread = "exiting")) ~> (call \notin {"await", "cvWait"})

\* The queue, with its two-step wake-ups, its cancelled and its timed-out calls,
\* does what Handoff says: nothing is added after the end, nothing is taken after
\* a report, and every other step leaves the hand-off as it is.
Promise == INSTANCE Handoff WITH
    Capacity <- Capacity, items <- items, end <- end,
    pushed <- pushed, taken <- taken, reported <- reported

KeepsPromise == Promise!Spec
=============================================================================
