------------------------- MODULE DeliveryQueueProofs -------------------------
(***************************************************************************)
(* Proofs that the delivery queue neither loses, duplicates nor reorders    *)
(* items, never leaves a consumer without its wake-up, and reports a        *)
(* failure once, for every capacity and every number of items.              *)
(***************************************************************************)
EXTENDS DeliveryQueue, SequenceTheorems, TLAPS

\* The queue as an end-ordered object: while the thread can still push there is
\* no end, and once an end has been reported there is nothing but the end.
MayPush == \/ thread = "running"
           \/ thread \in {"wakeCv", "wakeNotify"} /\ then = "running"

EndIsOrdered ==
    /\ MayPush => end = "None"
    /\ FailureOnceThenFinished

\* A future exists exactly while the async call is between its registration and
\* its return.
FutureMatchesCall == call \in {"check", "await"} <=> waiter # "none"

\* The inductive invariant.
IInv ==
    /\ TypeInv
    /\ HoldsNewest
    /\ Conservation
    /\ FutureMatchesCall
    /\ NoLostWakeup
    /\ EndIsOrdered

\* An index of a sequence that grew by one is the last one or was there before.
LEMMA LastOrEarlier ==
    ASSUME NEW n \in Nat, NEW i \in 1..(n + 1)
    PROVE  i = n + 1 \/ i \in 1..n
  OBVIOUS

-----------------------------------------------------------------------------
(* A pop finds an item or an end; what it does to the queue is in these lemmas. *)

\* Type correctness of a pop: an item is a number, a report is an end.
LEMMA PopTypes ==
    ASSUME TypeInv, try_pop_locked
    PROVE  /\ items' \in Seq(Nat) /\ end' \in {"None", "Failed", "Finished"}
           /\ taken' \in Seq(Nat) /\ reported' \in Seq({"Failed", "Finished"})
  <1>1. CASE items # <<>>
    <2>1. /\ items' = Tail(items) /\ taken' = Append(taken, Head(items))
          /\ UNCHANGED <<end, reported>>
      BY <1>1 DEF try_pop_locked
    <2>2. Tail(items) \in Seq(Nat) /\ Head(items) \in Nat
      BY <1>1, HeadTailProperties DEF TypeInv
    <2>3. Append(taken, Head(items)) \in Seq(Nat)
      BY <2>2, AppendProperties DEF TypeInv
    <2>. QED  BY <2>1, <2>2, <2>3 DEF TypeInv
  <1>2. CASE items = <<>>
    BY <1>2 DEF TypeInv, try_pop_locked
  <1>. QED  BY <1>1, <1>2

\* The step of any action keeps every variable in its type.
LEMMA TypeStep ==
    ASSUME TypeInv, [Next]_vars
    PROVE  TypeInv'
  <1>. USE DEF TypeInv, Calls, Waiters, Threads, Continuations, callVars, threadVars, queueVars
  <1>1. CASE push
    <2>1. Full => items # <<>>
      BY CapacityAssumption, EmptySeq DEF Full
    <2>2. Full => Tail(items) \in Seq(Nat) /\ Head(items) \in Nat
      BY <2>1, HeadTailProperties
    <2>3. Append(items, pushed + 1) \in Seq(Nat) /\ (Full => Append(Tail(items), pushed + 1) \in Seq(Nat))
      BY <2>2, AppendProperties
    <2>4. items' \in Seq(Nat)
      BY <1>1, <2>3 DEF push
    <2>5. evicted' \subseteq Nat
      BY <1>1, <2>2 DEF push
    <2>. QED  BY <1>1, <2>4, <2>5 DEF push, WakeThen
  <1>2. CASE fail
    BY <1>2 DEF fail, SetEnd, WakeThen
  <1>3. CASE leave
    BY <1>3 DEF leave
  <1>4. CASE finish
    BY <1>4 DEF finish, SetEnd, WakeThen
  <1>5. CASE wakeCondvar
    BY <1>5 DEF wakeCondvar
  <1>6. CASE wakeNotify
    BY <1>6 DEF wakeNotify
  <1>7. CASE popRegister
    BY <1>7 DEF popRegister
  <1>8. CASE popCheck
    <2>1. CASE Empty /\ UNCHANGED <<queueVars, waiter, permits, taken, reported>> /\ call' = "await"
      BY <1>8, <2>1 DEF popCheck
    <2>2. CASE try_pop_locked /\ call' = "idle" /\ DropFuture
      BY <1>8, <2>2, PopTypes DEF popCheck, DropFuture
    <2>. QED  BY <1>8, <2>1, <2>2 DEF popCheck
  <1>9. CASE popResume
    BY <1>9 DEF popResume
  <1>10. CASE popCancel
    BY <1>10 DEF popCancel, DropFuture
  <1>11. ASSUME NEW expired \in BOOLEAN, CheckOrWait(expired)
         PROVE  TypeInv'
    <2>1. CASE Empty /\ UNCHANGED <<queueVars, taken, reported>> /\ call' = IF expired THEN "idle" ELSE "cvWait"
      BY <1>11, <2>1 DEF CheckOrWait
    <2>2. CASE try_pop_locked /\ call' = "idle"
      BY <1>11, <2>2, PopTypes DEF CheckOrWait
    <2>. QED  BY <1>11, <2>1, <2>2 DEF CheckOrWait
  <1>12. CASE popBlocking \/ popBlockingResume
    BY <1>11, <1>12 DEF popBlocking, popBlockingResume
  <1>13. CASE popBlockingTimeout
    BY <1>13 DEF popBlockingTimeout
  <1>14. CASE UNCHANGED vars
    BY <1>14 DEF vars
  <1>. QED
    BY <1>1, <1>2, <1>3, <1>4, <1>5, <1>6, <1>7, <1>8, <1>9, <1>10, <1>12, <1>13, <1>14
    DEF Next, Thread, Consumer, Over

\* Every reachable state of the queue, its thread and its consumer is well typed.
THEOREM TypeCorrect == Spec => []TypeInv
  <1>1. Init => TypeInv
    BY EmptySeq DEF Init, TypeInv, Threads, Continuations, Calls, Waiters
  <1>2. TypeInv /\ [Next]_vars => TypeInv'
    BY TypeStep
  <1>. QED  BY <1>1, <1>2, PTL DEF Spec

-----------------------------------------------------------------------------
(* Items: the first item of the queue is the oldest one that is not gone. *)

\* Removing the oldest item, with or without a new one pushed behind it, leaves
\* the newest ones; the removed item is the successor of all that are gone.
LEMMA OldestItem ==
    ASSUME TypeInv, HoldsNewest, items # <<>>
    PROVE  /\ Len(items) \in Nat \ {0}
           /\ Head(items) = pushed - Len(items) + 1
           /\ Tail(items) \in Seq(Nat)
           /\ Len(Tail(items)) = Len(items) - 1
           /\ \A i \in 1..Len(Tail(items)) : Tail(items)[i] = pushed - Len(items) + i + 1
  <1>1. Len(items) \in Nat \ {0}
    BY EmptySeq DEF TypeInv
  <1>2. Head(items) = items[1]
    BY <1>1 DEF TypeInv
  <1>. QED  BY <1>1, <1>2, HeadTailProperties DEF TypeInv, HoldsNewest

\* A push keeps the items conserved: a full queue moves its oldest item to the
\* evicted ones.
LEMMA PushConserves ==
    ASSUME TypeInv, HoldsNewest, Conservation, push
    PROVE  HoldsNewest' /\ Conservation'
  <1>. USE DEF TypeInv, callVars
  <1>0. Len(items) \in Nat /\ Len(taken) \in Nat /\ taken' = taken /\ pushed' = pushed + 1
    BY LenProperties DEF push
  <1>1. CASE Full
    <2>1. items # <<>>
      BY <1>1, CapacityAssumption, EmptySeq DEF Full
    <2>2. /\ Len(items') = Len(items)
          /\ \A i \in 1..Len(items) : items'[i] = pushed - Len(items) + i + 1
      <3>1. items' = Append(Tail(items), pushed + 1)
        BY <1>1 DEF push
      <3>2. /\ Len(Tail(items)) = Len(items) - 1
            /\ Tail(items) \in Seq(Nat)
            /\ \A i \in 1..(Len(items) - 1) : Tail(items)[i] = pushed - Len(items) + i + 1
        BY <2>1, OldestItem
      <3>3. pushed + 1 \in Nat
        OBVIOUS
      <3>4. /\ Len(items') = Len(items)
            /\ \A i \in 1..(Len(items) - 1) : items'[i] = Tail(items)[i]
            /\ items'[Len(items)] = pushed + 1
        BY <3>1, <3>2, <3>3, <1>0, AppendProperties
      <3>5. ASSUME NEW i \in 1..Len(items) PROVE items'[i] = pushed - Len(items) + i + 1
        <4>1. CASE i \in 1..(Len(items) - 1)
          BY <4>1, <3>2, <3>4
        <4>2. CASE i = Len(items)
          BY <4>2, <3>4, <1>0
        <4>. QED  BY <4>1, <4>2, <1>0
      <3>. QED  BY <3>4, <3>5
    <2>3. HoldsNewest'
      BY <1>0, <2>2 DEF HoldsNewest
    <2>4. Gone' = Gone
      BY <1>0 DEF Gone
    <2>5. /\ Head(items) = pushed - Len(items) + 1
          /\ Head(items) \notin Gone
          /\ Head(items) \notin evicted
      BY <2>1, <1>0, OldestItem DEF Conservation, HoldsNewest
    <2>6. Gone \cup (evicted \cup {Head(items)}) = 1..(pushed + 1 - Len(items))
      <3>1. 1..(pushed + 1 - Len(items)) = 1..(pushed - Len(items)) \cup {pushed - Len(items) + 1}
        BY SMTT(30), <1>0 DEF HoldsNewest
      <3>. QED  BY <3>1, <2>5 DEF Conservation
    <2>7. evicted' = evicted \cup {Head(items)} /\ Len(items') = Len(items)
      BY <1>1, <2>2 DEF push
    <2>8. Conservation'
      BY <2>4, <2>5, <2>6, <2>7, <1>0 DEF Conservation
    <2>. QED  BY <2>3, <2>8
  <1>2. CASE ~Full
    <2>1. /\ items' = Append(items, pushed + 1)
          /\ evicted' = evicted
      BY <1>2 DEF push
    <2>2. /\ Len(items') = Len(items) + 1
          /\ \A i \in 1..Len(items) : items'[i] = items[i]
          /\ items'[Len(items) + 1] = pushed + 1
      BY <2>1, <1>0, AppendProperties
    <2>3. HoldsNewest'
      <3>1. Len(items) + 1 <= Capacity
        BY <1>0, <1>2, CapacityAssumption DEF Full
      <3>2. ASSUME NEW i \in 1..Len(items') PROVE items'[i] = pushed' - Len(items') + i
        <4>1. CASE i \in 1..Len(items)
          BY <4>1, <2>2, <1>0 DEF HoldsNewest
        <4>2. CASE i = Len(items) + 1
          BY <4>2, <2>2, <1>0
        <4>. QED  BY <4>1, <4>2, <2>2, <1>0
      <3>. QED  BY <3>1, <3>2, <2>2, <1>0 DEF HoldsNewest
    <2>4. Gone' = Gone
      BY <1>0 DEF Gone
    <2>5. pushed' - Len(items') = pushed - Len(items)
      BY <1>0, <2>2
    <2>. QED  BY <2>1, <2>3, <2>4, <2>5, <1>0 DEF Conservation
  <1>. QED  BY <1>1, <1>2

\* A pop keeps the items conserved: the item taken is newer than all taken before.
LEMMA PopConserves ==
    ASSUME TypeInv, HoldsNewest, Conservation, try_pop_locked,
           UNCHANGED <<pushed, evicted>>
    PROVE  HoldsNewest' /\ Conservation'
  <1>. USE DEF TypeInv
  <1>0. Len(items) \in Nat /\ Len(taken) \in Nat
    BY LenProperties
  <1>1. CASE items # <<>>
    <2>1. items' = Tail(items) /\ taken' = Append(taken, Head(items))
      BY <1>1 DEF try_pop_locked
    <2>2. /\ Len(items') = Len(items) - 1
          /\ \A i \in 1..Len(items') : items'[i] = pushed - Len(items) + i + 1
      BY <1>1, <2>1, OldestItem
    <2>3. HoldsNewest'
      BY <1>0, <1>1, <2>2, OldestItem, CapacityAssumption DEF HoldsNewest
    <2>4. /\ Len(taken') = Len(taken) + 1
          /\ \A i \in 1..Len(taken) : taken'[i] = taken[i]
          /\ taken'[Len(taken) + 1] = Head(items)
      BY <2>1, <1>0, <1>1, OldestItem, AppendProperties, HeadTailProperties
    <2>5. Gone' = Gone \cup {Head(items)}
      <3>1. ASSUME NEW x \in Gone' PROVE x \in Gone \cup {Head(items)}
        <4>1. PICK i \in 1..Len(taken') : x = taken'[i]
          BY DEF Gone
        <4>2. i \in 1..Len(taken) \/ i = Len(taken) + 1
          BY <2>4, <1>0
        <4>. QED  BY <4>1, <4>2, <2>4 DEF Gone
      <3>2. ASSUME NEW x \in Gone PROVE x \in Gone'
        <4>1. PICK i \in 1..Len(taken) : x = taken[i]
          BY DEF Gone
        <4>2. i \in 1..Len(taken') /\ x = taken'[i]
          BY <4>1, <2>4, <1>0
        <4>. QED  BY <4>2 DEF Gone
      <3>3. Head(items) \in Gone'
        <4>1. Len(taken) + 1 \in 1..Len(taken') /\ taken'[Len(taken) + 1] = Head(items)
          BY <2>4, <1>0
        <4>. QED  BY <4>1 DEF Gone
      <3>. QED  BY <3>1, <3>2, <3>3
    <2>6. Head(items) = pushed - Len(items) + 1 /\ Len(items) \in Nat \ {0}
      BY <1>1, OldestItem
    <2>7. Head(items) \notin Gone /\ Head(items) \notin evicted
      BY <2>6, <1>0 DEF Conservation, HoldsNewest
    <2>8. (Gone \cup {Head(items)}) \cup evicted = 1..(pushed - (Len(items) - 1))
      BY <2>6, <1>0 DEF Conservation, HoldsNewest
    <2>9. \A i \in 1..Len(taken) : taken[i] < Head(items)
      <3>1. \A i \in 1..Len(taken) : taken[i] \in 1..(pushed - Len(items))
        BY <1>0 DEF Conservation, Gone
      <3>. QED  BY <3>1, <2>6, <1>0 DEF HoldsNewest
    <2>10. \A i, j \in 1..Len(taken') : i < j => taken'[i] < taken'[j]
      <3>. SUFFICES ASSUME NEW i \in 1..Len(taken'), NEW j \in 1..Len(taken'), i < j
                    PROVE  taken'[i] < taken'[j]
        OBVIOUS
      <3>1. i \in 1..Len(taken) /\ taken'[i] = taken[i]
        BY <2>4, <1>0
      <3>2. CASE j = Len(taken) + 1
        BY <3>1, <3>2, <2>4, <2>9
      <3>3. CASE j \in 1..Len(taken)
        BY <3>1, <3>3, <2>4 DEF Conservation
      <3>4. j = Len(taken) + 1 \/ j \in 1..Len(taken)
        <4>1. Len(taken') = Len(taken) + 1
          BY <2>4
        <4>2. j \in 1..(Len(taken) + 1)
          BY <4>1
        <4>. QED  BY <4>2, <1>0, LastOrEarlier
      <3>. QED  BY <3>2, <3>3, <3>4
    <2>11. Conservation'
      BY <2>2, <2>5, <2>7, <2>8, <2>10 DEF Conservation
    <2>. QED  BY <2>3, <2>11
  <1>2. CASE items = <<>>
    BY <1>2 DEF try_pop_locked, HoldsNewest, Conservation, Gone
  <1>. QED  BY <1>1, <1>2

-----------------------------------------------------------------------------
(* The other conjuncts: wake-ups and the order of the end. *)

\* A pop neither takes an item after the end was reported nor reports a failure twice.
LEMMA PopKeepsOrder ==
    ASSUME TypeInv, EndIsOrdered, try_pop_locked, UNCHANGED <<thread, then>>
    PROVE  EndIsOrdered'
  <1>. USE DEF TypeInv
  <1>1. CASE items # <<>>
    BY <1>1 DEF try_pop_locked, EndIsOrdered, FailureOnceThenFinished, MayPush
  <1>2. CASE items = <<>>
    <2>1. reported' = Append(reported, end) /\ end' = "Finished" /\ items' = <<>> /\ end # "None"
      BY <1>2 DEF try_pop_locked
    <2>2. ~MayPush'
      BY <2>1 DEF MayPush, EndIsOrdered
    <2>3. Len(reported) \in Nat /\ end \in {"Failed", "Finished"}
      BY <2>1, LenProperties
    <2>4. /\ Len(reported') = Len(reported) + 1
          /\ \A i \in 1..Len(reported) : reported'[i] = reported[i]
          /\ reported'[Len(reported) + 1] = end
      BY <2>1, <2>3, AppendProperties
    <2>5. ASSUME NEW i \in 1..Len(reported'), reported'[i] = "Failed" PROVE i = 1
      <3>0. Len(reported') = Len(reported) + 1
        BY <2>4
      <3>1. CASE i \in 1..Len(reported)
        BY <3>1, <2>4, <2>5 DEF EndIsOrdered, FailureOnceThenFinished
      <3>2. CASE i = Len(reported) + 1
        <4>1. end = "Failed"
          BY <3>2, <2>4, <2>5
        <4>2. reported = <<>>
          BY <4>1 DEF EndIsOrdered, FailureOnceThenFinished
        <4>. QED  BY <4>2, <3>2, EmptySeq
      <3>. QED  BY <3>0, <3>1, <3>2, <2>3
    <2>. QED  BY <2>1, <2>2, <2>5 DEF EndIsOrdered, FailureOnceThenFinished
  <1>. QED  BY <1>1, <1>2

\* An action that leaves the queue and its histories alone keeps what is said of
\* them.
LEMMA QueueUntouched ==
    ASSUME HoldsNewest, Conservation,
           UNCHANGED <<items, pushed, evicted, taken>>
    PROVE  HoldsNewest' /\ Conservation'
  BY DEF HoldsNewest, Conservation, Gone

\* One step of any action keeps the inductive invariant.
LEMMA InvariantStep ==
    ASSUME IInv, [Next]_vars
    PROVE  IInv'
  <1>. USE DEF IInv
  <1>t. TypeInv'
    BY TypeStep
  <1>. USE DEF callVars, threadVars, queueVars
  <1>1. CASE push
    <2>1. HoldsNewest' /\ Conservation'
      BY <1>1, PushConserves
    <2>2. EndIsOrdered'
      BY <1>1 DEF push, WakeThen, EndIsOrdered, FailureOnceThenFinished, MayPush, TypeInv
    <2>3. FutureMatchesCall' /\ NoLostWakeup'
      BY <1>1 DEF push, WakeThen, FutureMatchesCall, NoLostWakeup
    <2>. QED  BY <1>t, <2>1, <2>2, <2>3
  <1>2. CASE fail \/ leave \/ finish
    <2>1. HoldsNewest' /\ Conservation'
      BY <1>2, QueueUntouched DEF fail, leave, finish
    <2>2. EndIsOrdered'
      BY <1>2 DEF fail, leave, finish, SetEnd, WakeThen, EndIsOrdered, FailureOnceThenFinished, MayPush, TypeInv
    <2>3. FutureMatchesCall' /\ NoLostWakeup'
      BY <1>2 DEF fail, leave, finish, SetEnd, WakeThen, FutureMatchesCall, NoLostWakeup, Empty
    <2>. QED  BY <1>t, <2>1, <2>2, <2>3
  <1>3. CASE wakeCondvar \/ wakeNotify
    <2>1. HoldsNewest' /\ Conservation'
      BY <1>3, QueueUntouched DEF wakeCondvar, wakeNotify
    <2>2. EndIsOrdered'
      BY <1>3 DEF wakeCondvar, wakeNotify, EndIsOrdered, FailureOnceThenFinished, MayPush, TypeInv
    <2>3. FutureMatchesCall' /\ NoLostWakeup'
      BY <1>3 DEF wakeCondvar, wakeNotify, FutureMatchesCall, NoLostWakeup, Empty
    <2>. QED  BY <1>t, <2>1, <2>2, <2>3
  <1>4. CASE popRegister \/ popResume \/ popCancel \/ popBlockingTimeout
    <2>1. HoldsNewest' /\ Conservation'
      BY <1>4, QueueUntouched DEF popRegister, popResume, popCancel, popBlockingTimeout
    <2>2. EndIsOrdered'
      BY <1>4 DEF popRegister, popResume, popCancel, popBlockingTimeout, EndIsOrdered,
                  FailureOnceThenFinished, MayPush
    <2>3. FutureMatchesCall' /\ NoLostWakeup'
      BY <1>4 DEF popRegister, popResume, popCancel, popBlockingTimeout, DropFuture,
                  FutureMatchesCall, NoLostWakeup, Empty
    <2>. QED  BY <1>t, <2>1, <2>2, <2>3
  <1>5. CASE popCheck
    <2>1. CASE Empty /\ UNCHANGED <<queueVars, waiter, permits, taken, reported>> /\ call' = "await"
      <3>1. HoldsNewest' /\ Conservation'
        BY <1>5, <2>1, QueueUntouched DEF popCheck
      <3>2. EndIsOrdered'
        BY <1>5, <2>1 DEF popCheck, EndIsOrdered, FailureOnceThenFinished, MayPush
      <3>3. FutureMatchesCall' /\ NoLostWakeup'
        BY <1>5, <2>1 DEF popCheck, FutureMatchesCall, NoLostWakeup, Empty
      <3>. QED  BY <1>t, <3>1, <3>2, <3>3
    <2>2. CASE try_pop_locked /\ call' = "idle" /\ DropFuture
      <3>1. HoldsNewest' /\ Conservation'
        BY <1>5, <2>2, PopConserves DEF popCheck
      <3>2. EndIsOrdered'
        BY <1>5, <2>2, PopKeepsOrder DEF popCheck
      <3>3. FutureMatchesCall' /\ NoLostWakeup'
        BY <1>5, <2>2 DEF popCheck, DropFuture, FutureMatchesCall, NoLostWakeup
      <3>. QED  BY <1>t, <3>1, <3>2, <3>3
    <2>. QED  BY <1>5, <2>1, <2>2 DEF popCheck
  <1>6. ASSUME NEW expired \in BOOLEAN, CheckOrWait(expired), waiter = "none"
        PROVE  IInv'
    <2>1. CASE Empty /\ UNCHANGED <<queueVars, taken, reported>> /\ call' = IF expired THEN "idle" ELSE "cvWait"
      <3>1. HoldsNewest' /\ Conservation'
        BY <1>6, <2>1, QueueUntouched DEF CheckOrWait
      <3>2. EndIsOrdered'
        BY <1>6, <2>1 DEF CheckOrWait, EndIsOrdered, FailureOnceThenFinished, MayPush
      <3>3. FutureMatchesCall' /\ NoLostWakeup'
        BY <1>6, <2>1 DEF CheckOrWait, FutureMatchesCall, NoLostWakeup, Empty
      <3>. QED  BY <1>t, <3>1, <3>2, <3>3
    <2>2. CASE try_pop_locked /\ call' = "idle"
      <3>1. HoldsNewest' /\ Conservation'
        BY <1>6, <2>2, PopConserves DEF CheckOrWait
      <3>2. EndIsOrdered'
        BY <1>6, <2>2, PopKeepsOrder DEF CheckOrWait
      <3>3. FutureMatchesCall' /\ NoLostWakeup'
        BY <1>6, <2>2 DEF CheckOrWait, FutureMatchesCall, NoLostWakeup
      <3>. QED  BY <1>t, <3>1, <3>2, <3>3
    <2>. QED  BY <1>6, <2>1, <2>2 DEF CheckOrWait
  <1>7. CASE popBlocking \/ popBlockingResume
    <2>1. waiter = "none"
      BY <1>7 DEF popBlocking, popBlockingResume, FutureMatchesCall
    <2>. QED  BY <1>6, <1>7, <2>1 DEF popBlocking, popBlockingResume
  <1>8. CASE UNCHANGED vars
    BY <1>t, <1>8, QueueUntouched DEF vars, EndIsOrdered, FailureOnceThenFinished, MayPush,
       FutureMatchesCall, NoLostWakeup, Empty
  <1>. QED
    BY <1>1, <1>2, <1>3, <1>4, <1>5, <1>7, <1>8 DEF Next, Thread, Consumer, Over

\* The invariant holds initially and in every reachable state.
LEMMA Invariant == Spec => []IInv
  <1>1. Init => IInv
    <2>. SUFFICES ASSUME Init PROVE IInv
      OBVIOUS
    <2>1. TypeInv
      BY EmptySeq DEF Init, TypeInv, Threads, Continuations, Calls, Waiters
    <2>2. HoldsNewest
      BY CapacityAssumption, EmptySeq DEF Init, HoldsNewest
    <2>3. Conservation
      BY EmptySeq DEF Init, Conservation, Gone
    <2>. QED
      BY <2>1, <2>2, <2>3, EmptySeq
      DEF Init, IInv, FutureMatchesCall, NoLostWakeup, EndIsOrdered, FailureOnceThenFinished, MayPush
  <1>2. IInv /\ [Next]_vars => IInv'
    BY InvariantStep
  <1>. QED  BY <1>1, <1>2, PTL DEF Spec

\* Every item pushed is queued, evicted by a push into a full queue, or handed to
\* the consumer, exactly one of them, and in order (push, pop, pop_blocking).
THEOREM ItemsConserved == Spec => [](HoldsNewest /\ Conservation)
  <1>1. IInv => HoldsNewest /\ Conservation
    BY DEF IInv
  <1>. QED  BY <1>1, Invariant, PTL

\* A consumer suspended while there is something for it is owed a wake-up that
\* the thread is about to make: waking outside the mutex loses none.
THEOREM WakeupNeverLost == Spec => []NoLostWakeup
  <1>1. IInv => NoLostWakeup
    BY DEF IInv
  <1>. QED  BY <1>1, Invariant, PTL

\* A failure is reported at most once, before the end, and after every item.
THEOREM FailureReportedOnce == Spec => []FailureOnceThenFinished
  <1>1. IInv => FailureOnceThenFinished
    BY DEF IInv, EndIsOrdered
  <1>. QED  BY <1>1, Invariant, PTL

\* A pop that finds something is a Take or a Report of the hand-off.
LEMMA PopIsTakeOrReport ==
    ASSUME IInv, try_pop_locked, UNCHANGED pushed
    PROVE  Promise!Take \/ Promise!Report
  <1>1. CASE items # <<>>
    BY <1>1 DEF try_pop_locked, Promise!Take, IInv, EndIsOrdered, FailureOnceThenFinished
  <1>2. CASE items = <<>>
    BY <1>2 DEF try_pop_locked, Promise!Report
  <1>. QED  BY <1>1, <1>2

\* The queue with its mutex, wake-ups, cancellations and timeouts implements the
\* atomic hand-off: every step of the thread and of the consumer is one of its
\* steps or leaves it alone.
THEOREM ImplementsHandoff == Spec => KeepsPromise
  <1>1. Init => Promise!Init
    BY DEF Init, Promise!Init
  <1>2. ASSUME IInv, [Next]_vars
        PROVE  [Promise!Next]_(Promise!vars)
    <2>. USE <1>2
    <2>1. CASE push
      <3>1. end = "None"
        BY <2>1 DEF IInv, EndIsOrdered, MayPush, push
      <3>. QED  BY <2>1, <3>1 DEF push, Full, callVars, Promise!Next, Promise!Put
    <2>2. CASE fail \/ finish
      BY <2>2 DEF fail, finish, SetEnd, callVars, IInv, TypeInv, Promise!Next, Promise!Close, Promise!vars
    <2>3. CASE leave \/ wakeCondvar \/ wakeNotify \/ popRegister \/ popResume \/ popCancel \/ popBlockingTimeout
      BY <2>3 DEF leave, wakeCondvar, wakeNotify, popRegister, popResume, popCancel, popBlockingTimeout,
                  queueVars, threadVars, callVars, Promise!vars
    <2>4. CASE popCheck
      BY <2>4, PopIsTakeOrReport DEF popCheck, queueVars, threadVars, Promise!vars, Promise!Next
    <2>5. CASE \E expired \in BOOLEAN : CheckOrWait(expired)
      BY <2>5, PopIsTakeOrReport DEF CheckOrWait, queueVars, threadVars, Promise!vars, Promise!Next
    <2>6. CASE popBlocking \/ popBlockingResume
      BY <2>5, <2>6 DEF popBlocking, popBlockingResume
    <2>7. CASE UNCHANGED vars
      BY <2>7 DEF vars, Promise!vars
    <2>. QED
      BY <2>1, <2>2, <2>3, <2>4, <2>6, <2>7 DEF Next, Thread, Consumer, Over
  <1>. QED  BY <1>1, <1>2, Invariant, PTL DEF Spec, KeepsPromise, Promise!Spec
=============================================================================
