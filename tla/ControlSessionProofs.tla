------------------------ MODULE ControlSessionProofs ------------------------
(***************************************************************************)
(* Proofs about a GigE session's control privilege, for any number of names *)
(* of keepalive tasks: no call starts a second keepalive or loses the one   *)
(* that runs, a session without control runs none, and a refused write that *)
(* leaves a session Held left it holding the camera.                        *)
(***************************************************************************)
EXTENDS ControlSession, TLAPS

Places == {"unused", "done", "want", "ping", "answer", "leaving", "tick"}

TypeInv ==
    /\ holder \in {"none", "us", "other"}
    /\ control \in {"Released", "Monitor", "Held", "Lost"}
    /\ slot \in Tasks \cup {"none"} /\ draining \in Tasks \cup {"none"}
    /\ task \in [Tasks -> [at : Places, stop : BOOLEAN, first : BOOLEAN,
                           found : {"held", "notHeld", "error"}]]
    /\ after \in {"idle", "releaseLock", "dropLock", "gone"}

\* A keepalive that runs is the session's, or the one a call waits for, told to stop.
Owned ==
    IF app = "drain"
    THEN slot = "none" /\ \A k \in Tasks : Live(k) => k = draining /\ task[k].stop
    ELSE \A k \in Tasks : Live(k) => k = slot

\* A release has stopped the keepalive before it writes.
ReleaseIsQuiet == app \in {"releaseLock", "releaseWrite", "released", "notReleased"} => slot = "none"

\* A keepalive is started by who has claimed control, and not while it is released.
StartHasClaimed == app \in {"reclaimStart", "openStart"} => control \in {"Held", "Lost"}

\* A session that is not connected has not claimed.
NewHasNot == app = "new" => control = "Released"

\* A session without control has no keepalive.
NobodyPings == control \in {"Released", "Monitor"} => \A k \in Tasks : ~Live(k)

IInv == TypeInv /\ Owned /\ ReleaseIsQuiet /\ StartHasClaimed /\ NewHasNot /\ NobodyPings

Releasing == {"releaseLock", "releaseWrite", "released", "notReleased"}
Starting  == {"reclaimStart", "openStart"}

-----------------------------------------------------------------------------
(* The shapes of a step. *)

\* A step that leaves the keepalive and its handle alone, of a call that does not
\* wait for one.
LEMMA HandleKept ==
    ASSUME IInv, UNCHANGED <<slot, task, draining, after>>,
           holder' \in {"none", "us", "other"},
           control' \in {control, "Held", "Lost"},
           app # "drain", app' \notin {"drain", "new"},
           app' \in Releasing => slot = "none",
           app' \in Starting => control' \in {"Held", "Lost"}
    PROVE  IInv'
  <1>1. \A k \in Tasks : Live(k)' <=> Live(k)
    BY DEF Live
  <1>2. TypeInv'
    BY DEF IInv, TypeInv
  <1>3. Owned'
    BY <1>1 DEF IInv, Owned
  <1>4. NobodyPings'
    BY <1>1 DEF IInv, NobodyPings
  <1>. QED  BY <1>2, <1>3, <1>4 DEF IInv, ReleaseIsQuiet, StartHasClaimed, NewHasNot, Releasing, Starting

\* start_keepalive: the task that starts is the only one, as the one of the slot has
\* ended and no other runs.
LEMMA Started ==
    ASSUME IInv, StartKeepalive, UNCHANGED <<draining, after>>,
           holder' \in {"none", "us", "other"},
           control' \in {"Held", "Lost"},
           app # "drain", app' \notin {"drain", "new"} \cup Releasing
    PROVE  IInv'
  <1>1. TypeInv' /\ \A k \in Tasks : Live(k)' => k = slot'
    <2>1. CASE UNCHANGED <<slot, task>>
      BY <2>1 DEF IInv, TypeInv, Owned, Live
    <2>2. CASE ~UNCHANGED <<slot, task>>
      <3>1. PICK k \in Tasks :
                 /\ slot # "none" => task[slot].at = "done"
                 /\ slot' = k
                 /\ task' = [task EXCEPT ![k] = [NoTask EXCEPT !.at = "want", !.first = TRUE]]
        BY <2>2 DEF StartKeepalive
      <3>2. [NoTask EXCEPT !.at = "want", !.first = TRUE]
              \in [at : Places, stop : BOOLEAN, first : BOOLEAN, found : {"held", "notHeld", "error"}]
        BY DEF NoTask, Places
      <3>3. TypeInv'
        BY <3>1, <3>2 DEF IInv, TypeInv
      <3>4. ASSUME NEW j \in Tasks, Live(j)', j # k PROVE FALSE
        <4>1. Live(j)
          BY <3>1, <3>4 DEF Live, IInv, TypeInv
        <4>2. j = slot /\ slot # "none"
          BY <4>1, TasksAssumption DEF IInv, Owned
        <4>. QED  BY <3>1, <4>1, <4>2 DEF Live
      <3>. QED  BY <3>1, <3>3, <3>4
    <2>. QED  BY <2>1, <2>2
  <1>. QED  BY <1>1 DEF IInv, Owned, ReleaseIsQuiet, StartHasClaimed, NewHasNot, NobodyPings, Releasing, Starting

\* Taking the slot's task leaves none that nobody has told to stop.
LEMMA Stopped ==
    ASSUME IInv, NEW next \in {"idle", "releaseLock", "dropLock", "gone"}, StopKeepalive(next),
           app # "drain", control' \in {control, "Lost"}, UNCHANGED holder
    PROVE  IInv'
  <1>1. /\ task' \in [Tasks -> [at : Places, stop : BOOLEAN, first : BOOLEAN,
                               found : {"held", "notHeld", "error"}]]
        /\ \A k \in Tasks : task'[k].at = task[k].at
        /\ slot \in Tasks => task'[slot].stop
    <2>1. CASE slot = "none"
      BY <2>1, TasksAssumption DEF StopKeepalive, IInv, TypeInv
    <2>2. CASE slot # "none"
      <3>1. task' = [task EXCEPT ![slot].stop = TRUE] /\ slot \in Tasks
        BY <2>2 DEF StopKeepalive, IInv, TypeInv
      <3>. QED  BY <3>1 DEF IInv, TypeInv
    <2>. QED  BY <2>1, <2>2
  <1>2. \A k \in Tasks : Live(k)' <=> Live(k)
    BY <1>1 DEF Live
  <1>3. TypeInv'
    BY <1>1 DEF IInv, TypeInv, StopKeepalive
  <1>4. Owned'
    BY <1>1, <1>2 DEF IInv, Owned, StopKeepalive
  <1>5. NobodyPings'
    BY <1>2 DEF IInv, NobodyPings
  <1>. QED  BY <1>3, <1>4, <1>5 DEF IInv, ReleaseIsQuiet, StartHasClaimed, NewHasNot, StopKeepalive

\* A step of a task neither starts one nor clears a stop.
LEMMA TaskKept ==
    ASSUME IInv, NEW k \in Tasks, UNCHANGED <<holder, slot, call>>,
           control' \in {control, "Lost"}, control' = "Lost" => control \in {"Held", "Lost"},
           task[k].at \notin {"unused", "done"},
           task' \in [Tasks -> [at : Places, stop : BOOLEAN, first : BOOLEAN,
                               found : {"held", "notHeld", "error"}]],
           \A j \in Tasks : task'[j].stop = task[j].stop /\ (j # k => task'[j] = task[j])
    PROVE  IInv'
  <1>1. \A j \in Tasks : Live(j)' => Live(j)
    BY DEF Live
  <1>2. UNCHANGED <<app, draining, after>>
    BY DEF call
  <1>3. TypeInv'
    BY <1>2 DEF IInv, TypeInv
  <1>4. Owned'
    BY <1>1, <1>2 DEF IInv, Owned
  <1>5. NobodyPings'
    BY <1>1 DEF IInv, NobodyPings
  <1>. QED  BY <1>2, <1>3, <1>4, <1>5 DEF IInv, ReleaseIsQuiet, StartHasClaimed, NewHasNot

-----------------------------------------------------------------------------
(* The steps. *)

LEMMA CameraStep ==
    ASSUME IInv, Camera \/ UNCHANGED vars
    PROVE  IInv'
  <1>1. UNCHANGED <<control, slot, task, app, draining, after>> /\ holder' \in {"none", "us", "other"}
    BY DEF Camera, TimePasses, HeartbeatExpires, OtherClaims, OtherReleases, session, call, vars, IInv, TypeInv
  <1>. QED
    BY <1>1 DEF IInv, TypeInv, Owned, Live, ReleaseIsQuiet, StartHasClaimed, NewHasNot, NobodyPings

LEMMA TaskStep ==
    ASSUME IInv, NEW k \in Tasks, Task(k)
    PROVE  IInv'
  <1>. DEFINE Entry == [at : Places, stop : BOOLEAN, first : BOOLEAN, found : {"held", "notHeld", "error"}]
  <1>1. CASE TaskTick(k) \/ TaskLock(k) \/ TaskLeave(k)
    <2>1. PICK to \in Places : task' = [task EXCEPT ![k].at = to]
      BY <1>1 DEF TaskTick, TaskLock, TaskLeave, Places
    <2>2. task' \in [Tasks -> Entry]
          /\ \A j \in Tasks : task'[j].stop = task[j].stop /\ (j # k => task'[j] = task[j])
      BY <2>1 DEF IInv, TypeInv
    <2>3. UNCHANGED <<holder, control, slot, call>> /\ task[k].at \notin {"unused", "done"}
      BY <1>1 DEF TaskTick, TaskLock, TaskLeave, camera
    <2>. QED  BY <2>2, <2>3, TaskKept DEF IInv, TypeInv
  <1>2. CASE TaskPing(k)
    <2>1. PICK f \in {"held", "notHeld", "error"} : task' = [task EXCEPT ![k].at = "answer", ![k].found = f]
      BY <1>2 DEF TaskPing, Ping
    <2>2. task' \in [Tasks -> Entry]
          /\ \A j \in Tasks : task'[j].stop = task[j].stop /\ (j # k => task'[j] = task[j])
      BY ZenonT(40), <2>1 DEF IInv, TypeInv, Places
    <2>3. UNCHANGED <<holder, control, slot, call>> /\ task[k].at \notin {"unused", "done"}
      BY <1>2 DEF TaskPing
    <2>. QED  BY <2>2, <2>3, TaskKept DEF IInv, TypeInv
  <1>3. CASE TaskAnswer(k)
    <2>1. PICK to \in Places : task' = [task EXCEPT ![k].at = to, ![k].first = FALSE, ![k].found = "error"]
      BY <1>3 DEF TaskAnswer, Places
    <2>2. task' \in [Tasks -> Entry]
          /\ \A j \in Tasks : task'[j].stop = task[j].stop /\ (j # k => task'[j] = task[j])
      BY ZenonT(40), <2>1 DEF IInv, TypeInv
    <2>3. UNCHANGED <<holder, slot, call>> /\ task[k].at \notin {"unused", "done"}
      BY <1>3 DEF TaskAnswer, camera
    <2>4. control' = control \/ (control' = "Lost" /\ control = "Held")
      BY <1>3 DEF TaskAnswer
    <2>. QED  BY <2>2, <2>3, <2>4, TaskKept
  <1>. QED  BY <1>1, <1>2, <1>3 DEF Task

LEMMA ConnectStep ==
    ASSUME IInv, Connect
    PROVE  IInv'
  <1>1. CASE ConnectClaim
    BY <1>1, HandleKept DEF ConnectClaim, session, IInv, TypeInv, Releasing, Starting
  <1>2. CASE ConnectMonitor
    <2>1. UNCHANGED <<holder, slot, task, draining, after>> /\ control' = "Monitor"
          /\ app = "new" /\ app' = "idle"
      BY <1>2 DEF ConnectMonitor, camera
    <2>2. \A k \in Tasks : ~Live(k)'
      BY <2>1 DEF IInv, NewHasNot, NobodyPings, Live
    <2>3. TypeInv'
      BY <2>1 DEF IInv, TypeInv
    <2>. QED  BY <2>1, <2>2, <2>3 DEF IInv, Owned, ReleaseIsQuiet, StartHasClaimed, NewHasNot, NobodyPings
  <1>3. CASE ConnectDone
    BY <1>3, Started DEF ConnectDone, IInv, TypeInv, Releasing
  <1>4. CASE ConnectCancelled
    BY <1>4, HandleKept DEF ConnectCancelled, session, camera, IInv, TypeInv, Releasing, Starting
  <1>5. CASE GiveUp
    BY <1>5, HandleKept DEF GiveUp, session, IInv, TypeInv, Releasing, Starting
  <1>. QED  BY <1>1, <1>2, <1>3, <1>4, <1>5 DEF Connect

LEMMA CallStep ==
    ASSUME IInv, Calls
    PROVE  IInv'
  <1>1. ASSUME NEW first \in {"reclaimLock", "refreshLock", "openLock", "writeLock", "dropping"}, Begin(first)
        PROVE  IInv'
    BY <1>1, HandleKept DEF Begin, session, camera, IInv, TypeInv, Releasing, Starting
  <1>2. CASE BeginRelease
    BY <1>2, Stopped DEF BeginRelease, camera
  <1>. QED  BY <1>1, <1>2 DEF Calls, BeginOpen, BeginWrite, BeginDrop

\* The steps of a call that take or release the mutex, or exchange a command, and
\* leave the keepalive to itself.
LEMMA ExchangeStep ==
    ASSUME IInv,
           \/ Locks \/ ClaimRefused \/ ReclaimClaim \/ ReclaimHeld \/ OpenClaim \/ OpenNote \/ OpenSetup
           \/ ReleaseWrite \/ Write \/ CheckPing \/ CheckClaim \/ DropRelease
    PROVE  IInv'
  <1>. USE DEF IInv, TypeInv, Releasing, Starting
  <1>1. ASSUME NEW from, NEW step, Lock(from, step), from \notin {"drain"},
               step \notin {"drain", "new"} \cup Starting, step \in Releasing => from \in Releasing
        PROVE  IInv'
    BY <1>1, HandleKept DEF Lock, camera, ReleaseIsQuiet
  <1>2. CASE Locks
    BY <1>1, <1>2 DEF Locks
  <1>3. CASE ClaimRefused
    BY <1>3, HandleKept DEF ClaimRefused
  <1>4. CASE ReclaimClaim
    BY <1>4, HandleKept DEF ReclaimClaim, Claimed
  <1>5. CASE ReclaimHeld
    BY <1>5, HandleKept DEF ReclaimHeld, camera
  <1>6. CASE OpenClaim
    BY <1>6, HandleKept DEF OpenClaim, Claimed, session
  <1>7. CASE OpenNote
    BY <1>7, HandleKept DEF OpenNote, camera
  <1>8. CASE OpenSetup
    BY <1>8, HandleKept DEF OpenSetup
  <1>9. CASE ReleaseWrite
    BY <1>9, HandleKept DEF ReleaseWrite, ReleaseIsQuiet
  <1>10. CASE Write
    BY <1>10, HandleKept DEF Write, EndWrite
  <1>11. CASE CheckPing
    BY <1>11, HandleKept DEF CheckPing, EndWrite
  <1>12. CASE CheckClaim
    BY <1>12, HandleKept DEF CheckClaim, EndWrite
  <1>13. CASE DropRelease
    BY <1>13, HandleKept DEF DropRelease
  <1>. QED  BY <1>2, <1>3, <1>4, <1>5, <1>6, <1>7, <1>8, <1>9, <1>10, <1>11, <1>12, <1>13

LEMMA ReleaseDoneStep ==
    ASSUME IInv, ReleaseDone
    PROVE  IInv'
  <1>1. CASE app = "notReleased" /\ control = "Held" /\ StartKeepalive /\ UNCHANGED control
    BY <1>1, Started DEF ReleaseDone, camera, IInv, TypeInv, Releasing
  <1>2. CASE app = "notReleased" /\ UNCHANGED <<control, slot, task>>
    BY <1>2, HandleKept DEF ReleaseDone, camera, IInv, TypeInv, Releasing, Starting
  <1>3. CASE app = "released" /\ control' = "Released" /\ UNCHANGED <<slot, task>>
    <2>1. \A k \in Tasks : ~Live(k)'
      BY <1>3, TasksAssumption DEF IInv, Owned, ReleaseIsQuiet, Live
    <2>2. TypeInv'
      BY <1>3 DEF ReleaseDone, camera, IInv, TypeInv
    <2>. QED
      BY <1>3, <2>1, <2>2
      DEF ReleaseDone, IInv, Owned, ReleaseIsQuiet, StartHasClaimed, NewHasNot, NobodyPings
  <1>. QED  BY <1>1, <1>2, <1>3 DEF ReleaseDone

\* The task a call waited for has ended, and no other runs.
LEMMA DrainedStep ==
    ASSUME IInv, Drained
    PROVE  IInv'
  <1>1. \A k \in Tasks : ~Live(k)'
    BY TasksAssumption DEF Drained, session, IInv, Owned, Live
  <1>2. TypeInv'
    BY DEF Drained, session, camera, IInv, TypeInv
  <1>. QED
    BY <1>1, <1>2
    DEF Drained, session, IInv, TypeInv, Owned, ReleaseIsQuiet, StartHasClaimed, NewHasNot, NobodyPings

\* A process that is killed leaves nothing running.
LEMMA CrashStep ==
    ASSUME IInv, Crash
    PROVE  IInv'
  <1>1. NoTask \in [at : Places, stop : BOOLEAN, first : BOOLEAN, found : {"held", "notHeld", "error"}]
    BY DEF NoTask, Places
  <1>2. TypeInv'
    BY <1>1 DEF Crash, camera, IInv, TypeInv
  <1>3. \A k \in Tasks : ~Live(k)'
    BY DEF Crash, Live, NoTask
  <1>. QED
    BY <1>2, <1>3 DEF Crash, IInv, Owned, ReleaseIsQuiet, StartHasClaimed, NewHasNot, NobodyPings

LEMMA ContinueStep ==
    ASSUME IInv, Continue
    PROVE  IInv'
  <1>1. CASE ReclaimStart \/ OpenStart
    BY <1>1, Started DEF ReclaimStart, OpenStart, camera, IInv, TypeInv, StartHasClaimed, Releasing
  <1>2. CASE RefreshPing
    <2>1. CASE StopKeepalive("idle") /\ control' = "Lost"
      BY <1>2, <2>1, Stopped DEF RefreshPing
    <2>2. CASE app' = "idle" /\ UNCHANGED <<control, slot, task, draining, after>>
      BY <1>2, <2>2, HandleKept DEF RefreshPing, IInv, TypeInv, Releasing, Starting
    <2>. QED  BY <1>2, <2>1, <2>2 DEF RefreshPing
  <1>3. CASE ReleaseDone
    BY <1>3, ReleaseDoneStep
  <1>4. CASE Drop
    BY <1>4, Stopped DEF Drop, camera
  <1>5. CASE Drained
    BY <1>5, DrainedStep
  <1>. QED  BY <1>1, <1>2, <1>3, <1>4, <1>5, ExchangeStep DEF Continue

-----------------------------------------------------------------------------
(* What the session promises. *)

LEMMA InvInit ==
    ASSUME Init
    PROVE  IInv
  <1>1. NoTask \in [at : Places, stop : BOOLEAN, first : BOOLEAN, found : {"held", "notHeld", "error"}]
    BY DEF NoTask, Places
  <1>2. TypeInv
    BY <1>1 DEF Init, TypeInv
  <1>3. \A k \in Tasks : ~Live(k)
    BY DEF Init, Live, NoTask
  <1>. QED  BY <1>2, <1>3 DEF Init, IInv, Owned, ReleaseIsQuiet, StartHasClaimed, NewHasNot, NobodyPings

LEMMA Invariance == Spec => []IInv
  <1>1. IInv /\ [Next]_vars => IInv'
    BY CameraStep, TaskStep, ConnectStep, CallStep, ContinueStep, CrashStep DEF Next
  <1>. QED  BY <1>1, InvInit, PTL DEF Spec

\* No sequence of calls and of keepalive steps leaves a second keepalive pinging, or
\* one the session has no handle on, and a session that released control or only
\* monitors runs none.
THEOREM KeepaliveIsOne == Spec => []OneKeepalive
  <1>1. IInv => OneKeepalive
    BY DEF IInv, Owned, NobodyPings, OneKeepalive
  <1>. QED  BY <1>1, Invariance, PTL

\* A refused write whose check says the session still has control is right about it:
\* the camera is ours when the verdict is given.
THEOREM RefusalIsSettled == Spec => RefusalSettled
  <1>. DEFINE Settled == verdict' = "held" /\ app' = "idle" /\ app \in {"checkPing", "checkClaim"}
                            => holder' = "us"
  <1>1. IInv /\ [Next]_vars => [Settled]_vars
    <2>. SUFFICES ASSUME IInv, Next, verdict' = "held", app' = "idle", app \in {"checkPing", "checkClaim"}
                  PROVE  holder' = "us"
      OBVIOUS
    <2>1. CASE CheckPing
      BY <2>1 DEF CheckPing, EndWrite, Ping, NeedsClaim, IInv, TypeInv
    <2>2. CASE CheckClaim
      BY <2>2 DEF CheckClaim, EndWrite
    <2>3. ASSUME ~CheckPing, ~CheckClaim PROVE FALSE
      <3>1. app' # app
        OBVIOUS
      <3>2. ~Camera /\ ~(\E k \in Tasks : Task(k))
        BY <3>1 DEF Camera, TimePasses, HeartbeatExpires, OtherClaims, OtherReleases, call,
                    Task, TaskTick, TaskLock, TaskPing, TaskAnswer, TaskLeave
      <3>3. ~Connect /\ ~Calls /\ ~Crash
        BY DEF Connect, ConnectClaim, ConnectMonitor, ConnectDone, ConnectCancelled, GiveUp,
               Calls, Begin, BeginOpen, BeginRelease, BeginWrite, BeginDrop, Crash
      <3>4. ~Continue
        BY <2>3 DEF Continue, Locks, Lock, ClaimRefused, ReclaimClaim, Claimed, ReclaimHeld, ReclaimStart,
                    OpenClaim, OpenNote, OpenStart, OpenSetup, RefreshPing, ReleaseWrite, ReleaseDone,
                    Write, Drop, DropRelease, Drained
      <3>. QED  BY <3>2, <3>3, <3>4 DEF Next
    <2>. QED  BY <2>1, <2>2, <2>3
  <1>. QED  BY <1>1, Invariance, PTL DEF Spec, RefusalSettled
=============================================================================
