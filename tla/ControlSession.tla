--------------------------- MODULE ControlSession ---------------------------
(***************************************************************************)
(* A GigE session's control privilege: `GigeRegisterIo` of viva-genicam's   *)
(* lib.rs with its keepalive task, from connecting to dropping, against a   *)
(* camera that another application may control.                             *)
(*                                                                          *)
(* The application runs one call at a time, in the steps between which the  *)
(* keepalive can run: taking the device mutex, the exchange with the        *)
(* camera, what is done after the mutex is released.  A drained keepalive   *)
(* is waited for, as on a multi-thread runtime.  The camera ends privilege  *)
(* that is not used; a command may get no answer, and may then have been    *)
(* carried out or not.                                                      *)
(***************************************************************************)
EXTENDS Naturals, FiniteSets

CONSTANT Tasks       \* names for keepalive tasks; a finished one's is used again

ASSUME TasksAssumption ==
    /\ IsFiniteSet(Tasks) /\ Tasks # {}
    /\ "none" \notin Tasks /\ "free" \notin Tasks /\ "app" \notin Tasks

VARIABLES
    holder,     \* the camera: who holds control privilege
    silent,     \* the camera: no command of ours for the heartbeat timeout
    names,      \* whether the session knows the camera to name its primary application
    control,    \* ControlState
    mutex,      \* who has the device mutex
    slot,       \* `keepalive`: the task whose handle the session has, or "none"
    task,       \* the keepalive tasks
    app,        \* where the application is in its call: see Steps
    draining,   \* the task a call waits for, or "none"
    after,      \* what it does once that has ended
    verdict     \* history: what the last check after a refused write found

vars == <<holder, silent, names, control, mutex, slot, task, app, draining, after, verdict>>
camera  == <<holder, silent, names>>
session == <<control, mutex, slot, task>>
call    == <<app, draining, after, verdict>>

NoTask == [at |-> "unused", stop |-> FALSE, first |-> FALSE, found |-> "error"]

Live(k) == task[k].at \notin {"unused", "done"}

Init ==
    /\ holder \in {"none", "other"}
    /\ silent = FALSE
    /\ names \in BOOLEAN
    /\ control = "Released"
    /\ mutex = "free"
    /\ slot = "none"
    /\ task = [k \in Tasks |-> NoTask]
    /\ app = "new"
    /\ draining = "none"
    /\ after = "idle"
    /\ verdict = "none"

-----------------------------------------------------------------------------
(* The camera. *)

\* A command of ours arrives: it is what the heartbeat timeout waits for.
Heard == silent' = IF holder = "us" THEN FALSE ELSE silent

\* CCP <- control: taken from the application that holds it or when nobody does.
Grantable == holder \in {"none", "us"}

\* ping_control_channel: CCP without control bits, or a primary application that
\* is named and is not us.
Ping == IF holder = "none" \/ (names /\ holder = "other") THEN "notHeld" ELSE "held"

TimePasses ==
    /\ holder = "us" /\ ~silent
    /\ silent' = TRUE
    /\ UNCHANGED <<holder, names, session, call>>

HeartbeatExpires ==
    /\ holder = "us" /\ silent
    /\ holder' = "none"
    /\ silent' = FALSE
    /\ UNCHANGED <<names, session, call>>

OtherClaims ==
    /\ holder = "none"
    /\ holder' = "other"
    /\ UNCHANGED <<silent, names, session, call>>

OtherReleases ==
    /\ holder = "other"
    /\ holder' = "none"
    /\ UNCHANGED <<silent, names, session, call>>

-----------------------------------------------------------------------------
(* The keepalive task, and the handle the session has on it. *)

\* Mutated form: a running task is not looked for.
StartAlways ==
    \E k \in Tasks : ~Live(k) /\ k # slot /\ slot' = k
        /\ task' = [task EXCEPT ![k] = [NoTask EXCEPT !.at = "want", !.first = TRUE]]

\* start_keepalive: unless the task of the slot is still running.
StartKeepalive ==
    \/ slot # "none" /\ task[slot].at # "done" /\ UNCHANGED <<slot, task>>
    \/ /\ slot # "none" => task[slot].at = "done"
       /\ \E k \in Tasks :
             /\ ~Live(k)
             /\ slot' = k
             /\ task' = [task EXCEPT ![k] = [NoTask EXCEPT !.at = "want", !.first = TRUE]]

\* Take the slot's task, tell it to stop and wait for its end (drain_keepalive).
StopKeepalive(next) ==
    /\ slot' = "none"
    /\ draining' = slot
    /\ task' = IF slot = "none" THEN task ELSE [task EXCEPT ![slot].stop = TRUE]
    /\ app' = "drain"
    /\ after' = next

TaskTick(k) ==
    /\ task[k].at = "tick"
    /\ task' = [task EXCEPT ![k].at = IF task[k].stop THEN "done" ELSE "want"]
    /\ UNCHANGED <<camera, control, mutex, slot, call>>

\* The blocking pool gets the device mutex, and looks for the stop once more.
TaskLock(k) ==
    /\ task[k].at = "want"
    /\ mutex = "free"
    /\ IF task[k].stop
       THEN task' = [task EXCEPT ![k].at = "done"] /\ UNCHANGED mutex
       ELSE task' = [task EXCEPT ![k].at = "ping"] /\ mutex' = k
    /\ UNCHANGED <<camera, control, slot, call>>

\* The exchange, cancelled by a stop, answered or not; the mutex is released.
TaskPing(k) ==
    /\ task[k].at = "ping"
    /\ \/ ~task[k].stop /\ Heard /\ task' = [task EXCEPT ![k].at = "answer", ![k].found = Ping]
       \/ silent' \in {silent, FALSE} /\ task' = [task EXCEPT ![k].at = "answer", ![k].found = "error"]
    /\ mutex' = "free"
    /\ UNCHANGED <<holder, names, control, slot, call>>

\* The first exchange only reads the heartbeat timeout.  Privilege that is gone is
\* reported, and the task leaves: it counts as running until it has.
TaskAnswer(k) ==
    /\ task[k].at = "answer"
    /\ LET lost == ~task[k].stop /\ ~task[k].first /\ task[k].found = "notHeld"
       IN  /\ task' = [task EXCEPT ![k].at = IF task[k].stop THEN "done" ELSE IF lost THEN "leaving" ELSE "tick",
                                   ![k].first = FALSE, ![k].found = "error"]
           /\ control' = IF lost /\ control = "Held" THEN "Lost" ELSE control
    /\ UNCHANGED <<camera, mutex, slot, call>>

TaskLeave(k) ==
    /\ task[k].at = "leaving"
    /\ task' = [task EXCEPT ![k].at = "done"]
    /\ UNCHANGED <<camera, control, mutex, slot, call>>

\* The end of a drained task.
Drained ==
    /\ app = "drain"
    /\ draining # "none" => task[draining].at = "done"
    /\ draining' = "none"
    /\ app' = after
    /\ after' = "idle"
    /\ UNCHANGED <<camera, session, verdict>>

-----------------------------------------------------------------------------
(* Connecting: connect_here and OpeningGigeDevice. *)

\* The claim is acknowledged, refused, or not answered; a connection that has not
\* been refused releases on its way out.
ConnectClaim ==
    /\ app = "new"
    /\ \/ Grantable /\ holder' = "us" /\ silent' = FALSE /\ app' \in {"fetch", "giveUp"}
       \/ ~Grantable /\ app' = "gone" /\ UNCHANGED <<holder, silent>>
       \/ app' = "giveUp" /\ UNCHANGED <<holder, silent>>
    /\ UNCHANGED <<names, session, draining, after, verdict>>

ConnectMonitor ==
    /\ app = "new"
    /\ control' = "Monitor"
    /\ app' = "idle"
    /\ UNCHANGED <<camera, mutex, slot, task, draining, after, verdict>>

\* The XML is here, or could not be read; either way the session exists now and
\* releases when it is dropped.
ConnectDone ==
    /\ app = "fetch"
    /\ Heard
    /\ control' = "Held"
    /\ StartKeepalive
    /\ app' \in {"idle", "dropping"}
    /\ UNCHANGED <<holder, names, mutex, draining, after, verdict>>

\* The connecting future is dropped by its caller.
ConnectCancelled ==
    /\ app = "fetch"
    /\ app' = "giveUp"
    /\ UNCHANGED <<camera, session, draining, after, verdict>>

\* CCP <- 0 sent once, without waiting: it may be lost.
GiveUp ==
    /\ app = "giveUp"
    /\ app' = "gone"
    /\ holder' \in IF holder = "us" THEN {"us", "none"} ELSE {holder}
    /\ silent' = IF holder' = "us" THEN silent ELSE FALSE
    /\ UNCHANGED <<names, session, draining, after, verdict>>

-----------------------------------------------------------------------------
(* The application's calls. *)

\* Take the device mutex, on the way to `step`.
Lock(from, step) ==
    /\ app = from
    /\ mutex = "free"
    /\ mutex' = "app"
    /\ app' = step
    /\ UNCHANGED <<camera, control, slot, task, draining, after, verdict>>

Begin(first) ==
    /\ app = "idle"
    /\ app' = first
    /\ verdict' = "none"
    /\ UNCHANGED <<camera, session, draining, after>>

\* The claim of reclaim_control and open_stream; it fails and changes nothing
\* while another application holds control, or without an answer.
ClaimRefused ==
    /\ app \in {"reclaimClaim", "openClaim"}
    /\ \/ ~Grantable /\ UNCHANGED <<holder, silent>>
       \/ Grantable /\ holder' \in {holder, "us"} /\ silent' = IF holder' = "us" THEN FALSE ELSE silent
    /\ mutex' = "free"
    /\ app' = "idle"
    /\ UNCHANGED <<names, control, slot, task, draining, after, verdict>>

Claimed(from, step) ==
    /\ app = from
    /\ Grantable
    /\ holder' = "us" /\ silent' = FALSE
    /\ app' = step
    /\ UNCHANGED <<names, draining, after, verdict>>

\* reclaim_control: the mutex is released, then the state set, then the keepalive.
ReclaimClaim == Claimed("reclaimClaim", "reclaimHeld") /\ mutex' = "free" /\ UNCHANGED <<control, slot, task>>

ReclaimHeld ==
    /\ app = "reclaimHeld"
    /\ control' = "Held"
    /\ app' = "reclaimStart"
    /\ UNCHANGED <<camera, mutex, slot, task, draining, after, verdict>>

ReclaimStart ==
    /\ app = "reclaimStart"
    /\ StartKeepalive
    /\ app' = "idle"
    /\ UNCHANGED <<camera, control, mutex, draining, after, verdict>>

\* open_stream holds the mutex for the whole setup.
BeginOpen == Begin("openLock") /\ control # "Monitor"

OpenClaim == Claimed("openClaim", "openNote") /\ UNCHANGED session

\* note_claimed: a session that had lost or released control has it again.
OpenNote ==
    /\ app = "openNote"
    /\ \/ control \in {"Lost", "Released"} /\ control' = "Held" /\ app' = "openStart"
       \/ control = "Held" /\ app' = "openSetup" /\ UNCHANGED control
    /\ UNCHANGED <<camera, mutex, slot, task, draining, after, verdict>>

OpenStart ==
    /\ app = "openStart"
    /\ StartKeepalive
    /\ app' = "openSetup"
    /\ UNCHANGED <<camera, control, mutex, draining, after, verdict>>

\* The rest of the setup, whether it succeeds or not.
OpenSetup ==
    /\ app = "openSetup"
    /\ silent' \in {silent, FALSE}
    /\ mutex' = "free"
    /\ app' = "idle"
    /\ UNCHANGED <<holder, names, control, slot, task, draining, after, verdict>>

\* Mutated form: the keepalive is drained while the mutex is held.
RefreshPingDrainsLocked ==
    /\ app = "refreshPing"
    /\ \/ control # "Held" /\ app' = "idle" /\ mutex' = "free"
          /\ UNCHANGED <<silent, control, slot, task, draining, after>>
       \/ /\ control = "Held" /\ Heard
          /\ \/ Ping = "held" /\ app' = "idle" /\ mutex' = "free"
                /\ UNCHANGED <<control, slot, task, draining, after>>
             \/ Ping = "notHeld" /\ control' = "Lost" /\ StopKeepalive("idle") /\ UNCHANGED mutex
    /\ UNCHANGED <<holder, names, verdict>>

\* refresh_control_state: only an owned session asks; what the read finds is acted
\* on under the mutex, and the keepalive drained after it.
RefreshPing ==
    /\ app = "refreshPing"
    /\ mutex' = "free"
    /\ \/ control # "Held" /\ app' = "idle" /\ UNCHANGED <<silent, control, slot, task, draining, after>>
       \/ control = "Held" /\ app' = "idle" /\ UNCHANGED <<silent, control, slot, task, draining, after>>
       \/ /\ control = "Held" /\ Heard
          /\ \/ Ping = "held" /\ app' = "idle" /\ UNCHANGED <<control, slot, task, draining, after>>
             \/ /\ Ping = "notHeld" \/ holder = "other"       \* ACCESS_DENIED counts as lost
                /\ control' = "Lost" /\ StopKeepalive("idle")
    /\ UNCHANGED <<holder, names, verdict>>

\* release_control: a monitor's does nothing; any other session's stops the
\* keepalive first.
BeginRelease ==
    /\ app = "idle"
    /\ control # "Monitor"
    /\ StopKeepalive("releaseLock")
    /\ UNCHANGED <<camera, control, mutex, verdict>>

\* CCP <- 0: acknowledged, refused, or unanswered and carried out or not.
ReleaseWrite ==
    /\ app = "releaseWrite"
    /\ \/ holder # "other" /\ holder' = "none" /\ app' \in {"released", "notReleased"}
       \/ app' = "notReleased" /\ UNCHANGED holder
    /\ silent' = IF holder' = "us" THEN silent ELSE FALSE
    /\ mutex' = "free"
    /\ UNCHANGED <<names, control, slot, task, draining, after, verdict>>

ReleaseDone ==
    /\ \/ app = "released" /\ control' = "Released" /\ UNCHANGED <<slot, task>>
       \/ app = "notReleased" /\ control = "Held" /\ StartKeepalive /\ UNCHANGED control
       \/ app = "notReleased" /\ control # "Held" /\ UNCHANGED <<control, slot, task>>
    /\ app' = "idle"
    /\ UNCHANGED <<camera, mutex, draining, after, verdict>>

\* write: the state is looked at before the mutex is taken.
BeginWrite == Begin("writeLock") /\ control = "Held"

EndWrite(v) == app' = "idle" /\ mutex' = "free" /\ verdict' = v

Write ==
    /\ app = "writeWrite"
    /\ \/ holder = "us" /\ Heard /\ EndWrite("none")                      \* written
       \/ UNCHANGED silent /\ EndWrite("none")                            \* no answer
       \/ /\ Heard                                                        \* ACCESS_DENIED
          /\ \/ control = "Held" /\ app' = "checkPing" /\ UNCHANGED <<mutex, verdict>>
             \/ control # "Held" /\ EndWrite("none")
    /\ UNCHANGED <<holder, names, control, slot, task, draining, after>>

\* Mutated form: a controlled CCP is taken for ours.
NeedsClaimNever == FALSE

\* Where the camera does not name its primary application, CCP alone is not enough.
NeedsClaim == ~names

\* check_refusal and holds_control.
CheckPing ==
    /\ app = "checkPing"
    /\ Heard
    /\ \/ UNCHANGED control /\ EndWrite("unknown")
       \/ Ping = "notHeld" /\ control' = "Lost" /\ EndWrite("lost")
       \/ Ping = "held" /\ ~NeedsClaim /\ UNCHANGED control /\ EndWrite("held")
       \/ Ping = "held" /\ NeedsClaim /\ app' = "checkClaim" /\ UNCHANGED <<control, mutex, verdict>>
    /\ UNCHANGED <<holder, names, slot, task, draining, after>>

CheckClaim ==
    /\ app = "checkClaim"
    /\ \/ Grantable /\ holder' = "us" /\ silent' = FALSE /\ UNCHANGED control /\ EndWrite("held")
       \/ ~Grantable /\ control' = "Lost" /\ EndWrite("lost") /\ UNCHANGED <<holder, silent>>
       \/ EndWrite("unknown") /\ UNCHANGED <<holder, silent, control>>
    /\ UNCHANGED <<names, slot, task, draining, after>>

\* Drop: whether control is held is looked at before the keepalive is drained.
BeginDrop == Begin("dropping")

\* Mutated form: the keepalive is not stopped.
DropForgetsTask ==
    /\ app = "dropping"
    /\ app' = IF control = "Held" THEN "dropLock" ELSE "gone"
    /\ UNCHANGED <<camera, session, draining, after, verdict>>

Drop ==
    /\ app = "dropping"
    /\ StopKeepalive(IF control = "Held" THEN "dropLock" ELSE "gone")
    /\ UNCHANGED <<camera, control, mutex, verdict>>

DropRelease ==
    /\ app = "dropRelease"
    /\ holder' \in IF holder = "us" THEN {"us", "none"} ELSE {holder}
    /\ silent' = IF holder' = "us" THEN silent ELSE FALSE
    /\ mutex' = "free"
    /\ app' = "gone"
    /\ UNCHANGED <<names, control, slot, task, draining, after, verdict>>

\* The process is killed.
Crash ==
    /\ app \notin {"gone", "crashed"}
    /\ app' = "crashed"
    /\ task' = [k \in Tasks |-> NoTask] /\ slot' = "none" /\ draining' = "none" /\ mutex' = "free"
    /\ UNCHANGED <<camera, control, after, verdict>>

-----------------------------------------------------------------------------
Camera == TimePasses \/ HeartbeatExpires \/ OtherClaims \/ OtherReleases

Task(k) == TaskTick(k) \/ TaskLock(k) \/ TaskPing(k) \/ TaskAnswer(k) \/ TaskLeave(k)

Locks ==
    \/ Lock("reclaimLock", "reclaimClaim") \/ Lock("openLock", "openClaim")
    \/ Lock("refreshLock", "refreshPing") \/ Lock("releaseLock", "releaseWrite")
    \/ Lock("writeLock", "writeWrite") \/ Lock("dropLock", "dropRelease")

\* The rest of a call that has begun.
Continue ==
    \/ Locks \/ ClaimRefused \/ ReclaimClaim \/ ReclaimHeld \/ ReclaimStart
    \/ OpenClaim \/ OpenNote \/ OpenStart \/ OpenSetup
    \/ RefreshPing \/ ReleaseWrite \/ ReleaseDone \/ Write \/ CheckPing \/ CheckClaim
    \/ Drop \/ DropRelease \/ Drained

Calls == Begin("reclaimLock") \/ Begin("refreshLock") \/ BeginOpen \/ BeginRelease \/ BeginWrite \/ BeginDrop

Connect == ConnectClaim \/ ConnectMonitor \/ ConnectDone \/ ConnectCancelled \/ GiveUp

Next ==
    \/ Camera \/ Connect \/ Calls \/ Continue \/ Crash
    \/ \E k \in Tasks : Task(k)

Spec == Init /\ [][Next]_vars

\* The runtime runs the tasks and a thread that is in a call goes on with it; an
\* exchange ends, with an answer or without one; the camera's timer runs.  A mutex
\* that is free again and again is obtained in the end.
FairSpec ==
    /\ Spec
    /\ WF_vars(Continue) /\ SF_vars(Locks)
    /\ \A k \in Tasks : WF_vars(Task(k)) /\ SF_vars(TaskLock(k))
    /\ WF_vars(TimePasses) /\ WF_vars(HeartbeatExpires)

-----------------------------------------------------------------------------
(* Properties. *)

\* At most one keepalive goes on pinging, and the session has its handle: no call
\* starts a second one or loses the first.  One that released control or only
\* monitors has none: nothing of it keeps the camera from another application.
OneKeepalive ==
    /\ \A k \in Tasks : Live(k) /\ ~task[k].stop => k = slot
    /\ app \in {"idle", "gone"} /\ control \in {"Released", "Monitor"} => \A k \in Tasks : ~Live(k)

\* A write refused with ACCESS_DENIED that leaves the session Held, its check
\* answered, left it holding control: also on a camera that does not say whose it is.
RefusalSettled ==
    [][verdict' = "held" /\ app' = "idle" /\ app \in {"checkPing", "checkClaim"} => holder' = "us"]_vars

\* Every call returns: no call waits for a keepalive that waits for its mutex.
CallReturns ==
    (app \notin {"idle", "new", "fetch", "giveUp"}) ~> (app \in {"idle", "gone", "crashed"})

\* However a session ends (dropped, cancelled, failed while connecting, killed, its
\* release lost) the camera does not stay ours.
CameraFreed == (app \in {"gone", "crashed"}) ~> (holder # "us")
=============================================================================
