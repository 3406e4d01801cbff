-------------------------- MODULE GvcpTransaction --------------------------
(***************************************************************************)
(* A register access over the GVCP control channel: `GigeDevice` of         *)
(* viva-gige's gvcp.rs.  A single-register access goes out as READREG or    *)
(* WRITEREG ("reg") and falls back to READMEM or WRITEMEM ("mem"); each is  *)
(* a transaction that is sent again under the same request id until it is   *)
(* answered or its attempts are used up, while probes under ids of their    *)
(* own keep the control channel alive.                                      *)
(*                                                                          *)
(* Datagrams are lost, delayed, reordered and answered twice; the device    *)
(* may be slow (PENDING_ACK), busy, silent or unable to do "reg".  Ids are  *)
(* drawn in order, and `no` counts the draws: it tells apart two uses of    *)
(* one id, which the code cannot.                                           *)
(***************************************************************************)
EXTENDS Naturals, FiniteSets

CONSTANTS
    MaxId,              \* request ids run 1..MaxId: 65535 in the code
    MAX_RETRIES,        \* sends of one transaction, the first included
    MAX_PENDING_ACKS,
    CONTROL_TIMEOUT,    \* ticks of one attempt without PENDING_ACK
    MAX_PENDING_ACK_WAIT,
    MaxDrawn            \* model bound: the ids a behaviour draws

ASSUME GvcpAssumption ==
    /\ MaxId \in Nat /\ MaxId >= 2
    /\ MAX_RETRIES \in Nat \ {0} /\ MAX_PENDING_ACKS \in Nat
    /\ CONTROL_TIMEOUT \in Nat /\ MAX_PENDING_ACK_WAIT \in Nat
    /\ CONTROL_TIMEOUT <= MAX_PENDING_ACK_WAIT
    /\ MaxDrawn \in Nat

VARIABLES
    request_id,          \* the id the next command gets
    memory_access_only,
    pc,                  \* "idle", "send" or "recv"
    op,                  \* the transaction: "reg" or "mem"
    fallback,            \* why it is "mem": "none", "refused" or "noReply"
    cmd,                 \* its request id, and the draw it came from
    attempt,
    pending_seen,
    tolerate_icmp,
    left,                \* ticks to the deadline of the wait
    commands, acks,      \* the datagrams on the network
    answers_reg,         \* the device implements READREG and WRITEREG
    drawn,               \* history: ids drawn
    proved,              \* history: the device refused "reg", or answered "mem"
    result               \* history: how the last access ended, and whether the answer was its own

request == <<pc, op, fallback, cmd>>
waiting == <<attempt, pending_seen, tolerate_icmp, left>>
network == <<commands, acks, answers_reg, proved>>
vars == <<request_id, memory_access_only, request, waiting, network, drawn, result>>

NoCommand == [id |-> 0, no |-> 0]

Init ==
    /\ request_id = 1 /\ drawn = 0
    /\ memory_access_only = FALSE
    /\ pc = "idle" /\ op = "none" /\ fallback = "none" /\ cmd = NoCommand
    /\ attempt = 0 /\ pending_seen = 0 /\ tolerate_icmp = FALSE /\ left = 0
    /\ commands = {} /\ acks = {} /\ answers_reg \in BOOLEAN /\ proved = FALSE
    /\ result = [is |-> "none", ours |-> TRUE]

-----------------------------------------------------------------------------
(* Request ids. *)

\* The id after `id`: 0 is not an id.
Succ(id) == IF id = MaxId THEN 1 ELSE id + 1

\* An answer older than a full turn of the ids is gone, the awaited one's aside.
Lives(m, now) == m.no = cmd'.no \/ now - m.no < MaxId

\* next_request_id: `id` is handed out with the draw `no`, and what it would be
\* confused with has left the network.
Draw(id, no) ==
    /\ no <= MaxDrawn
    /\ request_id' = Succ(id)
    /\ drawn' = no
    /\ acks' = {m \in acks : Lives(m, no)}

-----------------------------------------------------------------------------
(* A transaction: transact_with_retry. *)

NoWait ==
    /\ attempt' = 0 /\ pending_seen' = 0 /\ tolerate_icmp' = FALSE /\ left' = 0

Start(o, why) ==
    /\ cmd' = [id |-> request_id, no |-> drawn + 1]
    /\ Draw(request_id, drawn + 1)
    /\ commands' = {m \in commands : Lives(m, drawn')}
    /\ pc' = "send" /\ op' = o /\ fallback' = why
    /\ NoWait
    /\ UNCHANGED <<answers_reg, proved>>

\* read_register_or_mem and write_register_or_mem; what is not a single register
\* goes to memory at once.
Access(single) ==
    /\ pc = "idle"
    /\ drawn + 2 <= MaxDrawn        \* room for the fallback
    /\ Start(IF single /\ ~memory_access_only THEN "reg" ELSE "mem", "none")
    /\ result' = [is |-> "none", ours |-> TRUE]
    /\ UNCHANGED memory_access_only

\* The access ends, with the answer to draw `from` or with none.
Return(is, from) ==
    /\ pc' = "idle" /\ op' = "none" /\ fallback' = "none" /\ cmd' = NoCommand
    /\ NoWait
    /\ result' = [is |-> is, ours |-> from = cmd.no]
    /\ UNCHANGED <<request_id, drawn>>

\* Mutated form: silence latches memory access before it is known to work.
GaveUpLatching ==
    \/ /\ op = "reg" /\ Start("mem", "noReply") /\ memory_access_only' = TRUE /\ UNCHANGED result
    \/ op = "mem" /\ Return("timeout", 0) /\ UNCHANGED <<memory_access_only, network>>

\* The transaction got no answer: silence is tried as "mem".
GaveUp ==
    \/ op = "reg" /\ Start("mem", "noReply") /\ UNCHANGED <<memory_access_only, result>>
    \/ op = "mem" /\ Return("timeout", 0) /\ UNCHANGED <<memory_access_only, network>>

\* Send again, unless the attempts are used up.
Retry ==
    /\ attempt < MAX_RETRIES
    /\ pc' = "send"
    /\ UNCHANGED <<request_id, memory_access_only, op, fallback, cmd, attempt, pending_seen, tolerate_icmp,
                   left, drawn, result>>

Send ==
    /\ pc = "send"
    /\ commands' = commands \cup {[id |-> cmd.id, no |-> cmd.no, op |-> op]}
    /\ pc' = "recv"
    /\ attempt' = attempt + 1
    /\ pending_seen' = 0 /\ tolerate_icmp' = FALSE /\ left' = CONTROL_TIMEOUT
    /\ UNCHANGED <<request_id, memory_access_only, op, fallback, cmd, acks, answers_reg, proved, drawn,
                   result>>

\* The socket refuses; that counts as an attempt, and the last one's error is returned.
SendFails ==
    /\ pc = "send"
    /\ IF attempt + 1 < MAX_RETRIES
       THEN /\ attempt' = attempt + 1
            /\ UNCHANGED <<request_id, request, pending_seen, tolerate_icmp, left, drawn, result>>
       ELSE Return("io", 0)
    /\ UNCHANGED <<memory_access_only, network>>

\* The caller's future is dropped: a stopped keepalive, a release that takes too long.
Cancel ==
    /\ pc # "idle"
    /\ Return("cancelled", 0)
    /\ UNCHANGED <<memory_access_only, network>>

-----------------------------------------------------------------------------
(* The wait for an answer: recv_for_request and recv_absorbing_pending. *)

Tick ==
    /\ pc = "recv" /\ left > 0
    /\ left' = left - 1
    /\ UNCHANGED <<request_id, memory_access_only, request, attempt, pending_seen, tolerate_icmp,
                   network, drawn, result>>

TimedOut ==
    \/ Retry /\ UNCHANGED network
    \/ attempt >= MAX_RETRIES /\ GaveUp

Deadline == pc = "recv" /\ left = 0 /\ TimedOut

\* An answer to another id: a probe's, or a late one.
Drain ==
    /\ pc = "recv"
    /\ \E a \in acks : a.id # cmd.id /\ acks' = acks \ {a}
    /\ UNCHANGED <<request_id, memory_access_only, request, waiting, commands, answers_reg, proved, drawn, result>>

Received(a) == pc = "recv" /\ a \in acks /\ a.id = cmd.id

\* Mutated form: requests for more time are granted without limit.
RecvPendingForever ==
    \E a \in acks :
        /\ Received(a) /\ a.status = "pending"
        /\ acks' = acks \ {a}
        /\ tolerate_icmp' = TRUE /\ left' = CONTROL_TIMEOUT
        /\ UNCHANGED <<request_id, memory_access_only, request, attempt, pending_seen, commands,
                       answers_reg, proved, drawn, result>>

\* More time for the same attempt, a limited number of times.
RecvPending ==
    \E a \in acks :
        /\ Received(a) /\ a.status = "pending"
        /\ \/ /\ pending_seen < MAX_PENDING_ACKS
              /\ acks' = acks \ {a}
              /\ pending_seen' = pending_seen + 1
              /\ tolerate_icmp' = TRUE
              /\ left' \in CONTROL_TIMEOUT..MAX_PENDING_ACK_WAIT
              /\ UNCHANGED <<request_id, memory_access_only, request, attempt, commands,
                             answers_reg, proved, drawn, result>>
           \/ pending_seen = MAX_PENDING_ACKS /\ TimedOut

\* The answer, from a device that may refuse ("denied" stands for every status
\* and every malformed answer that is final).  BUSY is tried again; "reg" refused
\* as not implemented latches memory access, and so does "mem" answered after
\* silence.
RecvAnswer ==
    \E a \in acks :
        /\ Received(a) /\ a.status # "pending"
        /\ \/ /\ a.status = "ok"
              /\ Return("ok", a.no) /\ UNCHANGED network
              /\ memory_access_only' = (memory_access_only \/ fallback = "noReply")
           \/ /\ a.status = "busy" /\ Retry
              /\ acks' = acks \ {a} /\ UNCHANGED <<commands, answers_reg, proved>>
           \/ /\ a.status = "notImplemented" /\ op = "reg"
              /\ Start("mem", "refused") /\ memory_access_only' = TRUE /\ UNCHANGED result
           \/ /\ a.status = "denied" \/ (a.status = "busy" /\ attempt >= MAX_RETRIES)
              /\ Return("refused", a.no) /\ UNCHANGED <<memory_access_only, network>>

\* The socket reports an error: one that ICMP brought is ignored once it may not be
\* this command's, or the device has the command.
RecvError ==
    /\ pc = "recv"
    /\ \E why \in {"icmp", "socket"} :
          /\ ~(why = "icmp" /\ tolerate_icmp)
          /\ \/ Retry /\ UNCHANGED network
             \/ attempt >= MAX_RETRIES /\ Return("io", 0) /\ UNCHANGED <<memory_access_only, network>>

\* Mutated form: the probe takes the next id, whatever it is.
ProbeAnyId ==
    /\ pc = "recv"
    /\ drawn + 2 < MaxDrawn
    /\ tolerate_icmp' = TRUE
    /\ cmd' = cmd
    /\ Draw(request_id, drawn + 1)
    /\ commands' = {m \in commands : Lives(m, drawn')} \cup {[id |-> request_id, no |-> drawn + 1, op |-> "reg"]}
    /\ UNCHANGED <<memory_access_only, pc, op, fallback, attempt, pending_seen, left,
                   answers_reg, proved, result>>

\* send_inflight_keepalive: a read of CCP under an id that is not the command's; one
\* that cannot be sent is let be.
Probe ==
    /\ pc = "recv"
    /\ drawn + 2 < MaxDrawn         \* room for a skipped id and for the fallback
    /\ tolerate_icmp' = TRUE
    /\ cmd' = cmd
    /\ LET clash == request_id = cmd.id
           id == IF clash THEN Succ(request_id) ELSE request_id
           no == IF clash THEN drawn + 2 ELSE drawn + 1
           probe == [id |-> id, no |-> no, op |-> IF memory_access_only THEN "mem" ELSE "reg"]
       IN  /\ Draw(id, no)
           /\ \E sent \in {{}, {probe}} : commands' = {m \in commands : Lives(m, no)} \cup sent
    /\ UNCHANGED <<memory_access_only, pc, op, fallback, attempt, pending_seen, left,
                   answers_reg, proved, result>>

-----------------------------------------------------------------------------
(* The device. *)

Answer(m, status) == [id |-> m.id, no |-> m.no, status |-> status]

\* A command arrives and is answered, or is lost, or its answer is.
DeviceAnswers ==
    \E m \in commands, status \in {"ok", "busy", "denied", "notImplemented", "silent"} :
        /\ m.op = "reg" /\ ~answers_reg => status \in {"notImplemented", "silent"}
        /\ m.op = "mem" \/ answers_reg => status # "notImplemented"
        /\ commands' = commands \ {m}
        /\ acks' = IF status = "silent" THEN acks ELSE acks \cup {Answer(m, status)}
        /\ proved' = (proved \/ status = "notImplemented" \/ (m.op = "mem" /\ status = "ok"))
    /\ UNCHANGED <<request_id, memory_access_only, request, waiting, answers_reg, drawn, result>>

\* A command takes long and the device says so.
DevicePends ==
    /\ \E m \in commands :
          /\ m.op = "mem" \/ answers_reg
          /\ acks' = acks \cup {Answer(m, "pending")}
    /\ UNCHANGED <<request_id, memory_access_only, request, waiting, commands, answers_reg, proved, drawn, result>>

-----------------------------------------------------------------------------
Client == Send \/ SendFails \/ Tick \/ Deadline \/ Drain \/ RecvPending \/ RecvAnswer \/ RecvError

Next ==
    \/ \E single \in BOOLEAN : Access(single)
    \/ Client \/ Cancel \/ Probe
    \/ DeviceAnswers \/ DevicePends

Spec == Init /\ [][Next]_vars

\* The runtime polls the transaction, time passes, and a poll that finds both a
\* datagram and the deadline ready takes either (`select!` is not biased), so a
\* passed deadline is not passed over for ever.  Nothing is assumed of the device
\* or of the network.
FairSpec == Spec /\ WF_vars(Client) /\ WF_vars(Tick) /\ WF_vars(Deadline)

-----------------------------------------------------------------------------
(* Properties. *)

\* What an access returns, a value or the device's refusal, is the answer to the
\* command it sent: not a probe's, not an earlier command's that came late or was
\* given up, also when the ids have wrapped in the meantime.
AnswerIsOurs == result.is \in {"ok", "refused"} => result.ours

\* Only a refusal of "reg", or "mem" that worked, switches a session to memory
\* access: silence alone (a pulled cable) does not cost it READREG.
LatchEarned == memory_access_only => proved

\* Every access returns, whatever the device and the network do.
AccessReturns == (pc # "idle") ~> (pc = "idle")
=============================================================================
