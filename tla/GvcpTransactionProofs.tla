------------------------ MODULE GvcpTransactionProofs ------------------------
(***************************************************************************)
(* Proofs about the GVCP control channel, for every number of request ids,  *)
(* attempts and PENDING_ACKs: an access is answered by its own answer       *)
(* although ids wrap, and silence never costs a session READREG.            *)
(***************************************************************************)
EXTENDS GvcpTransaction, TLAPS

Statuses == {"ok", "busy", "denied", "notImplemented", "pending"}

Command == [id : 1..MaxId, no : Nat, op : {"reg", "mem"}]
Ack     == [id : 1..MaxId, no : Nat, status : Statuses]

TypeInv ==
    /\ request_id \in 1..MaxId /\ drawn \in Nat
    /\ memory_access_only \in BOOLEAN /\ proved \in BOOLEAN
    /\ answers_reg \in BOOLEAN /\ tolerate_icmp \in BOOLEAN
    /\ pc \in {"idle", "send", "recv"}
    /\ op \in {"none", "reg", "mem"} /\ (pc # "idle" => op # "none")
    /\ fallback \in {"none", "refused", "noReply"}
    /\ cmd \in [id : 0..MaxId, no : Nat] /\ (pc # "idle" => cmd.id # 0)
    /\ attempt \in Nat /\ pending_seen \in Nat /\ left \in Nat
    /\ commands \subseteq Command /\ acks \subseteq Ack
    /\ result \in [is : {"none", "ok", "refused", "timeout", "io", "cancelled"}, ours : BOOLEAN]

\* The id of draw `no`, counted back from the id that comes next.
IdOf(no) ==
    LET back == drawn + 1 - no
    IN  IF request_id > back THEN request_id - back ELSE request_id - back + MaxId

\* No more than a turn of the ids ago.
Recent(no) == drawn - no < MaxId

\* A recent draw is told by its id.
Told(m) == m.no \in 1..drawn /\ (Recent(m.no) => m.id = IdOf(m.no))

\* What the datagrams' ids say: a recent one has the id of its draw; during a
\* transaction an older one is the transaction's own, and no other has its id.
IdsTell ==
    /\ \A m \in commands \cup acks :
          /\ Told(m)
          /\ pc # "idle" => /\ m.no = cmd.no \/ Recent(m.no)
                            /\ m.id = cmd.id => m.no = cmd.no
    /\ pc # "idle" => Told(cmd)

\* What is known of "mem" follows from what is on the network.
ProofOnTheWay ==
    /\ \A m \in commands : pc # "idle" /\ m.no = cmd.no => m.op = op
    /\ \A a \in acks : a.status = "notImplemented" => proved
    /\ \A a \in acks : pc # "idle" /\ a.no = cmd.no /\ a.status = "ok" /\ op = "mem" => proved
    /\ fallback = "noReply" => op = "mem"

IInv == TypeInv /\ IdsTell /\ ProofOnTheWay /\ AnswerIsOurs /\ LatchEarned

-----------------------------------------------------------------------------
(* Types. *)

\* A draw keeps ids in their range, and forgets datagrams only.
LEMMA DrawTypes ==
    ASSUME TypeInv, NEW id \in 1..MaxId, NEW no \in Nat, Draw(id, no)
    PROVE  /\ request_id' \in 1..MaxId /\ drawn' \in Nat
           /\ acks' \subseteq Ack
  BY GvcpAssumption DEF TypeInv, Draw, Succ

\* Starting a transaction keeps what it sets in its type.
LEMMA StartTypes ==
    ASSUME TypeInv, NEW o \in {"reg", "mem"}, NEW why \in {"none", "refused", "noReply"}, Start(o, why),
           memory_access_only' \in BOOLEAN,
           result' \in [is : {"none", "ok", "refused", "timeout", "io", "cancelled"}, ours : BOOLEAN]
    PROVE  TypeInv'
  <1>1. request_id' \in 1..MaxId /\ drawn' \in Nat /\ acks' \subseteq Ack
    BY DrawTypes DEF TypeInv, Start
  <1>2. cmd' \in [id : 0..MaxId, no : Nat] /\ cmd'.id # 0
    BY GvcpAssumption DEF TypeInv, Start
  <1>. QED  BY <1>1, <1>2 DEF TypeInv, Start, NoWait

\* Ending an access does too.
LEMMA ReturnTypes ==
    ASSUME TypeInv, NEW is \in {"ok", "refused", "timeout", "io", "cancelled"}, NEW from \in Nat,
           Return(is, from), UNCHANGED network, memory_access_only' \in BOOLEAN
    PROVE  TypeInv'
  <1>1. result' \in [is : {"none", "ok", "refused", "timeout", "io", "cancelled"}, ours : BOOLEAN]
    BY DEF Return
  <1>2. attempt' \in Nat /\ pending_seen' \in Nat /\ left' \in Nat /\ cmd' \in [id : 0..MaxId, no : Nat]
    BY GvcpAssumption DEF Return, NoWait, NoCommand
  <1>3. tolerate_icmp' \in BOOLEAN
    BY DEF Return, NoWait
  <1>. QED  BY <1>1, <1>2, <1>3 DEF TypeInv, Return, NoWait, network

\* And so does sending again.
LEMMA RetryTypes ==
    ASSUME TypeInv, Retry, pc = "recv",
           acks' \subseteq acks, UNCHANGED <<commands, answers_reg, proved>>
    PROVE  TypeInv'
  BY DEF TypeInv, Retry

LEMMA TimedOutTypes ==
    ASSUME TypeInv, pc = "recv", TimedOut
    PROVE  TypeInv'
  <1>1. CASE Retry /\ UNCHANGED network
    BY <1>1, RetryTypes DEF network
  <1>2. CASE op = "reg" /\ Start("mem", "noReply") /\ UNCHANGED <<memory_access_only, result>>
    BY <1>2, StartTypes DEF TypeInv
  <1>3. CASE op = "mem" /\ Return("timeout", 0) /\ UNCHANGED <<memory_access_only, network>>
    BY <1>3, ReturnTypes DEF TypeInv
  <1>. QED  BY <1>1, <1>2, <1>3 DEF TimedOut, GaveUp

\* The step of any action keeps every variable in its type.
LEMMA TypeStep ==
    ASSUME TypeInv, [Next]_vars
    PROVE  TypeInv'
  <1>1. ASSUME NEW single \in BOOLEAN, Access(single) PROVE TypeInv'
    BY <1>1, StartTypes DEF Access, TypeInv
  <1>2. CASE Send
    <2>1. [id |-> cmd.id, no |-> cmd.no, op |-> op] \in Command
      BY <1>2 DEF Send, TypeInv, Command
    <2>2. attempt' \in Nat /\ pending_seen' \in Nat /\ left' \in Nat
      BY <1>2, GvcpAssumption DEF Send, TypeInv
    <2>3. tolerate_icmp' \in BOOLEAN /\ commands' \subseteq Command
      BY <1>2, <2>1 DEF Send, TypeInv
    <2>. QED  BY <1>2, <2>2, <2>3 DEF Send, TypeInv
  <1>3. CASE SendFails
    BY <1>3, ReturnTypes DEF SendFails, TypeInv, request, network
  <1>4. CASE Tick
    BY <1>4 DEF Tick, TypeInv, request, network
  <1>5. CASE Deadline
    BY <1>5, TimedOutTypes DEF Deadline
  <1>6. CASE Drain
    BY <1>6 DEF Drain, TypeInv, request, waiting
  <1>7. CASE RecvPending
    <2>1. PICK a \in acks : Received(a)
              /\ \/ /\ acks' = acks \ {a} /\ pending_seen' = pending_seen + 1 /\ tolerate_icmp' = TRUE
                    /\ left' \in CONTROL_TIMEOUT..MAX_PENDING_ACK_WAIT
                    /\ UNCHANGED <<request_id, memory_access_only, request, attempt, commands,
                                   answers_reg, proved, drawn, result>>
                 \/ TimedOut
      BY <1>7 DEF RecvPending
    <2>2. CASE TimedOut
      BY <2>1, <2>2, TimedOutTypes DEF Received
    <2>3. CASE ~TimedOut
      <3>1. pending_seen' \in Nat /\ left' \in Nat
        BY <2>1, <2>3, GvcpAssumption DEF TypeInv
      <3>2. tolerate_icmp' \in BOOLEAN /\ acks' \subseteq Ack
        BY <2>1, <2>3 DEF TypeInv
      <3>. QED  BY <2>1, <2>3, <3>1, <3>2 DEF TypeInv, request
    <2>. QED  BY <2>2, <2>3
  <1>8. CASE RecvAnswer
    <2>1. PICK a \in acks : Received(a) /\
              \/ Return("ok", a.no) /\ UNCHANGED network
                   /\ memory_access_only' = (memory_access_only \/ fallback = "noReply")
              \/ Retry /\ acks' = acks \ {a} /\ UNCHANGED <<commands, answers_reg, proved>>
              \/ Start("mem", "refused") /\ memory_access_only' = TRUE /\ UNCHANGED result
              \/ Return("refused", a.no) /\ UNCHANGED <<memory_access_only, network>>
      BY <1>8 DEF RecvAnswer
    <2>2. a.no \in Nat /\ pc = "recv"
      BY <2>1 DEF TypeInv, Ack, Received
    <2>3. CASE Return("ok", a.no) /\ UNCHANGED network
                   /\ memory_access_only' = (memory_access_only \/ fallback = "noReply")
      BY <2>2, <2>3, ReturnTypes DEF TypeInv
    <2>4. CASE Retry /\ acks' = acks \ {a} /\ UNCHANGED <<commands, answers_reg, proved>>
      BY <2>2, <2>4, RetryTypes
    <2>5. CASE Start("mem", "refused") /\ memory_access_only' = TRUE /\ UNCHANGED result
      BY <2>5, StartTypes DEF TypeInv
    <2>6. CASE Return("refused", a.no) /\ UNCHANGED <<memory_access_only, network>>
      BY <2>2, <2>6, ReturnTypes DEF TypeInv
    <2>. QED  BY <2>1, <2>3, <2>4, <2>5, <2>6
  <1>9. CASE RecvError
    BY <1>9, RetryTypes, ReturnTypes DEF RecvError, TypeInv, network
  <1>10. CASE Cancel
    BY <1>10, ReturnTypes DEF Cancel, TypeInv
  <1>11. CASE Probe
    <2>1. PICK id \in 1..MaxId, no \in Nat, o \in {"reg", "mem"} :
              Draw(id, no) /\ commands' \subseteq commands \cup {[id |-> id, no |-> no, op |-> o]}
      <3>. DEFINE clash == request_id = cmd.id
                  id == IF clash THEN Succ(request_id) ELSE request_id
                  no == IF clash THEN drawn + 2 ELSE drawn + 1
                  o  == IF memory_access_only THEN "mem" ELSE "reg"
      <3>1. id \in 1..MaxId /\ no \in Nat /\ o \in {"reg", "mem"}
        BY GvcpAssumption DEF TypeInv, Succ
      <3>2. Draw(id, no) /\ commands' \subseteq commands \cup {[id |-> id, no |-> no, op |-> o]}
        BY <1>11 DEF Probe
      <3>. QED  BY <3>1, <3>2
    <2>2. request_id' \in 1..MaxId /\ drawn' \in Nat /\ acks' \subseteq Ack
      BY <2>1, DrawTypes
    <2>3. commands' \subseteq Command
      BY <2>1 DEF TypeInv, Command
    <2>. QED  BY <1>11, <2>2, <2>3 DEF Probe, TypeInv
  <1>12. CASE DeviceAnswers
    <2>1. PICK m \in commands, status \in {"ok", "busy", "denied", "notImplemented", "silent"} :
              /\ commands' = commands \ {m}
              /\ acks' = IF status = "silent" THEN acks ELSE acks \cup {Answer(m, status)}
              /\ proved' = (proved \/ status = "notImplemented" \/ (m.op = "mem" /\ status = "ok"))
      BY <1>12 DEF DeviceAnswers
    <2>2. status # "silent" => Answer(m, status) \in Ack
      BY DEF TypeInv, Command, Ack, Answer, Statuses
    <2>. QED  BY <1>12, <2>1, <2>2 DEF DeviceAnswers, TypeInv, request, waiting
  <1>13. CASE DevicePends
    <2>1. PICK m \in commands : acks' = acks \cup {Answer(m, "pending")}
      BY <1>13 DEF DevicePends
    <2>2. Answer(m, "pending") \in Ack
      BY DEF TypeInv, Command, Ack, Answer, Statuses
    <2>. QED  BY <1>13, <2>1, <2>2 DEF DevicePends, TypeInv, request, waiting
  <1>14. CASE UNCHANGED vars
    BY <1>14 DEF vars, TypeInv, request, waiting, network
  <1>. QED
    BY <1>1, <1>2, <1>3, <1>4, <1>5, <1>6, <1>7, <1>8, <1>9, <1>10, <1>11, <1>12, <1>13, <1>14
    DEF Next, Client

-----------------------------------------------------------------------------
(* Ids. *)

\* A draw moves every recent draw one back, and the id it belongs to stays.
LEMMA IdOfStep ==
    ASSUME TypeInv, NEW no \in 1..drawn, request_id' = Succ(request_id), drawn' = drawn + 1, Recent(no)'
    PROVE  Recent(no) /\ IdOf(no)' = IdOf(no) /\ IdOf(no) # request_id
  BY GvcpAssumption DEF TypeInv, Recent, IdOf, Succ

\* So do the two draws of a probe that skips the command's id.
LEMMA IdOfSkip ==
    ASSUME TypeInv, NEW no \in 1..drawn, request_id' = Succ(Succ(request_id)), drawn' = drawn + 2,
           Recent(no)'
    PROVE  Recent(no) /\ IdOf(no)' = IdOf(no)
  BY GvcpAssumption DEF TypeInv, Recent, IdOf, Succ

\* The id just drawn is the one of the newest draw.
LEMMA IdOfNewest ==
    ASSUME NEW id \in 1..MaxId, NEW no \in Nat, request_id' = Succ(id), drawn' = no
    PROVE  IdOf(no)' = id /\ Recent(no)'
  BY GvcpAssumption DEF IdOf, Succ, Recent

\* Where no id is drawn, the datagrams are old ones, answers to old ones or the
\* transaction's own, and the transaction is the same or over.
LEMMA IdsKept ==
    ASSUME TypeInv, IdsTell, UNCHANGED <<request_id, drawn>>,
           pc' # "idle" => pc # "idle" /\ cmd' = cmd,
           \A m \in commands' \cup acks' :
              \/ \E n \in commands \cup acks : m.id = n.id /\ m.no = n.no
              \/ pc # "idle" /\ m.id = cmd.id /\ m.no = cmd.no
    PROVE  IdsTell'
  <1>1. ASSUME NEW m \in commands' \cup acks'
        PROVE  /\ Told(m)'
               /\ pc' # "idle" => /\ m.no = cmd'.no \/ Recent(m.no)'
                                  /\ m.id = cmd'.id => m.no = cmd'.no
    <2>1. CASE \E n \in commands \cup acks : m.id = n.id /\ m.no = n.no
      BY <2>1 DEF IdsTell, Told, Recent, IdOf
    <2>2. CASE pc # "idle" /\ m.id = cmd.id /\ m.no = cmd.no
      BY <2>2 DEF IdsTell, Told, Recent, IdOf
    <2>. QED  BY <2>1, <2>2
  <1>2. pc' # "idle" => Told(cmd)'
    BY DEF IdsTell, Told, Recent, IdOf
  <1>. QED  BY <1>1, <1>2 DEF IdsTell

\* A transaction that starts shares its id with nothing on the network.
LEMMA IdsStart ==
    ASSUME TypeInv, IdsTell, NEW o, NEW why, Start(o, why)
    PROVE  IdsTell' /\ \A m \in commands' \cup acks' : m.no # cmd'.no
  <1>1. request_id' = Succ(request_id) /\ drawn' = drawn + 1 /\ cmd' = [id |-> request_id, no |-> drawn + 1]
    BY DEF Start, Draw
  <1>2. drawn \in Nat /\ drawn' \in Nat /\ request_id \in 1..MaxId
    BY <1>1 DEF TypeInv
  <1>3. Told(cmd)'
    <2>1. PICK no \in Nat : no = drawn + 1
      BY <1>2
    <2>2. PICK id \in 1..MaxId : id = request_id
      BY <1>2
    <2>3. IdOf(no)' = id
      BY <1>1, <2>1, <2>2, IdOfNewest
    <2>. QED  BY <1>1, <1>2, <2>1, <2>2, <2>3 DEF Told, IdOf
  <1>4. ASSUME NEW m \in commands' \cup acks'
        PROVE  Told(m)' /\ Recent(m.no)' /\ m.id # cmd'.id /\ m.no # cmd'.no
    <2>1. m \in commands \cup acks /\ Lives(m, drawn')
      BY <1>1 DEF Start, Draw
    <2>2. m.no \in 1..drawn /\ Told(m)
      BY <2>1 DEF IdsTell, Told
    <2>3. Recent(m.no)' /\ m.no # cmd'.no
      BY <1>1, <1>2, <2>1, <2>2 DEF Lives, Recent
    <2>4. Recent(m.no) /\ IdOf(m.no)' = IdOf(m.no) /\ IdOf(m.no) # request_id
      BY <1>1, <2>2, <2>3, IdOfStep
    <2>. QED  BY <1>1, <1>2, <2>2, <2>3, <2>4 DEF Told
  <1>. QED  BY <1>3, <1>4 DEF IdsTell

\* A probe never takes the id of the transaction it keeps alive.
LEMMA IdsProbe ==
    ASSUME TypeInv, IdsTell, Probe
    PROVE  IdsTell' /\ \A m \in commands' : m \in commands \/ m.no # cmd.no
  <1>1. PICK id \in 1..MaxId, no \in Nat, probe \in Command :
              /\ \/ request_id = cmd.id /\ id = Succ(request_id) /\ no = drawn + 2
                 \/ request_id # cmd.id /\ id = request_id /\ no = drawn + 1
              /\ probe.id = id /\ probe.no = no
              /\ request_id' = Succ(id) /\ drawn' = no
              /\ acks' = {m \in acks : Lives(m, no)}
              /\ commands' \subseteq {m \in commands : Lives(m, no)} \cup {probe}
              /\ cmd' = cmd /\ pc' = pc /\ pc # "idle"
    <2>. DEFINE clash == request_id = cmd.id
                id == IF clash THEN Succ(request_id) ELSE request_id
                no == IF clash THEN drawn + 2 ELSE drawn + 1
                probe == [id |-> id, no |-> no, op |-> IF memory_access_only THEN "mem" ELSE "reg"]
    <2>1. id \in 1..MaxId /\ no \in Nat /\ probe \in Command
      BY GvcpAssumption DEF TypeInv, Succ, Command
    <2>2. /\ request_id = cmd.id => id = Succ(request_id) /\ no = drawn + 2
          /\ request_id # cmd.id => id = request_id /\ no = drawn + 1
          /\ probe.id = id /\ probe.no = no
      OBVIOUS
    <2>3. /\ request_id' = Succ(id) /\ drawn' = no
          /\ acks' = {m \in acks : Lives(m, no)}
          /\ commands' \subseteq {m \in commands : Lives(m, no)} \cup {probe}
          /\ cmd' = cmd /\ pc' = pc /\ pc # "idle"
      BY DEF Probe, Draw
    <2>. HIDE DEF clash, id, no, probe
    <2>. QED  BY <2>1, <2>2, <2>3
  <1>2. /\ id \in 1..MaxId /\ id # cmd.id /\ no \in Nat /\ no > drawn /\ drawn \in Nat
        /\ Told(cmd) /\ cmd.no \in 1..drawn
    BY <1>1, GvcpAssumption DEF TypeInv, Succ, IdsTell, Told
  <1>3. ASSUME NEW n \in 1..drawn, Recent(n)'
        PROVE  Recent(n) /\ IdOf(n)' = IdOf(n)
    <2>1. CASE request_id = cmd.id
      BY <1>1, <1>3, <2>1, IdOfSkip
    <2>2. CASE request_id # cmd.id
      BY <1>1, <1>3, <2>2, IdOfStep
    <2>. QED  BY <2>1, <2>2
  <1>4. ASSUME NEW m, Told(m) PROVE Told(m)'
    BY <1>1, <1>2, <1>3, <1>4 DEF Told
  <1>5. /\ Told(probe)' /\ Recent(probe.no)'
        /\ probe.id # cmd'.id /\ probe.no # cmd.no
    <2>1. IdOf(no)' = id /\ Recent(no)'
      BY <1>1, <1>2, IdOfNewest
    <2>. QED  BY <1>1, <1>2, <2>1 DEF Told
  <1>6. ASSUME NEW m \in commands \cup acks, Lives(m, no)
        PROVE  /\ Told(m)' /\ (m.no = cmd'.no \/ Recent(m.no)')
               /\ m.id = cmd'.id => m.no = cmd'.no
    BY <1>1, <1>4, <1>6 DEF IdsTell, Lives, Recent
  <1>7. \A m \in commands' \cup acks' : (m \in commands \cup acks /\ Lives(m, no)) \/ m = probe
    BY <1>1
  <1>8. \A m \in commands' : m \in commands \/ m.no # cmd.no
    BY <1>1, <1>5
  <1>. QED  BY <1>1, <1>2, <1>4, <1>5, <1>6, <1>7, <1>8 DEF IdsTell

-----------------------------------------------------------------------------
(* The invariant, step by step. *)

\* A transaction that starts has nothing on the network and has not waited.
LEMMA StartKeeps ==
    ASSUME IInv, TypeInv', NEW o, NEW why, Start(o, why),
           why = "noReply" => o = "mem",
           memory_access_only' => proved, AnswerIsOurs'
    PROVE  IInv'
  <1>1. IdsTell' /\ \A m \in commands' \cup acks' : m.no # cmd'.no
    BY IdsStart DEF IInv
  <1>2. acks' \subseteq acks /\ proved' = proved
    BY DEF Start, Draw
  <1>3. ProofOnTheWay'
    BY <1>1, <1>2 DEF IInv, ProofOnTheWay, Start
  <1>. QED  BY <1>1, <1>2, <1>3 DEF IInv, LatchEarned

\* An access that returns an answer returns the one of its transaction.
LEMMA ReturnKeeps ==
    ASSUME IInv, TypeInv', NEW is, NEW from, Return(is, from), UNCHANGED network,
           is \in {"ok", "refused"} => from = cmd.no,
           memory_access_only' => proved
    PROVE  IInv'
  <1>1. IdsTell'
    <2>1. pc' = "idle" /\ UNCHANGED <<request_id, drawn, commands, acks>>
      BY DEF Return, network
    <2>. QED  BY <2>1, IdsKept DEF IInv
  <1>2. ProofOnTheWay'
    BY DEF IInv, ProofOnTheWay, Return, network
  <1>3. AnswerIsOurs' /\ LatchEarned'
    BY DEF AnswerIsOurs, LatchEarned, Return, network
  <1>. QED  BY <1>1, <1>2, <1>3 DEF IInv

\* Sending again is the same transaction.
LEMMA RetryKeeps ==
    ASSUME IInv, TypeInv', Retry, pc = "recv",
           acks' \subseteq acks, UNCHANGED <<commands, answers_reg, proved>>
    PROVE  IInv'
  <1>1. IdsTell'
    <2>1. pc' # "idle" => pc # "idle" /\ cmd' = cmd
      BY DEF Retry
    <2>2. UNCHANGED <<request_id, drawn>> /\ commands' \cup acks' \subseteq commands \cup acks
      BY DEF Retry
    <2>. QED  BY <2>1, <2>2, IdsKept DEF IInv
  <1>2. ProofOnTheWay'
    BY DEF IInv, ProofOnTheWay, Retry
  <1>3. AnswerIsOurs' /\ LatchEarned'
    BY DEF IInv, AnswerIsOurs, LatchEarned, Retry
  <1>. QED  BY <1>1, <1>2, <1>3 DEF IInv

\* Time that has run out is no answer.
LEMMA TimedOutKeeps ==
    ASSUME IInv, TypeInv', pc = "recv", TimedOut
    PROVE  IInv'
  <1>1. CASE Retry /\ UNCHANGED network
    BY <1>1, RetryKeeps DEF network
  <1>2. CASE op = "reg" /\ Start("mem", "noReply") /\ UNCHANGED <<memory_access_only, result>>
    <2>1. (memory_access_only' => proved) /\ AnswerIsOurs'
      BY <1>2 DEF IInv, LatchEarned, AnswerIsOurs
    <2>. QED  BY <1>2, <2>1, StartKeeps
  <1>3. CASE op = "mem" /\ Return("timeout", 0) /\ UNCHANGED <<memory_access_only, network>>
    <2>1. memory_access_only' => proved
      BY <1>3 DEF IInv, LatchEarned
    <2>. QED  BY <1>3, <2>1, ReturnKeeps
  <1>. QED  BY <1>1, <1>2, <1>3 DEF TimedOut, GaveUp

\* An answer that is accepted is the transaction's own: its id is, and no other
\* datagram has it.
LEMMA ReceivedIsOurs ==
    ASSUME IInv, NEW a \in acks, Received(a)
    PROVE  a.no = cmd.no /\ pc = "recv"
  BY DEF IInv, IdsTell, Received

LEMMA RecvAnswerKeeps ==
    ASSUME IInv, TypeInv', RecvAnswer
    PROVE  IInv'
  <1>1. PICK a \in acks : Received(a) /\ a.status # "pending" /\
              \/ /\ a.status = "ok" /\ Return("ok", a.no) /\ UNCHANGED network
                 /\ memory_access_only' = (memory_access_only \/ fallback = "noReply")
              \/ Retry /\ acks' = acks \ {a} /\ UNCHANGED <<commands, answers_reg, proved>>
              \/ /\ a.status = "notImplemented"
                 /\ Start("mem", "refused") /\ memory_access_only' = TRUE /\ UNCHANGED result
              \/ Return("refused", a.no) /\ UNCHANGED <<memory_access_only, network>>
    BY DEF RecvAnswer
  <1>2. a.no = cmd.no /\ pc = "recv"
    BY <1>1, ReceivedIsOurs
  <1>3. CASE /\ a.status = "ok" /\ Return("ok", a.no) /\ UNCHANGED network
             /\ memory_access_only' = (memory_access_only \/ fallback = "noReply")
    <2>1. memory_access_only' => proved
      BY <1>2, <1>3 DEF IInv, ProofOnTheWay, LatchEarned
    <2>. QED  BY <1>2, <1>3, <2>1, ReturnKeeps
  <1>4. CASE Retry /\ acks' = acks \ {a} /\ UNCHANGED <<commands, answers_reg, proved>>
    BY <1>2, <1>4, RetryKeeps
  <1>5. CASE /\ a.status = "notImplemented"
             /\ Start("mem", "refused") /\ memory_access_only' = TRUE /\ UNCHANGED result
    <2>1. proved /\ AnswerIsOurs'
      BY <1>5 DEF IInv, ProofOnTheWay, AnswerIsOurs
    <2>. QED  BY <1>5, <2>1, StartKeeps
  <1>6. CASE Return("refused", a.no) /\ UNCHANGED <<memory_access_only, network>>
    <2>1. memory_access_only' => proved
      BY <1>6 DEF IInv, LatchEarned
    <2>. QED  BY <1>2, <1>6, <2>1, ReturnKeeps
  <1>. QED  BY <1>1, <1>3, <1>4, <1>5, <1>6

\* The device says what it can do in the answer it sends.
LEMMA DeviceKeeps ==
    ASSUME IInv, TypeInv', DeviceAnswers \/ DevicePends
    PROVE  IInv'
  <1>1. UNCHANGED <<request_id, memory_access_only, request, waiting, answers_reg, drawn, result>>
    BY DEF DeviceAnswers, DevicePends
  <1>2. PICK m \in commands, status \in {"ok", "busy", "denied", "notImplemented", "silent", "pending"} :
              /\ commands' \subseteq commands
              /\ acks' \subseteq acks \cup {Answer(m, status)}
              /\ proved' = (proved \/ status = "notImplemented" \/ (m.op = "mem" /\ status = "ok"))
    <2>1. CASE DeviceAnswers
      BY <2>1 DEF DeviceAnswers
    <2>2. CASE DevicePends
      <3>1. PICK m \in commands : acks' = acks \cup {Answer(m, "pending")}
        BY <2>2 DEF DevicePends
      <3>2. proved' = proved /\ proved \in BOOLEAN /\ commands' = commands
        BY <2>2 DEF DevicePends, IInv, TypeInv
      <3>. QED  BY <3>1, <3>2
    <2>. QED  BY <2>1, <2>2
  <1>3. Answer(m, status).id = m.id /\ Answer(m, status).no = m.no /\ Answer(m, status).status = status
    BY DEF Answer
  <1>4. IdsTell'
    <2>1. UNCHANGED <<request_id, drawn, pc, cmd>>
      BY <1>1 DEF request
    <2>2. \A k \in commands' \cup acks' : \E n \in commands \cup acks : k.id = n.id /\ k.no = n.no
      BY <1>2, <1>3
    <2>. QED  BY <2>1, <2>2, IdsKept DEF IInv
  <1>5. ProofOnTheWay'
    BY <1>1, <1>2, <1>3 DEF IInv, ProofOnTheWay, request
  <1>6. AnswerIsOurs'
    BY <1>1 DEF IInv, AnswerIsOurs
  <1>7. LatchEarned'
    BY <1>1, <1>2 DEF IInv, LatchEarned
  <1>. QED  BY <1>4, <1>5, <1>6, <1>7 DEF IInv

\* A probe changes nothing of the answer that is waited for.
LEMMA ProbeKeeps ==
    ASSUME IInv, TypeInv', Probe
    PROVE  IInv'
  <1>1. IdsTell' /\ \A m \in commands' : m \in commands \/ m.no # cmd.no
    BY IdsProbe DEF IInv
  <1>2. acks' \subseteq acks /\ cmd' = cmd
        /\ UNCHANGED <<memory_access_only, pc, op, fallback, proved, result>>
    BY DEF Probe, Draw
  <1>3. ProofOnTheWay'
    BY <1>1, <1>2 DEF IInv, ProofOnTheWay
  <1>4. AnswerIsOurs' /\ LatchEarned'
    BY <1>2 DEF IInv, AnswerIsOurs, LatchEarned
  <1>. QED  BY <1>1, <1>3, <1>4 DEF IInv

LEMMA SendKeeps ==
    ASSUME IInv, TypeInv', Send
    PROVE  IInv'
  <1>1. PICK c : c.id = cmd.id /\ c.no = cmd.no /\ c.op = op /\ commands' = commands \cup {c}
    <2>. DEFINE c == [id |-> cmd.id, no |-> cmd.no, op |-> op]
    <2>1. c.id = cmd.id /\ c.no = cmd.no /\ c.op = op /\ commands' = commands \cup {c}
      BY DEF Send
    <2>. HIDE DEF c
    <2>. QED  BY <2>1
  <1>2. IdsTell'
    <2>1. pc # "idle" /\ UNCHANGED <<request_id, drawn, cmd, acks>>
      BY DEF Send
    <2>2. \A k \in commands' \cup acks' :
              \/ \E n \in commands \cup acks : k.id = n.id /\ k.no = n.no
              \/ pc # "idle" /\ k.id = cmd.id /\ k.no = cmd.no
      BY <1>1, <2>1
    <2>. QED  BY <2>1, <2>2, IdsKept DEF IInv
  <1>3. ProofOnTheWay'
    BY <1>1 DEF IInv, ProofOnTheWay, Send
  <1>4. AnswerIsOurs' /\ LatchEarned'
    BY DEF IInv, AnswerIsOurs, LatchEarned, Send
  <1>. QED  BY <1>2, <1>3, <1>4 DEF IInv

\* More time for a pending command is the same attempt.
LEMMA RecvPendingKeeps ==
    ASSUME IInv, TypeInv', RecvPending
    PROVE  IInv'
  <1>1. PICK a \in acks : Received(a) /\
              \/ /\ acks' = acks \ {a}
                 /\ UNCHANGED <<request_id, memory_access_only, request, attempt, commands,
                                answers_reg, proved, drawn, result>>
              \/ TimedOut
    BY DEF RecvPending
  <1>2. CASE TimedOut
    BY <1>1, <1>2, TimedOutKeeps, ReceivedIsOurs
  <1>3. CASE ~TimedOut
    <2>1. pc = "recv" /\ UNCHANGED <<request_id, drawn, pc, op, fallback, cmd, commands, proved, result,
                                     memory_access_only>>
      BY <1>1, <1>3, ReceivedIsOurs DEF request
    <2>2. acks' \subseteq acks
      BY <1>1, <1>3
    <2>3. IdsTell'
      BY <2>1, <2>2, IdsKept DEF IInv
    <2>4. ProofOnTheWay' /\ AnswerIsOurs' /\ LatchEarned'
      BY <2>1, <2>2 DEF IInv, ProofOnTheWay, AnswerIsOurs, LatchEarned
    <2>. QED  BY <2>3, <2>4 DEF IInv
  <1>. QED  BY <1>2, <1>3

\* The steps that leave the request alone: a tick, a drained datagram, a send that
\* fails with attempts left, and stuttering.
LEMMA QuietKeeps ==
    ASSUME IInv, TypeInv', acks' \subseteq acks,
           UNCHANGED <<request_id, memory_access_only, request, commands, proved, drawn, result>>
    PROVE  IInv'
  <1>1. UNCHANGED <<pc, op, fallback, cmd>>
    BY DEF request
  <1>2. IdsTell'
    BY <1>1, IdsKept DEF IInv
  <1>3. ProofOnTheWay'
    BY <1>1 DEF IInv, ProofOnTheWay
  <1>4. AnswerIsOurs' /\ LatchEarned'
    BY DEF IInv, AnswerIsOurs, LatchEarned
  <1>. QED  BY <1>2, <1>3, <1>4 DEF IInv

LEMMA ReturnEmptyKeeps ==
    ASSUME IInv, TypeInv', NEW is \in {"io", "cancelled"}, Return(is, 0),
           UNCHANGED <<memory_access_only, network>>
    PROVE  IInv'
  <1>1. memory_access_only' => proved
    BY DEF IInv, LatchEarned
  <1>. QED  BY <1>1, ReturnKeeps

\* Every step keeps the invariant.
LEMMA InvStep ==
    ASSUME IInv, [Next]_vars
    PROVE  IInv'
  <1>0. TypeInv'
    BY TypeStep DEF IInv
  <1>1. ASSUME NEW single \in BOOLEAN, Access(single) PROVE IInv'
    <2>1. PICK o : Start(o, "none")
      BY <1>1 DEF Access
    <2>2. (memory_access_only' => proved) /\ AnswerIsOurs'
      BY <1>1 DEF Access, IInv, LatchEarned, AnswerIsOurs
    <2>. QED  BY <1>0, <2>1, <2>2, StartKeeps
  <1>2. CASE Send
    BY <1>0, <1>2, SendKeeps
  <1>3. CASE SendFails
    <2>1. CASE attempt + 1 < MAX_RETRIES
      BY <1>0, <1>3, <2>1, QuietKeeps DEF SendFails, network
    <2>2. CASE ~(attempt + 1 < MAX_RETRIES)
      BY <1>0, <1>3, <2>2, ReturnEmptyKeeps DEF SendFails
    <2>. QED  BY <2>1, <2>2
  <1>4. CASE Tick
    BY <1>0, <1>4, QuietKeeps DEF Tick, network
  <1>5. CASE Deadline
    BY <1>0, <1>5, TimedOutKeeps DEF Deadline
  <1>6. CASE Drain
    BY <1>0, <1>6, QuietKeeps DEF Drain, waiting
  <1>7. CASE RecvPending
    BY <1>0, <1>7, RecvPendingKeeps
  <1>8. CASE RecvAnswer
    BY <1>0, <1>8, RecvAnswerKeeps
  <1>9. CASE RecvError
    <2>1. \/ Retry /\ UNCHANGED network
          \/ Return("io", 0) /\ UNCHANGED <<memory_access_only, network>>
      BY <1>9 DEF RecvError
    <2>2. CASE Retry /\ UNCHANGED network
      BY <1>0, <1>9, <2>1, <2>2, RetryKeeps DEF RecvError, network
    <2>3. CASE Return("io", 0) /\ UNCHANGED <<memory_access_only, network>>
      BY <1>0, <2>3, ReturnEmptyKeeps
    <2>. QED  BY <2>1, <2>2, <2>3
  <1>10. CASE Cancel
    BY <1>0, <1>10, ReturnEmptyKeeps DEF Cancel
  <1>11. CASE Probe
    BY <1>0, <1>11, ProbeKeeps
  <1>12. CASE DeviceAnswers \/ DevicePends
    BY <1>0, <1>12, DeviceKeeps
  <1>13. CASE UNCHANGED vars
    BY <1>0, <1>13, QuietKeeps DEF vars, waiting, network
  <1>. QED
    BY <1>1, <1>2, <1>3, <1>4, <1>5, <1>6, <1>7, <1>8, <1>9, <1>10, <1>11, <1>12, <1>13
    DEF Next, Client

LEMMA InvInit ==
    ASSUME Init
    PROVE  IInv
  <1>1. TypeInv
    <2>1. /\ request_id \in 1..MaxId /\ cmd \in [id : 0..MaxId, no : Nat]
          /\ drawn \in Nat /\ attempt \in Nat /\ pending_seen \in Nat /\ left \in Nat
      BY GvcpAssumption DEF Init, NoCommand
    <2>2. result \in [is : {"none", "ok", "refused", "timeout", "io", "cancelled"}, ours : BOOLEAN]
      BY DEF Init
    <2>3. memory_access_only \in BOOLEAN /\ proved \in BOOLEAN /\ tolerate_icmp \in BOOLEAN
      BY DEF Init
    <2>. QED  BY <2>1, <2>2, <2>3 DEF Init, TypeInv
  <1>2. IdsTell /\ ProofOnTheWay
    BY DEF Init, IdsTell, ProofOnTheWay
  <1>3. AnswerIsOurs /\ LatchEarned
    BY DEF Init, AnswerIsOurs, LatchEarned
  <1>. QED  BY <1>1, <1>2, <1>3 DEF IInv

LEMMA Invariance == Spec => []IInv
  <1>1. IInv /\ [Next]_vars => IInv'
    BY InvStep
  <1>. QED  BY <1>1, InvInit, PTL DEF Spec

-----------------------------------------------------------------------------
(* What an access may rely on. *)

\* Whatever is lost, delayed, reordered or answered twice, and however often the
\* request ids wrap, a register access returns the answer to the command it sent
\* and never a probe's or an earlier command's.
THEOREM AnswersAreOwn == Spec => []AnswerIsOurs
  <1>1. IInv => AnswerIsOurs
    BY DEF IInv
  <1>. QED  BY <1>1, Invariance, PTL

\* A session switches to memory access only after the device refused READREG or
\* answered READMEM; silence alone never makes `memory_access_only` true.
THEOREM LatchIsEarned == Spec => []LatchEarned
  <1>1. IInv => LatchEarned
    BY DEF IInv
  <1>. QED  BY <1>1, Invariance, PTL
=============================================================================
