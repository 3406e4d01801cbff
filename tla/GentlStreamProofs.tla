-------------------------- MODULE GentlStreamProofs --------------------------
(***************************************************************************)
(* Proofs about the GenTL data stream, for any number of consumer threads,  *)
(* buffers, events and acquisitions: the pools agree with the buffers'      *)
(* entries, frames leave in the camera's order, and a delivery thread has   *)
(* somebody in charge of it.                                                *)
(***************************************************************************)
EXTENDS GentlStream, FiniteSetTheorems, TLAPS

\* The steps that hold the engine's mutex.
Holding == {"open", "mark", "spawn", "remember", "joinStop", "joinShut"}

Steps ==
    Holding \cup FlushOps
        \cup {"idle", "announce", "revoke", "forget", "queue", "start", "stop", "get", "last", "waiting",
              "notify", "register", "event_key", "unregister", "kill", "flushEvent", "close",
              "closeDevice", "closeEvent", "shut", "clear", "wakeRelease", "release"}

Callings == [Callers -> [at : Steps, arg : Int, device : BOOLEAN]]

TypeInv ==
    /\ pc \in Callings
    /\ acq \in [started : BOOLEAN, running : BOOLEAN, remaining : Int, delivered : Nat, closed : BOOLEAN]
    /\ event \in [key : Nat, kills : Int]
    /\ reg \in [device : BOOLEAN, stream : BOOLEAN, buffers : SUBSET Nat, events : SUBSET Nat]
    /\ engine \in [lock : BOOLEAN, thread : Int]
    /\ thread \in [1..MaxStarts -> Threads]
    /\ keys \in Nat /\ events \in Nat /\ starts \in Nat /\ frames \in Nat

-----------------------------------------------------------------------------
(* The delivery thread. *)

\* Who holds the engine's mutex.
MutexHeld ==
    /\ \A c, e \in Callers : pc[c].at \in Holding /\ pc[e].at \in Holding => c = e
    /\ engine.lock <=> \E c \in Callers : pc[c].at \in Holding

\* Until the stream is closed the threads that run are the one the engine remembers
\* or, while the mutex is held, what its holder knows of.
InCharge ==
    ~acq.closed =>
        /\ \A i, j \in 1..MaxStarts : Alive(i) /\ Alive(j) => i = j
        /\ ~engine.lock => \A i \in 1..MaxStarts : Alive(i) => engine.thread = i /\ acq.started
        /\ \A c \in Callers :
              /\ pc[c].at \in {"open", "mark", "spawn"} => \A i \in 1..MaxStarts : ~Alive(i)
              /\ pc[c].at \in {"spawn", "remember"} => acq.started
              /\ pc[c].at = "remember" => \A i \in 1..MaxStarts : Alive(i) => pc[c].arg = i
              /\ pc[c].at \in {"joinStop", "joinShut"} => \A i \in 1..MaxStarts : Alive(i) => i \in stopping

EngineInv == MutexHeld /\ InCharge

-----------------------------------------------------------------------------
(* The pools. *)

Places == {"None", "Unqueued", "Input", "Output"}

\* PoolsAgree, of the announced buffers, the input pool, the output queue and the
\* entries' places.
Agree(b, in, out, at) ==
    /\ b \in Seq(Keys) /\ in \in Seq(Keys) /\ out \in Seq(Keys) /\ at \in [Keys -> Places]
    /\ IsInjective(b) /\ IsInjective(in) /\ IsInjective(out)
    /\ Range(in)  = {k \in Range(b) : at[k] = "Input"}
    /\ Range(out) = {k \in Range(b) : at[k] = "Output"}
    /\ \A k \in Keys : at[k] = "None" <=> k \notin Range(b)

Announcers == {c \in Callers : At(c, "announce")}

PoolInv ==
    /\ pool = [buffers |-> pool.buffers, input |-> pool.input, output |-> pool.output, at |-> pool.at]
    /\ Agree(pool.buffers, pool.input, pool.output, pool.at)
    /\ \A k \in Range(pool.buffers) : k <= keys
    /\ keys + Cardinality(Announcers) <= MaxKeys

\* Every frame in a buffer has been read; one in hand is newer than those that wait.
FrameInv ==
    /\ fill \in [Keys -> Nat] /\ handed \in Nat
    /\ handed <= frames /\ \A k \in Keys : fill[k] <= frames
    /\ ~acq.closed /\ (\E i \in 1..MaxStarts : thread[i] = "have")
          => handed < frames /\ \A i \in DOMAIN pool.output : fill[pool.output[i]] < frames
    /\ FramesInOrder

IInv == TypeInv /\ EngineInv /\ PoolInv /\ FrameInv

-----------------------------------------------------------------------------
(* Sequences without repetitions. *)

LEMMA RangeAppend ==
    ASSUME NEW S, NEW s \in Seq(S), NEW e \in S, IsInjective(s), e \notin Range(s)
    PROVE  /\ Append(s, e) \in Seq(S) /\ IsInjective(Append(s, e))
           /\ Range(Append(s, e)) = Range(s) \cup {e}
  <1>1. /\ Append(s, e) \in Seq(S) /\ DOMAIN Append(s, e) = 1..Len(s) + 1 /\ DOMAIN s = 1..Len(s)
        /\ \A i \in 1..Len(s) : Append(s, e)[i] = s[i]
        /\ Append(s, e)[Len(s) + 1] = e
        /\ Len(s) \in Nat
    OBVIOUS
  <1>. DEFINE t == Append(s, e)
  <1>. HIDE DEF t
  <1>2. \A i \in 1..Len(s) : t[i] \in Range(s)
    BY <1>1 DEF Range, t
  <1>3. IsInjective(t)
    BY <1>1, <1>2 DEF IsInjective, t
  <1>4. Range(t) \subseteq Range(s) \cup {e}
    BY <1>1, <1>2 DEF Range, t
  <1>5. Range(s) \cup {e} \subseteq Range(t)
    BY <1>1 DEF Range, t
  <1>. QED  BY <1>1, <1>3, <1>4, <1>5 DEF t

LEMMA ConcatIs ==
    ASSUME NEW S, NEW s \in Seq(S), NEW t \in Seq(S)
    PROVE  /\ s \o t \in Seq(S) /\ DOMAIN (s \o t) = 1..Len(s) + Len(t)
           /\ DOMAIN s = 1..Len(s) /\ DOMAIN t = 1..Len(t)
           /\ \A i \in 1..Len(s) : (s \o t)[i] = s[i]
           /\ \A i \in 1..Len(s) + Len(t) : i > Len(s) => i - Len(s) \in 1..Len(t) /\ (s \o t)[i] = t[i - Len(s)]
           /\ Len(s) \in Nat /\ Len(t) \in Nat
  OBVIOUS

LEMMA RangeConcat ==
    ASSUME NEW S, NEW s \in Seq(S), NEW t \in Seq(S), IsInjective(s), IsInjective(t),
           Range(s) \cap Range(t) = {}
    PROVE  /\ s \o t \in Seq(S) /\ IsInjective(s \o t)
           /\ Range(s \o t) = Range(s) \cup Range(t)
  <1>1. /\ s \o t \in Seq(S) /\ DOMAIN (s \o t) = 1..Len(s) + Len(t)
        /\ DOMAIN s = 1..Len(s) /\ DOMAIN t = 1..Len(t)
        /\ \A i \in 1..Len(s) : (s \o t)[i] = s[i]
        /\ \A i \in 1..Len(s) + Len(t) : i > Len(s) => i - Len(s) \in 1..Len(t) /\ (s \o t)[i] = t[i - Len(s)]
        /\ Len(s) \in Nat /\ Len(t) \in Nat
    BY ConcatIs
  <1>. DEFINE u == s \o t
  <1>. HIDE DEF u
  <1>2. /\ \A i \in 1..Len(s) : s[i] \in Range(s)
        /\ \A i \in 1..Len(t) : t[i] \in Range(t)
    BY <1>1 DEF Range
  <1>3. ASSUME NEW i \in DOMAIN u, NEW j \in DOMAIN u, u[i] = u[j] PROVE i = j
    <2>1. CASE i <= Len(s) /\ j <= Len(s)
      BY <1>1, <1>3, <2>1 DEF IsInjective, u
    <2>2. CASE i > Len(s) /\ j > Len(s)
      BY <1>1, <1>3, <2>2 DEF IsInjective, u
    <2>3. CASE i <= Len(s) /\ j > Len(s)
      BY <1>1, <1>2, <1>3, <2>3 DEF u
    <2>4. CASE i > Len(s) /\ j <= Len(s)
      BY <1>1, <1>2, <1>3, <2>4 DEF u
    <2>. QED  BY <1>1, <2>1, <2>2, <2>3, <2>4 DEF u
  <1>4. Range(u) \subseteq Range(s) \cup Range(t)
    BY <1>1, <1>2 DEF Range, u
  <1>5. Range(s) \subseteq Range(u)
    BY <1>1 DEF Range, u
  <1>6. ASSUME NEW i \in 1..Len(t) PROVE t[i] \in Range(u)
    <2>1. Len(s) + i \in DOMAIN u /\ u[Len(s) + i] = t[i]
      BY <1>1 DEF u
    <2>. QED  BY <2>1 DEF Range
  <1>7. Range(t) \subseteq Range(u)
    BY <1>1, <1>6 DEF Range
  <1>. QED  BY <1>1, <1>3, <1>4, <1>5, <1>7 DEF IsInjective, u

LEMMA RangeTail ==
    ASSUME NEW S, NEW s \in Seq(S), s # <<>>, IsInjective(s)
    PROVE  /\ Tail(s) \in Seq(S) /\ IsInjective(Tail(s))
           /\ Head(s) \in Range(s) /\ Range(Tail(s)) = Range(s) \ {Head(s)}
  <1>1. /\ Tail(s) \in Seq(S) /\ DOMAIN Tail(s) = 1..Len(s) - 1 /\ DOMAIN s = 1..Len(s)
        /\ \A i \in 1..Len(s) - 1 : Tail(s)[i] = s[i + 1]
        /\ Head(s) = s[1] /\ Len(s) \in Nat /\ Len(s) > 0
    OBVIOUS
  <1>. DEFINE t == Tail(s)
  <1>. HIDE DEF t
  <1>2. IsInjective(t)
    BY <1>1 DEF IsInjective, t
  <1>3. Head(s) \in Range(s)
    BY <1>1 DEF Range
  <1>4. ASSUME NEW i \in DOMAIN t PROVE t[i] \in Range(s) \ {s[1]}
    <2>1. i + 1 \in DOMAIN s /\ t[i] = s[i + 1] /\ i + 1 # 1 /\ 1 \in DOMAIN s
      BY <1>1 DEF t
    <2>. QED  BY <2>1 DEF IsInjective, Range
  <1>5. ASSUME NEW i \in DOMAIN s, i # 1 PROVE s[i] \in Range(t)
    <2>1. i - 1 \in DOMAIN t /\ t[i - 1] = s[i]
      BY <1>1, <1>5 DEF t
    <2>. QED  BY <2>1 DEF Range
  <1>6. Range(t) = Range(s) \ {s[1]}
    BY <1>4, <1>5 DEF Range
  <1>. QED  BY <1>1, <1>2, <1>3, <1>6 DEF t

LEMMA RangeRemoveAt ==
    ASSUME NEW S, NEW s \in Seq(S), NEW n \in DOMAIN s, IsInjective(s)
    PROVE  /\ RemoveAt(s, n) \in Seq(S) /\ IsInjective(RemoveAt(s, n))
           /\ Range(RemoveAt(s, n)) = Range(s) \ {s[n]}
  <1>1. DOMAIN s = 1..Len(s) /\ Len(s) \in Nat /\ n \in 1..Len(s)
    OBVIOUS
  <1>. DEFINE t == RemoveAt(s, n)
  <1>2. t \in Seq(S) /\ Len(t) = Len(s) - 1
        /\ \A i \in 1..Len(s) - 1 : t[i] = IF i < n THEN s[i] ELSE s[i + 1]
    <2>. DEFINE a == SubSeq(s, 1, n - 1)
                b == SubSeq(s, n + 1, Len(s))
    <2>1. a \in Seq(S) /\ Len(a) = n - 1 /\ \A i \in 1..n - 1 : a[i] = s[i]
      BY <1>1
    <2>2. b \in Seq(S) /\ Len(b) = Len(s) - n /\ \A i \in 1..Len(s) - n : b[i] = s[i + n]
      BY <1>1
    <2>3. t = a \o b
      BY DEF RemoveAt
    <2>. HIDE DEF a, b, t
    <2>4. t \in Seq(S) /\ Len(t) = Len(s) - 1
      <3>0. a \in Seq(S) /\ b \in Seq(S)
        BY <2>1, <2>2
      <3>1. a \o b \in Seq(S) /\ Len(a \o b) = Len(a) + Len(b)
        BY <3>0
      <3>. QED  BY <1>1, <2>1, <2>2, <2>3, <3>1
    <2>5. ASSUME NEW i \in 1..Len(s) - 1 PROVE t[i] = IF i < n THEN s[i] ELSE s[i + 1]
      <3>1. CASE i < n
        BY <1>1, <2>1, <2>2, <2>3, <3>1
      <3>2. CASE i >= n
        <4>1. t[i] = b[i - (n - 1)] /\ i - (n - 1) \in 1..Len(s) - n
          BY SMTT(30), <1>1, <2>1, <2>2, <2>3, <3>2
        <4>2. b[i - (n - 1)] = s[(i - (n - 1)) + n] /\ (i - (n - 1)) + n = i + 1
          BY <1>1, <2>2, <4>1
        <4>. QED  BY <1>1, <3>2, <4>1, <4>2
      <3>. QED  BY <1>1, <3>1, <3>2
    <2>. QED  BY <2>4, <2>5
  <1>. HIDE DEF t
  <1>3. DOMAIN t = 1..Len(s) - 1
    BY <1>1, <1>2
  <1>4. ASSUME NEW i \in DOMAIN t, NEW j \in DOMAIN t, t[i] = t[j] PROVE i = j
    <2>. DEFINE at(k) == IF k < n THEN k ELSE k + 1
    <2>1. at(i) \in DOMAIN s /\ at(j) \in DOMAIN s /\ s[at(i)] = s[at(j)]
      BY <1>1, <1>2, <1>3, <1>4
    <2>2. at(i) = at(j)
      BY <2>1 DEF IsInjective
    <2>. QED  BY <1>1, <1>3, <2>2
  <1>5. ASSUME NEW i \in DOMAIN t PROVE t[i] \in Range(s) \ {s[n]}
    BY <1>1, <1>2, <1>3 DEF IsInjective, Range
  <1>6. ASSUME NEW i \in DOMAIN s, i # n PROVE s[i] \in Range(t)
    <2>1. CASE i < n
      <3>1. i \in DOMAIN t /\ t[i] = s[i]
        BY <1>1, <1>2, <1>3, <2>1
      <3>. QED  BY <3>1 DEF Range
    <2>2. CASE i > n
      <3>1. i - 1 \in DOMAIN t /\ t[i - 1] = s[i]
        BY <1>1, <1>2, <1>3, <2>2
      <3>. QED  BY <3>1 DEF Range
    <2>. QED  BY <1>1, <1>6, <2>1, <2>2
  <1>7. Range(t) = Range(s) \ {s[n]}
    BY <1>5, <1>6 DEF Range
  <1>. QED  BY <1>2, <1>4, <1>7 DEF IsInjective, t

LEMMA RangeEmpty ==
    ASSUME NEW S
    PROVE  <<>> \in Seq(S) /\ IsInjective(<<>>) /\ Range(<<>>) = {}
  BY DEF IsInjective, Range

-----------------------------------------------------------------------------
(* What the calls and the delivery thread do to the pools. *)

\* The entries of `ks` say `place`.
Put(at, ks, place) == [k \in Keys |-> IF k \in ks THEN place ELSE at[k]]

LEMMA PutPlaces ==
    ASSUME NEW at \in [Keys -> Places], NEW ks, NEW place \in Places
    PROVE  /\ Put(at, ks, place) \in [Keys -> Places]
           /\ \A k \in Keys : Put(at, ks, place)[k] = IF k \in ks THEN place ELSE at[k]
  BY DEF Put

LEMMA AgreeAnnounce ==
    ASSUME NEW b, NEW in, NEW out, NEW at, Agree(b, in, out, at), NEW k \in Keys, k \notin Range(b)
    PROVE  Agree(Append(b, k), in, out, Put(at, {k}, "Unqueued"))
  <1>1. /\ Append(b, k) \in Seq(Keys) /\ IsInjective(Append(b, k)) /\ Range(Append(b, k)) = Range(b) \cup {k}
    BY RangeAppend DEF Agree
  <1>2. Range(b) \subseteq Keys
    BY DEF Agree, Range
  <1>. DEFINE to == Put(at, {k}, "Unqueued")
  <1>4. to \in [Keys -> Places] /\ \A j \in Keys : to[j] = IF j \in {k} THEN "Unqueued" ELSE at[j]
    BY PutPlaces DEF Agree, Places
  <1>. HIDE DEF to
  <1>5. Range(in) = {j \in Range(Append(b, k)) : to[j] = "Input"}
    BY <1>1, <1>2, <1>4 DEF Agree
  <1>6. Range(out) = {j \in Range(Append(b, k)) : to[j] = "Output"}
    BY <1>1, <1>2, <1>4 DEF Agree
  <1>7. \A j \in Keys : to[j] = "None" <=> j \notin Range(Append(b, k))
    BY <1>1, <1>2, <1>4 DEF Agree
  <1>8. Agree(Append(b, k), in, out, to)
    BY <1>1, <1>4, <1>5, <1>6, <1>7 DEF Agree
  <1>. QED  BY <1>8 DEF to

LEMMA AgreeRevoke ==
    ASSUME NEW b, NEW in, NEW out, NEW at, Agree(b, in, out, at),
           NEW n \in DOMAIN b, at[b[n]] = "Unqueued"
    PROVE  Agree(RemoveAt(b, n), in, out, Put(at, {b[n]}, "None"))
  <1>1. /\ RemoveAt(b, n) \in Seq(Keys) /\ IsInjective(RemoveAt(b, n))
        /\ Range(RemoveAt(b, n)) = Range(b) \ {b[n]}
    BY RangeRemoveAt DEF Agree
  <1>2. Range(b) \subseteq Keys
    BY DEF Agree, Range
  <1>. DEFINE to == Put(at, {b[n]}, "None")
  <1>4. to \in [Keys -> Places] /\ \A j \in Keys : to[j] = IF j \in {b[n]} THEN "None" ELSE at[j]
    BY PutPlaces DEF Agree, Places
  <1>. HIDE DEF to
  <1>5. Range(in) = {j \in Range(RemoveAt(b, n)) : to[j] = "Input"}
    BY <1>1, <1>2, <1>4 DEF Agree
  <1>6. Range(out) = {j \in Range(RemoveAt(b, n)) : to[j] = "Output"}
    BY <1>1, <1>2, <1>4 DEF Agree
  <1>7. \A j \in Keys : to[j] = "None" <=> j \notin Range(RemoveAt(b, n))
    BY <1>1, <1>2, <1>4 DEF Agree
  <1>8. Agree(RemoveAt(b, n), in, out, to)
    BY <1>1, <1>4, <1>5, <1>6, <1>7 DEF Agree
  <1>. QED  BY <1>8 DEF to

LEMMA AgreeQueue ==
    ASSUME NEW b, NEW in, NEW out, NEW at, Agree(b, in, out, at),
           NEW k \in Range(b), at[k] = "Unqueued"
    PROVE  Agree(b, Append(in, k), out, Put(at, {k}, "Input"))
  <1>1. Range(b) \subseteq Keys /\ k \notin Range(in)
    <2>1. Range(b) \subseteq Keys
      BY DEF Agree, Range
    <2>2. k \notin Range(in)
      BY DEF Agree
    <2>. QED  BY <2>1, <2>2
  <1>2. /\ Append(in, k) \in Seq(Keys) /\ IsInjective(Append(in, k)) /\ Range(Append(in, k)) = Range(in) \cup {k}
    BY <1>1, RangeAppend DEF Agree
  <1>. DEFINE to == Put(at, {k}, "Input")
  <1>4. to \in [Keys -> Places] /\ \A j \in Keys : to[j] = IF j \in {k} THEN "Input" ELSE at[j]
    BY PutPlaces DEF Agree, Places
  <1>. HIDE DEF to
  <1>5. Range(Append(in, k)) = {j \in Range(b) : to[j] = "Input"}
    BY <1>1, <1>2, <1>4 DEF Agree
  <1>6. Range(out) = {j \in Range(b) : to[j] = "Output"}
    BY <1>1, <1>2, <1>4 DEF Agree
  <1>7. \A j \in Keys : to[j] = "None" <=> j \notin Range(b)
    BY <1>1, <1>2, <1>4 DEF Agree
  <1>8. Agree(b, Append(in, k), out, to)
    BY <1>2, <1>4, <1>5, <1>6, <1>7 DEF Agree
  <1>. QED  BY <1>8 DEF to

LEMMA AgreeFill ==
    ASSUME NEW b, NEW in, NEW out, NEW at, Agree(b, in, out, at), in # <<>>
    PROVE  Agree(b, Tail(in), Append(out, Head(in)), Put(at, {Head(in)}, "Output"))
  <1>1. /\ Tail(in) \in Seq(Keys) /\ IsInjective(Tail(in))
        /\ Head(in) \in Range(in) /\ Range(Tail(in)) = Range(in) \ {Head(in)}
    BY RangeTail DEF Agree
  <1>2. Range(b) \subseteq Keys /\ Head(in) \in Keys /\ Head(in) \notin Range(out)
    BY <1>1 DEF Agree, Range
  <1>3. /\ Append(out, Head(in)) \in Seq(Keys) /\ IsInjective(Append(out, Head(in)))
        /\ Range(Append(out, Head(in))) = Range(out) \cup {Head(in)}
    BY <1>2, RangeAppend DEF Agree
  <1>. DEFINE to == Put(at, {Head(in)}, "Output")
  <1>4. to \in [Keys -> Places] /\ \A k \in Keys : to[k] = IF k = Head(in) THEN "Output" ELSE at[k]
    BY PutPlaces DEF Agree, Places
  <1>. HIDE DEF to
  <1>5. Head(in) \in Range(b) /\ at[Head(in)] = "Input"
    BY <1>1 DEF Agree
  <1>6. Range(Tail(in)) = {k \in Range(b) : to[k] = "Input"}
    BY <1>1, <1>2, <1>4, <1>5 DEF Agree
  <1>7. Range(Append(out, Head(in))) = {k \in Range(b) : to[k] = "Output"}
    BY <1>2, <1>3, <1>4, <1>5 DEF Agree
  <1>8. \A k \in Keys : to[k] = "None" <=> k \notin Range(b)
    BY <1>4, <1>5 DEF Agree
  <1>9. Agree(b, Tail(in), Append(out, Head(in)), to)
    BY <1>1, <1>3, <1>4, <1>6, <1>7, <1>8 DEF Agree
  <1>. QED  BY <1>9 DEF to

LEMMA AgreeTake ==
    ASSUME NEW b, NEW in, NEW out, NEW at, Agree(b, in, out, at), out # <<>>
    PROVE  Agree(b, in, Tail(out), Put(at, {Head(out)}, "Unqueued"))
  <1>1. /\ Tail(out) \in Seq(Keys) /\ IsInjective(Tail(out))
        /\ Head(out) \in Range(out) /\ Range(Tail(out)) = Range(out) \ {Head(out)}
    BY RangeTail DEF Agree
  <1>2. Range(b) \subseteq Keys
    BY DEF Agree, Range
  <1>. DEFINE to == Put(at, {Head(out)}, "Unqueued")
  <1>3. to \in [Keys -> Places] /\ \A k \in Keys : to[k] = IF k = Head(out) THEN "Unqueued" ELSE at[k]
    BY PutPlaces DEF Agree, Places
  <1>. HIDE DEF to
  <1>4. Head(out) \in Range(b) /\ at[Head(out)] = "Output"
    BY <1>1 DEF Agree
  <1>5. Range(Tail(out)) = {k \in Range(b) : to[k] = "Output"} /\ Range(in) = {k \in Range(b) : to[k] = "Input"}
    BY <1>1, <1>2, <1>3, <1>4 DEF Agree
  <1>6. \A k \in Keys : to[k] = "None" <=> k \notin Range(b)
    BY <1>3, <1>4 DEF Agree
  <1>7. Agree(b, in, Tail(out), to)
    BY <1>1, <1>3, <1>5, <1>6 DEF Agree
  <1>. QED  BY <1>7 DEF to

LEMMA AgreeDiscard ==
    ASSUME NEW b, NEW in, NEW out, NEW at, Agree(b, in, out, at)
    PROVE  Agree(b, in, <<>>, Put(at, Range(out), "Unqueued"))
  <1>1. Range(b) \subseteq Keys
    BY DEF Agree, Range
  <1>. DEFINE to == Put(at, Range(out), "Unqueued")
  <1>4. to \in [Keys -> Places] /\ \A j \in Keys : to[j] = IF j \in Range(out) THEN "Unqueued" ELSE at[j]
    BY PutPlaces DEF Agree, Places
  <1>. HIDE DEF to
  <1>5. Range(in) = {j \in Range(b) : to[j] = "Input"}
    BY <1>1, RangeEmpty, <1>4 DEF Agree
  <1>6. Range(<<>>) = {j \in Range(b) : to[j] = "Output"}
    BY <1>1, RangeEmpty, <1>4 DEF Agree
  <1>7. \A j \in Keys : to[j] = "None" <=> j \notin Range(b)
    BY <1>1, RangeEmpty, <1>4 DEF Agree
  <1>8. Agree(b, in, <<>>, to)
    BY RangeEmpty, <1>4, <1>5, <1>6, <1>7 DEF Agree
  <1>. QED  BY <1>8 DEF to

LEMMA AgreeInputToOutput ==
    ASSUME NEW b, NEW in, NEW out, NEW at, Agree(b, in, out, at)
    PROVE  Agree(b, <<>>, out \o in, Put(at, Range(in), "Output"))
  <1>1. Range(b) \subseteq Keys /\ Range(out) \cap Range(in) = {}
    BY DEF Agree, Range
  <1>2. out \o in \in Seq(Keys) /\ IsInjective(out \o in) /\ Range(out \o in) = Range(out) \cup Range(in)
    BY <1>1, RangeConcat DEF Agree
  <1>. DEFINE to == Put(at, Range(in), "Output")
  <1>4. to \in [Keys -> Places] /\ \A j \in Keys : to[j] = IF j \in Range(in) THEN "Output" ELSE at[j]
    BY PutPlaces DEF Agree, Places
  <1>. HIDE DEF to
  <1>5. Range(<<>>) = {j \in Range(b) : to[j] = "Input"}
    BY <1>1, <1>2, RangeEmpty, <1>4 DEF Agree
  <1>6. Range(out \o in) = {j \in Range(b) : to[j] = "Output"}
    BY <1>1, <1>2, RangeEmpty, <1>4 DEF Agree
  <1>7. \A j \in Keys : to[j] = "None" <=> j \notin Range(b)
    BY <1>1, <1>2, RangeEmpty, <1>4 DEF Agree
  <1>8. Agree(b, <<>>, out \o in, to)
    BY <1>2, RangeEmpty, <1>4, <1>5, <1>6, <1>7 DEF Agree
  <1>. QED  BY <1>8 DEF to

LEMMA AgreeUnqueuedToInput ==
    ASSUME NEW b, NEW in, NEW out, NEW at, Agree(b, in, out, at),
           NEW ks \in Seq(Keys), IsInjective(ks), Range(ks) = {k \in Range(b) : at[k] \in {"Unqueued"}}
    PROVE  Agree(b, in \o ks, out, Put(at, Range(ks), "Input"))
  <1>1. Range(b) \subseteq Keys /\ Range(in) \cap Range(ks) = {}
    BY SMTT(30) DEF Agree, Range
  <1>2. in \o ks \in Seq(Keys) /\ IsInjective(in \o ks) /\ Range(in \o ks) = Range(in) \cup Range(ks)
    BY <1>1, RangeConcat DEF Agree
  <1>. DEFINE to == Put(at, Range(ks), "Input")
  <1>4. to \in [Keys -> Places] /\ \A j \in Keys : to[j] = IF j \in Range(ks) THEN "Input" ELSE at[j]
    BY PutPlaces DEF Agree, Places
  <1>. HIDE DEF to
  <1>5. Range(in \o ks) = {j \in Range(b) : to[j] = "Input"}
    BY <1>1, <1>2, <1>4 DEF Agree
  <1>6. Range(out) = {j \in Range(b) : to[j] = "Output"}
    BY <1>1, <1>2, <1>4 DEF Agree
  <1>7. \A j \in Keys : to[j] = "None" <=> j \notin Range(b)
    BY <1>1, <1>2, <1>4 DEF Agree
  <1>8. Agree(b, in \o ks, out, to)
    BY <1>2, <1>4, <1>5, <1>6, <1>7 DEF Agree
  <1>. QED  BY <1>8 DEF to

LEMMA AgreeAllToInput ==
    ASSUME NEW b, NEW in, NEW out, NEW at, Agree(b, in, out, at),
           NEW ks \in Seq(Keys), IsInjective(ks), Range(ks) = {k \in Range(b) : at[k] \in {"Unqueued", "Output"}}
    PROVE  Agree(b, in \o ks, <<>>, Put(at, Range(ks), "Input"))
  <1>1. Range(b) \subseteq Keys /\ Range(in) \cap Range(ks) = {}
    BY DEF Agree, Range
  <1>2. in \o ks \in Seq(Keys) /\ IsInjective(in \o ks) /\ Range(in \o ks) = Range(in) \cup Range(ks)
    BY <1>1, RangeConcat DEF Agree
  <1>. DEFINE to == Put(at, Range(ks), "Input")
  <1>4. to \in [Keys -> Places] /\ \A j \in Keys : to[j] = IF j \in Range(ks) THEN "Input" ELSE at[j]
    BY PutPlaces DEF Agree, Places
  <1>. HIDE DEF to
  <1>5. Range(in \o ks) = {j \in Range(b) : to[j] = "Input"}
    BY <1>1, <1>2, <1>4 DEF Agree
  <1>6. Range(<<>>) = {j \in Range(b) : to[j] = "Output"}
    BY <1>1, <1>4, RangeEmpty DEF Agree
  <1>7. \A j \in Keys : to[j] = "None" <=> j \notin Range(b)
    BY <1>1, <1>4 DEF Agree
  <1>8. Agree(b, in \o ks, <<>>, to)
    BY <1>2, <1>4, <1>5, <1>6, <1>7, RangeEmpty DEF Agree
  <1>. QED  BY <1>8 DEF to

LEMMA AgreeAllDiscard ==
    ASSUME NEW b, NEW in, NEW out, NEW at, Agree(b, in, out, at)
    PROVE  Agree(b, <<>>, <<>>, Put(Put(at, Range(out), "Unqueued"), Range(out) \cup Range(in), "Unqueued"))
  <1>1. Range(b) \subseteq Keys
    BY DEF Agree, Range
  <1>. DEFINE mid == Put(at, Range(out), "Unqueued")
              to  == Put(mid, Range(out) \cup Range(in), "Unqueued")
  <1>2. mid \in [Keys -> Places] /\ \A k \in Keys : mid[k] = IF k \in Range(out) THEN "Unqueued" ELSE at[k]
    BY PutPlaces DEF Agree, Places
  <1>. HIDE DEF mid
  <1>3. /\ to \in [Keys -> Places]
        /\ \A k \in Keys : to[k] = IF k \in Range(out) \cup Range(in) THEN "Unqueued" ELSE at[k]
    <2>1. to \in [Keys -> Places] /\ \A k \in Keys : to[k] = IF k \in Range(out) \cup Range(in) THEN "Unqueued" ELSE mid[k]
      BY <1>2, PutPlaces DEF Places
    <2>. HIDE DEF to
    <2>. QED  BY <1>2, <2>1
  <1>. HIDE DEF to
  <1>4. Agree(b, <<>>, <<>>, to)
    BY <1>1, <1>3, RangeEmpty DEF Agree
  <1>. QED  BY <1>4 DEF to, mid

LEMMA AgreeClear ==
    ASSUME NEW at \in [Keys -> Places]
    PROVE  Agree(<<>>, <<>>, <<>>, Put(at, Keys, "None"))
  BY PutPlaces, RangeEmpty DEF Agree, Places

LEMMA ListedIs ==
    ASSUME NEW p, p.buffers \in Seq(Keys), NEW places, NEW ks \in Listed(p, places)
    PROVE  /\ ks \in Seq(Keys) /\ IsInjective(ks)
           /\ Range(ks) = {k \in Range(p.buffers) : p.at[k] \in places}
  <1>. DEFINE S == {k \in Range(p.buffers) : p.at[k] \in places}
              n == Cardinality(S)
  <1>1. ks \in [1..n -> S] /\ Range(ks) = S /\ \A i, j \in DOMAIN ks : i < j => ks[i] < ks[j]
    BY DEF Listed
  <1>2. S \subseteq Keys /\ Keys \subseteq Nat
    BY GentlAssumption DEF Range, Keys
  <1>3. n \in Nat
    <2>1. IsFiniteSet(Keys)
      BY GentlAssumption, FS_Interval DEF Keys
    <2>. HIDE DEF S
    <2>. QED  BY <1>2, <2>1, FS_Subset, FS_CardinalityType
  <1>. HIDE DEF S, n
  <1>4. ks \in Seq(Keys)
    <2>1. ks \in [1..n -> Keys]
      BY <1>1, <1>2
    <2>. QED  BY <1>3, <2>1
  <1>5. ASSUME NEW i \in DOMAIN ks, NEW j \in DOMAIN ks, ks[i] = ks[j] PROVE i = j
    <2>0. DOMAIN ks = 1..n
      BY <1>1
    <2>1. i \in Int /\ j \in Int /\ ks[i] \in Int /\ ks[j] \in Int
      <3>1. ks[i] \in Nat /\ ks[j] \in Nat
        BY <1>1, <1>2, <2>0
      <3>. QED  BY <1>3, <2>0, <3>1
    <2>. QED  BY <1>1, <1>5, <2>1
  <1>. QED  BY <1>1, <1>4, <1>5 DEF IsInjective, S

\* A place given to buffers changes the entries and no pool.
LEMMA PlacedIs ==
    ASSUME NEW b, NEW in, NEW out, NEW at \in [Keys -> Places], NEW ks, NEW place
    PROVE  Placed([buffers |-> b, input |-> in, output |-> out, at |-> at], ks, place)
              = [buffers |-> b, input |-> in, output |-> out, at |-> Put(at, ks, place)]
  <1>1. DOMAIN at = Keys
    OBVIOUS
  <1>. QED  BY <1>1 DEF Placed, Put

-----------------------------------------------------------------------------
(* What the consumer's threads are doing. *)

\* No call takes or gives up the engine's mutex, or begins to announce.
PcKeeps ==
    /\ pc' \in Callings
    /\ \A c \in Callers : pc[c].at \in Holding \/ pc'[c].at \in Holding
          => pc'[c].at = pc[c].at /\ pc'[c].arg = pc[c].arg
    /\ \A c \in Callers : pc'[c].at = "announce" => pc[c].at = "announce"

LEMMA GoIs ==
    ASSUME TypeInv, NEW c \in Callers, NEW step \in Steps, NEW arg \in Int, Go(c, step, arg)
    PROVE  /\ pc' \in Callings /\ pc'[c].at = step /\ pc'[c].arg = arg
           /\ \A e \in Callers : e # c => pc'[e] = pc[e]
  BY DEF TypeInv, Callings, Go

LEMMA DoneIs ==
    ASSUME TypeInv, NEW c \in Callers, Done(c)
    PROVE  /\ pc' \in Callings /\ pc'[c] = Idle /\ pc'[c].at = "idle"
           /\ \A e \in Callers : e # c => pc'[e] = pc[e]
  <1>1. Idle \in [at : Steps, arg : Int, device : BOOLEAN] /\ Idle.at = "idle"
    BY DEF Idle, Steps
  <1>. QED  BY <1>1 DEF TypeInv, Callings, Done

LEMMA GoKeeps ==
    ASSUME TypeInv, NEW c \in Callers, NEW step \in Steps \ (Holding \cup {"announce"}), NEW arg \in Int,
           pc[c].at \notin Holding, Go(c, step, arg)
    PROVE  PcKeeps
  <1>1. /\ pc' \in Callings /\ pc'[c].at = step
        /\ \A e \in Callers : e # c => pc'[e] = pc[e]
    BY ZenonT(40) DEF TypeInv, Callings, Go
  <1>. QED  BY <1>1 DEF PcKeeps

LEMMA IdleKeeps ==
    ASSUME TypeInv, NEW c \in Callers, pc[c].at \notin Holding, Done(c)
    PROVE  PcKeeps
  BY DoneIs DEF PcKeeps, Holding

LEMMA SameKeeps ==
    ASSUME TypeInv, UNCHANGED pc
    PROVE  PcKeeps
  BY DEF TypeInv, PcKeeps

\* A wake-up moves the calls that wait.
LEMMA NotifyKeeps ==
    ASSUME TypeInv, NEW f \in Callings, pc' = notify_all(f),
           \A e \in Callers : f[e] = pc[e]
                 \/ (pc[e].at \notin Holding /\ f[e].at \in Steps \ (Holding \cup {"announce", "waiting"}))
    PROVE  PcKeeps
  <1>1. ASSUME NEW e \in Callers
        PROVE  /\ pc'[e] \in [at : Steps, arg : Int, device : BOOLEAN]
               /\ pc'[e] = f[e] \/ (pc[e].at = "waiting" /\ pc'[e].at = "get")
    <2>1. pc'[e] = IF pc[e].at = "waiting" THEN [f[e] EXCEPT !.at = "get"] ELSE f[e]
      BY DEF notify_all, Woken, Waiting, At
    <2>2. f[e] \in [at : Steps, arg : Int, device : BOOLEAN] /\ "get" \in Steps
      BY DEF Callings, Steps
    <2>. QED  BY <2>1, <2>2
  <1>2. pc' \in Callings
    BY <1>1 DEF notify_all, Woken, Callings
  <1>. QED  BY <1>1, <1>2 DEF PcKeeps, Holding

-----------------------------------------------------------------------------
(* The parts of the invariant, and the steps that leave them alone. *)

\* The engine's mutex and its thread: threads may end, and the stream may close.
LEMMA EngineQuiet ==
    ASSUME TypeInv, EngineInv, PcKeeps, UNCHANGED <<engine, stopping>>,
           \A i \in 1..MaxStarts : Alive(i)' => Alive(i),
           acq'.closed \/ (acq'.started = acq.started /\ acq'.closed = acq.closed)
    PROVE  EngineInv'
  <1>1. \A c \in Callers : (pc'[c].at \in Holding <=> pc[c].at \in Holding)
                            /\ (pc[c].at \in Holding => pc'[c].at = pc[c].at /\ pc'[c].arg = pc[c].arg)
    BY DEF PcKeeps
  <1>2. MutexHeld'
    BY <1>1 DEF EngineInv, MutexHeld
  <1>3. InCharge'
    BY <1>1 DEF EngineInv, InCharge, Holding
  <1>. QED  BY <1>2, <1>3 DEF EngineInv

LEMMA FewerAnnounce ==
    ASSUME \A c \in Callers : pc'[c].at = "announce" => pc[c].at = "announce"
    PROVE  Cardinality(Announcers') \in Nat /\ Cardinality(Announcers) \in Nat
           /\ Cardinality(Announcers') <= Cardinality(Announcers)
  <1>1. Announcers' \subseteq Announcers /\ Announcers \subseteq Callers
    BY DEF Announcers, At
  <1>2. IsFiniteSet(Announcers)
    BY <1>1, GentlAssumption, FS_Subset
  <1>. HIDE DEF Announcers
  <1>. QED  BY <1>1, <1>2, FS_Subset, FS_CardinalityType

\* The pools, where they keep or lose buffers.
LEMMA PoolKept ==
    ASSUME TypeInv, PoolInv, PcKeeps, UNCHANGED keys,
           NEW b, NEW in, NEW out, NEW at, Agree(b, in, out, at),
           pool' = [buffers |-> b, input |-> in, output |-> out, at |-> at],
           Range(b) \subseteq Range(pool.buffers)
    PROVE  PoolInv'
  <1>1. pool'.buffers = b /\ pool'.input = in /\ pool'.output = out /\ pool'.at = at
    OBVIOUS
  <1>2. keys' + Cardinality(Announcers') <= MaxKeys
    BY SMTT(30), FewerAnnounce, GentlAssumption DEF PoolInv, TypeInv, PcKeeps
  <1>. QED  BY <1>1, <1>2 DEF PoolInv

LEMMA PoolQuiet ==
    ASSUME TypeInv, PoolInv, UNCHANGED <<keys, pool>>,
           \A c \in Callers : pc'[c].at = "announce" => pc[c].at = "announce"
    PROVE  PoolInv'
  <1>1. keys' + Cardinality(Announcers') <= MaxKeys
    BY SMTT(30), FewerAnnounce, GentlAssumption DEF PoolInv, TypeInv
  <1>. QED  BY <1>1 DEF PoolInv

\* Frames, where those that wait are the ones that waited, from the first or from
\* the second, and the first is handed out.
LEMMA FramesKept ==
    ASSUME TypeInv, FrameInv, UNCHANGED frames, NEW off \in {0, 1},
           pool.output \in Seq(Keys), pool'.output \in Seq(Keys), fill' \in [Keys -> Nat],
           \A k \in Keys : fill'[k] \in {0, fill[k]},
           \A i \in DOMAIN pool'.output :
              fill'[pool'.output[i]] # 0 =>
                 i + off \in DOMAIN pool.output /\ fill'[pool'.output[i]] = fill[pool.output[i + off]],
           \/ handed' = handed
           \/ off = 1 /\ 1 \in DOMAIN pool.output /\ handed' = fill[pool.output[1]] /\ handed' # 0,
           acq'.closed \/ acq'.closed = acq.closed,
           \A i \in 1..MaxStarts : thread'[i] = "have" => thread[i] = "have"
    PROVE  FrameInv'
  <1>1. DOMAIN pool.output \subseteq Nat /\ DOMAIN pool'.output \subseteq Nat
        /\ (\A i \in DOMAIN pool.output : pool.output[i] \in Keys)
        /\ (\A i \in DOMAIN pool'.output : pool'.output[i] \in Keys)
    OBVIOUS
  <1>2. fill \in [Keys -> Nat] /\ handed \in Nat /\ handed <= frames /\ frames \in Nat
        /\ \A k \in Keys : fill[k] <= frames
    BY DEF FrameInv, TypeInv
  <1>3. handed' \in Nat /\ handed' <= frames' /\ \A k \in Keys : fill'[k] <= frames'
    <2>1. handed' = handed \/ (1 \in DOMAIN pool.output /\ handed' = fill[pool.output[1]])
      OBVIOUS
    <2>2. 1 \in DOMAIN pool.output => fill[pool.output[1]] \in Nat /\ fill[pool.output[1]] <= frames
      BY <1>1, <1>2
    <2>3. \A k \in Keys : fill'[k] <= frames'
      BY <1>2
    <2>4. handed' \in Nat /\ handed' <= frames'
      BY <2>1, <2>2, <1>2
    <2>. QED  BY <2>3, <2>4
  <1>4. ASSUME ~acq'.closed, \E i \in 1..MaxStarts : thread'[i] = "have"
        PROVE  handed' < frames' /\ \A i \in DOMAIN pool'.output : fill'[pool'.output[i]] < frames'
    <2>1. handed < frames /\ \A i \in DOMAIN pool.output : fill[pool.output[i]] < frames
      BY <1>4 DEF FrameInv
    <2>2. handed' < frames'
      BY <2>1
    <2>3. ASSUME NEW i \in DOMAIN pool'.output PROVE fill'[pool'.output[i]] < frames'
      <3>1. CASE fill'[pool'.output[i]] = 0
        BY <1>2, <2>1, <3>1
      <3>2. CASE fill'[pool'.output[i]] # 0
        BY <2>1, <3>2
      <3>. QED  BY <3>1, <3>2
    <2>. QED  BY <2>2, <2>3
  <1>5. FramesInOrder'
    <2>. SUFFICES ASSUME ~acq'.closed, NEW i \in DOMAIN pool'.output, fill'[pool'.output[i]] # 0
                  PROVE  /\ handed' < fill'[pool'.output[i]]
                         /\ \A j \in DOMAIN pool'.output :
                               i < j /\ fill'[pool'.output[j]] # 0
                                  => fill'[pool'.output[i]] < fill'[pool'.output[j]]
      BY DEF FramesInOrder
    <2>1. i \in Nat /\ i >= 1 /\ i + off \in DOMAIN pool.output /\ fill'[pool'.output[i]] = fill[pool.output[i + off]]
      BY <1>1
    <2>2. FramesInOrder /\ ~acq.closed
      BY DEF FrameInv
    <2>3. handed' < fill'[pool'.output[i]]
      <3>1. CASE handed' = handed
        BY <2>1, <2>2, <3>1 DEF FramesInOrder
      <3>2. CASE off = 1 /\ 1 \in DOMAIN pool.output /\ handed' = fill[pool.output[1]] /\ handed' # 0
        <4>1. 1 < i + off
          BY <2>1, <3>2
        <4>. QED  BY <2>1, <2>2, <3>2, <4>1 DEF FramesInOrder
      <3>. QED  BY <3>1, <3>2
    <2>4. ASSUME NEW j \in DOMAIN pool'.output, i < j, fill'[pool'.output[j]] # 0
          PROVE  fill'[pool'.output[i]] < fill'[pool'.output[j]]
      <3>1. j \in Nat /\ j + off \in DOMAIN pool.output /\ fill'[pool'.output[j]] = fill[pool.output[j + off]]
        BY <1>1, <2>4
      <3>2. i + off < j + off
        BY <2>1, <2>4, <3>1
      <3>. QED  BY <2>1, <2>2, <2>4, <3>1, <3>2 DEF FramesInOrder
    <2>. QED  BY <2>3, <2>4
  <1>. QED  BY <1>3, <1>4, <1>5 DEF FrameInv

LEMMA FramesQuiet ==
    ASSUME TypeInv, FrameInv, UNCHANGED <<pool, fill, handed, frames>>,
           acq'.closed \/ acq'.closed = acq.closed,
           \A i \in 1..MaxStarts : thread'[i] = "have" => thread[i] = "have"
    PROVE  FrameInv'
  BY DEF FrameInv, FramesInOrder

\* A step of a call that is about neither the pools, the engine nor a frame.
LEMMA Aside ==
    ASSUME IInv, PcKeeps, UNCHANGED <<pool, fill, acq, engineVars, keys, starts, frames, handed>>,
           event' \in [key : Nat, kills : Int], events' \in Nat,
           reg' \in [device : BOOLEAN, stream : BOOLEAN, buffers : SUBSET Nat, events : SUBSET Nat]
    PROVE  IInv'
  <1>1. UNCHANGED <<engine, thread, stopping>>
    BY DEF engineVars
  <1>2. TypeInv'
    BY <1>1 DEF IInv, TypeInv, PcKeeps
  <1>3. EngineInv'
    BY <1>1, EngineQuiet DEF IInv, Alive
  <1>4. PoolInv'
    BY PoolQuiet DEF IInv, PcKeeps
  <1>5. FrameInv'
    BY <1>1, FramesQuiet DEF IInv
  <1>. QED  BY <1>2, <1>3, <1>4, <1>5 DEF IInv

\* A step of a call that moves buffers and fills none.
LEMMA Moved ==
    ASSUME IInv, PcKeeps, UNCHANGED <<acq, engineVars, keys, events, starts, frames, reg>>,
           event' \in [key : Nat, kills : Int],
           NEW b, NEW in, NEW out, NEW at, Agree(b, in, out, at),
           pool' = [buffers |-> b, input |-> in, output |-> out, at |-> at],
           Range(b) \subseteq Range(pool.buffers),
           fill' \in [Keys -> Nat], \A k \in Keys : fill'[k] \in {0, fill[k]},
           NEW off \in {0, 1},
           \A i \in DOMAIN out :
              fill'[out[i]] # 0 => i + off \in DOMAIN pool.output /\ fill'[out[i]] = fill[pool.output[i + off]],
           \/ handed' = handed
           \/ off = 1 /\ 1 \in DOMAIN pool.output /\ handed' = fill[pool.output[1]] /\ handed' # 0
    PROVE  IInv'
  <1>1. UNCHANGED <<engine, thread, stopping>>
    BY DEF engineVars
  <1>2. TypeInv'
    BY <1>1 DEF IInv, TypeInv, PcKeeps
  <1>3. EngineInv'
    BY <1>1, EngineQuiet DEF IInv, Alive
  <1>4. PoolInv'
    BY PoolKept DEF IInv
  <1>5. FrameInv'
    <2>1. pool'.output = out /\ out \in Seq(Keys) /\ pool.output \in Seq(Keys)
      BY DEF IInv, PoolInv, Agree
    <2>. QED  BY <1>1, <2>1, FramesKept DEF IInv
  <1>. QED  BY <1>2, <1>3, <1>4, <1>5 DEF IInv

-----------------------------------------------------------------------------
(* Calls on buffers. *)

\* The lookup of a call that is not an announcement.
LEMMA CallStep ==
    ASSUME IInv, NEW c \in Callers, NEW step \in Steps \ (Holding \cup {"announce"}), NEW arg \in Int,
           Call(c, step, arg)
    PROVE  IInv'
  <1>1. PcKeeps
    BY GoKeeps DEF Call, At, IInv, Holding
  <1>. QED  BY <1>1, Aside DEF Call, IInv, TypeInv, poolVars

\* An announcement that begins is one the bound has room for.
LEMMA CallAnnounce ==
    ASSUME IInv, NEW c \in Callers, NEW base \in Int, Call(c, "announce", base),
           keys + Within({"announce"}) < MaxKeys
    PROVE  IInv'
  <1>1. /\ pc' \in Callings /\ pc'[c].at = "announce" /\ pc[c].at = "idle"
        /\ \A e \in Callers : e # c => pc'[e] = pc[e]
    <2>1. "announce" \in Steps /\ Go(c, "announce", base) /\ pc[c].at = "idle"
      BY DEF Steps, Call, At
    <2>. QED  BY <2>1, GoIs DEF IInv
  <1>2. UNCHANGED <<pool, fill, acq, event, reg, engine, thread, stopping, keys, events, starts, frames, handed>>
    BY DEF Call, poolVars, engineVars
  <1>3. TypeInv'
    BY <1>1, <1>2 DEF IInv, TypeInv
  <1>4. EngineInv'
    <2>1. \A e \in Callers : (pc'[e].at \in Holding <=> pc[e].at \in Holding)
                               /\ (pc[e].at \in Holding => pc'[e] = pc[e])
      BY <1>1 DEF Holding
    <2>2. MutexHeld'
      BY <1>2, <2>1 DEF IInv, EngineInv, MutexHeld
    <2>3. InCharge'
      BY <1>2, <2>1 DEF IInv, EngineInv, InCharge, Alive, Holding
    <2>. QED  BY <2>2, <2>3 DEF EngineInv
  <1>5. PoolInv'
    <2>1. Announcers' = Announcers \cup {c} /\ c \notin Announcers
      BY <1>1 DEF Announcers, At
    <2>2. IsFiniteSet(Announcers)
      <3>1. Announcers \subseteq Callers
        BY DEF Announcers
      <3>. QED  BY <3>1, GentlAssumption, FS_Subset
    <2>3. Cardinality(Announcers') = Cardinality(Announcers) + 1 /\ Cardinality(Announcers) \in Nat
      BY <2>1, <2>2, FS_AddElement, FS_CardinalityType
    <2>4. Within({"announce"}) = Cardinality(Announcers)
      <3>1. Announcers = {e \in Callers : pc[e].at \in {"announce"}}
        BY DEF Announcers, At
      <3>. QED  BY <3>1 DEF Within
    <2>5. keys' + Cardinality(Announcers') <= MaxKeys
      BY <1>2, <2>3, <2>4, GentlAssumption, SMTT(60) DEF IInv, TypeInv
    <2>. QED  BY <1>2, <2>5 DEF IInv, PoolInv
  <1>6. FrameInv'
    BY <1>2, FramesQuiet DEF IInv
  <1>. QED  BY <1>3, <1>4, <1>5, <1>6 DEF IInv

LEMMA AnnounceStep ==
    ASSUME IInv, NEW c \in Callers, announce(c)
    PROVE  IInv'
  <1>1. PcKeeps /\ pc'[c].at = "idle" /\ pc[c].at = "announce"
    <2>1. pc[c].at = "announce" /\ Done(c)
      BY DEF announce, At
    <2>2. PcKeeps
      BY <2>1, IdleKeeps DEF IInv, Holding
    <2>. QED  BY <2>1, <2>2 DEF Done, Idle, IInv, TypeInv, Callings
  <1>2. UNCHANGED <<fill, acq, event, engine, thread, stopping, events, starts, frames, handed>>
    BY DEF announce, engineVars
  <1>3. CASE UNCHANGED <<reg, pool, keys>>
    BY <1>1, <1>2, <1>3, Aside DEF engineVars, IInv, TypeInv
  <1>4. CASE ~UNCHANGED <<reg, pool, keys>>
    <2>1. /\ reg' = [reg EXCEPT !.buffers = @ \cup {keys + 1}]
          /\ pool' = Placed([pool EXCEPT !.buffers = Append(@, keys + 1)], {keys + 1}, "Unqueued")
          /\ keys' = keys + 1
      BY <1>4 DEF announce
    <2>2. Announcers' = Announcers \ {c} /\ c \in Announcers
      <3>1. \A e \in Callers : e # c => pc'[e] = pc[e]
        BY DEF announce, Done, IInv, TypeInv, Callings
      <3>. QED  BY <1>1, <3>1 DEF Announcers, At
    <2>3. /\ Cardinality(Announcers') = Cardinality(Announcers) - 1
          /\ Cardinality(Announcers) \in Nat /\ Cardinality(Announcers') \in Nat
      <3>1. Announcers \subseteq Callers
        BY DEF Announcers
      <3>2. IsFiniteSet(Announcers)
        BY <3>1, GentlAssumption, FS_Subset
      <3>3. Cardinality(Announcers') = Cardinality(Announcers) - 1
        BY <2>2, <3>2, FS_RemoveElement
      <3>4. IsFiniteSet(Announcers')
        BY <2>2, <3>2, FS_Subset
      <3>. QED  BY <3>2, <3>3, <3>4, FS_CardinalityType
    <2>4. keys + 1 \in Keys /\ keys \in Nat /\ keys' + Cardinality(Announcers') <= MaxKeys
      <3>1. keys \in Nat /\ MaxKeys \in Nat /\ keys + Cardinality(Announcers) <= MaxKeys
        BY GentlAssumption DEF IInv, PoolInv, TypeInv
      <3>. QED  BY <2>1, <2>3, <3>1 DEF Keys
    <2>5. keys + 1 \notin Range(pool.buffers)
      BY <2>4 DEF IInv, PoolInv
    <2>. DEFINE b == Append(pool.buffers, keys + 1)
                at == Put(pool.at, {keys + 1}, "Unqueued")
    <2>6. Agree(b, pool.input, pool.output, at)
      BY <2>4, <2>5, AgreeAnnounce DEF IInv, PoolInv
    <2>7. pool' = [buffers |-> b, input |-> pool.input, output |-> pool.output, at |-> at]
      <3>1. [pool EXCEPT !.buffers = Append(@, keys + 1)]
              = [buffers |-> b, input |-> pool.input, output |-> pool.output, at |-> pool.at]
        BY SMTT(60) DEF IInv, PoolInv
      <3>. HIDE DEF b
      <3>2. pool.at \in [Keys -> Places]
        BY DEF IInv, PoolInv, Agree
      <3>3. Placed([buffers |-> b, input |-> pool.input, output |-> pool.output, at |-> pool.at], {keys + 1}, "Unqueued")
              = [buffers |-> b, input |-> pool.input, output |-> pool.output, at |-> at]
        BY <3>2, PlacedIs
      <3>. QED  BY <2>1, <3>1, <3>3
    <2>8. Range(b) = Range(pool.buffers) \cup {keys + 1}
      BY <2>4, <2>5, RangeAppend DEF IInv, PoolInv, Agree
    <2>. HIDE DEF b, at
    <2>9. PoolInv'
      <3>1. pool'.buffers = b /\ pool'.input = pool.input /\ pool'.output = pool.output /\ pool'.at = at
        BY <2>7
      <3>2. \A k \in Range(b) : k <= keys'
        <4>1. \A k \in Range(pool.buffers) : k \in Nat /\ k <= keys
          BY GentlAssumption DEF IInv, PoolInv, Agree, Range, Keys
        <4>. QED  BY <2>1, <2>4, <2>8, <4>1
      <3>. QED  BY <2>4, <2>6, <2>7, <3>1, <3>2 DEF PoolInv
    <2>10. FrameInv'
      <3>1. pool'.output = pool.output
        BY <2>7
      <3>. QED  BY <1>2, <3>1 DEF IInv, FrameInv, FramesInOrder
    <2>11. EngineInv'
      BY <1>1, <1>2, EngineQuiet DEF IInv, Alive
    <2>12. TypeInv'
      BY <1>1, <1>2, <2>1, <2>4 DEF IInv, TypeInv, PcKeeps
    <2>. QED  BY <2>9, <2>10, <2>11, <2>12 DEF IInv
  <1>. QED  BY <1>3, <1>4

\* The record of the pools, field by field.
LEMMA PoolIs ==
    ASSUME IInv
    PROVE  /\ pool = [buffers |-> pool.buffers, input |-> pool.input, output |-> pool.output, at |-> pool.at]
           /\ Agree(pool.buffers, pool.input, pool.output, pool.at)
           /\ pool.at \in [Keys -> Places] /\ pool.output \in Seq(Keys) /\ pool.input \in Seq(Keys)
           /\ pool.buffers \in Seq(Keys)
           /\ fill \in [Keys -> Nat]
  BY DEF IInv, PoolInv, Agree, FrameInv

LEMMA PoolRecord ==
    ASSUME IInv
    PROVE  pool = [buffers |-> pool.buffers, input |-> pool.input, output |-> pool.output, at |-> pool.at]
  BY DEF IInv, PoolInv

LEMMA PoolPlaces ==
    ASSUME IInv
    PROVE  pool.at \in [Keys -> Places]
  BY DEF IInv, PoolInv, Agree

LEMMA RevokeStep ==
    ASSUME IInv, NEW c \in Callers, revoke(c)
    PROVE  IInv'
  <1>1. pc[c].at = "revoke" /\ pc[c].arg \in Int /\ "forget" \in Steps \ (Holding \cup {"announce"})
    BY DEF revoke, At, IInv, TypeInv, Callings, Steps, Holding
  <1>2. PcKeeps
    <2>1. Go(c, "forget", pc[c].arg) \/ Done(c)
      BY DEF revoke
    <2>. QED  BY <1>1, <2>1, GoKeeps, IdleKeeps DEF IInv, Holding
  <1>3. UNCHANGED <<fill, acq, event, reg, engineVars, keys, events, starts, frames, handed>>
    BY DEF revoke, counts
  <1>4. CASE UNCHANGED pool
    BY <1>2, <1>3, <1>4, Aside DEF IInv, TypeInv
  <1>5. CASE ~UNCHANGED pool
    <2>1. PICK n \in DOMAIN pool.buffers :
             /\ pool.at[pool.buffers[n]] = "Unqueued"
             /\ pool' = Placed([pool EXCEPT !.buffers = RemoveAt(@, n)], {pool.buffers[n]}, "None")
      BY <1>5 DEF revoke, Revokable
    <2>. DEFINE b == RemoveAt(pool.buffers, n)
                at == Put(pool.at, {pool.buffers[n]}, "None")
    <2>2. Agree(b, pool.input, pool.output, at)
      BY <2>1, PoolIs, AgreeRevoke
    <2>3. Range(b) \subseteq Range(pool.buffers)
      BY PoolIs, RangeRemoveAt DEF Agree
    <2>4. [pool EXCEPT !.buffers = RemoveAt(@, n)]
            = [buffers |-> b, input |-> pool.input, output |-> pool.output, at |-> pool.at]
      BY PoolRecord
    <2>. HIDE DEF b
    <2>5. Placed([buffers |-> b, input |-> pool.input, output |-> pool.output, at |-> pool.at],
                 {pool.buffers[n]}, "None")
            = [buffers |-> b, input |-> pool.input, output |-> pool.output, at |-> at]
      BY PoolPlaces, PlacedIs
    <2>. HIDE DEF at
    <2>6. pool' = [buffers |-> b, input |-> pool.input, output |-> pool.output, at |-> at]
      BY <2>1, <2>4, <2>5
    <2>7. event' \in [key : Nat, kills : Int] /\ fill' \in [Keys -> Nat] /\ 0 \in {0, 1}
      BY <1>3, PoolIs DEF IInv, TypeInv
    <2>8. \A i \in DOMAIN pool.output : i + 0 = i
      BY PoolIs
    <2>. QED  BY <1>2, <1>3, <2>2, <2>3, <2>6, <2>7, <2>8, Moved
  <1>. QED  BY <1>4, <1>5

LEMMA ForgetStep ==
    ASSUME IInv, NEW c \in Callers, forget(c)
    PROVE  IInv'
  <1>1. PcKeeps
    BY IdleKeeps DEF forget, At, IInv, Holding
  <1>2. UNCHANGED <<pool, fill, acq, event, engineVars, keys, events, starts, frames, handed>>
    BY DEF forget, counts, poolVars
  <1>3. reg' \in [device : BOOLEAN, stream : BOOLEAN, buffers : SUBSET Nat, events : SUBSET Nat]
    BY DEF forget, IInv, TypeInv
  <1>. QED  BY <1>1, <1>2, <1>3, Aside DEF IInv, TypeInv

LEMMA QueueStep ==
    ASSUME IInv, NEW c \in Callers, queue(c)
    PROVE  IInv'
  <1>1. PcKeeps
    BY IdleKeeps DEF queue, At, IInv, Holding
  <1>2. UNCHANGED <<acq, event, reg, engineVars, keys, events, starts, frames, handed>>
    BY DEF queue, counts
  <1>3. CASE UNCHANGED <<pool, fill>>
    BY <1>1, <1>2, <1>3, Aside DEF IInv, TypeInv
  <1>4. CASE ~UNCHANGED <<pool, fill>>
    <2>. DEFINE k == pc[c].arg
                in == Append(pool.input, k)
                at == Put(pool.at, {k}, "Input")
    <2>1. /\ k \in Range(pool.buffers) /\ pool.at[k] = "Unqueued"
          /\ pool' = Placed([pool EXCEPT !.input = Append(@, k)], {k}, "Input")
          /\ fill' = [fill EXCEPT ![k] = 0]
      BY <1>4 DEF queue, Announced
    <2>. HIDE DEF k
    <2>2. Agree(pool.buffers, in, pool.output, at)
      BY <2>1, PoolIs, AgreeQueue
    <2>3. [pool EXCEPT !.input = Append(@, k)]
            = [buffers |-> pool.buffers, input |-> in, output |-> pool.output, at |-> pool.at]
      BY PoolRecord
    <2>. HIDE DEF in
    <2>4. Placed([buffers |-> pool.buffers, input |-> in, output |-> pool.output, at |-> pool.at], {k}, "Input")
            = [buffers |-> pool.buffers, input |-> in, output |-> pool.output, at |-> at]
      BY PoolPlaces, PlacedIs
    <2>. HIDE DEF at
    <2>5. pool' = [buffers |-> pool.buffers, input |-> in, output |-> pool.output, at |-> at]
      BY <2>1, <2>3, <2>4
    <2>6. fill' \in [Keys -> Nat] /\ \A e \in Keys : fill'[e] \in {0, fill[e]}
      BY <2>1, PoolIs
    <2>7. event' \in [key : Nat, kills : Int] /\ 0 \in {0, 1}
      BY <1>2 DEF IInv, TypeInv
    <2>8. \A i \in DOMAIN pool.output : i + 0 = i /\ pool.output[i] \in Keys
      BY PoolIs
    <2>. QED  BY <1>1, <1>2, <2>2, <2>5, <2>6, <2>7, <2>8, Moved
  <1>. QED  BY <1>3, <1>4

-----------------------------------------------------------------------------
(* Flushes. *)

LEMMA RefilledIs ==
    ASSUME IInv, fill' = Refilled(pool, pool')
    PROVE  /\ fill' \in [Keys -> Nat] /\ \A k \in Keys : fill'[k] \in {0, fill[k]}
           /\ \A k \in Keys : pool'.at[k] # pool.at[k] /\ pool'.at[k] = "Output" => fill'[k] = 0
  <1>1. fill \in [Keys -> Nat]
    BY PoolIs
  <1>. QED  BY <1>1 DEF Refilled

\* What a flush leaves of the output queue.
LEMMA FlushMoves ==
    ASSUME IInv, NEW op \in FlushOps, pool' \in flush(pool, op), fill' = Refilled(pool, pool')
    PROVE  \E in, out, at :
             /\ Agree(pool.buffers, in, out, at)
             /\ pool' = [buffers |-> pool.buffers, input |-> in, output |-> out, at |-> at]
             /\ \A i \in DOMAIN out :
                   fill'[out[i]] # 0 => i + 0 \in DOMAIN pool.output /\ fill'[out[i]] = fill[pool.output[i + 0]]
  <1>. DEFINE b == pool.buffers
              Rec(in, out, at) == [buffers |-> b, input |-> in, output |-> out, at |-> at]
              Kept(out) == \A i \in DOMAIN out :
                   fill'[out[i]] # 0 => i + 0 \in DOMAIN pool.output /\ fill'[out[i]] = fill[pool.output[i + 0]]
  <1>1. /\ pool.output \in Seq(Keys) /\ pool.input \in Seq(Keys) /\ pool.at \in [Keys -> Places]
        /\ Agree(b, pool.input, pool.output, pool.at)
    BY PoolIs
  <1>2. Kept(<<>>)
    OBVIOUS
  <1>3. Kept(pool.output)
    <2>1. \A i \in DOMAIN pool.output : i + 0 = i /\ pool.output[i] \in Keys
      BY <1>1
    <2>. QED  BY <2>1, RefilledIs
  <1>4. CASE op = "INPUT_TO_OUTPUT"
    <2>. DEFINE out == pool.output \o pool.input
                at == Put(pool.at, Range(pool.input), "Output")
    <2>1. pool' = Placed([pool EXCEPT !.output = @ \o pool.input, !.input = <<>>], Range(pool.input), "Output")
      BY <1>4 DEF flush
    <2>2. [pool EXCEPT !.output = @ \o pool.input, !.input = <<>>] = Rec(<<>>, out, pool.at)
      <3>. DEFINE q == [pool EXCEPT !.output = out]
      <3>. HIDE DEF out
      <3>1. q = Rec(pool.input, out, pool.at)
        BY PoolRecord
      <3>. HIDE DEF q
      <3>2. [q EXCEPT !.input = <<>>] = Rec(<<>>, out, pool.at)
        BY <3>1
      <3>. QED  BY <3>2 DEF q, out
    <2>3. Agree(b, <<>>, out, at)
      BY <1>1, AgreeInputToOutput
    <2>4. \A k \in Range(pool.input) : k \in Keys /\ at[k] = "Output" /\ pool.at[k] = "Input"
      <3>1. \A k \in Range(pool.input) : k \in Keys /\ pool.at[k] = "Input"
        BY <1>1 DEF Agree, Range
      <3>. QED  BY <3>1 DEF Put
    <2>5. /\ DOMAIN out = 1..Len(pool.output) + Len(pool.input) /\ Len(pool.output) \in Nat
          /\ DOMAIN pool.output = 1..Len(pool.output) /\ DOMAIN pool.input = 1..Len(pool.input)
          /\ \A i \in 1..Len(pool.output) : out[i] = pool.output[i]
          /\ \A i \in 1..Len(pool.output) + Len(pool.input) : i > Len(pool.output) =>
                i - Len(pool.output) \in 1..Len(pool.input) /\ out[i] = pool.input[i - Len(pool.output)]
          /\ Len(pool.input) \in Nat
      <3>1. pool.output \in Seq(Keys) /\ pool.input \in Seq(Keys)
        BY <1>1
      <3>. DEFINE Is(s, t, u) ==
                    /\ DOMAIN u = 1..Len(s) + Len(t) /\ Len(s) \in Nat
                    /\ DOMAIN s = 1..Len(s) /\ DOMAIN t = 1..Len(t)
                    /\ \A i \in 1..Len(s) : u[i] = s[i]
                    /\ \A i \in 1..Len(s) + Len(t) : i > Len(s) => i - Len(s) \in 1..Len(t) /\ u[i] = t[i - Len(s)]
                    /\ Len(t) \in Nat
      <3>2. \A s, t \in Seq(Keys) : Is(s, t, s \o t)
        BY ConcatIs
      <3>. HIDE DEF Is
      <3>3. Is(pool.output, pool.input, out)
        BY <3>1, <3>2
      <3>. HIDE DEF out
      <3>. QED  BY <3>3 DEF Is
    <2>. HIDE DEF out
    <2>6. Placed(Rec(<<>>, out, pool.at), Range(pool.input), "Output") = Rec(<<>>, out, at)
      BY PoolPlaces, PlacedIs
    <2>. HIDE DEF at
    <2>7. pool' = Rec(<<>>, out, at)
      BY <2>1, <2>2, <2>6
    <2>8. \A k \in Range(pool.input) : fill'[k] = 0
      <3>1. pool'.at = at
        BY <2>7
      <3>. QED  BY <2>4, <3>1, RefilledIs
    <2>9. Kept(out)
      <3>. SUFFICES ASSUME NEW i \in DOMAIN out, fill'[out[i]] # 0
                    PROVE  i + 0 \in DOMAIN pool.output /\ fill'[out[i]] = fill[pool.output[i + 0]]
        OBVIOUS
      <3>1. i \in DOMAIN pool.output
        <4>1. ASSUME i \notin DOMAIN pool.output PROVE out[i] \in Range(pool.input)
          <5>1. i > Len(pool.output)
            BY <2>5, <4>1
          <5>2. i - Len(pool.output) \in DOMAIN pool.input /\ out[i] = pool.input[i - Len(pool.output)]
            BY <2>5, <5>1
          <5>. QED  BY <5>2 DEF Range
        <4>. QED  BY <2>8, <4>1
      <3>2. out[i] = pool.output[i] /\ i + 0 = i
        <4>1. i \in 1..Len(pool.output)
          BY <2>5, <3>1
        <4>2. i \in Int
          BY <2>5, <4>1
        <4>3. out[i] = pool.output[i]
          BY <2>5, <4>1
        <4>4. i + 0 = i
          BY <4>2
        <4>. QED  BY <4>3, <4>4
      <3>. QED  BY <1>3, <3>1, <3>2
    <2>. QED  BY <2>3, <2>7, <2>9
  <1>5. CASE op = "OUTPUT_DISCARD"
    <2>. DEFINE at == Put(pool.at, Range(pool.output), "Unqueued")
    <2>1. pool' = Placed([pool EXCEPT !.output = <<>>], Range(pool.output), "Unqueued")
      BY <1>5 DEF flush, discard_output
    <2>2. [pool EXCEPT !.output = <<>>] = Rec(pool.input, <<>>, pool.at)
      BY PoolRecord
    <2>3. Agree(b, pool.input, <<>>, at)
      BY <1>1, AgreeDiscard
    <2>4. Placed(Rec(pool.input, <<>>, pool.at), Range(pool.output), "Unqueued") = Rec(pool.input, <<>>, at)
      BY PoolPlaces, PlacedIs
    <2>. HIDE DEF at
    <2>5. pool' = Rec(pool.input, <<>>, at)
      BY <2>1, <2>2, <2>4
    <2>. QED  BY <1>2, <2>3, <2>5
  <1>6. CASE op = "ALL_TO_INPUT"
    <2>. DEFINE p == [pool EXCEPT !.output = <<>>]
    <2>1. p = Rec(pool.input, <<>>, pool.at)
      BY PoolRecord
    <2>2. PICK ks \in Listed(p, {"Unqueued", "Output"}) :
             pool' = Placed([p EXCEPT !.input = @ \o ks], Range(ks), "Input")
      BY <1>6 DEF flush, ToInput
    <2>. HIDE DEF p
    <2>3. /\ ks \in Seq(Keys) /\ IsInjective(ks)
          /\ Range(ks) = {k \in Range(b) : pool.at[k] \in {"Unqueued", "Output"}}
      <3>1. p.buffers = b /\ p.at = pool.at /\ p.buffers \in Seq(Keys)
        BY <2>1, PoolIs
      <3>. QED  BY <3>1, ListedIs
    <2>. DEFINE in == pool.input \o ks
                at == Put(pool.at, Range(ks), "Input")
    <2>4. Agree(b, in, <<>>, at)
      BY <1>1, <2>3, AgreeAllToInput
    <2>5. [p EXCEPT !.input = @ \o ks] = Rec(in, <<>>, pool.at)
      <3>1. p.input = pool.input
        BY <2>1
      <3>. HIDE DEF in
      <3>2. [p EXCEPT !.input = in] = Rec(in, <<>>, pool.at)
        BY <2>1
      <3>. QED  BY <3>1, <3>2 DEF in
    <2>. HIDE DEF in
    <2>6. Placed(Rec(in, <<>>, pool.at), Range(ks), "Input") = Rec(in, <<>>, at)
      BY PoolPlaces, PlacedIs
    <2>. HIDE DEF at
    <2>7. pool' = Rec(in, <<>>, at)
      BY <2>2, <2>5, <2>6
    <2>. QED  BY <1>2, <2>4, <2>7
  <1>7. CASE op = "UNQUEUED_TO_INPUT"
    <2>1. PICK ks \in Listed(pool, {"Unqueued"}) :
             pool' = Placed([pool EXCEPT !.input = @ \o ks], Range(ks), "Input")
      BY <1>7 DEF flush, ToInput
    <2>2. /\ ks \in Seq(Keys) /\ IsInjective(ks)
          /\ Range(ks) = {k \in Range(b) : pool.at[k] \in {"Unqueued"}}
      BY PoolIs, ListedIs
    <2>. DEFINE in == pool.input \o ks
                at == Put(pool.at, Range(ks), "Input")
    <2>3. Agree(b, in, pool.output, at)
      BY <1>1, <2>2, AgreeUnqueuedToInput
    <2>4. [pool EXCEPT !.input = @ \o ks] = Rec(in, pool.output, pool.at)
      <3>. HIDE DEF in
      <3>1. [pool EXCEPT !.input = in] = Rec(in, pool.output, pool.at)
        BY PoolRecord
      <3>. QED  BY <3>1 DEF in
    <2>. HIDE DEF in
    <2>5. Placed(Rec(in, pool.output, pool.at), Range(ks), "Input") = Rec(in, pool.output, at)
      BY PoolPlaces, PlacedIs
    <2>. HIDE DEF at
    <2>6. pool' = Rec(in, pool.output, at)
      BY <2>1, <2>4, <2>5
    <2>. QED  BY <1>3, <2>3, <2>6
  <1>8. CASE op = "ALL_DISCARD"
    <2>. DEFINE mid == Put(pool.at, Range(pool.output), "Unqueued")
                at == Put(mid, Range(pool.output) \cup Range(pool.input), "Unqueued")
    <2>1. pool' = Placed([discard_output(pool) EXCEPT !.input = <<>>],
                         Range(pool.output) \cup Range(pool.input), "Unqueued")
      BY <1>8 DEF flush
    <2>2. [pool EXCEPT !.output = <<>>] = Rec(pool.input, <<>>, pool.at)
      BY PoolRecord
    <2>3. Placed(Rec(pool.input, <<>>, pool.at), Range(pool.output), "Unqueued") = Rec(pool.input, <<>>, mid)
      BY PoolPlaces, PlacedIs
    <2>4. mid \in [Keys -> Places]
      BY <1>1, PutPlaces DEF Places
    <2>5. Agree(b, <<>>, <<>>, at)
      BY <1>1, AgreeAllDiscard
    <2>. HIDE DEF mid
    <2>6. [discard_output(pool) EXCEPT !.input = <<>>] = Rec(<<>>, <<>>, mid)
      BY <2>2, <2>3 DEF discard_output
    <2>7. Placed(Rec(<<>>, <<>>, mid), Range(pool.output) \cup Range(pool.input), "Unqueued") = Rec(<<>>, <<>>, at)
      <3>. DEFINE ks == Range(pool.output) \cup Range(pool.input)
                  to == Put(mid, ks, "Unqueued")
      <3>. HIDE DEF ks
      <3>1. Placed(Rec(<<>>, <<>>, mid), ks, "Unqueued") = Rec(<<>>, <<>>, to)
        BY <2>4, PlacedIs
      <3>. QED  BY <3>1 DEF ks
    <2>. HIDE DEF at
    <2>8. pool' = Rec(<<>>, <<>>, at)
      BY <2>1, <2>6, <2>7
    <2>. QED  BY <1>2, <2>5, <2>8
  <1>. QED  BY <1>4, <1>5, <1>6, <1>7, <1>8 DEF FlushOps

LEMMA FlushStep ==
    ASSUME IInv, NEW c \in Callers, Flush(c)
    PROVE  IInv'
  <1>1. PcKeeps
    <2>1. pc[c].at \notin Holding /\ "notify" \in Steps \ (Holding \cup {"announce"})
      BY DEF Flush, FlushOps, Holding, Steps
    <2>2. Go(c, "notify", 0) \/ Done(c)
      BY DEF Flush, ThenNotify
    <2>. QED  BY <2>1, <2>2, GoKeeps, IdleKeeps DEF IInv
  <1>2. UNCHANGED <<acq, event, reg, engineVars, keys, events, starts, frames, handed>>
    BY DEF Flush, counts
  <1>3. fill' = Refilled(pool, pool')
    BY DEF Flush
  <1>4. PICK in, out, at :
             /\ Agree(pool.buffers, in, out, at)
             /\ pool' = [buffers |-> pool.buffers, input |-> in, output |-> out, at |-> at]
             /\ \A i \in DOMAIN out :
                   fill'[out[i]] # 0 => i + 0 \in DOMAIN pool.output /\ fill'[out[i]] = fill[pool.output[i + 0]]
    BY FlushMoves DEF Flush
  <1>5. fill' \in [Keys -> Nat] /\ \A k \in Keys : fill'[k] \in {0, fill[k]}
    BY <1>3, RefilledIs
  <1>6. event' \in [key : Nat, kills : Int] /\ 0 \in {0, 1}
    BY <1>2 DEF IInv, TypeInv
  <1>. QED  BY <1>1, <1>2, <1>4, <1>5, <1>6, Moved

-----------------------------------------------------------------------------
(* The new-buffer event. *)

\* The output queue goes back to the consumer.
LEMMA DiscardStep ==
    ASSUME IInv, PcKeeps, pool' = discard_output(pool), event' \in [key : Nat, kills : Int],
           UNCHANGED <<fill, acq, reg, engineVars, keys, events, starts, frames, handed>>
    PROVE  IInv'
  <1>. DEFINE at == Put(pool.at, Range(pool.output), "Unqueued")
  <1>1. Agree(pool.buffers, pool.input, <<>>, at)
    BY PoolIs, AgreeDiscard
  <1>2. [pool EXCEPT !.output = <<>>]
          = [buffers |-> pool.buffers, input |-> pool.input, output |-> <<>>, at |-> pool.at]
    BY PoolRecord
  <1>3. Placed([buffers |-> pool.buffers, input |-> pool.input, output |-> <<>>, at |-> pool.at],
               Range(pool.output), "Unqueued")
          = [buffers |-> pool.buffers, input |-> pool.input, output |-> <<>>, at |-> at]
    BY PoolPlaces, PlacedIs
  <1>. HIDE DEF at
  <1>4. pool' = [buffers |-> pool.buffers, input |-> pool.input, output |-> <<>>, at |-> at]
    BY <1>2, <1>3 DEF discard_output
  <1>5. fill' \in [Keys -> Nat] /\ (\A k \in Keys : fill'[k] \in {0, fill[k]}) /\ 0 \in {0, 1}
    BY PoolIs
  <1>. QED  BY <1>1, <1>4, <1>5, Moved

LEMMA UnregisteredStep ==
    ASSUME IInv, PcKeeps, NEW key, Unregistered(key),
           UNCHANGED <<fill, acq, reg, engineVars, keys, events, starts, frames, handed>>
    PROVE  IInv'
  <1>1. CASE UNCHANGED <<event, pool>>
    BY <1>1, Aside DEF IInv, TypeInv
  <1>2. CASE event' = [key |-> 0, kills |-> 0] /\ pool' = discard_output(pool)
    <2>1. event' \in [key : Nat, kills : Int]
      BY <1>2
    <2>. QED  BY <1>2, <2>1, DiscardStep
  <1>. QED  BY <1>1, <1>2 DEF Unregistered

LEMMA UnregisterStep ==
    ASSUME IInv, NEW c \in Callers, unregister_event(c)
    PROVE  IInv'
  <1>1. PcKeeps
    <2>1. pc[c].at \notin Holding /\ "notify" \in Steps \ (Holding \cup {"announce"}) /\ Go(c, "notify", 0)
      BY DEF unregister_event, At, Holding, Steps, ThenNotify
    <2>. QED  BY <2>1, GoKeeps DEF IInv
  <1>. QED  BY <1>1, UnregisteredStep DEF unregister_event, counts

LEMMA RegisterStep ==
    ASSUME IInv, NEW c \in Callers, register_event(c)
    PROVE  IInv'
  <1>1. PcKeeps
    BY IdleKeeps DEF register_event, At, IInv, Holding
  <1>2. UNCHANGED <<pool, fill, acq, engineVars, keys, starts, frames, handed>>
    BY DEF register_event, poolVars
  <1>3. events \in Nat
    BY DEF IInv, TypeInv
  <1>4. CASE UNCHANGED <<events, event, reg>>
    BY <1>1, <1>2, <1>4, Aside DEF IInv, TypeInv
  <1>5. CASE ~UNCHANGED <<events, event, reg>>
    <2>1. /\ events' = events + 1 /\ event' = [key |-> events + 1, kills |-> 0]
          /\ reg' = [reg EXCEPT !.events = @ \cup {events + 1}]
      BY <1>5 DEF register_event
    <2>2. events' \in Nat /\ event' \in [key : Nat, kills : Int]
      BY <1>3, <2>1
    <2>3. reg' \in [device : BOOLEAN, stream : BOOLEAN, buffers : SUBSET Nat, events : SUBSET Nat]
      BY <1>3, <2>1 DEF IInv, TypeInv
    <2>. QED  BY <1>1, <1>2, <2>2, <2>3, Aside
  <1>. QED  BY <1>4, <1>5

LEMMA EventKeyStep ==
    ASSUME IInv, NEW c \in Callers, event_key(c)
    PROVE  IInv'
  <1>1. PcKeeps
    <2>1. /\ pc[c].at \notin Holding /\ "unregister" \in Steps \ (Holding \cup {"announce"})
          /\ event.key \in Int
      BY DEF event_key, At, Holding, Steps, IInv, TypeInv
    <2>2. Go(c, "unregister", event.key) \/ Done(c)
      BY DEF event_key
    <2>. QED  BY <2>1, <2>2, GoKeeps, IdleKeeps DEF IInv
  <1>2. UNCHANGED <<pool, fill, acq, event, engineVars, keys, events, starts, frames, handed>>
    BY DEF event_key, poolVars, counts
  <1>3. reg' \in [device : BOOLEAN, stream : BOOLEAN, buffers : SUBSET Nat, events : SUBSET Nat]
    BY DEF event_key, IInv, TypeInv
  <1>. QED  BY <1>1, <1>2, <1>3, Aside DEF IInv, TypeInv

\* The first buffer of the output queue to the consumer.
LEMMA HandOutStep ==
    ASSUME IInv, PcKeeps, UNCHANGED <<fill, acq, event, reg, engineVars, keys, events, starts, frames>>,
           pool.output # <<>>,
           pool' = Placed([pool EXCEPT !.output = Tail(@)], {Head(pool.output)}, "Unqueued"),
           handed' = IF fill[Head(pool.output)] = 0 THEN handed ELSE fill[Head(pool.output)]
    PROVE  IInv'
  <1>. DEFINE out == Tail(pool.output)
              at == Put(pool.at, {Head(pool.output)}, "Unqueued")
  <1>1. Agree(pool.buffers, pool.input, out, at)
    BY PoolIs, AgreeTake
  <1>2. [pool EXCEPT !.output = Tail(@)]
          = [buffers |-> pool.buffers, input |-> pool.input, output |-> out, at |-> pool.at]
    BY PoolRecord
  <1>3. /\ DOMAIN out \subseteq Nat /\ 1 \in DOMAIN pool.output /\ Head(pool.output) = pool.output[1]
        /\ \A i \in DOMAIN out : i + 1 \in DOMAIN pool.output /\ out[i] = pool.output[i + 1]
    BY PoolIs
  <1>. HIDE DEF out
  <1>4. Placed([buffers |-> pool.buffers, input |-> pool.input, output |-> out, at |-> pool.at],
               {Head(pool.output)}, "Unqueued")
          = [buffers |-> pool.buffers, input |-> pool.input, output |-> out, at |-> at]
    <2>. DEFINE ks == {Head(pool.output)}
                to == Put(pool.at, ks, "Unqueued")
    <2>. HIDE DEF ks
    <2>1. Placed([buffers |-> pool.buffers, input |-> pool.input, output |-> out, at |-> pool.at], ks, "Unqueued")
            = [buffers |-> pool.buffers, input |-> pool.input, output |-> out, at |-> to]
      BY PoolPlaces, PlacedIs
    <2>. QED  BY <2>1 DEF ks
  <1>. HIDE DEF at
  <1>5. pool' = [buffers |-> pool.buffers, input |-> pool.input, output |-> out, at |-> at]
    BY <1>2, <1>4
  <1>6. fill' \in [Keys -> Nat] /\ (\A k \in Keys : fill'[k] \in {0, fill[k]}) /\ 1 \in {0, 1}
    BY PoolIs
  <1>7. event' \in [key : Nat, kills : Int]
    BY DEF IInv, TypeInv
  <1>8. PICK off \in {0, 1} : off = 1
    OBVIOUS
  <1>9. \/ handed' = handed
        \/ off = 1 /\ 1 \in DOMAIN pool.output /\ handed' = fill[pool.output[1]] /\ handed' # 0
    BY <1>3, <1>8
  <1>10. \A i \in DOMAIN out :
            fill'[out[i]] # 0 => i + off \in DOMAIN pool.output /\ fill'[out[i]] = fill[pool.output[i + off]]
    BY <1>3, <1>8
  <1>11. UNCHANGED <<engine, thread, stopping, acq>>
    BY DEF engineVars
  <1>12. TypeInv'
    BY <1>11 DEF IInv, TypeInv, PcKeeps
  <1>13. EngineInv'
    BY <1>11, EngineQuiet DEF IInv, Alive
  <1>14. PoolInv'
    BY <1>1, <1>5, PoolKept DEF IInv
  <1>15. FrameInv'
    <2>1. pool'.output = out /\ out \in Seq(Keys) /\ pool.output \in Seq(Keys)
      BY <1>1, <1>5, PoolIs DEF Agree
    <2>. QED  BY <1>6, <1>9, <1>10, <1>11, <2>1, FramesKept DEF IInv
  <1>. QED  BY <1>12, <1>13, <1>14, <1>15 DEF IInv

LEMMA NextEventStep ==
    ASSUME IInv, NEW c \in Callers, next_event(c)
    PROVE  IInv'
  <1>1. PcKeeps
    <2>1. /\ pc[c].at \notin Holding /\ "waiting" \in Steps \ (Holding \cup {"announce"})
          /\ pc[c].arg \in Int
      BY DEF next_event, Holding, Steps, IInv, TypeInv, Callings
    <2>2. Go(c, "waiting", pc[c].arg) \/ Done(c)
      BY DEF next_event
    <2>. QED  BY <2>1, <2>2, GoKeeps, IdleKeeps DEF IInv
  <1>2. UNCHANGED <<fill, acq, reg, engineVars, keys, events, starts, frames>>
    BY DEF next_event, counts
  <1>3. CASE UNCHANGED <<event, pool, handed>>
    BY <1>1, <1>2, <1>3, Aside DEF IInv, TypeInv
  <1>4. CASE event' = [event EXCEPT !.kills = @ - 1] /\ UNCHANGED <<pool, handed>>
    <2>1. event' \in [key : Nat, kills : Int]
      BY <1>4 DEF IInv, TypeInv
    <2>. QED  BY <1>1, <1>2, <1>4, <2>1, Aside DEF IInv, TypeInv
  <1>5. CASE /\ pool.output # <<>> /\ UNCHANGED event
             /\ pool' = Placed([pool EXCEPT !.output = Tail(@)], {Head(pool.output)}, "Unqueued")
             /\ handed' = IF fill[Head(pool.output)] = 0 THEN handed ELSE fill[Head(pool.output)]
    BY <1>1, <1>2, <1>5, HandOutStep
  <1>. QED  BY <1>3, <1>4, <1>5 DEF next_event

LEMMA TimeoutStep ==
    ASSUME IInv, NEW c \in Callers, WaitTimesOut(c)
    PROVE  IInv'
  <1>1. PcKeeps
    <2>1. /\ pc[c].at \notin Holding /\ "last" \in Steps \ (Holding \cup {"announce"})
          /\ pc[c].arg \in Int /\ Go(c, "last", pc[c].arg)
      BY DEF WaitTimesOut, At, Holding, Steps, IInv, TypeInv, Callings
    <2>. QED  BY <2>1, GoKeeps DEF IInv
  <1>. QED  BY <1>1, Aside DEF WaitTimesOut, poolVars, counts, IInv, TypeInv

LEMMA KillStep ==
    ASSUME IInv, NEW c \in Callers, kill_event(c)
    PROVE  IInv'
  <1>1. PcKeeps
    <2>1. pc[c].at \notin Holding /\ "notify" \in Steps \ (Holding \cup {"announce"})
      BY DEF kill_event, At, Holding, Steps
    <2>2. Go(c, "notify", 0) \/ Done(c)
      BY DEF kill_event, ThenNotify
    <2>. QED  BY <2>1, <2>2, GoKeeps, IdleKeeps DEF IInv
  <1>2. event' \in [key : Nat, kills : Int]
    BY DEF kill_event, IInv, TypeInv
  <1>3. UNCHANGED <<pool, fill, acq, reg, engineVars, keys, events, starts, frames, handed>>
    BY DEF kill_event, poolVars, counts
  <1>. QED  BY <1>1, <1>2, <1>3, Aside DEF IInv, TypeInv

LEMMA FlushEventStep ==
    ASSUME IInv, NEW c \in Callers, flush_event(c)
    PROVE  IInv'
  <1>1. PcKeeps
    BY IdleKeeps DEF flush_event, At, IInv, Holding
  <1>2. UNCHANGED <<fill, acq, event, reg, engineVars, keys, events, starts, frames, handed>>
    BY DEF flush_event, counts
  <1>3. event' \in [key : Nat, kills : Int]
    BY <1>2 DEF IInv, TypeInv
  <1>4. CASE pool' = pool
    BY <1>1, <1>2, <1>3, <1>4, Aside DEF IInv, TypeInv
  <1>5. CASE pool' = discard_output(pool)
    BY <1>1, <1>2, <1>3, <1>5, DiscardStep
  <1>. QED  BY <1>4, <1>5 DEF flush_event

LEMMA NotifyStep ==
    ASSUME IInv, NEW c \in Callers, Notify(c)
    PROVE  IInv'
  <1>. DEFINE f == [pc EXCEPT ![c] = Idle]
  <1>1. /\ Idle \in [at : Steps, arg : Int, device : BOOLEAN] /\ Idle.at = "idle"
        /\ "idle" \in Steps \ (Holding \cup {"announce", "waiting"})
    BY DEF Idle, Steps, Holding
  <1>2. pc[c].at \notin Holding
    BY DEF Notify, At, Holding
  <1>3. f \in Callings /\ f[c] = Idle /\ \A e \in Callers : e # c => f[e] = pc[e]
    BY <1>1 DEF IInv, TypeInv, Callings
  <1>. HIDE DEF f
  <1>4. pc' = notify_all(f)
    BY DEF Notify, f
  <1>5. PcKeeps
    BY <1>1, <1>2, <1>3, <1>4, NotifyKeeps DEF IInv
  <1>. QED  BY <1>5, Aside DEF Notify, poolVars, counts, IInv, TypeInv

-----------------------------------------------------------------------------
(* The acquisition. *)

\* A step of the acquisition leaves the pools and the frames alone.
LEMMA EngineStep ==
    ASSUME IInv, UNCHANGED <<pool, fill, event, reg, keys, events, frames, handed>>,
           pc' \in Callings, \A c \in Callers : pc'[c].at = "announce" => pc[c].at = "announce",
           acq' \in [started : BOOLEAN, running : BOOLEAN, remaining : Int, delivered : Nat, closed : BOOLEAN],
           engine' \in [lock : BOOLEAN, thread : Int], thread' \in [1..MaxStarts -> Threads], starts' \in Nat,
           acq'.closed = acq.closed,
           \A i \in 1..MaxStarts : thread'[i] = "have" => thread[i] = "have",
           EngineInv'
    PROVE  IInv'
  <1>1. TypeInv'
    BY DEF IInv, TypeInv
  <1>2. PoolInv'
    BY PoolQuiet DEF IInv
  <1>3. FrameInv'
    BY FramesQuiet DEF IInv
  <1>. QED  BY <1>1, <1>2, <1>3 DEF IInv

LEMMA OthersWait ==
    ASSUME IInv, NEW c \in Callers, pc[c].at \in Holding \/ ~engine.lock
    PROVE  \A e \in Callers : e # c => pc[e].at \notin Holding
  BY DEF IInv, EngineInv, MutexHeld

LEMMA MutexAfter ==
    ASSUME NEW c \in Callers, \A e \in Callers : e # c => pc'[e] = pc[e] /\ pc[e].at \notin Holding,
           engine'.lock <=> pc'[c].at \in Holding
    PROVE  MutexHeld' /\ \A e \in Callers : e # c => pc'[e].at \notin Holding
  BY DEF MutexHeld

LEMMA StartStep ==
    ASSUME IInv, NEW c \in Callers, start(c)
    PROVE  IInv'
  <1>1. /\ pc[c].at = "start" /\ ~engine.lock /\ pc[c].arg \in Int /\ "open" \in Steps /\ "open" \in Holding
        /\ "start" \notin Holding
    BY DEF start, At, IInv, TypeInv, Callings, Steps, Holding
  <1>2. UNCHANGED <<pool, fill, acq, event, reg, thread, stopping, keys, events, starts, frames, handed>>
    BY DEF start, poolVars, counts
  <1>3. CASE Done(c) /\ UNCHANGED engine
    <2>1. PcKeeps
      BY <1>1, <1>3, IdleKeeps DEF IInv
    <2>. QED  BY <1>2, <1>3, <2>1, Aside DEF engineVars, IInv, TypeInv
  <1>4. CASE ~acq.started /\ Go(c, "open", pc[c].arg) /\ engine' = [engine EXCEPT !.lock = TRUE]
    <2>1. /\ pc' \in Callings /\ pc'[c].at = "open" /\ \A e \in Callers : e # c => pc'[e] = pc[e]
      BY <1>1, <1>4, GoIs DEF IInv
    <2>2. engine' \in [lock : BOOLEAN, thread : Int] /\ engine'.lock
      BY <1>4 DEF IInv, TypeInv
    <2>3. MutexHeld' /\ \A e \in Callers : e # c => pc'[e].at \notin Holding
      <3>1. \A e \in Callers : e # c => pc[e].at \notin Holding
        BY <1>1, OthersWait
      <3>. QED  BY <1>1, <2>1, <2>2, <3>1, MutexAfter
    <2>4. InCharge'
      <3>. SUFFICES ASSUME ~acq'.closed PROVE InCharge'
        BY DEF InCharge
      <3>1. \A i \in 1..MaxStarts : ~Alive(i)
        BY <1>1, <1>2, <1>4 DEF IInv, EngineInv, InCharge
      <3>2. \A i \in 1..MaxStarts : ~Alive(i)'
        BY <1>2, <3>1 DEF Alive
      <3>. QED  BY <2>1, <2>2, <2>3, <3>2 DEF InCharge, Holding
    <2>5. \A e \in Callers : pc'[e].at = "announce" => pc[e].at = "announce"
      BY <2>1
    <2>. QED  BY <1>2, <2>1, <2>2, <2>3, <2>4, <2>5, EngineStep DEF IInv, TypeInv, EngineInv
  <1>. QED  BY <1>3, <1>4 DEF start

LEMMA StartOpenStep ==
    ASSUME IInv, NEW c \in Callers, NEW ok, StartOpen(c, ok)
    PROVE  IInv'
  <1>1. /\ pc[c].at = "open" /\ pc[c].arg \in Int /\ "mark" \in Steps /\ "mark" \in Holding
        /\ "open" \in Holding /\ "idle" \notin Holding
    BY DEF StartOpen, At, IInv, TypeInv, Callings, Steps, Holding
  <1>2. UNCHANGED <<pool, fill, acq, event, reg, thread, stopping, keys, events, starts, frames, handed>>
    BY DEF StartOpen, poolVars, counts
  <1>3. engine.lock
    BY <1>1 DEF IInv, EngineInv, MutexHeld
  <1>4. /\ pc' \in Callings /\ \A e \in Callers : e # c => pc'[e] = pc[e]
        /\ \/ pc'[c].at = "mark" /\ UNCHANGED engine
           \/ pc'[c].at = "idle" /\ engine' = Unlocked
    <2>1. CASE Go(c, "mark", pc[c].arg) /\ UNCHANGED engine
      BY <1>1, <2>1, GoIs DEF IInv
    <2>2. CASE Done(c) /\ engine' = Unlocked
      BY <2>2, DoneIs DEF IInv
    <2>. QED  BY <2>1, <2>2 DEF StartOpen
  <1>5. engine' \in [lock : BOOLEAN, thread : Int] /\ (engine'.lock <=> pc'[c].at \in Holding)
    BY <1>1, <1>3, <1>4 DEF IInv, TypeInv, Unlocked
  <1>6. MutexHeld' /\ \A e \in Callers : e # c => pc'[e].at \notin Holding
    <2>1. \A e \in Callers : e # c => pc[e].at \notin Holding
      BY <1>1, OthersWait
    <2>. QED  BY <1>4, <1>5, <2>1, MutexAfter
  <1>7. InCharge'
    <2>. SUFFICES ASSUME ~acq'.closed PROVE InCharge'
      BY DEF InCharge
    <2>1. \A i \in 1..MaxStarts : ~Alive(i)
      BY <1>1, <1>2 DEF IInv, EngineInv, InCharge
    <2>2. \A i \in 1..MaxStarts : ~Alive(i)'
      BY <1>2, <2>1 DEF Alive
    <2>. QED  BY <1>4, <1>6, <2>2 DEF InCharge, Holding
  <1>8. \A e \in Callers : pc'[e].at = "announce" => pc[e].at = "announce"
    BY <1>4
  <1>. QED  BY <1>2, <1>4, <1>5, <1>6, <1>7, <1>8, EngineStep DEF IInv, TypeInv, EngineInv

LEMMA StartMarkStep ==
    ASSUME IInv, NEW c \in Callers, StartMark(c)
    PROVE  IInv'
  <1>1. /\ pc[c].at = "mark" /\ pc[c].arg \in Int /\ "spawn" \in Steps /\ "mark" \in Holding
        /\ "spawn" \in Holding
    BY DEF StartMark, At, IInv, TypeInv, Callings, Steps, Holding
  <1>2. UNCHANGED <<pool, fill, event, reg, engine, thread, stopping, keys, events, starts, frames, handed>>
    BY DEF StartMark, poolVars, counts, engineVars
  <1>3. engine.lock
    BY <1>1 DEF IInv, EngineInv, MutexHeld
  <1>4. pc' \in Callings /\ pc'[c].at = "spawn" /\ \A e \in Callers : e # c => pc'[e] = pc[e]
    BY <1>1, GoIs DEF IInv, StartMark
  <1>5. /\ acq' \in [started : BOOLEAN, running : BOOLEAN, remaining : Int, delivered : Nat, closed : BOOLEAN]
        /\ acq'.started /\ acq'.closed = acq.closed
    BY <1>1 DEF IInv, TypeInv, StartMark
  <1>6. MutexHeld' /\ \A e \in Callers : e # c => pc'[e].at \notin Holding
    <2>1. \A e \in Callers : e # c => pc[e].at \notin Holding
      BY <1>1, OthersWait
    <2>. QED  BY <1>1, <1>2, <1>3, <1>4, <2>1, MutexAfter
  <1>7. InCharge'
    <2>. SUFFICES ASSUME ~acq'.closed PROVE InCharge'
      BY DEF InCharge
    <2>1. \A i \in 1..MaxStarts : ~Alive(i)
      BY <1>1, <1>5 DEF IInv, EngineInv, InCharge
    <2>2. \A i \in 1..MaxStarts : ~Alive(i)'
      BY <1>2, <2>1 DEF Alive
    <2>. QED  BY <1>4, <1>5, <1>6, <2>2 DEF InCharge, Holding
  <1>8. \A e \in Callers : pc'[e].at = "announce" => pc[e].at = "announce"
    BY <1>4
  <1>. QED  BY <1>2, <1>4, <1>5, <1>6, <1>7, <1>8, EngineStep DEF IInv, TypeInv, EngineInv

LEMMA StartSpawnStep ==
    ASSUME IInv, NEW c \in Callers, NEW ok, StartSpawn(c, ok)
    PROVE  IInv'
  <1>1. /\ pc[c].at = "spawn" /\ "remember" \in Steps /\ "spawn" \in Holding
        /\ "remember" \in Holding /\ "idle" \notin Holding
    BY DEF StartSpawn, At, Steps, Holding
  <1>2. UNCHANGED <<pool, fill, event, reg, stopping, keys, events, frames, handed>>
    BY DEF StartSpawn, poolVars
  <1>3. engine.lock /\ starts \in Nat /\ thread \in [1..MaxStarts -> Threads]
    BY <1>1 DEF IInv, EngineInv, MutexHeld, TypeInv
  <1>4. ~acq.closed => acq.started /\ \A i \in 1..MaxStarts : ~Alive(i)
    BY <1>1 DEF IInv, EngineInv, InCharge
  <1>5. \A e \in Callers : e # c => pc[e].at \notin Holding
    BY <1>1, OthersWait
  <1>6. CASE ok
    <2>1. /\ starts' = starts + 1 /\ thread' = [thread EXCEPT ![starts + 1] = "loop"]
          /\ Go(c, "remember", starts + 1) /\ UNCHANGED <<acq, engine>>
      BY <1>6 DEF StartSpawn
    <2>2. /\ pc' \in Callings /\ pc'[c].at = "remember" /\ pc'[c].arg = starts + 1
          /\ \A e \in Callers : e # c => pc'[e] = pc[e]
      BY <1>1, <1>3, <2>1, GoIs DEF IInv
    <2>3. MutexHeld' /\ \A e \in Callers : e # c => pc'[e].at \notin Holding
      BY <1>1, <1>3, <1>5, <2>1, <2>2, MutexAfter
    <2>4. /\ thread' \in [1..MaxStarts -> Threads]
          /\ \A i \in 1..MaxStarts : thread'[i] = IF i = starts + 1 THEN "loop" ELSE thread[i]
      BY <1>3, <2>1 DEF Threads
    <2>5. InCharge'
      <3>. SUFFICES ASSUME ~acq'.closed PROVE InCharge'
        BY DEF InCharge
      <3>1. \A i \in 1..MaxStarts : Alive(i)' => i = starts + 1
        BY <1>4, <2>1, <2>4 DEF Alive
      <3>2. acq'.started /\ engine'.lock
        BY <1>3, <1>4, <2>1
      <3>. QED  BY <2>2, <2>3, <3>1, <3>2 DEF InCharge, Holding
    <2>6. \A e \in Callers : pc'[e].at = "announce" => pc[e].at = "announce"
      BY <2>2
    <2>7. \A i \in 1..MaxStarts : thread'[i] = "have" => thread[i] = "have"
      BY <2>4
    <2>8. starts' \in Nat
      BY <1>3, <2>1
    <2>. QED  BY <1>2, <2>1, <2>2, <2>3, <2>4, <2>5, <2>6, <2>7, <2>8, EngineStep DEF IInv, TypeInv, EngineInv
  <1>7. CASE ~ok
    <2>1. /\ acq' = [acq EXCEPT !.started = FALSE, !.running = FALSE] /\ engine' = Unlocked
          /\ Done(c) /\ UNCHANGED <<starts, thread>>
      BY <1>7 DEF StartSpawn
    <2>2. /\ pc' \in Callings /\ pc'[c].at = "idle" /\ \A e \in Callers : e # c => pc'[e] = pc[e]
      BY <2>1, DoneIs DEF IInv
    <2>3. engine' \in [lock : BOOLEAN, thread : Int] /\ ~engine'.lock
      BY <2>1 DEF IInv, TypeInv, Unlocked
    <2>4. MutexHeld' /\ \A e \in Callers : e # c => pc'[e].at \notin Holding
      BY <1>1, <1>5, <2>2, <2>3, MutexAfter
    <2>5. /\ acq' \in [started : BOOLEAN, running : BOOLEAN, remaining : Int, delivered : Nat, closed : BOOLEAN]
          /\ acq'.closed = acq.closed
      BY <2>1 DEF IInv, TypeInv
    <2>6. InCharge'
      <3>. SUFFICES ASSUME ~acq'.closed PROVE InCharge'
        BY DEF InCharge
      <3>1. \A i \in 1..MaxStarts : ~Alive(i)'
        BY <1>4, <2>1, <2>5 DEF Alive
      <3>. QED  BY <2>2, <2>4, <3>1 DEF InCharge, Holding
    <2>7. \A e \in Callers : pc'[e].at = "announce" => pc[e].at = "announce"
      BY <2>2
    <2>. QED  BY <1>2, <1>3, <2>1, <2>2, <2>3, <2>4, <2>5, <2>6, <2>7, EngineStep DEF EngineInv
  <1>. QED  BY <1>6, <1>7

LEMMA StartRememberStep ==
    ASSUME IInv, NEW c \in Callers, StartRemember(c)
    PROVE  IInv'
  <1>1. /\ pc[c].at = "remember" /\ "remember" \in Holding /\ "idle" \notin Holding /\ pc[c].arg \in Int
    BY DEF StartRemember, At, Holding, IInv, TypeInv, Callings
  <1>2. UNCHANGED <<pool, fill, acq, event, reg, thread, stopping, keys, events, starts, frames, handed>>
    BY DEF StartRemember, poolVars, counts
  <1>3. engine' = [lock |-> FALSE, thread |-> pc[c].arg]
    BY DEF StartRemember
  <1>4. /\ pc' \in Callings /\ pc'[c].at = "idle" /\ \A e \in Callers : e # c => pc'[e] = pc[e]
    BY DoneIs DEF IInv, StartRemember
  <1>5. engine' \in [lock : BOOLEAN, thread : Int] /\ ~engine'.lock /\ engine'.thread = pc[c].arg
    BY <1>1, <1>3
  <1>6. MutexHeld' /\ \A e \in Callers : e # c => pc'[e].at \notin Holding
    <2>1. \A e \in Callers : e # c => pc[e].at \notin Holding
      BY <1>1, OthersWait
    <2>. QED  BY <1>1, <1>4, <1>5, <2>1, MutexAfter
  <1>7. InCharge'
    <2>. SUFFICES ASSUME ~acq'.closed PROVE InCharge'
      BY DEF InCharge
    <2>1. acq.started /\ \A i \in 1..MaxStarts : Alive(i) => pc[c].arg = i
      BY <1>1, <1>2 DEF IInv, EngineInv, InCharge
    <2>2. acq'.started /\ \A i \in 1..MaxStarts : Alive(i)' => engine'.thread = i
      BY <1>2, <1>5, <2>1 DEF Alive
    <2>. QED  BY <1>4, <1>6, <2>2 DEF InCharge, Holding
  <1>8. \A e \in Callers : pc'[e].at = "announce" => pc[e].at = "announce"
    BY <1>4
  <1>. QED  BY <1>2, <1>4, <1>5, <1>6, <1>7, <1>8, EngineStep DEF IInv, TypeInv, EngineInv

\* The join of the engine's thread, from the mutex to the wait.
LEMMA JoinStep ==
    ASSUME IInv, NEW c \in Callers, pc[c].at \notin Holding, ~engine.lock,
           NEW step \in {"joinStop", "joinShut"}, NEW arg \in Int, join(c, step, arg),
           UNCHANGED <<pool, fill, acq, event, reg, thread, keys, events, starts, frames, handed>>
    PROVE  IInv'
  <1>1. step \in Steps /\ step \in Holding
    BY DEF Steps, Holding
  <1>2. /\ engine' = [lock |-> TRUE, thread |-> 0] /\ stopping' = stopping \cup ({engine.thread} \ {0})
        /\ Go(c, step, arg)
    BY DEF join
  <1>3. pc' \in Callings /\ pc'[c].at = step /\ \A e \in Callers : e # c => pc'[e] = pc[e]
    BY <1>1, <1>2, GoIs DEF IInv
  <1>4. engine' \in [lock : BOOLEAN, thread : Int] /\ engine'.lock
    BY <1>2
  <1>5. MutexHeld' /\ \A e \in Callers : e # c => pc'[e].at \notin Holding
    <2>1. \A e \in Callers : e # c => pc[e].at \notin Holding
      BY OthersWait
    <2>. QED  BY <1>1, <1>3, <1>4, <2>1, MutexAfter
  <1>6. InCharge'
    <2>. SUFFICES ASSUME ~acq'.closed PROVE InCharge'
      BY DEF InCharge
    <2>1. /\ \A i \in 1..MaxStarts : Alive(i) => engine.thread = i
          /\ \A i, j \in 1..MaxStarts : Alive(i) /\ Alive(j) => i = j
      BY DEF IInv, EngineInv, InCharge
    <2>2. ASSUME NEW i \in 1..MaxStarts, Alive(i)' PROVE i \in stopping'
      <3>1. engine.thread = i /\ i # 0
        BY <2>1, <2>2, GentlAssumption DEF Alive
      <3>. QED  BY <1>2, <3>1
    <2>3. \A i, j \in 1..MaxStarts : Alive(i)' /\ Alive(j)' => i = j
      BY <2>1 DEF Alive
    <2>. QED  BY <1>3, <1>4, <1>5, <2>2, <2>3 DEF InCharge, Holding
  <1>7. \A e \in Callers : pc'[e].at = "announce" => pc[e].at = "announce"
    BY <1>3
  <1>. QED  BY <1>3, <1>4, <1>5, <1>6, <1>7, EngineStep DEF IInv, TypeInv, EngineInv

LEMMA StopStep ==
    ASSUME IInv, NEW c \in Callers, stop(c)
    PROVE  IInv'
  <1>1. pc[c].at \notin Holding /\ ~engine.lock
    BY DEF stop, At, Holding
  <1>2. UNCHANGED <<pool, fill, acq, event, reg, thread, keys, events, starts, frames, handed>>
    BY DEF stop, poolVars, counts
  <1>3. CASE join(c, "joinStop", 0)
    BY <1>1, <1>2, <1>3, JoinStep
  <1>4. CASE Done(c) /\ UNCHANGED <<engine, stopping>>
    <2>1. PcKeeps
      BY <1>1, <1>4, IdleKeeps DEF IInv
    <2>. QED  BY <1>2, <1>4, <2>1, Aside DEF engineVars, IInv, TypeInv
  <1>. QED  BY <1>3, <1>4 DEF stop

LEMMA ShutDownStep ==
    ASSUME IInv, NEW c \in Callers, ShutDown(c)
    PROVE  IInv'
  <1>1. pc[c].at \notin Holding /\ ~engine.lock /\ pc[c].arg \in Int
    BY DEF ShutDown, At, Holding, IInv, TypeInv, Callings
  <1>2. UNCHANGED <<pool, fill, acq, event, reg, thread, keys, events, starts, frames, handed>>
    BY DEF ShutDown, poolVars, counts
  <1>. QED  BY <1>1, <1>2, JoinStep DEF ShutDown

\* The end of a join: the thread is gone and the mutex free.
LEMMA JoinedStep ==
    ASSUME IInv, NEW c \in Callers, pc[c].at \in {"joinStop", "joinShut"}, Joined, engine' = Unlocked,
           pc' \in Callings, pc'[c].at \in {"idle", "clear"}, \A e \in Callers : e # c => pc'[e] = pc[e],
           acq' \in [started : BOOLEAN, running : BOOLEAN, remaining : Int, delivered : Nat, closed : BOOLEAN],
           acq'.closed = acq.closed,
           UNCHANGED <<pool, fill, event, reg, thread, stopping, keys, events, starts, frames, handed>>
    PROVE  IInv'
  <1>1. pc[c].at \in Holding /\ pc'[c].at \notin Holding
    BY DEF Holding
  <1>2. engine' \in [lock : BOOLEAN, thread : Int] /\ ~engine'.lock
    BY DEF IInv, TypeInv, Unlocked
  <1>3. MutexHeld' /\ \A e \in Callers : e # c => pc'[e].at \notin Holding
    <2>1. \A e \in Callers : e # c => pc[e].at \notin Holding
      BY <1>1, OthersWait
    <2>. QED  BY <1>1, <1>2, <2>1, MutexAfter
  <1>4. InCharge'
    <2>. SUFFICES ASSUME ~acq'.closed PROVE InCharge'
      BY DEF InCharge
    <2>1. \A i \in 1..MaxStarts : ~Alive(i)
      BY DEF IInv, EngineInv, InCharge, Joined, Alive
    <2>2. \A i \in 1..MaxStarts : ~Alive(i)'
      BY <2>1 DEF Alive
    <2>. QED  BY <1>1, <1>3, <2>2 DEF InCharge, Holding
  <1>5. \A e \in Callers : pc'[e].at = "announce" => pc[e].at = "announce"
    OBVIOUS
  <1>. QED  BY <1>2, <1>3, <1>4, <1>5, EngineStep DEF IInv, TypeInv, EngineInv

LEMMA StopJoinedStep ==
    ASSUME IInv, NEW c \in Callers, StopJoined(c)
    PROVE  IInv'
  <1>1. pc[c].at \in {"joinStop", "joinShut"} /\ Joined /\ engine' = Unlocked /\ Done(c)
    BY DEF StopJoined, At
  <1>2. UNCHANGED <<pool, fill, event, reg, thread, stopping, keys, events, starts, frames, handed>>
    BY DEF StopJoined, poolVars, counts
  <1>3. /\ acq' \in [started : BOOLEAN, running : BOOLEAN, remaining : Int, delivered : Nat, closed : BOOLEAN]
        /\ acq'.closed = acq.closed
    BY DEF StopJoined, IInv, TypeInv
  <1>4. pc' \in Callings /\ pc'[c].at \in {"idle", "clear"} /\ \A e \in Callers : e # c => pc'[e] = pc[e]
    BY <1>1, DoneIs DEF IInv
  <1>. QED  BY <1>1, <1>2, <1>3, <1>4, JoinedStep

LEMMA ShutJoinedStep ==
    ASSUME IInv, NEW c \in Callers, ShutJoined(c)
    PROVE  IInv'
  <1>1. /\ pc[c].at \in {"joinStop", "joinShut"} /\ Joined /\ engine' = Unlocked
        /\ Go(c, "clear", pc[c].arg) /\ pc[c].arg \in Int /\ "clear" \in Steps
    BY DEF ShutJoined, At, IInv, TypeInv, Callings, Steps
  <1>2. UNCHANGED <<pool, fill, event, reg, thread, stopping, keys, events, starts, frames, handed>>
    BY DEF ShutJoined, poolVars, counts
  <1>3. /\ acq' \in [started : BOOLEAN, running : BOOLEAN, remaining : Int, delivered : Nat, closed : BOOLEAN]
        /\ acq'.closed = acq.closed
    BY DEF ShutJoined, IInv, TypeInv
  <1>4. pc' \in Callings /\ pc'[c].at \in {"idle", "clear"} /\ \A e \in Callers : e # c => pc'[e] = pc[e]
    BY <1>1, GoIs DEF IInv
  <1>. QED  BY <1>1, <1>2, <1>3, <1>4, JoinedStep

-----------------------------------------------------------------------------
(* The delivery thread. *)

LEMMA ThreadLoopStep ==
    ASSUME IInv, NEW i \in 1..MaxStarts, ThreadLoop(i)
    PROVE  IInv'
  <1>1. /\ thread[i] = "loop" /\ thread \in [1..MaxStarts -> Threads]
        /\ thread' = [thread EXCEPT ![i] = IF i \in stopping THEN "gone" ELSE "read"]
        /\ UNCHANGED <<pool, fill, acq, event, reg, engine, stopping, pc, keys, events, starts, frames, handed>>
    BY DEF ThreadLoop, poolVars, counts, IInv, TypeInv
  <1>2. /\ thread' \in [1..MaxStarts -> Threads]
        /\ \A j \in 1..MaxStarts : (Alive(j)' => Alive(j)) /\ (thread'[j] = "have" => thread[j] = "have")
    BY <1>1 DEF Threads, Alive
  <1>3. EngineInv'
    BY <1>1, <1>2, SameKeeps, EngineQuiet DEF IInv
  <1>. QED  BY <1>1, <1>2, <1>3, EngineStep DEF IInv, TypeInv

LEMMA ThreadReadStep ==
    ASSUME IInv, NEW i \in 1..MaxStarts, NEW result \in {"have", "loop", "gone"}, ThreadRead(i, result)
    PROVE  IInv'
  <1>1. /\ thread[i] = "read" /\ thread \in [1..MaxStarts -> Threads] /\ frames \in Nat
        /\ thread' = [thread EXCEPT ![i] = result]
        /\ UNCHANGED <<pool, fill, acq, event, reg, engine, stopping, pc, keys, events, starts, handed>>
    BY DEF ThreadRead, poolVars, IInv, TypeInv
  <1>2. /\ thread' \in [1..MaxStarts -> Threads] /\ thread'[i] = result
        /\ \A j \in 1..MaxStarts : j # i => thread'[j] = thread[j]
    BY <1>1 DEF Threads
  <1>3. EngineInv'
    <2>1. \A j \in 1..MaxStarts : Alive(j)' => Alive(j)
      BY <1>1, <1>2 DEF Alive
    <2>. QED  BY <1>1, <2>1, SameKeeps, EngineQuiet DEF IInv
  <1>4. CASE result = "have"
    <2>1. frames' = frames + 1
      BY <1>4 DEF ThreadRead
    <2>2. TypeInv'
      BY <1>1, <1>2, <2>1 DEF IInv, TypeInv
    <2>3. PoolInv'
      BY <1>1, PoolQuiet DEF IInv
    <2>4. /\ fill \in [Keys -> Nat] /\ handed \in Nat /\ handed <= frames /\ \A k \in Keys : fill[k] <= frames
          /\ FramesInOrder
      BY DEF IInv, FrameInv
    <2>5. FramesInOrder'
      BY <1>1, <2>4 DEF FramesInOrder
    <2>6. handed' < frames' /\ handed' <= frames' /\ handed' \in Nat
      BY <1>1, <2>1, <2>4
    <2>7. \A k \in Keys : fill'[k] <= frames' /\ fill'[k] < frames'
      BY <1>1, <2>1, <2>4
    <2>8. \A j \in DOMAIN pool'.output : fill'[pool'.output[j]] < frames'
      <3>1. \A j \in DOMAIN pool'.output : pool'.output[j] \in Keys
        BY <1>1, PoolIs
      <3>. QED  BY <2>7, <3>1
    <2>9. FrameInv'
      BY <1>1, <2>4, <2>5, <2>6, <2>7, <2>8 DEF FrameInv
    <2>. QED  BY <1>3, <2>2, <2>3, <2>9 DEF IInv
  <1>5. CASE result # "have"
    <2>1. frames' = frames
      BY <1>5 DEF ThreadRead
    <2>. QED  BY <1>1, <1>2, <1>3, <1>5, <2>1, EngineStep DEF IInv, TypeInv
  <1>. QED  BY <1>4, <1>5

LEMMA ThreadNotifyStep ==
    ASSUME IInv, NEW i \in 1..MaxStarts, ThreadNotify(i)
    PROVE  IInv'
  <1>1. /\ thread[i] = "notify" /\ thread \in [1..MaxStarts -> Threads] /\ pc' = notify_all(pc) /\ pc \in Callings
        /\ thread' = [thread EXCEPT ![i] = IF acq.remaining = 0 THEN "gone" ELSE "loop"]
        /\ UNCHANGED <<pool, fill, acq, event, reg, engine, stopping, keys, events, starts, frames, handed>>
    BY DEF ThreadNotify, poolVars, counts, IInv, TypeInv
  <1>2. /\ thread' \in [1..MaxStarts -> Threads]
        /\ \A j \in 1..MaxStarts : (Alive(j)' => Alive(j)) /\ (thread'[j] = "have" => thread[j] = "have")
    BY <1>1 DEF Threads, Alive
  <1>3. PcKeeps
    BY <1>1, NotifyKeeps DEF IInv
  <1>4. EngineInv'
    BY <1>1, <1>2, <1>3, EngineQuiet DEF IInv
  <1>5. pc' \in Callings /\ \A c \in Callers : pc'[c].at = "announce" => pc[c].at = "announce"
    BY <1>3 DEF PcKeeps
  <1>. QED  BY <1>1, <1>2, <1>4, <1>5, EngineStep DEF IInv, TypeInv

\* A frame into the first buffer of the input pool: the thread that has it is the only
\* one, and what waits already is older.
LEMMA DeliverStep ==
    ASSUME IInv, NEW i \in 1..MaxStarts, deliver(i)
    PROVE  IInv'
  <1>1. /\ thread[i] = "have" /\ thread \in [1..MaxStarts -> Threads]
        /\ UNCHANGED <<event, reg, engine, stopping, pc, keys, events, starts, frames, handed>>
    BY DEF deliver, counts, IInv, TypeInv
  <1>2. PICK to \in {"notify", "loop", "gone"} : thread' = [thread EXCEPT ![i] = to]
    BY DEF deliver
  <1>3. /\ thread' \in [1..MaxStarts -> Threads] /\ thread'[i] # "have"
        /\ \A j \in 1..MaxStarts : j # i => thread'[j] = thread[j]
    BY <1>1, <1>2 DEF Threads
  <1>4. \A j \in 1..MaxStarts : (Alive(j)' => Alive(j)) /\ (thread'[j] = "have" => thread[j] = "have")
    BY <1>1, <1>3 DEF Alive
  <1>5. CASE UNCHANGED <<pool, fill, acq>>
    <2>1. EngineInv'
      BY <1>1, <1>4, <1>5, SameKeeps, EngineQuiet DEF IInv
    <2>. QED  BY <1>1, <1>3, <1>4, <1>5, <2>1, EngineStep DEF IInv, TypeInv
  <1>6. CASE ~UNCHANGED <<pool, fill, acq>>
    <2>1. /\ pool.input # <<>> /\ pool' = Fill(pool) /\ fill' = [fill EXCEPT ![Head(pool.input)] = frames]
          /\ acq' = [acq EXCEPT !.delivered = @ + 1, !.running = More,
                                !.remaining = IF @ = NoLimit THEN @ ELSE @ - 1]
      BY <1>6 DEF deliver
    <2>2. /\ acq' \in [started : BOOLEAN, running : BOOLEAN, remaining : Int, delivered : Nat, closed : BOOLEAN]
          /\ acq'.closed = acq.closed /\ acq'.started = acq.started
      <3>1. More \in BOOLEAN
        BY DEF More
      <3>. DEFINE d == acq.delivered + 1
                  r == IF acq.remaining = NoLimit THEN acq.remaining ELSE acq.remaining - 1
      <3>2. acq \in [started : BOOLEAN, running : BOOLEAN, remaining : Int, delivered : Nat, closed : BOOLEAN]
        BY DEF IInv, TypeInv
      <3>3. d \in Nat /\ r \in Int
        BY <3>2
      <3>4. acq' = [acq EXCEPT !.delivered = d, !.running = More, !.remaining = r]
        BY <2>1
      <3>. HIDE DEF d, r, More
      <3>. QED  BY <3>1, <3>2, <3>3, <3>4
    <2>3. EngineInv'
      BY <1>1, <1>4, <2>2, SameKeeps, EngineQuiet DEF IInv
    <2>4. TypeInv'
      BY <1>1, <1>3, <2>2 DEF IInv, TypeInv
    <2>. DEFINE k == Head(pool.input)
                in == Tail(pool.input)
                out == Append(pool.output, k)
                at == Put(pool.at, {k}, "Output")
    <2>5. Agree(pool.buffers, in, out, at)
      BY <2>1, PoolIs, AgreeFill
    <2>6. k \in Keys
      BY <2>1, PoolIs
    <2>7. pool' = [buffers |-> pool.buffers, input |-> in, output |-> out, at |-> at]
      <3>. DEFINE q == [pool EXCEPT !.input = in]
      <3>. HIDE DEF in, out, k
      <3>1. q = [buffers |-> pool.buffers, input |-> in, output |-> pool.output, at |-> pool.at]
        BY PoolRecord
      <3>. HIDE DEF q
      <3>2. [q EXCEPT !.output = out] = [buffers |-> pool.buffers, input |-> in, output |-> out, at |-> pool.at]
        BY <3>1
      <3>3. Placed([buffers |-> pool.buffers, input |-> in, output |-> out, at |-> pool.at], {k}, "Output")
              = [buffers |-> pool.buffers, input |-> in, output |-> out, at |-> at]
        BY PoolPlaces, PlacedIs
      <3>. HIDE DEF at
      <3>4. [pool EXCEPT !.input = Tail(@), !.output = Append(@, Head(pool.input))] = [q EXCEPT !.output = out]
        BY <3>1 DEF q, in, out, k
      <3>. QED  BY <2>1, <3>2, <3>3, <3>4 DEF Fill, k
    <2>8. PoolInv'
      <3>. HIDE DEF in, out, at
      <3>. QED  BY <1>1, <2>5, <2>7, SameKeeps, PoolKept DEF IInv
    <2>9. FrameInv'
      <3>1. /\ DOMAIN out = 1..Len(pool.output) + 1 /\ DOMAIN pool.output = 1..Len(pool.output)
            /\ Len(pool.output) \in Nat /\ out[Len(pool.output) + 1] = k
            /\ \A j \in 1..Len(pool.output) : out[j] = pool.output[j] /\ out[j] \in Keys
        BY <2>6, PoolIs
      <3>2. /\ fill \in [Keys -> Nat] /\ handed \in Nat /\ handed <= frames
            /\ (\A e \in Keys : fill[e] <= frames) /\ FramesInOrder
            /\ ~acq.closed => handed < frames /\ \A j \in DOMAIN pool.output : fill[pool.output[j]] < frames
            /\ frames \in Nat
        BY <1>1 DEF IInv, FrameInv, TypeInv
      <3>3. \A j \in 1..Len(pool.output) : pool.output[j] # k
        <4>1. k \in Range(pool.input)
          BY <2>1, PoolIs, RangeTail DEF Agree
        <4>2. k \notin Range(pool.output)
          BY <4>1, PoolIs DEF Agree
        <4>. HIDE DEF k
        <4>. QED  BY <3>1, <4>2 DEF Range
      <3>4. pool'.output = out
        BY <2>7
      <3>5. fill' = [fill EXCEPT ![k] = frames]
        BY <2>1
      <3>. HIDE DEF in, out, at, k
      <3>6. fill' \in [Keys -> Nat] /\ fill'[k] = frames /\ \A e \in Keys : e # k => fill'[e] = fill[e]
        BY <2>6, <3>2, <3>5
      <3>7. \A e \in Keys : fill'[e] <= frames
        BY <3>2, <3>6
      <3>8. ASSUME ~acq'.closed PROVE \A j \in 1..MaxStarts : thread'[j] # "have"
        <4>1. \A j \in 1..MaxStarts : Alive(j) => j = i
          BY <1>1, <2>2, <3>8 DEF IInv, EngineInv, InCharge, Alive
        <4>. QED  BY <1>3, <4>1 DEF Alive
      <3>9. ASSUME ~acq'.closed, NEW j \in DOMAIN out, fill'[out[j]] # 0
            PROVE  /\ handed < fill'[out[j]]
                   /\ \A l \in DOMAIN out : j < l /\ fill'[out[l]] # 0 => fill'[out[j]] < fill'[out[l]]
        <4>1. CASE j = Len(pool.output) + 1
          <5>1. \A l \in DOMAIN out : ~(j < l)
            BY <3>1, <4>1
          <5>2. fill'[out[j]] = frames
            BY <3>1, <3>6, <4>1
          <5>. QED  BY <2>2, <3>2, <3>9, <5>1, <5>2
        <4>2. CASE j \in 1..Len(pool.output)
          <5>1. fill'[out[j]] = fill[pool.output[j]] /\ j \in DOMAIN pool.output
            BY <3>1, <3>3, <3>6, <4>2
          <5>2. handed < fill'[out[j]] /\ fill'[out[j]] < frames
            BY <2>2, <3>2, <3>9, <5>1 DEF FramesInOrder
          <5>3. ASSUME NEW l \in DOMAIN out, j < l, fill'[out[l]] # 0 PROVE fill'[out[j]] < fill'[out[l]]
            <6>1. CASE l = Len(pool.output) + 1
              BY <3>1, <3>6, <5>2, <6>1
            <6>2. CASE l \in 1..Len(pool.output)
              <7>1. fill'[out[l]] = fill[pool.output[l]] /\ l \in DOMAIN pool.output
                BY <3>1, <3>3, <3>6, <6>2
              <7>. QED  BY <2>2, <3>2, <3>9, <5>1, <5>3, <7>1 DEF FramesInOrder
            <6>. QED  BY <3>1, <6>1, <6>2
          <5>. QED  BY <5>2, <5>3
        <4>. QED  BY <3>1, <4>1, <4>2
      <3>10. FramesInOrder'
        BY <1>1, <3>4, <3>9 DEF FramesInOrder
      <3>. QED  BY <1>1, <3>2, <3>6, <3>7, <3>8, <3>10 DEF FrameInv
    <2>. QED  BY <2>3, <2>4, <2>8, <2>9 DEF IInv
  <1>. QED  BY <1>5, <1>6

-----------------------------------------------------------------------------
(* Closing. *)

LEMMA CloseStep ==
    ASSUME IInv, NEW c \in Callers, close(c)
    PROVE  IInv'
  <1>1. pc[c].at \notin Holding
    BY DEF close, Holding
  <1>2. UNCHANGED <<pool, fill, acq, event, engineVars, keys, events, starts, frames, handed>>
    BY DEF close, poolVars, counts
  <1>3. CASE Done(c) /\ UNCHANGED reg
    <2>1. PcKeeps
      BY <1>1, <1>3, IdleKeeps DEF IInv
    <2>. QED  BY <1>2, <1>3, <2>1, Aside DEF IInv, TypeInv
  <1>4. CASE ~(Done(c) /\ UNCHANGED reg)
    <2>. DEFINE device == At(c, "closeDevice")
                next == IF ~reg.stream THEN "release" ELSE IF reg.events # {} THEN "closeEvent" ELSE "shut"
    <2>1. /\ reg' = IF reg.stream
                    THEN [device |-> reg.device /\ ~device, stream |-> FALSE, buffers |-> {}, events |-> {}]
                    ELSE [reg EXCEPT !.device = FALSE]
          /\ \E e \in IF reg.events = {} THEN {0} ELSE reg.events :
                pc' = [pc EXCEPT ![c] = [at |-> next, arg |-> e, device |-> device]]
      BY <1>4 DEF close
    <2>2. PICK e : e \in Int /\ pc' = [pc EXCEPT ![c] = [at |-> next, arg |-> e, device |-> device]]
      BY <2>1 DEF IInv, TypeInv
    <2>3. /\ next \in Steps \ (Holding \cup {"announce"}) /\ device \in BOOLEAN
      BY DEF Steps, Holding, At
    <2>. HIDE DEF next, device
    <2>4. PcKeeps
      <3>. DEFINE r == [at |-> next, arg |-> e, device |-> device]
      <3>1. r \in [at : Steps, arg : Int, device : BOOLEAN] /\ r.at = next
        BY <2>2, <2>3
      <3>. HIDE DEF r
      <3>2. pc' = [pc EXCEPT ![c] = r]
        BY <2>2 DEF r
      <3>3. pc' \in Callings /\ pc'[c].at = next /\ \A f \in Callers : f # c => pc'[f] = pc[f]
        BY <3>1, <3>2 DEF IInv, TypeInv, Callings
      <3>. QED  BY <1>1, <2>3, <3>3 DEF PcKeeps
    <2>5. reg' \in [device : BOOLEAN, stream : BOOLEAN, buffers : SUBSET Nat, events : SUBSET Nat]
      <3>1. reg \in [device : BOOLEAN, stream : BOOLEAN, buffers : SUBSET Nat, events : SUBSET Nat]
        BY DEF IInv, TypeInv
      <3>2. (reg.device /\ ~device) \in BOOLEAN
        OBVIOUS
      <3>3. CASE reg.stream
        BY <2>1, <3>2, <3>3
      <3>4. CASE ~reg.stream
        BY <2>1, <3>1, <3>4
      <3>. QED  BY <3>3, <3>4
    <2>. QED  BY <1>2, <2>4, <2>5, Aside DEF IInv, TypeInv
  <1>. QED  BY <1>3, <1>4

\* A call that goes on to `step` and wakes the waits.
LEMMA WakeKeeps ==
    ASSUME IInv, NEW c \in Callers, pc[c].at \notin Holding,
           NEW step \in Steps \ (Holding \cup {"announce", "waiting"}),
           pc' = notify_all([pc EXCEPT ![c].at = step])
    PROVE  PcKeeps
  <1>. DEFINE f == [pc EXCEPT ![c].at = step]
  <1>1. f \in Callings /\ f[c].at = step /\ \A e \in Callers : e # c => f[e] = pc[e]
    BY DEF IInv, TypeInv, Callings
  <1>. HIDE DEF f
  <1>2. pc' = notify_all(f)
    BY DEF f
  <1>. QED  BY <1>1, <1>2, NotifyKeeps DEF IInv

LEMMA CloseEventStep ==
    ASSUME IInv, NEW c \in Callers, CloseEvent(c)
    PROVE  IInv'
  <1>1. pc[c].at \notin Holding /\ "shut" \in Steps \ (Holding \cup {"announce", "waiting"})
    BY DEF CloseEvent, At, Holding, Steps
  <1>2. PcKeeps
    BY <1>1, WakeKeeps DEF CloseEvent
  <1>. QED  BY <1>2, UnregisteredStep DEF CloseEvent, counts

LEMMA ShutWakeStep ==
    ASSUME IInv, NEW c \in Callers, ShutWake(c)
    PROVE  IInv'
  <1>1. pc[c].at \notin Holding /\ "release" \in Steps \ (Holding \cup {"announce", "waiting"})
    BY DEF ShutWake, At, Holding, Steps
  <1>2. PcKeeps
    BY <1>1, WakeKeeps DEF ShutWake
  <1>. QED  BY <1>2, Aside DEF ShutWake, poolVars, counts, IInv, TypeInv

LEMMA ReleaseStep ==
    ASSUME IInv, NEW c \in Callers, Release(c)
    PROVE  IInv'
  <1>1. PcKeeps
    BY IdleKeeps DEF Release, At, IInv, Holding
  <1>. QED  BY <1>1, Aside DEF Release, poolVars, counts, IInv, TypeInv

LEMMA ShutClearStep ==
    ASSUME IInv, NEW c \in Callers, ShutClear(c)
    PROVE  IInv'
  <1>1. PcKeeps
    <2>1. pc[c].at \notin Holding /\ {"notify", "wakeRelease"} \subseteq Steps \ (Holding \cup {"announce"})
      BY DEF ShutClear, At, Holding, Steps
    <2>2. Go(c, "notify", 0) \/ Go(c, "wakeRelease", 0)
      BY DEF ShutClear
    <2>. QED  BY <2>1, <2>2, GoKeeps DEF IInv
  <1>2. UNCHANGED <<fill, reg, engine, thread, stopping, keys, events, starts, frames, handed>>
    BY DEF ShutClear, engineVars, counts
  <1>3. /\ acq' \in [started : BOOLEAN, running : BOOLEAN, remaining : Int, delivered : Nat, closed : BOOLEAN]
        /\ acq'.closed
    BY DEF ShutClear, IInv, TypeInv
  <1>4. event' \in [key : Nat, kills : Int]
    BY DEF ShutClear
  <1>5. TypeInv'
    BY <1>1, <1>2, <1>3, <1>4 DEF IInv, TypeInv, PcKeeps
  <1>6. EngineInv'
    BY <1>1, <1>2, <1>3, EngineQuiet DEF IInv, Alive
  <1>7. PoolInv'
    <2>. DEFINE no == <<>>
                at == Put(pool.at, Keys, "None")
    <2>1. Agree(no, no, no, at) /\ Range(no) \subseteq Range(pool.buffers)
      BY PoolPlaces, AgreeClear, RangeEmpty
    <2>2. pool' = Placed([pool EXCEPT !.buffers = no, !.input = no, !.output = no], Keys, "None")
      BY DEF ShutClear
    <2>. HIDE DEF no
    <2>. DEFINE q == [pool EXCEPT !.buffers = no]
                r == [q EXCEPT !.input = no]
    <2>3. q = [buffers |-> no, input |-> pool.input, output |-> pool.output, at |-> pool.at]
      BY PoolRecord
    <2>. HIDE DEF q
    <2>4. r = [buffers |-> no, input |-> no, output |-> pool.output, at |-> pool.at]
      BY <2>3
    <2>. HIDE DEF r
    <2>5. [r EXCEPT !.output = no] = [buffers |-> no, input |-> no, output |-> no, at |-> pool.at]
      BY <2>4
    <2>6. [pool EXCEPT !.buffers = no, !.input = no, !.output = no] = [r EXCEPT !.output = no]
      BY DEF r, q
    <2>7. Placed([buffers |-> no, input |-> no, output |-> no, at |-> pool.at], Keys, "None")
            = [buffers |-> no, input |-> no, output |-> no, at |-> at]
      BY PoolPlaces, PlacedIs
    <2>. HIDE DEF at
    <2>8. pool' = [buffers |-> no, input |-> no, output |-> no, at |-> at]
      BY <2>2, <2>5, <2>6, <2>7
    <2>. QED  BY <1>1, <1>2, <2>1, <2>8, PoolKept DEF IInv
  <1>8. FrameInv'
    BY <1>2, <1>3 DEF IInv, FrameInv, FramesInOrder
  <1>. QED  BY <1>5, <1>6, <1>7, <1>8 DEF IInv

-----------------------------------------------------------------------------
(* The specification. *)

LEMMA CallsStep ==
    ASSUME IInv, NEW c \in Callers, Calls(c)
    PROVE  IInv'
  <1>1. Memories \subseteq Int /\ Counts \subseteq Int /\ reg.buffers \subseteq Int /\ reg.events \subseteq Int
    BY GentlAssumption DEF IInv, TypeInv, NoLimit
  <1>2. FlushOps \cup {"revoke", "queue", "start", "register", "stop", "close", "event_key", "closeDevice",
                       "get", "flushEvent", "kill"} \subseteq Steps \ (Holding \cup {"announce"})
    BY DEF FlushOps, Steps, Holding
  <1>3. ASSUME keys + Within({"announce"}) < MaxKeys, NEW m \in Memories, Call(c, "announce", m) PROVE IInv'
    BY <1>1, <1>3, CallAnnounce
  <1>4. ASSUME NEW k \in reg.buffers, NEW step \in {"revoke", "queue"}, Call(c, step, k) PROVE IInv'
    BY <1>1, <1>2, <1>4, CallStep
  <1>5. ASSUME NEW op \in FlushOps, Call(c, op, 0) PROVE IInv'
    BY <1>2, <1>5, CallStep
  <1>6. ASSUME NEW n \in Counts, Call(c, "start", n) PROVE IInv'
    BY <1>1, <1>2, <1>6, CallStep
  <1>7. ASSUME NEW step \in {"register", "stop", "close", "event_key", "closeDevice"}, Call(c, step, 0) PROVE IInv'
    BY <1>2, <1>7, CallStep
  <1>8. ASSUME NEW e \in reg.events, NEW step \in {"get", "flushEvent", "kill"}, Call(c, step, e) PROVE IInv'
    BY <1>1, <1>2, <1>8, CallStep
  <1>. QED  BY <1>3, <1>4, <1>5, <1>6, <1>7, <1>8 DEF Calls

LEMMA NextKeeps ==
    ASSUME IInv, [Next]_vars
    PROVE  IInv'
  <1>1. CASE UNCHANGED vars
    <2>1. /\ UNCHANGED <<pool, fill, acq, event, reg, pc, keys, events, starts, frames, handed>>
          /\ UNCHANGED engineVars
      BY <1>1 DEF vars, engineVars
    <2>2. PcKeeps
      BY <2>1, SameKeeps DEF IInv
    <2>. QED  BY <2>1, <2>2, Aside DEF IInv, TypeInv
  <1>2. ASSUME NEW c \in Callers, Step(c) PROVE IInv'
    BY <1>2, AnnounceStep, RevokeStep, ForgetStep, QueueStep, FlushStep, StartStep, StartMarkStep,
       StartRememberStep, StartOpenStep, StartSpawnStep, StopStep, StopJoinedStep, RegisterStep,
       EventKeyStep, UnregisterStep, NextEventStep, KillStep, FlushEventStep, NotifyStep, CloseStep,
       CloseEventStep, ShutDownStep, ShutJoinedStep, ShutClearStep, ShutWakeStep, ReleaseStep DEF Step
  <1>3. ASSUME NEW i \in 1..MaxStarts, ThreadStep(i) PROVE IInv'
    BY <1>3, ThreadLoopStep, ThreadReadStep, ThreadNotifyStep, DeliverStep DEF ThreadStep
  <1>. QED  BY <1>1, <1>2, <1>3, CallsStep, TimeoutStep DEF Next

LEMMA InitHolds ==
    ASSUME Init
    PROVE  IInv
  <1>1. PICK n \in Prepared, on \in BOOLEAN : (on => n > 0) /\ InitWith(n) /\ InitAcquiring(on)
    BY DEF Init
  <1>2. n \in Nat /\ n <= MaxKeys /\ MaxKeys \in Nat /\ MaxStarts \in Nat /\ MaxStarts > 0
    BY GentlAssumption
  <1>3. /\ pc = [c \in Callers |-> Idle] /\ frames = 0 /\ handed = 0 /\ fill = [k \in Keys |-> 0]
    BY DEF Init
  <1>4. Idle \in [at : Steps, arg : Int, device : BOOLEAN] /\ Idle.at = "idle"
    BY DEF Idle, Steps
  <1>5. pc \in Callings /\ \A c \in Callers : pc[c].at = "idle"
    BY <1>3, <1>4 DEF Callings
  <1>6. /\ acq = [started |-> on, running |-> on, remaining |-> NoLimit, delivered |-> 0, closed |-> FALSE]
        /\ starts = (IF on THEN 1 ELSE 0) /\ engine = [lock |-> FALSE, thread |-> starts]
        /\ thread = [i \in 1..MaxStarts |-> IF i = starts THEN "loop" ELSE "none"] /\ stopping = {}
    BY <1>1 DEF InitAcquiring
  <1>. DEFINE e == IF n = 0 THEN 0 ELSE 1
              queued == [i \in 1..n |-> i]
              at == [k \in Keys |-> IF k <= n THEN "Input" ELSE "None"]
  <1>7. /\ pool = [buffers |-> queued, input |-> queued, output |-> <<>>, at |-> at]
        /\ event = [key |-> e, kills |-> 0]
        /\ reg = [device |-> TRUE, stream |-> TRUE, buffers |-> 1..n, events |-> {e} \ {0}]
        /\ keys = n /\ events = e
    BY <1>1 DEF InitWith
  <1>8. starts \in Nat /\ engine \in [lock : BOOLEAN, thread : Int] /\ ~engine.lock /\ engine.thread = starts
    BY <1>6
  <1>9. /\ thread \in [1..MaxStarts -> Threads]
        /\ \A i \in 1..MaxStarts : thread[i] = IF i = starts THEN "loop" ELSE "none"
    BY <1>6 DEF Threads
  <1>10. TypeInv
    <2>1. event \in [key : Nat, kills : Int] /\ events \in Nat
      BY <1>7
    <2>2. reg \in [device : BOOLEAN, stream : BOOLEAN, buffers : SUBSET Nat, events : SUBSET Nat]
      <3>1. 1..n \subseteq Nat /\ {e} \ {0} \subseteq Nat
        BY <1>2
      <3>. QED  BY <1>7, <3>1
    <2>3. acq \in [started : BOOLEAN, running : BOOLEAN, remaining : Int, delivered : Nat, closed : BOOLEAN]
      BY <1>6 DEF NoLimit
    <2>. QED  BY <1>2, <1>3, <1>5, <1>7, <1>8, <1>9, <2>1, <2>2, <2>3 DEF TypeInv
  <1>11. EngineInv
    <2>1. MutexHeld
      BY <1>5, <1>8 DEF MutexHeld, Holding
    <2>2. \A i \in 1..MaxStarts : Alive(i) => i = starts /\ acq.started
      <3>1. starts = 0 \/ acq.started
        BY <1>6
      <3>2. \A i \in 1..MaxStarts : Alive(i) => i = starts
        BY <1>9 DEF Alive
      <3>3. \A i \in 1..MaxStarts : i # 0
        OBVIOUS
      <3>. QED  BY <3>1, <3>2, <3>3
    <2>3. InCharge
      BY <1>5, <1>8, <2>2 DEF InCharge
    <2>. QED  BY <2>1, <2>3 DEF EngineInv
  <1>12. PoolInv
    <2>1. queued \in Seq(Keys) /\ DOMAIN queued = 1..n /\ \A i \in 1..n : queued[i] = i
      <3>1. queued \in [1..n -> Keys]
        BY <1>2 DEF Keys
      <3>2. DOMAIN queued = 1..n /\ \A i \in 1..n : queued[i] = i
        OBVIOUS
      <3>. HIDE DEF queued
      <3>. QED  BY <1>2, <3>1, <3>2
    <2>2. at \in [Keys -> Places] /\ \A k \in Keys : at[k] = IF k <= n THEN "Input" ELSE "None"
      BY DEF Places
    <2>. HIDE DEF queued, at
    <2>3. Range(queued) = 1..n
      BY <2>1 DEF Range
    <2>4. 1..n \subseteq Keys /\ \A k \in Keys : k <= n <=> k \in 1..n
      BY <1>2 DEF Keys
    <2>5. Agree(queued, queued, <<>>, at)
      <3>1. IsInjective(queued)
        BY <2>1 DEF IsInjective
      <3>2. Range(queued) = {k \in Range(queued) : at[k] = "Input"}
        BY <2>2, <2>3, <2>4
      <3>3. Range(<<>>) = {k \in Range(queued) : at[k] = "Output"}
        BY <2>2, <2>3, <2>4, RangeEmpty
      <3>4. \A k \in Keys : at[k] = "None" <=> k \notin Range(queued)
        BY <2>2, <2>3, <2>4
      <3>. QED  BY <2>1, <2>2, <3>1, <3>2, <3>3, <3>4, RangeEmpty DEF Agree
    <2>6. Announcers = {}
      BY <1>5 DEF Announcers, At
    <2>7. keys + Cardinality(Announcers) <= MaxKeys
      BY <1>2, <1>7, <2>6, FS_EmptySet
    <2>8. pool.buffers = queued /\ pool.input = queued /\ pool.output = <<>> /\ pool.at = at
      BY <1>7
    <2>9. \A k \in Range(queued) : k <= keys
      BY <1>2, <1>7, <2>3
    <2>. QED  BY <1>7, <2>5, <2>7, <2>8, <2>9 DEF PoolInv
  <1>13. FrameInv
    <2>1. pool.output = <<>>
      BY <1>7
    <2>2. \A i \in 1..MaxStarts : thread[i] # "have"
      BY <1>9
    <2>3. fill \in [Keys -> Nat] /\ \A k \in Keys : fill[k] = 0
      BY <1>3
    <2>4. DOMAIN pool.output = {}
      BY <2>1
    <2>5. FramesInOrder
      BY <2>4 DEF FramesInOrder
    <2>. QED  BY <1>3, <2>2, <2>3, <2>5 DEF FrameInv
  <1>. QED  BY <1>10, <1>11, <1>12, <1>13 DEF IInv

\* Every reachable state has the inductive invariant.
LEMMA Invariance == Spec => []IInv
  BY InitHolds, NextKeeps, PTL DEF Spec

\* The pools and the buffers' entries never disagree, whatever the consumer's threads,
\* the delivery thread and a close do at once: deliver writes announced, queued memory only.
THEOREM PoolsAlwaysAgree == Spec => []PoolsAgree
  <1>1. IInv => PoolsAgree
    <2>. SUFFICES ASSUME IInv PROVE PoolsAgree
      OBVIOUS
    <2>. QED  BY PoolIs DEF Agree, PoolsAgree, At_, Announced
  <1>. QED  BY <1>1, Invariance, PTL

\* Frames that wait for the consumer are newer than those handed out, in the camera's
\* order, through every flush, stop and restart until the stream is closed.
THEOREM FramesLeaveInOrder == Spec => []FramesInOrder
  <1>1. IInv => FramesInOrder
    BY DEF IInv, FrameInv
  <1>. QED  BY <1>1, Invariance, PTL

\* Until the stream is closed at most one delivery thread runs, with the engine, its
\* starter or its joiner in charge; none outlives DSStopAcquisition.
THEOREM ThreadsAreOwned == Spec => []ThreadOwned
  <1>1. IInv => ThreadOwned
    <2>. SUFFICES ASSUME IInv, ~acq.closed
                  PROVE  /\ \A i, j \in 1..MaxStarts : Alive(i) /\ Alive(j) => i = j
                         /\ \A i \in 1..MaxStarts : Alive(i) =>
                               \/ engine.thread = i
                               \/ \E c \in Callers : At(c, "remember") /\ pc[c].arg = i
                               \/ i \in stopping /\ \E c \in Callers : pc[c].at \in {"joinStop", "joinShut"}
                         /\ ~acq.started /\ ~engine.lock => \A i \in 1..MaxStarts : ~Alive(i)
      <3>1. ASSUME IInv PROVE DOMAIN thread = 1..MaxStarts
        BY <3>1 DEF IInv, TypeInv
      <3>. QED  BY <3>1 DEF ThreadOwned
    <2>1. MutexHeld /\ InCharge
      BY DEF IInv, EngineInv
    <2>2. ASSUME NEW i \in 1..MaxStarts, Alive(i), engine.lock
          PROVE  \/ \E c \in Callers : At(c, "remember") /\ pc[c].arg = i
                 \/ i \in stopping /\ \E c \in Callers : pc[c].at \in {"joinStop", "joinShut"}
      <3>1. PICK c \in Callers : pc[c].at \in Holding
        BY <2>1, <2>2 DEF MutexHeld
      <3>2. pc[c].at \notin {"open", "mark", "spawn"}
        BY <2>1, <2>2 DEF InCharge
      <3>. QED  BY <2>1, <2>2, <3>1, <3>2 DEF InCharge, Holding, At
    <2>. QED  BY <2>1, <2>2 DEF InCharge
  <1>. QED  BY <1>1, Invariance, PTL
=============================================================================
