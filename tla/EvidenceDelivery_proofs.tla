------------------------ MODULE EvidenceDelivery_proofs ------------------------
(***************************************************************************)
(* Proofs about EvidenceDelivery for any set of events, any sizes of queue *)
(* and batches and any number of faults: type correctness, at-most-once    *)
(* recording, and no loss in memory or on disk.                            *)
(***************************************************************************)
EXTENDS EvidenceDelivery, TLAPS

Distinct(s) == \A i, j \in DOMAIN s : s[i] = s[j] => i = j

Done == {e \in Events : caller[e] = "done"}

\* Whatever holds events holds each once, and only events Emit has taken.
Good(s) == Distinct(s) /\ SetOf(s) \subseteq Done

\* An event is in one place of the process only, and everything sent or recorded
\* has distinct events of finished Emit calls.
OneCopy ==
    /\ Good(queue) /\ Good(batch) /\ Good(spool) /\ Good(recorded)
    /\ \A w \in Workers : Good(post[w].evs)
    /\ \A evs \in late : Good(evs)
    /\ SetOf(queue) \cap SetOf(batch) = {}
    /\ SetOf(queue) \cap SetOf(spool) = {}
    /\ SetOf(batch) \cap SetOf(spool) = {}

\* What the loops know where they are: a post in flight carries the batch or the
\* spool, which nobody changes meanwhile, and a positive answer means recorded.
Loops ==
    /\ flusher = "select" => Len(batch) < BatchSize
    /\ flusher = "posting" => post["flusher"].evs = batch
    /\ replayer = "posting" => post["replayer"].evs = spool
    /\ replayer = "truncating" => SetOf(spool) \subseteq SetOf(recorded)
    /\ \A w \in Workers : post[w].status = "ok" => SetOf(post[w].evs) \subseteq SetOf(recorded)

\* What is left in memory when the flusher is through came after Close.
Stopping ==
    /\ stopSeen # "no" => life \in {"closing", "closed"}
    /\ stopSeen = "last" => SetOf(queue) \subseteq excused
    /\ flusher = "exited" => batch = <<>> /\ SetOf(queue) \subseteq excused /\ life # "up"
    /\ life = "closed" => flusher = "exited"
    /\ life = "down" => queue = <<>> /\ flusher = "exited" /\ replayer = "exited" /\ stopSeen = "no"

\* The inductive invariant.
DeliveryInv == TypeOK /\ OneCopy /\ Loops /\ Stopping /\ NothingLost

-----------------------------------------------------------------------------
(* Sequences as sets of distinct events. *)

\* The empty sequence.
LEMMA EmptyFacts == SetOf(<<>>) = {} /\ Distinct(<<>>) /\ <<>> \in Seq(Events) /\ Len(<<>>) = 0
    BY DEF SetOf, Distinct

\* Appending an event that is not there yet.
LEMMA AppendFacts ==
    ASSUME NEW s \in Seq(Events), NEW e \in Events
    PROVE  /\ Append(s, e) \in Seq(Events)
           /\ Len(Append(s, e)) = Len(s) + 1
           /\ SetOf(Append(s, e)) = SetOf(s) \cup {e}
           /\ Distinct(s) /\ e \notin SetOf(s) => Distinct(Append(s, e))
<1>1. /\ Append(s, e) \in Seq(Events)
      /\ Len(Append(s, e)) = Len(s) + 1
      /\ DOMAIN Append(s, e) = 1 .. Len(s) + 1
      /\ DOMAIN s = 1 .. Len(s) /\ Len(s) \in Nat
      /\ \A i \in 1 .. Len(s) : Append(s, e)[i] = s[i]
      /\ Append(s, e)[Len(s) + 1] = e
    OBVIOUS
<1>2. SetOf(Append(s, e)) = SetOf(s) \cup {e}
    BY <1>1 DEF SetOf
<1>3. Distinct(s) /\ e \notin SetOf(s) => Distinct(Append(s, e))
    BY <1>1 DEF SetOf, Distinct
<1>. QED BY <1>1, <1>2, <1>3

\* Taking the first event.
LEMMA TailFacts ==
    ASSUME NEW s \in Seq(Events), s # <<>>
    PROVE  /\ Head(s) \in Events /\ Tail(s) \in Seq(Events)
           /\ Len(Tail(s)) = Len(s) - 1
           /\ SetOf(s) = SetOf(Tail(s)) \cup {Head(s)}
           /\ Distinct(s) => Distinct(Tail(s)) /\ Head(s) \notin SetOf(Tail(s))
<1>1. /\ Head(s) \in Events /\ Tail(s) \in Seq(Events)
      /\ Head(s) = s[1]
      /\ Len(s) \in Nat \ {0}
      /\ DOMAIN s = 1 .. Len(s) /\ DOMAIN Tail(s) = 1 .. Len(s) - 1
      /\ \A i \in 1 .. Len(s) - 1 : Tail(s)[i] = s[i + 1]
      /\ Len(Tail(s)) = Len(s) - 1
    OBVIOUS
<1>2. SetOf(s) = SetOf(Tail(s)) \cup {Head(s)}
  <2>1. ASSUME NEW i \in 1 .. Len(s)
        PROVE  s[i] \in SetOf(Tail(s)) \cup {Head(s)}
    <3>1. CASE i = 1
        BY <1>1, <3>1
    <3>2. CASE i # 1
      <4>1. i - 1 \in 1 .. Len(s) - 1 /\ Tail(s)[i - 1] = s[i - 1 + 1] /\ i - 1 + 1 = i
          BY <1>1, <3>2
      <4>. QED BY <1>1, <4>1 DEF SetOf
    <3>. QED BY <3>1, <3>2
  <2>2. SetOf(Tail(s)) \cup {Head(s)} \subseteq SetOf(s)
      BY <1>1 DEF SetOf
  <2>. QED BY <1>1, <2>1, <2>2 DEF SetOf
<1>3. Distinct(s) => Distinct(Tail(s)) /\ Head(s) \notin SetOf(Tail(s))
    BY <1>1 DEF SetOf, Distinct
<1>. QED BY <1>1, <1>2, <1>3

\* u consists of the events of s followed by those of t.
Joins(u, s, t) ==
    /\ \A i \in DOMAIN u :
          \/ i \in DOMAIN s /\ u[i] = s[i]
          \/ i - Len(s) \in DOMAIN t /\ i = Len(s) + (i - Len(s)) /\ u[i] = t[i - Len(s)]
    /\ \A i \in DOMAIN s : i \in DOMAIN u /\ u[i] = s[i]
    /\ \A i \in DOMAIN t : Len(s) + i \in DOMAIN u /\ u[Len(s) + i] = t[i]

\* Concatenation of two sequences without a common event.
LEMMA ConcatFacts ==
    ASSUME NEW s \in Seq(Events), NEW t \in Seq(Events)
    PROVE  /\ s \o t \in Seq(Events)
           /\ SetOf(s \o t) = SetOf(s) \cup SetOf(t)
           /\ Distinct(s) /\ Distinct(t) /\ SetOf(s) \cap SetOf(t) = {} => Distinct(s \o t)
<1>1. s \o t \in Seq(Events) /\ Joins(s \o t, s, t)
    BY DEF Joins
<1>2. ASSUME NEW u, Joins(u, s, t)
      PROVE  SetOf(u) = SetOf(s) \cup SetOf(t)
  <2>1. ASSUME NEW i \in DOMAIN u
        PROVE  u[i] \in SetOf(s) \cup SetOf(t)
      BY <1>2, <2>1 DEF Joins, SetOf
  <2>2. ASSUME NEW i \in DOMAIN s
        PROVE  s[i] \in SetOf(u)
      BY <1>2, <2>2 DEF Joins, SetOf
  <2>3. ASSUME NEW i \in DOMAIN t
        PROVE  t[i] \in SetOf(u)
    <3>1. Len(s) + i \in DOMAIN u /\ u[Len(s) + i] = t[i]
        BY <1>2 DEF Joins
    <3>. QED BY <3>1 DEF SetOf
  <2>. QED BY <2>1, <2>2, <2>3 DEF SetOf
<1>3. ASSUME Distinct(s), Distinct(t), SetOf(s) \cap SetOf(t) = {}
      PROVE  Distinct(s \o t)
  <2>. DEFINE u == s \o t
  <2>. SUFFICES ASSUME NEW i \in DOMAIN u, NEW j \in DOMAIN u, u[i] = u[j]
                PROVE  i = j
      BY DEF Distinct
  <2>1. \A k \in DOMAIN u :
          \/ k \in DOMAIN s /\ u[k] = s[k]
          \/ k - Len(s) \in DOMAIN t /\ k = Len(s) + (k - Len(s)) /\ u[k] = t[k - Len(s)]
      BY <1>1 DEF Joins
  <2>2. \A k \in DOMAIN s, l \in DOMAIN t : s[k] # t[l]
      BY <1>3 DEF SetOf
  <2>. HIDE DEF u
  <2>3. CASE i \in DOMAIN s /\ u[i] = s[i]
      BY <1>3, <2>1, <2>2, <2>3 DEF Distinct
  <2>4. CASE i - Len(s) \in DOMAIN t /\ i = Len(s) + (i - Len(s)) /\ u[i] = t[i - Len(s)]
    <3>1. CASE j \in DOMAIN s /\ u[j] = s[j]
        BY <2>2, <2>4, <3>1
    <3>2. CASE j - Len(s) \in DOMAIN t /\ j = Len(s) + (j - Len(s)) /\ u[j] = t[j - Len(s)]
      <4>1. i - Len(s) = j - Len(s)
          BY <1>3, <2>4, <3>2 DEF Distinct
      <4>. QED BY <2>4, <3>2, <4>1
    <3>. QED BY <2>1, <3>1, <3>2
  <2>. QED BY <2>1, <2>3, <2>4
<1>. QED BY <1>1, <1>2, <1>3

-----------------------------------------------------------------------------
(* Initial states and the steps of the requests. *)

\* A fresh process on an empty spool and an empty store.
LEMMA DeliveryInvInit == Init => DeliveryInv
<1>. SUFFICES ASSUME Init PROVE DeliveryInv
    OBVIOUS
<1>1. TypeOK
    BY EmptyFacts, DeliveryAssumption DEF Init, TypeOK, NoPost
<1>2. OneCopy
    BY EmptyFacts DEF Init, OneCopy, Good, NoPost
<1>3. Loops
    BY EmptyFacts, DeliveryAssumption DEF Init, Loops, NoPost
<1>4. Stopping
    BY DEF Init, Stopping
<1>5. NothingLost
    BY DEF Init, NothingLost
<1>. QED BY <1>1, <1>2, <1>3, <1>4, <1>5 DEF DeliveryInv

\* An event goes into the queue, or its request starts to wait for the spool.
LEMMA EmitStep ==
    ASSUME DeliveryInv, NEW e \in Events, Emit(e)
    PROVE  DeliveryInv'
<1>0. TypeOK /\ OneCopy /\ Loops /\ Stopping /\ NothingLost
    BY DEF DeliveryInv
<1>1. /\ UNCHANGED <<batch, flusher, stopSeen, spool, replayer, post, late, life, recorded, faults>>
      /\ caller[e] = "idle"
    BY DEF Emit
<1>2. CASE Len(queue) < QueueCap
  <2>1. /\ queue' = Append(queue, e)
        /\ caller' = [caller EXCEPT ![e] = "done"]
        /\ excused' = IF life = "up" THEN excused ELSE excused \cup {e}
      BY <1>2 DEF Emit, Return
  <2>2. /\ queue' \in Seq(Events) /\ Len(queue') = Len(queue) + 1
        /\ SetOf(queue') = SetOf(queue) \cup {e}
        /\ Distinct(queue) /\ e \notin SetOf(queue) => Distinct(queue')
      BY <1>0, <2>1, AppendFacts DEF TypeOK
  <2>3. Done' = Done \cup {e} /\ e \notin Done
      BY <1>0, <1>1, <2>1 DEF Done, TypeOK
  <2>4. TypeOK'
      BY <1>0, <1>1, <1>2, <2>1, <2>2, DeliveryAssumption DEF TypeOK
  <2>5. OneCopy'
      BY <1>0, <1>1, <2>2, <2>3 DEF OneCopy, Good
  <2>6. Loops'
      BY <1>0, <1>1 DEF Loops
  <2>7. Stopping'
      BY <1>0, <1>1, <2>1, <2>2 DEF Stopping, Emit, Running
  <2>8. NothingLost'
      BY <1>0, <1>1, <2>1, <2>2 DEF NothingLost, TypeOK
  <2>. QED BY <2>4, <2>5, <2>6, <2>7, <2>8 DEF DeliveryInv
<1>3. CASE ~(Len(queue) < QueueCap)
  <2>1. caller' = [caller EXCEPT ![e] = "waiting"] /\ queue' = queue /\ excused' = excused
      BY <1>3 DEF Emit
  <2>2. Done' = Done
      BY <1>0, <1>1, <2>1 DEF Done, TypeOK
  <2>3. TypeOK'
      BY <1>0, <1>1, <2>1 DEF TypeOK
  <2>4. OneCopy' /\ Loops' /\ Stopping'
      BY <1>0, <1>1, <2>1, <2>2 DEF OneCopy, Good, Loops, Stopping
  <2>5. NothingLost'
      BY <1>0, <1>1, <2>1 DEF NothingLost, TypeOK
  <2>. QED BY <2>3, <2>4, <2>5 DEF DeliveryInv
<1>. QED BY <1>2, <1>3

\* A request that found the queue full writes its event to the spool file, which
\* the replayer does not read at that time; after Close the write fails.
LEMMA SpoolEventStep ==
    ASSUME DeliveryInv, NEW e \in Events, SpoolEvent(e)
    PROVE  DeliveryInv'
<1>0. TypeOK /\ OneCopy /\ Loops /\ Stopping /\ NothingLost
    BY DEF DeliveryInv
<1>1. /\ UNCHANGED <<queue, batch, flusher, stopSeen, replayer, post, late, life, recorded, faults>>
      /\ caller[e] = "waiting" /\ ~SpoolLocked
      /\ spool' = IF life = "closed" THEN spool ELSE spool \o <<e>>
      /\ caller' = [caller EXCEPT ![e] = "done"]
      /\ excused' = IF life = "up" THEN excused ELSE excused \cup {e}
    BY DEF SpoolEvent, SpoolAppend, Return
<1>2. Done' = Done \cup {e} /\ e \notin Done
    BY <1>0, <1>1 DEF Done, TypeOK
<1>3. spool \o <<e>> = Append(spool, e)
    BY <1>0 DEF TypeOK
<1>4. /\ spool' \in Seq(Events)
      /\ SetOf(spool) \subseteq SetOf(spool') /\ SetOf(spool') \subseteq SetOf(spool) \cup {e}
      /\ life # "closed" => e \in SetOf(spool')
      /\ Distinct(spool) /\ e \notin SetOf(spool) => Distinct(spool')
  <2>1. spool \in Seq(Events)
      BY <1>0 DEF TypeOK
  <2>2. CASE life = "closed"
      BY <1>1, <2>1, <2>2
  <2>3. CASE life # "closed"
    <3>1. spool' = Append(spool, e)
        BY <1>1, <1>3, <2>3
    <3>. QED BY <2>1, <3>1, AppendFacts
  <2>. QED BY <2>2, <2>3
<1>5. TypeOK'
    BY <1>0, <1>1, <1>4 DEF TypeOK
<1>6. OneCopy'
    BY <1>0, <1>1, <1>2, <1>4 DEF OneCopy, Good
<1>7. Loops'
    BY <1>0, <1>1 DEF Loops, SpoolLocked
<1>8. Stopping'
    BY <1>0, <1>1 DEF Stopping
<1>9. NothingLost'
    BY <1>0, <1>1, <1>4 DEF NothingLost, TypeOK
<1>. QED BY <1>5, <1>6, <1>7, <1>8, <1>9 DEF DeliveryInv

-----------------------------------------------------------------------------
(* The steps of the flusher and of the replayer. *)

\* The flusher moves an event from the queue to its batch.
LEMMA TakeEventStep ==
    ASSUME DeliveryInv, TakeEvent
    PROVE  DeliveryInv'
<1>0. TypeOK /\ OneCopy /\ Loops /\ Stopping /\ NothingLost
    BY DEF DeliveryInv
<1>1. /\ UNCHANGED <<caller, stopSeen, spool, replayer, late, life, recorded, excused, faults>>
      /\ queue # <<>> /\ flusher = "select"
      /\ queue' = Tail(queue) /\ batch' = Append(batch, Head(queue))
      /\ \/ Len(batch') >= BatchSize /\ flusher' = "posting" /\ Send("flusher", batch')
         \/ ~(Len(batch') >= BatchSize) /\ flusher' = flusher /\ post' = post
    BY DEF TakeEvent
<1>2. queue \in Seq(Events) /\ batch \in Seq(Events) /\ Len(batch) < BatchSize
    BY <1>0, <1>1 DEF TypeOK, Loops
<1>3. /\ Head(queue) \in Events /\ queue' \in Seq(Events) /\ Len(queue') = Len(queue) - 1
      /\ SetOf(queue) = SetOf(queue') \cup {Head(queue)}
      /\ Distinct(queue) => Distinct(queue') /\ Head(queue) \notin SetOf(queue')
    BY <1>1, <1>2, TailFacts
<1>4. /\ batch' \in Seq(Events) /\ Len(batch') = Len(batch) + 1
      /\ SetOf(batch') = SetOf(batch) \cup {Head(queue)}
      /\ Distinct(batch) /\ Head(queue) \notin SetOf(batch) => Distinct(batch')
    BY <1>1, <1>2, <1>3, AppendFacts
<1>5. /\ post'["replayer"] = post["replayer"]
      /\ \/ flusher' = "posting" /\ post'["flusher"] = [evs |-> batch', status |-> "sent"]
         \/ flusher' = "select" /\ post'["flusher"] = post["flusher"] /\ Len(batch') < BatchSize
  <2>1. Len(batch') \in Nat /\ BatchSize \in Nat
      BY <1>4, DeliveryAssumption
  <2>2. CASE Len(batch') >= BatchSize
      BY <1>0, <1>1, <2>2 DEF TypeOK, Send, Workers
  <2>3. CASE ~(Len(batch') >= BatchSize)
      BY <1>1, <2>1, <2>3
  <2>. QED BY <2>2, <2>3
<1>6. TypeOK'
  <2>1. Len(queue') <= QueueCap /\ Len(batch') <= BatchSize
      BY <1>0, <1>2, <1>3, <1>4, DeliveryAssumption DEF TypeOK
  <2>2. post' \in [Workers -> [evs : Seq(Events), status : {"none", "sent", "ok", "err"}]]
    <3>1. [evs |-> batch', status |-> "sent"]
              \in [evs : Seq(Events), status : {"none", "sent", "ok", "err"}]
        BY <1>4
    <3>. QED BY <1>0, <1>1, <3>1 DEF TypeOK, Send
  <2>. QED BY <1>0, <1>1, <1>3, <1>4, <2>1, <2>2 DEF TypeOK
<1>7. OneCopy'
  <2>1. Done' = Done
      BY <1>1 DEF Done
  <2>2. Good(queue)' /\ Good(batch)' /\ SetOf(queue') \cap SetOf(batch') = {}
      BY <1>0, <1>3, <1>4, <2>1 DEF OneCopy, Good
  <2>3. /\ SetOf(queue') \cap SetOf(spool') = {} /\ SetOf(batch') \cap SetOf(spool') = {}
        /\ Good(spool)' /\ Good(recorded)' /\ \A evs \in late' : Good(evs)'
      BY <1>0, <1>1, <1>3, <1>4, <2>1 DEF OneCopy, Good
  <2>4. \A w \in Workers : Good(post[w].evs)'
      BY <1>0, <1>5, <2>1, <2>2 DEF OneCopy, Good, Workers
  <2>. QED BY <2>2, <2>3, <2>4 DEF OneCopy, Good
<1>8. Loops'
    BY <1>0, <1>1, <1>5 DEF Loops, Workers
<1>9. Stopping'
    BY <1>0, <1>1, <1>3, <1>5 DEF Stopping
<1>10. NothingLost'
    BY <1>0, <1>1, <1>3, <1>4 DEF NothingLost
<1>. QED BY <1>6, <1>7, <1>8, <1>9, <1>10 DEF DeliveryInv

\* The flusher posts its batch, and stops afterwards if the queue was drained.
LEMMA PostBatchStep ==
    ASSUME DeliveryInv, flusher = "select", flusher' = "posting", Send("flusher", batch),
           stopSeen' = stopSeen \/ (stopSeen' = "last" /\ life = "closing" /\ queue = <<>>),
           stopSeen' \in {"no", "draining", "last"},
           UNCHANGED <<caller, queue, batch, spool, replayer, late, life, recorded, excused, faults>>
    PROVE  DeliveryInv'
<1>0. TypeOK /\ OneCopy /\ Loops /\ Stopping /\ NothingLost
    BY DEF DeliveryInv
<1>1. /\ post'["replayer"] = post["replayer"]
      /\ post'["flusher"] = [evs |-> batch, status |-> "sent"]
    BY <1>0 DEF TypeOK, Send, Workers
<1>2. TypeOK'
    BY <1>0 DEF TypeOK, Send
<1>3. OneCopy'
  <2>1. Done' = Done
      BY DEF Done
  <2>. QED BY <1>0, <1>1, <2>1 DEF OneCopy, Good, Workers
<1>4. Loops'
    BY <1>0, <1>1 DEF Loops, Workers
<1>5. Stopping'
    BY <1>0, EmptyFacts DEF Stopping
<1>6. NothingLost'
    BY <1>0 DEF NothingLost
<1>. QED BY <1>2, <1>3, <1>4, <1>5, <1>6 DEF DeliveryInv

\* The flusher lets go of a batch that has been recorded.
LEMMA FlushedStep ==
    ASSUME DeliveryInv, flusher = "posting", Alive,
           post["flusher"].status = "ok", batch' = <<>>, flusher' = AfterFlush,
           post' = [post EXCEPT !["flusher"] = NoPost],
           UNCHANGED <<caller, queue, stopSeen, spool, replayer, late, life, recorded, excused, faults>>
    PROVE  DeliveryInv'
<1>0. TypeOK /\ OneCopy /\ Loops /\ Stopping /\ NothingLost
    BY DEF DeliveryInv
<1>1. post'["replayer"] = post["replayer"] /\ post'["flusher"] = NoPost
    BY <1>0 DEF TypeOK, Workers
<1>2. SetOf(batch) \subseteq SetOf(recorded)
    BY <1>0 DEF Loops, Workers
<1>3. /\ flusher' \in {"select", "exited"}
      /\ flusher' = "exited" => stopSeen = "last"
    BY DEF AfterFlush
<1>4. TypeOK'
  <2>1. NoPost \in [evs : Seq(Events), status : {"none", "sent", "ok", "err"}]
      BY EmptyFacts DEF NoPost
  <2>2. 0 <= BatchSize
      BY DeliveryAssumption
  <2>. QED BY <1>0, <1>3, <2>1, <2>2, EmptyFacts DEF TypeOK
<1>5. OneCopy'
  <2>1. Done' = Done
      BY DEF Done
  <2>. QED BY <1>0, <1>1, <2>1, EmptyFacts DEF OneCopy, Good, Workers, NoPost
<1>6. Loops'
    BY <1>0, <1>1, <1>3, EmptyFacts, DeliveryAssumption DEF Loops, Workers, NoPost
<1>7. Stopping'
    BY <1>0, <1>3 DEF Stopping, Alive
<1>8. NothingLost'
    BY <1>0, <1>2, EmptyFacts DEF NothingLost
<1>. QED BY <1>4, <1>5, <1>6, <1>7, <1>8 DEF DeliveryInv

\* The flusher spools a batch that could not be posted.
LEMMA SpoolBatchStep ==
    ASSUME DeliveryInv, SpoolBatch
    PROVE  DeliveryInv'
<1>0. TypeOK /\ OneCopy /\ Loops /\ Stopping /\ NothingLost
    BY DEF DeliveryInv
<1>1. /\ UNCHANGED <<caller, queue, stopSeen, replayer, post, late, life, recorded, excused, faults>>
      /\ life \in {"up", "closing"} /\ ~SpoolLocked
      /\ spool' = spool \o batch /\ batch' = <<>> /\ flusher' = AfterFlush
    BY DEF SpoolBatch, Alive, SpoolAppend
<1>2. /\ spool' \in Seq(Events)
      /\ SetOf(spool') = SetOf(spool) \cup SetOf(batch)
      /\ Distinct(spool) /\ Distinct(batch) /\ SetOf(spool) \cap SetOf(batch) = {} => Distinct(spool')
    BY <1>0, <1>1, ConcatFacts DEF TypeOK
<1>3. /\ flusher' \in {"select", "exited"}
      /\ flusher' = "exited" => stopSeen = "last"
    BY <1>1 DEF AfterFlush
<1>4. TypeOK'
    BY <1>0, <1>1, <1>2, <1>3, EmptyFacts, DeliveryAssumption DEF TypeOK
<1>5. OneCopy'
  <2>1. Done' = Done
      BY <1>1 DEF Done
  <2>. QED BY <1>0, <1>1, <1>2, <2>1, EmptyFacts DEF OneCopy, Good
<1>6. Loops'
    BY <1>0, <1>1, <1>3, EmptyFacts, DeliveryAssumption DEF Loops, SpoolLocked
<1>7. Stopping'
    BY <1>0, <1>1, <1>3 DEF Stopping
<1>8. NothingLost'
    BY <1>0, <1>1, <1>2, EmptyFacts DEF NothingLost
<1>. QED BY <1>4, <1>5, <1>6, <1>7, <1>8 DEF DeliveryInv

\* All steps of the flusher.
LEMMA FlusherStep ==
    ASSUME DeliveryInv, Flusher
    PROVE  DeliveryInv'
<1>0. TypeOK /\ OneCopy /\ Loops /\ Stopping /\ NothingLost
    BY DEF DeliveryInv
<1>1. CASE TakeEvent
    BY <1>1, TakeEventStep
<1>2. CASE Tick
    BY <1>0, <1>2, PostBatchStep DEF Tick, TypeOK
<1>3. CASE SeeStop
  <2>1. /\ stopSeen' = "draining" /\ life = "closing"
        /\ UNCHANGED <<caller, queue, batch, flusher, spool, replayer, post, late, life,
                       recorded, excused, faults>>
      BY <1>3 DEF SeeStop
  <2>2. TypeOK' /\ Loops' /\ Stopping' /\ NothingLost'
      BY <1>0, <2>1 DEF TypeOK, Loops, Stopping, NothingLost
  <2>3. OneCopy'
      BY <1>0, <2>1 DEF OneCopy, Good, Done
  <2>. QED BY <2>2, <2>3 DEF DeliveryInv
<1>4. CASE LastFlush
  <2>1. CASE batch = <<>>
    <3>1. /\ flusher' = "exited" /\ queue = <<>> /\ stopSeen = "draining"
          /\ UNCHANGED <<caller, queue, batch, stopSeen, spool, replayer, post, late, life,
                         recorded, excused, faults>>
        BY <1>4, <2>1 DEF LastFlush
    <3>2. TypeOK' /\ Loops' /\ NothingLost'
        BY <1>0, <3>1 DEF TypeOK, Loops, NothingLost
    <3>3. Stopping'
        BY <1>0, <2>1, <3>1, EmptyFacts DEF Stopping
    <3>4. OneCopy'
        BY <1>0, <3>1 DEF OneCopy, Good, Done
    <3>. QED BY <3>2, <3>3, <3>4 DEF DeliveryInv
  <2>2. CASE batch # <<>>
    <3>1. life = "closing"
        BY <1>0, <1>4 DEF LastFlush, Alive, Stopping
    <3>. QED BY <1>4, <2>2, <3>1, PostBatchStep DEF LastFlush
  <2>. QED BY <2>1, <2>2
<1>5. CASE FlushAnswered
  <2>1. CASE post["flusher"].status = "ok"
      BY <1>5, <2>1, FlushedStep DEF FlushAnswered
  <2>2. CASE post["flusher"].status # "ok"
    <3>1. /\ flusher' = "spooling" /\ post' = [post EXCEPT !["flusher"] = NoPost]
          /\ flusher = "posting"
          /\ UNCHANGED <<caller, queue, batch, stopSeen, spool, replayer, late, life, recorded,
                         excused, faults>>
        BY <1>5, <2>2 DEF FlushAnswered
    <3>2. post'["replayer"] = post["replayer"] /\ post'["flusher"] = NoPost
        BY <1>0, <3>1 DEF TypeOK, Workers
    <3>3. TypeOK'
        BY <1>0, <3>1, EmptyFacts DEF TypeOK, NoPost
    <3>4. OneCopy'
      <4>1. Done' = Done
          BY <3>1 DEF Done
      <4>. QED BY <1>0, <3>1, <3>2, <4>1, EmptyFacts DEF OneCopy, Good, Workers, NoPost
    <3>5. Loops'
        BY <1>0, <3>1, <3>2 DEF Loops, Workers, NoPost
    <3>6. Stopping' /\ NothingLost'
        BY <1>0, <3>1 DEF Stopping, NothingLost
    <3>. QED BY <3>3, <3>4, <3>5, <3>6 DEF DeliveryInv
  <2>. QED BY <2>1, <2>2
<1>6. CASE SpoolBatch
    BY <1>6, SpoolBatchStep
<1>. QED BY <1>1, <1>2, <1>3, <1>4, <1>5, <1>6 DEF Flusher

\* All steps of the replayer.
LEMMA ReplayerStep ==
    ASSUME DeliveryInv, Replayer
    PROVE  DeliveryInv'
<1>0. TypeOK /\ OneCopy /\ Loops /\ Stopping /\ NothingLost
    BY DEF DeliveryInv
<1>1. UNCHANGED <<caller, queue, batch, flusher, stopSeen, late, life, recorded, excused, faults>>
    BY DEF Replayer, Replay, ReplayAnswered, Truncate, ReplayStop
<1>2. Done' = Done
    BY <1>1 DEF Done
<1>3. CASE Replay
  <2>1. spool' = spool /\ replayer' = "posting" /\ Send("replayer", spool)
      BY <1>3 DEF Replay
  <2>2. post'["flusher"] = post["flusher"] /\ post'["replayer"] = [evs |-> spool, status |-> "sent"]
      BY <1>0, <2>1 DEF TypeOK, Send, Workers
  <2>3. TypeOK'
      BY <1>0, <1>1, <2>1 DEF TypeOK, Send
  <2>4. OneCopy' /\ Loops'
      BY <1>0, <1>1, <1>2, <2>1, <2>2 DEF OneCopy, Good, Loops, Workers
  <2>5. Stopping' /\ NothingLost'
      BY <1>0, <1>1, <1>3, <2>1 DEF Stopping, NothingLost, Replay, Alive
  <2>. QED BY <2>3, <2>4, <2>5 DEF DeliveryInv
<1>4. CASE ReplayAnswered
  <2>1. /\ spool' = spool /\ post' = [post EXCEPT !["replayer"] = NoPost] /\ Alive
        /\ \/ replayer' = "idle"
           \/ replayer' = "truncating" /\ SetOf(spool) \subseteq SetOf(recorded)
      BY <1>0, <1>4 DEF ReplayAnswered, Loops, Workers
  <2>2. post'["flusher"] = post["flusher"] /\ post'["replayer"] = NoPost
      BY <1>0, <2>1 DEF TypeOK, Workers
  <2>3. TypeOK'
      BY <1>0, <1>1, <2>1, EmptyFacts DEF TypeOK, NoPost
  <2>4. OneCopy' /\ Loops'
      BY <1>0, <1>1, <1>2, <2>1, <2>2, EmptyFacts DEF OneCopy, Good, Loops, Workers, NoPost
  <2>5. Stopping' /\ NothingLost'
      BY <1>0, <1>1, <2>1 DEF Stopping, NothingLost, Alive
  <2>. QED BY <2>3, <2>4, <2>5 DEF DeliveryInv
<1>5. CASE Truncate
  <2>1. spool' = <<>> /\ replayer' = "idle" /\ post' = post /\ Alive
      BY <1>5 DEF Truncate
  <2>2. SetOf(spool) \subseteq SetOf(recorded)
      BY <1>0, <1>5 DEF Truncate, Loops
  <2>3. TypeOK'
      BY <1>0, <1>1, <2>1, EmptyFacts DEF TypeOK
  <2>4. OneCopy' /\ Loops'
      BY <1>0, <1>1, <1>2, <2>1, EmptyFacts DEF OneCopy, Good, Loops
  <2>5. Stopping' /\ NothingLost'
      BY <1>0, <1>1, <2>1, <2>2, EmptyFacts DEF Stopping, NothingLost, Alive
  <2>. QED BY <2>3, <2>4, <2>5 DEF DeliveryInv
<1>6. CASE ReplayStop
  <2>1. spool' = spool /\ replayer' = "exited" /\ post' = post
      BY <1>6 DEF ReplayStop
  <2>. QED BY <1>0, <1>1, <1>2, <2>1 DEF DeliveryInv, TypeOK, OneCopy, Good, Loops, Stopping, NothingLost
<1>. QED BY <1>3, <1>4, <1>5, <1>6 DEF Replayer

-----------------------------------------------------------------------------
(* The steps of the API, the network and the process. *)

\* A batch of distinct events is recorded, or refused.
LEMMA RecordFacts ==
    ASSUME DeliveryInv, NEW evs \in Seq(Events), Good(evs), Done' = Done,
           recorded' = IF Acceptable(evs) THEN recorded \o evs ELSE recorded
    PROVE  /\ recorded' \in Seq(Events) /\ Good(recorded)'
           /\ SetOf(recorded) \subseteq SetOf(recorded')
           /\ Acceptable(evs) => SetOf(evs) \subseteq SetOf(recorded')
<1>0. recorded \in Seq(Events) /\ Good(recorded)
    BY DEF DeliveryInv, TypeOK, OneCopy
<1>1. CASE Acceptable(evs)
  <2>1. SetOf(evs) \cap SetOf(recorded) = {} /\ recorded' = recorded \o evs
      BY <1>1 DEF Acceptable
  <2>. QED BY <1>0, <2>1, ConcatFacts DEF Good
<1>2. CASE ~Acceptable(evs)
    BY <1>0, <1>2 DEF Good
<1>. QED BY <1>1, <1>2

\* The API answers a post.
LEMMA AnswerStep ==
    ASSUME DeliveryInv, NEW w \in Workers, Answer(w)
    PROVE  DeliveryInv'
<1>0. TypeOK /\ OneCopy /\ Loops /\ Stopping /\ NothingLost
    BY DEF DeliveryInv
<1>1. /\ UNCHANGED <<caller, queue, batch, flusher, stopSeen, replayer, spool, late, life,
                     excused, faults>>
      /\ recorded' = IF Acceptable(post[w].evs) THEN recorded \o post[w].evs ELSE recorded
      /\ \/ Acceptable(post[w].evs) /\ post' = [post EXCEPT ![w].status = "ok"]
         \/ ~Acceptable(post[w].evs) /\ post' = [post EXCEPT ![w].status = "err"]
    BY DEF Answer, memory
<1>2. Done' = Done /\ post[w].evs \in Seq(Events) /\ Good(post[w].evs)
    BY <1>0, <1>1 DEF Done, TypeOK, OneCopy
<1>3. /\ recorded' \in Seq(Events) /\ Good(recorded)'
      /\ SetOf(recorded) \subseteq SetOf(recorded')
      /\ Acceptable(post[w].evs) => SetOf(post[w].evs) \subseteq SetOf(recorded')
    BY <1>1, <1>2, RecordFacts
<1>4. \A u \in Workers :
        /\ post'[u].evs = post[u].evs
        /\ post'[u].status = "ok" => post[u].status = "ok" \/ (u = w /\ Acceptable(post[w].evs))
    BY <1>0, <1>1 DEF TypeOK
<1>5. TypeOK'
    BY <1>0, <1>1, <1>3 DEF TypeOK
<1>6. OneCopy'
  <2>1. \A u \in Workers : Good(post[u].evs)'
      BY <1>0, <1>2, <1>4 DEF OneCopy, Good
  <2>. QED BY <1>0, <1>1, <1>2, <1>3, <2>1 DEF OneCopy, Good
<1>7. Loops'
  <2>1. \A u \in Workers : post'[u].status = "ok" => SetOf(post'[u].evs) \subseteq SetOf(recorded')
      BY <1>0, <1>3, <1>4 DEF Loops
  <2>. QED BY <1>0, <1>1, <1>3, <1>4, <2>1 DEF Loops, Workers
<1>8. Stopping'
    BY <1>0, <1>1 DEF Stopping
<1>9. NothingLost'
    BY <1>0, <1>1, <1>3 DEF NothingLost
<1>. QED BY <1>5, <1>6, <1>7, <1>8, <1>9 DEF DeliveryInv

\* A post fails, or its answer does not arrive.
LEMMA LostPostStep ==
    ASSUME DeliveryInv, NEW w \in Workers, FailPost(w) \/ Timeout(w)
    PROVE  DeliveryInv'
<1>0. TypeOK /\ OneCopy /\ Loops /\ Stopping /\ NothingLost
    BY DEF DeliveryInv
<1>1. /\ UNCHANGED <<caller, queue, batch, flusher, stopSeen, replayer, spool, life, recorded, excused>>
      /\ post' = [post EXCEPT ![w].status = "err"]
      /\ late' = late \/ late' = late \cup {post[w].evs}
      /\ \E f \in {"failure", "timeout"} : faults' = [faults EXCEPT ![f] = @ + 1]
    BY DEF FailPost, Timeout, Fault, memory
<1>2. Done' = Done
    BY <1>1 DEF Done
<1>3. \A u \in Workers :
        post'[u].evs = post[u].evs /\ (post'[u].status = "ok" => post[u].status = "ok")
    BY <1>0, <1>1 DEF TypeOK
<1>4. TypeOK'
  <2>1. post[w].evs \in Seq(Events)
      BY <1>0 DEF TypeOK
  <2>2. post' \in [Workers -> [evs : Seq(Events), status : {"none", "sent", "ok", "err"}]]
    <3>1. [post[w] EXCEPT !.status = "err"]
              \in [evs : Seq(Events), status : {"none", "sent", "ok", "err"}]
        BY <1>0 DEF TypeOK
    <3>. QED BY <1>0, <1>1, <3>1 DEF TypeOK
  <2>3. faults' \in [{"failure", "timeout", "crash", "shutdown"} -> Nat]
      BY <1>0, <1>1 DEF TypeOK
  <2>4. late' \subseteq Seq(Events)
      BY <1>0, <1>1, <2>1 DEF TypeOK
  <2>. QED BY <1>0, <1>1, <2>2, <2>3, <2>4 DEF TypeOK
<1>5. OneCopy'
  <2>1. \A u \in Workers : Good(post[u].evs)'
      BY <1>0, <1>2, <1>3 DEF OneCopy, Good
  <2>2. \A evs \in late' : Good(evs)'
      BY <1>0, <1>1, <1>2 DEF OneCopy, Good
  <2>. QED BY <1>0, <1>1, <1>2, <2>1, <2>2 DEF OneCopy, Good
<1>6. Loops'
    BY <1>0, <1>1, <1>3 DEF Loops, Workers
<1>7. Stopping' /\ NothingLost'
    BY <1>0, <1>1 DEF Stopping, NothingLost
<1>. QED BY <1>4, <1>5, <1>6, <1>7 DEF DeliveryInv

\* The API gets to a batch whose client has given up.
LEMMA LateAnswerStep ==
    ASSUME DeliveryInv, NEW evs \in late, LateAnswer(evs)
    PROVE  DeliveryInv'
<1>0. TypeOK /\ OneCopy /\ Loops /\ Stopping /\ NothingLost
    BY DEF DeliveryInv
<1>1. /\ UNCHANGED <<caller, queue, batch, flusher, stopSeen, replayer, spool, post, life,
                     excused, faults>>
      /\ late' = late \ {evs}
      /\ recorded' = IF Acceptable(evs) THEN recorded \o evs ELSE recorded
    BY DEF LateAnswer, memory
<1>2. Done' = Done /\ evs \in Seq(Events) /\ Good(evs)
    BY <1>0, <1>1 DEF Done, TypeOK, OneCopy
<1>3. /\ recorded' \in Seq(Events) /\ Good(recorded)'
      /\ SetOf(recorded) \subseteq SetOf(recorded')
    BY <1>1, <1>2, RecordFacts
<1>4. TypeOK'
    BY <1>0, <1>1, <1>3 DEF TypeOK
<1>5. OneCopy'
    BY <1>0, <1>1, <1>2, <1>3 DEF OneCopy, Good
<1>6. Loops'
    BY <1>0, <1>1, <1>3 DEF Loops
<1>7. Stopping' /\ NothingLost'
    BY <1>0, <1>1, <1>3 DEF Stopping, NothingLost
<1>. QED BY <1>4, <1>5, <1>6, <1>7 DEF DeliveryInv

\* The process ends and what it had in memory is excused.
LEMMA ProcessGoneStep ==
    ASSUME DeliveryInv, ProcessGone, excused \subseteq excused',
           SetOf(queue) \cup SetOf(batch) \subseteq excused', excused' \subseteq Events,
           faults' \in [{"failure", "timeout", "crash", "shutdown"} -> Nat]
    PROVE  DeliveryInv'
<1>0. TypeOK /\ OneCopy /\ Loops /\ Stopping /\ NothingLost
    BY DEF DeliveryInv
<1>1. /\ life' = "down" /\ queue' = <<>> /\ batch' = <<>> /\ spool' = spool /\ recorded' = recorded
      /\ flusher' = "exited" /\ replayer' = "exited" /\ stopSeen' = "no"
      /\ caller' = [e \in Events |-> IF caller[e] = "waiting" THEN "dead" ELSE caller[e]]
      /\ late' \subseteq late \cup {post[w].evs : w \in Workers}
      /\ post' = [w \in Workers |-> NoPost]
    BY DEF ProcessGone
<1>2. Done' = Done
    BY <1>1 DEF Done
<1>3. NoPost \in [evs : Seq(Events), status : {"none", "sent", "ok", "err"}]
    BY EmptyFacts DEF NoPost
<1>4. TypeOK'
  <2>1. late' \subseteq Seq(Events)
      BY <1>0, <1>1 DEF TypeOK
  <2>2. caller' \in [Events -> {"idle", "waiting", "done", "dead"}]
      BY <1>0, <1>1 DEF TypeOK
  <2>3. post' \in [Workers -> [evs : Seq(Events), status : {"none", "sent", "ok", "err"}]]
      BY <1>1, <1>3
  <2>4. 0 <= QueueCap /\ 0 <= BatchSize
      BY DeliveryAssumption
  <2>. QED BY <1>0, <1>1, <2>1, <2>2, <2>3, <2>4, EmptyFacts DEF TypeOK
<1>5. OneCopy'
  <2>1. \A evs \in late' : Good(evs)'
      BY <1>0, <1>1, <1>2 DEF OneCopy, Good
  <2>. QED BY <1>0, <1>1, <1>2, <2>1, EmptyFacts DEF OneCopy, Good, NoPost
<1>6. Loops'
    BY <1>1 DEF Loops, NoPost
<1>7. Stopping'
    BY <1>1, EmptyFacts DEF Stopping
<1>8. NothingLost'
  <2>1. \A e \in Events : caller'[e] = "done" => caller[e] = "done"
      BY <1>1
  <2>. QED BY <1>0, <1>1, <2>1 DEF NothingLost
<1>. QED BY <1>4, <1>5, <1>6, <1>7, <1>8 DEF DeliveryInv

\* All steps of the process.
LEMMA ProcessStep ==
    ASSUME DeliveryInv, Close \/ Closed \/ Exit \/ Crash \/ Restart
    PROVE  DeliveryInv'
<1>0. TypeOK /\ OneCopy /\ Loops /\ Stopping /\ NothingLost
    BY DEF DeliveryInv
<1>1. CASE Close
  <2>1. /\ UNCHANGED <<memory, spool, post, late, recorded, excused>>
        /\ life = "up" /\ life' = "closing"
        /\ faults' = [faults EXCEPT !["shutdown"] = @ + 1]
      BY <1>1 DEF Close, Fault
  <2>2. faults' \in [{"failure", "timeout", "crash", "shutdown"} -> Nat]
      BY <1>0, <2>1 DEF TypeOK
  <2>. QED BY <1>0, <2>1, <2>2 DEF DeliveryInv, TypeOK, OneCopy, Good, Done, Loops, Stopping,
              NothingLost, memory
<1>2. CASE Closed
  <2>1. /\ UNCHANGED <<memory, spool, post, late, recorded, excused, faults>>
        /\ life' = "closed" /\ flusher = "exited" /\ life = "closing"
      BY <1>2 DEF Closed
  <2>. QED BY <1>0, <2>1 DEF DeliveryInv, TypeOK, OneCopy, Good, Done, Loops, Stopping,
              NothingLost, memory
<1>3. CASE Exit
  <2>1. SetOf(queue) \cup SetOf(batch) \subseteq excused /\ excused' = excused /\ faults' = faults
      BY <1>0, <1>3, EmptyFacts DEF Exit, Stopping
  <2>. QED BY <1>0, <1>3, <2>1, ProcessGoneStep DEF Exit, TypeOK
<1>4. CASE Crash
  <2>1. faults' \in [{"failure", "timeout", "crash", "shutdown"} -> Nat]
      BY <1>0, <1>4 DEF Crash, Fault, TypeOK
  <2>2. SetOf(queue) \subseteq Events /\ SetOf(batch) \subseteq Events
      BY <1>0 DEF OneCopy, Good, Done
  <2>. QED BY <1>0, <1>4, <2>1, <2>2, ProcessGoneStep DEF Crash, TypeOK
<1>5. CASE Restart
  <2>1. /\ UNCHANGED <<caller, queue, batch, stopSeen, spool, post, late, recorded, excused, faults>>
        /\ life = "down" /\ life' = "up" /\ flusher' = "select" /\ replayer' = "idle"
      BY <1>5 DEF Restart
  <2>2. queue = <<>> /\ batch = <<>> /\ stopSeen = "no"
      BY <1>0, <2>1 DEF Stopping
  <2>3. TypeOK' /\ Stopping' /\ NothingLost'
      BY <1>0, <2>1, <2>2 DEF TypeOK, Stopping, NothingLost
  <2>4. OneCopy'
      BY <1>0, <2>1 DEF OneCopy, Good, Done
  <2>5. Loops'
      BY <1>0, <2>1, <2>2, EmptyFacts, DeliveryAssumption DEF Loops
  <2>. QED BY <2>3, <2>4, <2>5 DEF DeliveryInv
<1>. QED BY <1>1, <1>2, <1>3, <1>4, <1>5

\* Every step preserves the invariant.
LEMMA DeliveryInvNext == DeliveryInv /\ [Next]_vars => DeliveryInv'
<1>. SUFFICES ASSUME DeliveryInv, [Next]_vars PROVE DeliveryInv'
    OBVIOUS
<1>1. CASE Next
    BY <1>1, EmitStep, SpoolEventStep, FlusherStep, ReplayerStep, AnswerStep, LostPostStep,
       LateAnswerStep, ProcessStep DEF Next
<1>2. CASE UNCHANGED vars
    BY <1>2 DEF vars, memory, DeliveryInv, TypeOK, OneCopy, Good, Done, Loops, Stopping, NothingLost
<1>. QED BY <1>1, <1>2

-----------------------------------------------------------------------------
(* The theorems. *)

\* The inductive invariant holds of every reachable state.
THEOREM DeliveryInvariant == Spec => []DeliveryInv
    BY DeliveryInvInit, DeliveryInvNext, PTL DEF Spec

\* The emitter, the spool and the network keep their types; the queue and the
\* batch never exceed their capacity.
THEOREM DeliveryTypeCorrect == Spec => []TypeOK
    BY DeliveryInvariant, PTL DEF DeliveryInv

\* Nothing is recorded twice, after any number of retries, lost answers, crashes
\* and restarts.
THEOREM DeliveryRecordedOnce == Spec => []RecordedOnce
<1>1. DeliveryInv => RecordedOnce
    BY DEF DeliveryInv, OneCopy, Good, Distinct, RecordedOnce
<1>. QED BY <1>1, DeliveryInvariant, PTL

\* An event Emit has taken is somewhere, unless it was in memory at a crash or
\* was emitted after Close.
THEOREM DeliveryNothingLost == Spec => []NothingLost
    BY DeliveryInvariant, PTL DEF DeliveryInv

\* The store grows at its end or stays.
LEMMA RecordedGrows ==
    ASSUME DeliveryInv, [Next]_vars
    PROVE  recorded' = recorded \/ \E t \in Seq(Events) : recorded' = recorded \o t
<1>1. CASE UNCHANGED vars
    BY <1>1 DEF vars
<1>2. CASE \E w \in Workers : Answer(w)
    BY <1>2 DEF Answer, DeliveryInv, TypeOK
<1>3. CASE \E evs \in late : LateAnswer(evs)
    BY <1>3 DEF LateAnswer, DeliveryInv, TypeOK
<1>4. CASE \E e \in Events : Emit(e) \/ SpoolEvent(e)
    BY <1>4 DEF Emit, SpoolEvent
<1>5. CASE Flusher
    BY <1>5 DEF Flusher, TakeEvent, Tick, SeeStop, LastFlush, FlushAnswered, SpoolBatch
<1>6. CASE Replayer
    BY <1>6 DEF Replayer, Replay, ReplayAnswered, Truncate, ReplayStop
<1>7. CASE \E w \in Workers : FailPost(w) \/ Timeout(w)
    BY <1>7 DEF FailPost, Timeout
<1>8. CASE Close \/ Closed \/ Exit \/ Crash \/ Restart
    BY <1>8 DEF Close, Closed, Exit, Crash, Restart, ProcessGone
<1>. QED BY <1>1, <1>2, <1>3, <1>4, <1>5, <1>6, <1>7, <1>8 DEF Next

\* The spool grows at its end or stays, or all of it has been recorded.
LEMMA SpoolKept ==
    ASSUME DeliveryInv, [Next]_vars
    PROVE  \/ spool' = spool
           \/ \E t \in Seq(Events) : spool' = spool \o t
           \/ SetOf(spool) \subseteq SetOf(recorded) /\ recorded' = recorded
<1>1. CASE UNCHANGED vars
    BY <1>1 DEF vars
<1>2. CASE \E w \in Workers : Answer(w) \/ FailPost(w) \/ Timeout(w)
    BY <1>2 DEF Answer, FailPost, Timeout
<1>3. CASE \E evs \in late : LateAnswer(evs)
    BY <1>3 DEF LateAnswer
<1>4. ASSUME NEW e \in Events, Emit(e) \/ SpoolEvent(e)
      PROVE  spool' = spool \/ \E t \in Seq(Events) : spool' = spool \o t
  <2>1. <<e>> \in Seq(Events)
      OBVIOUS
  <2>. QED BY <1>4, <2>1 DEF Emit, SpoolEvent, SpoolAppend
<1>5. CASE Flusher
  <2>1. CASE SpoolBatch
      BY <2>1 DEF SpoolBatch, SpoolAppend, DeliveryInv, TypeOK
  <2>. QED BY <1>5, <2>1 DEF Flusher, TakeEvent, Tick, SeeStop, LastFlush, FlushAnswered
<1>6. CASE Replayer
    BY <1>6 DEF Replayer, Replay, ReplayAnswered, Truncate, ReplayStop, DeliveryInv, Loops
<1>7. CASE Close \/ Closed \/ Exit \/ Crash \/ Restart
    BY <1>7 DEF Close, Closed, Exit, Crash, Restart, ProcessGone
<1>. QED BY <1>1, <1>2, <1>3, <1>4, <1>5, <1>6, <1>7 DEF Next

\* What was appended to contains what it was appended to.
LEMMA GrowsSet ==
    ASSUME NEW s \in Seq(Events), NEW u, u = s \/ \E t \in Seq(Events) : u = s \o t
    PROVE  SetOf(s) \subseteq SetOf(u)
<1>1. ASSUME NEW t \in Seq(Events)
      PROVE  SetOf(s) \subseteq SetOf(s \o t)
    BY ConcatFacts
<1>. QED BY <1>1

\* One step keeps on disk or in the store what is there.
LEMMA DurableStep ==
    ASSUME DeliveryInv, [Next]_vars
    PROVE  SetOf(spool) \cup SetOf(recorded) \subseteq SetOf(spool') \cup SetOf(recorded')
<1>1. spool \in Seq(Events) /\ recorded \in Seq(Events)
    BY DEF DeliveryInv, TypeOK
<1>2. SetOf(recorded) \subseteq SetOf(recorded')
    BY <1>1, RecordedGrows, GrowsSet
<1>3. SetOf(spool) \subseteq SetOf(spool') \cup SetOf(recorded')
  <2>1. CASE spool' = spool \/ \E t \in Seq(Events) : spool' = spool \o t
      BY <1>1, <2>1, GrowsSet
  <2>2. CASE SetOf(spool) \subseteq SetOf(recorded)
      BY <1>2, <2>2
  <2>. QED BY <2>1, <2>2, SpoolKept
<1>. QED BY <1>2, <1>3

\* No step, a crash included, loses an event that is on disk or in the store.
THEOREM DeliveryDurableKept == Spec => DurableKept
    BY DeliveryInvariant, DurableStep, PTL DEF Spec, DurableKept
=============================================================================
