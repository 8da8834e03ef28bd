-------------------------- MODULE EvidenceDelivery --------------------------
(***************************************************************************)
(* The gateway's HTTPEmitter: how a decision event gets from the request   *)
(* that produced it to the evidence store.                                 *)
(*                                                                         *)
(* Request goroutines call Emit, which puts the event in a bounded queue   *)
(* or, when the queue is full, appends it to a spool file.  The flusher    *)
(* goroutine collects batches from the queue and posts them; a batch that  *)
(* could not be posted is spooled.  The replayer goroutine posts the whole *)
(* spool from time to time and truncates it when that succeeded; it holds  *)
(* the spool mutex meanwhile.  The process may be shut down or crash and   *)
(* is then started again on the same spool file.                           *)
(*                                                                         *)
(* The Control API is the atomic store that EvidenceIngest implements: a   *)
(* batch is recorded as a whole or refused.  Posts fail, and an answer may *)
(* get lost after the batch was recorded, or before it is.                 *)
(***************************************************************************)
EXTENDS Naturals, Sequences, FiniteSets

CONSTANTS
    Events,         \* the events the requests emit, each once
    QueueCap,       \* capacity of the queue (4096 in the code)
    BatchSize,      \* events per post of the flusher (50)
    MaxBatch,       \* the largest batch the API accepts (500)
    MaxFailures,    \* bound: posts that fail without having any effect
    MaxTimeouts,    \* bound: posts whose answer does not reach the gateway
    MaxCrashes,     \* bound: crashes of the gateway process
    MaxShutdowns    \* bound: orderly shutdowns

ASSUME DeliveryAssumption ==
    /\ IsFiniteSet(Events)
    /\ QueueCap \in Nat \ {0} /\ BatchSize \in Nat \ {0}
    /\ MaxBatch \in Nat /\ BatchSize <= MaxBatch
    /\ MaxFailures \in Nat /\ MaxTimeouts \in Nat
    /\ MaxCrashes \in Nat /\ MaxShutdowns \in Nat

VARIABLES
    caller,     \* caller[e]: where the Emit call for event e is
    queue,      \* the channel e.queue
    batch,      \* the flusher's local batch
    flusher,    \* where flushLoop is
    stopSeen,   \* how far the flusher's reaction to e.stop has got
    spool,      \* the events in the spool file
    replayer,   \* where replayLoop is; it holds spoolMu unless "idle"
    post,       \* post[w]: the request worker w waits for
    late,       \* batches whose client gave up but the API may still record
    life,       \* the gateway process
    recorded,   \* the evidence store: the events recorded, in order
    excused,    \* history: the events in memory at a crash, or emitted after Close
    faults      \* history: the faults so far, for the bounds

memory == <<caller, queue, batch, flusher, stopSeen, replayer>>
vars == <<memory, spool, post, late, life, recorded, excused, faults>>

Workers == {"flusher", "replayer"}

NoPost == [evs |-> <<>>, status |-> "none"]

SetOf(s) == {s[i] : i \in DOMAIN s}

\* Mutant of SpoolLocked: the replayer does not hold the mutex over its post.
SpoolLockedForTruncateOnly == replayer = "truncating"

SpoolLocked == replayer \in {"posting", "truncating"}

TypeOK ==
    /\ caller \in [Events -> {"idle", "waiting", "done", "dead"}]
    /\ queue \in Seq(Events) /\ Len(queue) <= QueueCap
    /\ batch \in Seq(Events) /\ Len(batch) <= BatchSize
    /\ flusher \in {"select", "posting", "spooling", "exited"}
    /\ stopSeen \in {"no", "draining", "last"}
    /\ spool \in Seq(Events)
    /\ replayer \in {"idle", "posting", "truncating", "exited"}
    /\ post \in [Workers -> [evs : Seq(Events), status : {"none", "sent", "ok", "err"}]]
    /\ late \subseteq Seq(Events)
    /\ life \in {"up", "closing", "closed", "down"}
    /\ recorded \in Seq(Events)
    /\ excused \subseteq Events
    /\ faults \in [{"failure", "timeout", "crash", "shutdown"} -> Nat]

Init ==
    /\ caller = [e \in Events |-> "idle"]
    /\ queue = <<>> /\ batch = <<>> /\ spool = <<>> /\ recorded = <<>>
    /\ flusher = "select" /\ stopSeen = "no" /\ replayer = "idle"
    /\ post = [w \in Workers |-> NoPost]
    /\ late = {} /\ excused = {}
    /\ life = "up"
    /\ faults = [f \in {"failure", "timeout", "crash", "shutdown"} |-> 0]

Fault(f, bound) ==
    /\ faults[f] < bound
    /\ faults' = [faults EXCEPT ![f] = @ + 1]

-----------------------------------------------------------------------------
(* Emit, called by a request goroutine. *)

\* main does not wait for the requests that are running when it calls Close.
Running == life \in {"up", "closing", "closed"}

\* Emit returns to its caller.
Return(e) ==
    /\ caller' = [caller EXCEPT ![e] = "done"]
    /\ excused' = IF life = "up" THEN excused ELSE excused \cup {e}

\* Mutant of Emit: the queue has no capacity.
EmitUnbounded(e) ==
    /\ Running
    /\ caller[e] = "idle"
    /\ queue' = Append(queue, e)
    /\ Return(e)
    /\ UNCHANGED <<batch, flusher, stopSeen, spool, replayer, post, late, life,
                   recorded, faults>>

Emit(e) ==
    /\ Running
    /\ caller[e] = "idle"
    /\ IF Len(queue) < QueueCap
       THEN /\ queue' = Append(queue, e)
            /\ Return(e)
       ELSE /\ caller' = [caller EXCEPT ![e] = "waiting"]
            /\ UNCHANGED <<queue, excused>>
    /\ UNCHANGED <<batch, flusher, stopSeen, spool, replayer, post, late, life,
                   recorded, faults>>

\* spoolAppend, once the mutex is free.  After Close the file handle is closed
\* and the write fails; the error is only logged.
SpoolAppend(evs) == spool' = IF life = "closed" THEN spool ELSE spool \o evs

SpoolEvent(e) ==
    /\ Running
    /\ caller[e] = "waiting"
    /\ ~SpoolLocked
    /\ SpoolAppend(<<e>>)
    /\ Return(e)
    /\ UNCHANGED <<queue, batch, flusher, stopSeen, replayer, post, late, life,
                   recorded, faults>>

-----------------------------------------------------------------------------
(* The flusher. *)

Alive == life \in {"up", "closing"}

Send(w, evs) == post' = [post EXCEPT ![w] = [evs |-> evs, status |-> "sent"]]

\* Take the next event; a full batch is posted at once.
TakeEvent ==
    /\ Alive
    /\ flusher = "select"
    /\ queue # <<>>
    /\ queue' = Tail(queue)
    /\ batch' = Append(batch, Head(queue))
    /\ IF Len(batch') >= BatchSize
       THEN flusher' = "posting" /\ Send("flusher", batch')
       ELSE UNCHANGED <<flusher, post>>
    /\ UNCHANGED <<caller, stopSeen, spool, replayer, late, life, recorded, excused, faults>>

\* Mutant of Tick: the interval does not flush a batch that is not full.
TickFullOnly ==
    /\ Alive
    /\ flusher = "select"
    /\ stopSeen = "no"
    /\ Len(batch) >= BatchSize
    /\ flusher' = "posting"
    /\ Send("flusher", batch)
    /\ UNCHANGED <<caller, queue, batch, stopSeen, spool, replayer, late, life,
                   recorded, excused, faults>>

\* The flush interval has passed.
Tick ==
    /\ Alive
    /\ flusher = "select"
    /\ stopSeen = "no"
    /\ batch # <<>>
    /\ flusher' = "posting"
    /\ Send("flusher", batch)
    /\ UNCHANGED <<caller, queue, batch, stopSeen, spool, replayer, late, life,
                   recorded, excused, faults>>

\* select picks e.stop: from now on the queue is drained without waiting.
SeeStop ==
    /\ life = "closing"
    /\ flusher = "select"
    /\ stopSeen = "no"
    /\ stopSeen' = "draining"
    /\ UNCHANGED <<caller, queue, batch, flusher, spool, replayer, post, late, life,
                   recorded, excused, faults>>

\* The drain finds the queue empty: post what is left and return.
LastFlush ==
    /\ Alive
    /\ flusher = "select"
    /\ stopSeen = "draining"
    /\ queue = <<>>
    /\ IF batch = <<>>
       THEN flusher' = "exited" /\ UNCHANGED <<stopSeen, post>>
       ELSE /\ flusher' = "posting"
            /\ stopSeen' = "last"
            /\ Send("flusher", batch)
    /\ UNCHANGED <<caller, queue, batch, spool, replayer, late, life, recorded, excused, faults>>

AfterFlush == IF stopSeen = "last" THEN "exited" ELSE "select"

\* Mutant of FlushAnswered: the error of postBatch is only logged.
FlushAnsweredIgnoreError ==
    /\ Alive
    /\ flusher = "posting"
    /\ post["flusher"].status \in {"ok", "err"}
    /\ batch' = <<>>
    /\ flusher' = AfterFlush
    /\ post' = [post EXCEPT !["flusher"] = NoPost]
    /\ UNCHANGED <<caller, queue, stopSeen, spool, replayer, late, life, recorded, excused, faults>>

\* postBatch returns to the flusher.
FlushAnswered ==
    /\ Alive
    /\ flusher = "posting"
    /\ \/ /\ post["flusher"].status = "ok"
          /\ batch' = <<>>
          /\ flusher' = AfterFlush
       \/ /\ post["flusher"].status = "err"
          /\ flusher' = "spooling"
          /\ UNCHANGED batch
    /\ post' = [post EXCEPT !["flusher"] = NoPost]
    /\ UNCHANGED <<caller, queue, stopSeen, spool, replayer, late, life, recorded, excused, faults>>

\* spoolAppend(batch), once the mutex is free.
SpoolBatch ==
    /\ Alive
    /\ flusher = "spooling"
    /\ ~SpoolLocked
    /\ SpoolAppend(batch)
    /\ batch' = <<>>
    /\ flusher' = AfterFlush
    /\ UNCHANGED <<caller, queue, stopSeen, replayer, post, late, life, recorded, excused, faults>>

-----------------------------------------------------------------------------
(* The replayer. *)

\* A tick: replayOnce takes the mutex, reads the whole spool and posts it.
Replay ==
    /\ Alive
    /\ replayer = "idle"
    /\ spool # <<>>
    /\ replayer' = "posting"
    /\ Send("replayer", spool)
    /\ UNCHANGED <<caller, queue, batch, flusher, stopSeen, spool, late, life,
                   recorded, excused, faults>>

ReplayAnswered ==
    /\ Alive
    /\ replayer = "posting"
    /\ \/ post["replayer"].status = "ok" /\ replayer' = "truncating"
       \/ post["replayer"].status = "err" /\ replayer' = "idle"
    /\ post' = [post EXCEPT !["replayer"] = NoPost]
    /\ UNCHANGED <<caller, queue, batch, flusher, stopSeen, spool, late, life,
                   recorded, excused, faults>>

Truncate ==
    /\ Alive
    /\ replayer = "truncating"
    /\ spool' = <<>>
    /\ replayer' = "idle"
    /\ UNCHANGED <<caller, queue, batch, flusher, stopSeen, post, late, life,
                   recorded, excused, faults>>

ReplayStop ==
    /\ life = "closing"
    /\ replayer = "idle"
    /\ replayer' = "exited"
    /\ UNCHANGED <<caller, queue, batch, flusher, stopSeen, spool, post, late, life,
                   recorded, excused, faults>>

-----------------------------------------------------------------------------
(* The Control API and the network. *)

\* Mutant of Acceptable: event_id is not the primary key.
AcceptableUnkeyed(evs) == Len(evs) <= MaxBatch

\* The API records a batch as a whole; it refuses one that is too long or that
\* holds an event recorded before (event_id is the primary key).
Acceptable(evs) ==
    /\ Len(evs) <= MaxBatch
    /\ SetOf(evs) \cap SetOf(recorded) = {}

Answer(w) ==
    /\ post[w].status = "sent"
    /\ IF Acceptable(post[w].evs)
       THEN /\ recorded' = recorded \o post[w].evs
            /\ post' = [post EXCEPT ![w].status = "ok"]
       ELSE /\ post' = [post EXCEPT ![w].status = "err"]
            /\ UNCHANGED recorded
    /\ UNCHANGED <<memory, spool, late, life, excused, faults>>

\* The API is down or answers 500 without recording anything.
FailPost(w) ==
    /\ post[w].status = "sent"
    /\ Fault("failure", MaxFailures)
    /\ post' = [post EXCEPT ![w].status = "err"]
    /\ UNCHANGED <<memory, spool, late, life, recorded, excused>>

\* The client times out: the batch has been recorded and the answer is lost, or
\* the API has not got to it yet and goes on without a client.
Timeout(w) ==
    /\ post[w].status \in {"sent", "ok"}
    /\ Fault("timeout", MaxTimeouts)
    /\ post' = [post EXCEPT ![w].status = "err"]
    /\ late' = IF post[w].status = "sent" THEN late \cup {post[w].evs} ELSE late
    /\ UNCHANGED <<memory, spool, life, recorded, excused>>

LateAnswer(evs) ==
    /\ evs \in late
    /\ late' = late \ {evs}
    /\ recorded' = IF Acceptable(evs) THEN recorded \o evs ELSE recorded
    /\ UNCHANGED <<memory, spool, post, life, excused, faults>>

-----------------------------------------------------------------------------
(* The process. *)

\* Close: close(e.stop).  ListenAndServe returns as soon as Shutdown is called, so
\* requests may still be running.
Close ==
    /\ life = "up"
    /\ Fault("shutdown", MaxShutdowns)
    /\ life' = "closing"
    /\ UNCHANGED <<memory, spool, post, late, recorded, excused>>

\* e.wg.Wait() returns and the spool file is closed.
Closed ==
    /\ life = "closing"
    /\ flusher = "exited" /\ replayer = "exited"
    /\ life' = "closed"
    /\ UNCHANGED <<memory, spool, post, late, recorded, excused, faults>>

\* The process ends: memory is gone, the API still sees what was sent.
ProcessGone ==
    /\ life' = "down"
    /\ caller' = [e \in Events |-> IF caller[e] = "waiting" THEN "dead" ELSE caller[e]]
    /\ queue' = <<>> /\ batch' = <<>>
    /\ flusher' = "exited" /\ replayer' = "exited" /\ stopSeen' = "no"
    /\ late' = late \cup {post[w].evs : w \in {v \in Workers : post[v].status = "sent"}}
    /\ post' = [w \in Workers |-> NoPost]
    /\ UNCHANGED <<spool, recorded>>

\* main returns after Close.
Exit ==
    /\ life = "closed"
    /\ ProcessGone
    /\ UNCHANGED <<excused, faults>>

Crash ==
    /\ life \in {"up", "closing"}
    /\ Fault("crash", MaxCrashes)
    /\ excused' = excused \cup SetOf(queue) \cup SetOf(batch)
    /\ ProcessGone

\* A new process opens the same spool file.
Restart ==
    /\ life = "down"
    /\ life' = "up"
    /\ flusher' = "select" /\ replayer' = "idle"
    /\ UNCHANGED <<caller, queue, batch, stopSeen, spool, post, late, recorded, excused, faults>>

-----------------------------------------------------------------------------

Flusher == TakeEvent \/ Tick \/ SeeStop \/ LastFlush \/ FlushAnswered \/ SpoolBatch
Replayer == Replay \/ ReplayAnswered \/ Truncate \/ ReplayStop

Next ==
    \/ \E e \in Events : Emit(e) \/ SpoolEvent(e)
    \/ Flusher
    \/ Replayer
    \/ \E w \in Workers : Answer(w) \/ FailPost(w) \/ Timeout(w)
    \/ \E evs \in late : LateAnswer(evs)
    \/ Close \/ Closed \/ Exit \/ Crash \/ Restart

Spec == Init /\ [][Next]_vars

\* The workers' tickers keep ticking, every post is answered in the end, and a
\* goroutine that waits for the spool mutex gets it (sync.Mutex hands the lock
\* to a waiter that starves, so strong fairness is what it provides).
Fairness ==
    /\ WF_vars(Flusher)
    /\ SF_vars(SpoolBatch)
    /\ WF_vars(Replayer)
    /\ \A w \in Workers : WF_vars(Answer(w))
    /\ \A e \in Events : SF_vars(SpoolEvent(e))

FairSpec == Spec /\ Fairness

-----------------------------------------------------------------------------
(* Properties. *)

\* Retries after failed posts, lost answers and crashes never make the store
\* record an event twice.
RecordedOnce == \A i, j \in DOMAIN recorded : recorded[i] = recorded[j] => i = j

\* An event that Emit has taken is in the queue, in the flusher's batch, in the
\* spool or recorded, also through a shutdown; only a crash, while it is in
\* memory, can lose it, or a shutdown that began before Emit returned.
NothingLost ==
    \A e \in Events : caller[e] = "done" =>
        e \in SetOf(queue) \cup SetOf(batch) \cup SetOf(spool)
                \cup SetOf(recorded) \cup excused

\* What is on disk or in the store stays on disk or in the store: the spool is
\* truncated only when all of it has been recorded, also around crashes, and
\* nothing is appended between reading and truncating it.
DurableKept ==
    [][SetOf(spool) \cup SetOf(recorded) \subseteq SetOf(spool') \cup SetOf(recorded')]_vars

\* As long as every answer reaches the gateway, the process runs and the spool
\* fits into one post, every emitted event is recorded in the end, however many
\* posts fail before.
RecordedInTheEnd ==
    \A e \in Events : caller[e] = "done" ~>
        \/ e \in SetOf(recorded)
        \/ \E f \in {"timeout", "crash", "shutdown"} : faults[f] > 0
        \/ Len(spool) > MaxBatch

\* Every emitted event is recorded in the end, also after lost answers.
EventuallyRecorded ==
    \A e \in Events : caller[e] = "done" ~> e \in SetOf(recorded)
=============================================================================
