--------------------------- MODULE EvidenceIngest ---------------------------
(***************************************************************************)
(* The Control API's evidence ingestion: POST /v1/evidence/events.         *)
(*                                                                         *)
(* Every (tenant, app) has a hash chain of decision rows and one head row. *)
(* A request is a batch of events of one or several chains; its handler    *)
(* runs in one READ COMMITTED transaction that, chain by chain, locks the  *)
(* head row (SELECT ... FOR UPDATE) or creates it, builds the chain's new  *)
(* rows on top of the head it read, and commits everything at the end.     *)
(* The handlers run in the thread pools of several workers, so their steps *)
(* interleave; PostgreSQL supplies row locks, the unique indexes and the   *)
(* deadlock detector.                                                      *)
(***************************************************************************)
EXTENDS Naturals, Sequences, FiniteSets

CONSTANTS
    Requests,   \* the executions of the ingest handler
    Events,     \* the events that may be posted, identified by event_id
    Chains,     \* the (tenant, app) pairs
    ChainOf,    \* ChainOf[e]: the chain of event e
    Ts,         \* Ts[e]: the time stamp the gateway put on event e
    MaxBatch,   \* the largest batch EventBatchIn accepts (500 in the code)
    Nobody,     \* the holder of a head row that is not locked
    Genesis     \* the prev_event_hash of a first row (null in the code)

ASSUME IngestAssumption ==
    /\ IsFiniteSet(Events)
    /\ ChainOf \in [Events -> Chains]
    /\ Ts \in [Events -> Nat]
    /\ MaxBatch \in Nat
    /\ Nobody \notin Requests
    /\ Genesis \notin Events \X Nat

VARIABLES
    rows,       \* rows[c]: the committed rows of chain c, by chain_seq
    heads,      \* heads[c]: the committed head row of chain c
    lock,       \* lock[c]: the request whose transaction holds head row c
    pc,         \* pc[r]: where the handler of request r is
    batch,      \* batch[r]: the posted events
    todo,       \* todo[r]: the chains of the batch not staged yet, in order
    staged      \* staged[r][c]: the rows r will insert into chain c

vars == <<rows, heads, lock, pc, batch, todo, staged>>

-----------------------------------------------------------------------------
(* Rows and hashes.  The event hash covers the event, its chain_seq and its *)
(* prev_event_hash; event ids are unique, so the pair below stands for it.  *)

Digest(row) == <<row.ev, row.seq>>

Hashes == (Events \X Nat) \cup {Genesis}

Rows == [ev : Events, seq : Nat, prev : Hashes]

HeadRows == [exists : BOOLEAN, seq : Nat, hash : Hashes]

NoHead == [exists |-> FALSE, seq |-> 0, hash |-> Genesis]

\* Mutant of RowsOn: the loop does not carry the new event_hash on.
RowsOnStaleHash(head, evs) ==
    [i \in 1 .. Len(evs) |-> [ev |-> evs[i], seq |-> head.seq + i, prev |-> head.hash]]

\* The rows the inner loop of ingest builds: chain_seq counts on from the head
\* that was read and every row carries the hash of the one before it.
RowsOn(head, evs) ==
    [i \in 1 .. Len(evs) |->
        [ev   |-> evs[i],
         seq  |-> head.seq + i,
         prev |-> IF i = 1 THEN head.hash ELSE <<evs[i - 1], head.seq + i - 1>>]]

\* The head row after the rows s were inserted on top of head.
HeadAfter(head, s) ==
    IF s = <<>> THEN head
    ELSE [exists |-> TRUE, seq |-> s[Len(s)].seq, hash |-> Digest(s[Len(s)])]

\* The sequences that list the set S.
Orders(S) ==
    {s \in [1 .. Cardinality(S) -> S] : \A i, j \in DOMAIN s : s[i] = s[j] => i = j}

\* The events of one chain, sorted by time stamp; equal stamps keep the order
\* they had in the request, which is arbitrary.
TsOrders(S) ==
    {s \in Orders(S) : \A i, j \in DOMAIN s : i < j => Ts[s[i]] <= Ts[s[j]]}

\* Mutant of InChain: the batch is not grouped by chain.
InChainUngrouped(B, c) == B

InChain(B, c) == {e \in B : ChainOf[e] = c}

RecordedIn(c) == {rows[c][i].ev : i \in DOMAIN rows[c]}

Recorded == UNION {RecordedIn(c) : c \in Chains}

-----------------------------------------------------------------------------

TypeOK ==
    /\ rows \in [Chains -> Seq(Rows)]
    /\ heads \in [Chains -> HeadRows]
    /\ lock \in [Chains -> Requests \cup {Nobody}]
    /\ pc \in [Requests -> {"idle", "select", "insert", "committed", "failed", "refused"}]
    /\ batch \in [Requests -> SUBSET Events]
    /\ todo \in [Requests -> Seq(Chains)]
    /\ staged \in [Requests -> [Chains -> Seq(Rows)]]

Init ==
    /\ rows = [c \in Chains |-> <<>>]
    /\ heads = [c \in Chains |-> NoHead]
    /\ lock = [c \in Chains |-> Nobody]
    /\ pc = [r \in Requests |-> "idle"]
    /\ batch = [r \in Requests |-> {}]
    /\ todo = [r \in Requests |-> <<>>]
    /\ staged = [r \in Requests |-> [c \in Chains |-> <<>>]]

-----------------------------------------------------------------------------

\* Mutant of Receive: the groups are keyed by event.
ReceiveKeyedByEvent(r, B) ==
    /\ pc[r] = "idle"
    /\ B # {}
    /\ batch' = [batch EXCEPT ![r] = B]
    /\ pc' = [pc EXCEPT ![r] = "select"]
    /\ \E order \in Orders(B) : todo' = [todo EXCEPT ![r] = order]
    /\ UNCHANGED <<rows, heads, lock, staged>>

\* A batch arrives.  It may hold events that were posted before: gateways
\* retry.  EventBatchIn refuses an oversized one before the handler runs; the
\* handler groups the events by chain, in order of first appearance.
Receive(r, B) ==
    /\ pc[r] = "idle"
    /\ B # {}
    /\ batch' = [batch EXCEPT ![r] = B]
    /\ IF Cardinality(B) > MaxBatch
       THEN /\ pc' = [pc EXCEPT ![r] = "refused"]
            /\ UNCHANGED todo
       ELSE /\ pc' = [pc EXCEPT ![r] = "select"]
            /\ \E order \in Orders({ChainOf[e] : e \in B}) :
                  todo' = [todo EXCEPT ![r] = order]
    /\ UNCHANGED <<rows, heads, lock, staged>>

\* Mutant of Stage: the list of new rows starts afresh with every chain.
StageLastChainOnly(r) ==
    LET c == Head(todo[r]) IN
    /\ lock' = [lock EXCEPT ![c] = r]
    /\ \E evs \in TsOrders(InChain(batch[r], c)) :
          staged' = [staged EXCEPT ![r] =
              [d \in Chains |-> IF d = c THEN RowsOn(heads[c], evs) ELSE <<>>]]
    /\ todo' = [todo EXCEPT ![r] = Tail(@)]
    /\ pc' = [pc EXCEPT ![r] = "select"]
    /\ UNCHANGED <<rows, heads, batch>>

\* Hold the head row of the next chain and stage the rows built on it.
Stage(r) ==
    LET c == Head(todo[r]) IN
    /\ lock' = [lock EXCEPT ![c] = r]
    /\ \E evs \in TsOrders(InChain(batch[r], c)) :
          staged' = [staged EXCEPT ![r][c] = RowsOn(heads[c], evs)]
    /\ todo' = [todo EXCEPT ![r] = Tail(@)]
    /\ pc' = [pc EXCEPT ![r] = "select"]
    /\ UNCHANGED <<rows, heads, batch>>

\* SELECT ... FOR UPDATE finds the head row: it waits for the lock and reads
\* the row as last committed.
LockHead(r) ==
    /\ pc[r] = "select"
    /\ todo[r] # <<>>
    /\ heads[Head(todo[r])].exists
    /\ lock[Head(todo[r])] = Nobody
    /\ Stage(r)

\* SELECT ... FOR UPDATE finds no committed head row; nothing is locked.
MissHead(r) ==
    /\ pc[r] = "select"
    /\ todo[r] # <<>>
    /\ ~heads[Head(todo[r])].exists
    /\ pc' = [pc EXCEPT ![r] = "insert"]
    /\ UNCHANGED <<rows, heads, lock, batch, todo, staged>>

\* Mutant of Release: the session is returned to the pool in its transaction.
ReleaseKeepsLocks(r) ==
    /\ staged' = [staged EXCEPT ![r] = [c \in Chains |-> <<>>]]
    /\ todo' = [todo EXCEPT ![r] = <<>>]
    /\ UNCHANGED lock

\* The row locks of r's transaction end with it.
Release(r) ==
    /\ lock' = [c \in Chains |-> IF lock[c] = r THEN Nobody ELSE lock[c]]
    /\ staged' = [staged EXCEPT ![r] = [c \in Chains |-> <<>>]]
    /\ todo' = [todo EXCEPT ![r] = <<>>]

\* The transaction of r ends without effect; the gateway is answered 500.
Abort(r) ==
    /\ pc' = [pc EXCEPT ![r] = "failed"]
    /\ Release(r)
    /\ UNCHANGED <<rows, heads, batch>>

\* The flush of a new head row waits for another transaction inserting the
\* same row and goes on if that one rolled back.
InsertHead(r) ==
    /\ pc[r] = "insert"
    /\ lock[Head(todo[r])] = Nobody
    /\ ~heads[Head(todo[r])].exists
    /\ Stage(r)

\* ... and violates the primary key if that one committed: IntegrityError.
InsertHeadConflict(r) ==
    /\ pc[r] = "insert"
    /\ lock[Head(todo[r])] = Nobody
    /\ heads[Head(todo[r])].exists
    /\ Abort(r)

\* The unique indexes of guard_decisions: event_id, and chain_seq per chain.
Conflict(r) ==
    \E c \in Chains : \E i \in DOMAIN staged[r][c] :
        \/ staged[r][c][i].ev \in Recorded
        \/ \E j \in DOMAIN rows[c] : rows[c][j].seq = staged[r][c][i].seq

\* Mutant of Commit: an existing head row is read but not advanced.
CommitNewHeadsOnly(r) ==
    /\ pc[r] = "select"
    /\ todo[r] = <<>>
    /\ ~Conflict(r)
    /\ rows' = [c \in Chains |-> rows[c] \o staged[r][c]]
    /\ heads' = [c \in Chains |->
                    IF heads[c].exists THEN heads[c] ELSE HeadAfter(heads[c], staged[r][c])]
    /\ pc' = [pc EXCEPT ![r] = "committed"]
    /\ Release(r)
    /\ UNCHANGED batch

\* db.commit(): all groups of the batch are inserted and their heads advance.
Commit(r) ==
    /\ pc[r] = "select"
    /\ todo[r] = <<>>
    /\ ~Conflict(r)
    /\ rows' = [c \in Chains |-> rows[c] \o staged[r][c]]
    /\ heads' = [c \in Chains |-> HeadAfter(heads[c], staged[r][c])]
    /\ pc' = [pc EXCEPT ![r] = "committed"]
    /\ Release(r)
    /\ UNCHANGED batch

CommitConflict(r) ==
    /\ pc[r] = "select"
    /\ todo[r] = <<>>
    /\ Conflict(r)
    /\ Abort(r)

\* A handler that fails half-way (a lost connection, a killed worker).
Crash(r) ==
    /\ pc[r] \in {"select", "insert"}
    /\ Abort(r)

\* r waits for a head row that another transaction has locked or inserted.
Waits(r) ==
    /\ \/ pc[r] = "insert"
       \/ pc[r] = "select" /\ todo[r] # <<>> /\ heads[Head(todo[r])].exists
    /\ lock[Head(todo[r])] # Nobody

\* PostgreSQL aborts one of a set of transactions that wait for each other.
DeadlockVictim(r) ==
    /\ \E D \in SUBSET Requests :
          /\ r \in D
          /\ \A u \in D : Waits(u) /\ lock[Head(todo[u])] \in D
    /\ Abort(r)

-----------------------------------------------------------------------------

Handler(r) ==
    \/ LockHead(r)
    \/ MissHead(r)
    \/ InsertHead(r)
    \/ InsertHeadConflict(r)
    \/ Commit(r)
    \/ CommitConflict(r)
    \/ DeadlockVictim(r)

Next ==
    \E r \in Requests :
        \/ \E B \in SUBSET Events : Receive(r, B)
        \/ Handler(r)
        \/ Crash(r)

Spec == Init /\ [][Next]_vars

\* A worker thread runs its handler to the end; requests need not arrive.
FairSpec == Spec /\ \A r \in Requests : WF_vars(Handler(r))

-----------------------------------------------------------------------------
(* Properties. *)

\* s continues the chain whose head row is head, without a gap.
LinkedOn(head, s) ==
    \A i \in DOMAIN s :
        /\ s[i].seq = head.seq + i
        /\ s[i].prev = IF i = 1 THEN head.hash ELSE Digest(s[i - 1])

\* Whatever the interleaving of batches, retries and rollbacks, the committed
\* rows of a chain are numbered 1, 2, 3, ... and each carries the hash of its
\* predecessor: the walk of _verify_chain_impl finds no fault in them.
ChainLinked == \A c \in Chains : LinkedOn(NoHead, rows[c])

\* The committed head row always names the last committed row of its chain,
\* also between a head's insertion and the first rows.
HeadCurrent ==
    \A c \in Chains :
        /\ heads[c] = HeadAfter(NoHead, rows[c])
        /\ heads[c].exists <=> rows[c] # <<>>

\* What a handler read of a head under FOR UPDATE, or when it created the head,
\* is still the committed head when it uses it, however many other handlers
\* committed in between; so chain_seq never runs into the unique index.
StagedOnHead ==
    \A r \in Requests, c \in Chains :
        staged[r][c] # <<>> => lock[c] = r /\ LinkedOn(heads[c], staged[r][c])

\* A retried or duplicated batch never records an event a second time, in its
\* own chain or in another one.
EventOnce ==
    \A c, d \in Chains : \A i \in DOMAIN rows[c], j \in DOMAIN rows[d] :
        rows[c][i].ev = rows[d][j].ev => c = d /\ i = j

\* Rows become visible one whole batch at a time, over all its chains, and only
\* a batch none of whose events was recorded.
WholeBatches ==
    [][\E r \in Requests :
          /\ pc[r] = "select" /\ pc'[r] = "committed"
          /\ batch[r] \cap Recorded = {}
          /\ Recorded' = Recorded \cup batch[r]]_rows

\* The log of a chain, as EvidenceLog sees it.
Log == INSTANCE EvidenceLog
          WITH log <- [c \in Chains |-> [i \in DOMAIN rows[c] |-> rows[c][i].ev]]

\* Ingestion implements the append-only log.
ImplementsLog == Log!Spec

\* Every request is answered: waiting for each other's head rows in opposite
\* orders ends because the database aborts a victim.
EveryRequestAnswered ==
    \A r \in Requests : pc[r] = "select" ~> pc[r] \in {"committed", "failed"}
=============================================================================
