------------------------ MODULE EvidenceIngest_proofs ------------------------
(***************************************************************************)
(* Proofs about EvidenceIngest for any set of requests, events and chains: *)
(* type correctness, the integrity of every hash chain, and at-most-once   *)
(* recording of events.                                                    *)
(***************************************************************************)
EXTENDS EvidenceIngest, FiniteSetTheorems, TLAPS

\* A request waits or stages only chains that are left, and only while its
\* transaction runs.
Working ==
    \A r \in Requests :
        /\ pc[r] = "insert" => todo[r] # <<>>
        /\ \A c \in Chains : staged[r][c] # <<>> => pc[r] \in {"select", "insert"}

\* Staged and committed rows are rows of their own chain, and the rows one
\* request stages are distinct events of its batch.
OwnChain ==
    /\ \A c \in Chains : \A i \in DOMAIN rows[c] : ChainOf[rows[c][i].ev] = c
    /\ \A r \in Requests, c \in Chains :
          /\ \A i \in DOMAIN staged[r][c] : ChainOf[staged[r][c][i].ev] = c
          /\ \A i, j \in DOMAIN staged[r][c] :
                staged[r][c][i].ev = staged[r][c][j].ev => i = j

\* The inductive invariant.
Integrity ==
    TypeOK /\ Working /\ OwnChain /\ StagedOnHead /\ HeadCurrent /\ ChainLinked /\ EventOnce

-----------------------------------------------------------------------------
(* Lemmas about the rows built on a head. *)

\* A listing of a finite set is a sequence over it.
LEMMA OrdersType ==
    ASSUME NEW T, NEW S \in SUBSET T, Cardinality(S) \in Nat, NEW order \in Orders(S)
    PROVE  order \in Seq(T)
<1>1. order \in [1 .. Cardinality(S) -> S]
    BY DEF Orders
<1>. QED BY <1>1

\* Sorting a finite set of events yields a sequence of exactly those events.
LEMMA TsOrdersType ==
    ASSUME NEW S \in SUBSET Events, NEW evs \in TsOrders(S)
    PROVE  /\ Cardinality(S) \in Nat
           /\ evs \in [1 .. Cardinality(S) -> S]
           /\ evs \in Seq(Events)
           /\ Len(evs) = Cardinality(S)
           /\ \A i, j \in DOMAIN evs : evs[i] = evs[j] => i = j
<1>1. Cardinality(S) \in Nat
    BY IngestAssumption, FS_Subset, FS_CardinalityType
<1>2. evs \in [1 .. Cardinality(S) -> S] /\ \A i, j \in DOMAIN evs : evs[i] = evs[j] => i = j
    BY DEF TsOrders, Orders
<1>. QED BY <1>1, <1>2

\* The rows ingest builds are well typed, continue the head they are built on,
\* and list the given events in the given order.
LEMMA RowsOnHead ==
    ASSUME NEW head \in HeadRows, NEW evs \in Seq(Events)
    PROVE  /\ RowsOn(head, evs) \in Seq(Rows)
           /\ DOMAIN RowsOn(head, evs) = 1 .. Len(evs)
           /\ LinkedOn(head, RowsOn(head, evs))
           /\ \A i \in 1 .. Len(evs) : RowsOn(head, evs)[i].ev = evs[i]
<1>. DEFINE s == RowsOn(head, evs)
<1>1. s = [i \in 1 .. Len(evs) |->
              [ev |-> evs[i], seq |-> head.seq + i,
               prev |-> IF i = 1 THEN head.hash ELSE <<evs[i - 1], head.seq + i - 1>>]]
    BY DEF RowsOn
<1>2. \A i \in 1 .. Len(evs) : s[i] \in Rows
  <2>. SUFFICES ASSUME NEW i \in 1 .. Len(evs) PROVE s[i] \in Rows
      OBVIOUS
  <2>1. evs[i] \in Events /\ head.seq + i \in Nat /\ head.hash \in Hashes
      BY DEF HeadRows
  <2>2. CASE i = 1
      BY <1>1, <2>1, <2>2 DEF Rows
  <2>3. CASE i # 1
    <3>1. evs[i - 1] \in Events /\ head.seq + i - 1 \in Nat
        BY <2>3 DEF HeadRows
    <3>. QED BY <1>1, <2>1, <2>3, <3>1 DEF Rows, Hashes
  <2>. QED BY <2>2, <2>3
<1>3. s \in Seq(Rows) /\ DOMAIN s = 1 .. Len(evs)
    BY <1>1, <1>2
<1>4. LinkedOn(head, s)
  <2>. SUFFICES ASSUME NEW i \in DOMAIN s
                PROVE  /\ s[i].seq = head.seq + i
                       /\ s[i].prev = IF i = 1 THEN head.hash ELSE Digest(s[i - 1])
      BY DEF LinkedOn
  <2>1. CASE i = 1
      BY <1>1, <1>3, <2>1
  <2>2. CASE i # 1
    <3>1. i - 1 \in 1 .. Len(evs)
        BY <1>3, <2>2
    <3>2. s[i - 1].ev = evs[i - 1] /\ s[i - 1].seq = head.seq + (i - 1)
        BY <1>1, <3>1
    <3>. QED BY <1>1, <1>3, <2>2, <3>2 DEF Digest, HeadRows
  <2>. QED BY <2>1, <2>2
<1>. QED BY <1>1, <1>3, <1>4

\* The head row after linked rows is well typed and counts them.
LEMMA HeadAfterType ==
    ASSUME NEW head \in HeadRows, NEW s \in Seq(Rows), LinkedOn(head, s)
    PROVE  /\ HeadAfter(head, s) \in HeadRows
           /\ HeadAfter(head, s).seq = head.seq + Len(s)
           /\ s # <<>> => /\ HeadAfter(head, s).exists
                          /\ HeadAfter(head, s).hash = Digest(s[Len(s)])
<1>1. CASE s = <<>>
    BY <1>1 DEF HeadAfter, HeadRows
<1>2. CASE s # <<>>
  <2>1. Len(s) \in DOMAIN s /\ s[Len(s)] \in Rows
      BY <1>2
  <2>2. s[Len(s)].seq = head.seq + Len(s)
      BY <2>1 DEF LinkedOn
  <2>. QED BY <1>2, <2>1, <2>2 DEF HeadAfter, HeadRows, Rows, Digest, Hashes
<1>. QED BY <1>1, <1>2

\* Linked rows appended to linked rows are linked, and the head moves along.
LEMMA LinkedConcat ==
    ASSUME NEW head \in HeadRows, NEW s \in Seq(Rows), NEW t \in Seq(Rows),
           LinkedOn(head, s), LinkedOn(HeadAfter(head, s), t)
    PROVE  /\ LinkedOn(head, s \o t)
           /\ HeadAfter(head, s \o t) = HeadAfter(HeadAfter(head, s), t)
<1>. DEFINE mid == HeadAfter(head, s)
            st  == s \o t
<1>1. st \in Seq(Rows) /\ Len(st) = Len(s) + Len(t) /\ DOMAIN st = 1 .. (Len(s) + Len(t))
    OBVIOUS
<1>2. /\ \A i \in 1 .. Len(s) : st[i] = s[i]
      /\ \A i \in 1 .. Len(t) : st[Len(s) + i] = t[i]
    OBVIOUS
<1>3. mid \in HeadRows /\ mid.seq = head.seq + Len(s)
    BY HeadAfterType
<1>4. LinkedOn(head, st)
  <2>. SUFFICES ASSUME NEW i \in 1 .. (Len(s) + Len(t))
                PROVE  /\ st[i].seq = head.seq + i
                       /\ st[i].prev = IF i = 1 THEN head.hash ELSE Digest(st[i - 1])
      BY <1>1 DEF LinkedOn
  <2>1. CASE i \in 1 .. Len(s)
    <3>1. i # 1 => i - 1 \in 1 .. Len(s)
        BY <2>1
    <3>. QED BY <1>2, <2>1, <3>1 DEF LinkedOn
  <2>2. CASE i \notin 1 .. Len(s)
    <3>. DEFINE k == i - Len(s)
    <3>1. k \in 1 .. Len(t) /\ i = Len(s) + k
        BY <2>2
    <3>2. st[i] = t[k]
        BY <1>2, <3>1
    <3>3. /\ t[k].seq = mid.seq + k
          /\ t[k].prev = IF k = 1 THEN mid.hash ELSE Digest(t[k - 1])
        BY <3>1 DEF LinkedOn
    <3>4. t[k].seq = head.seq + i
        BY <1>3, <3>1, <3>3 DEF HeadRows
    <3>5. CASE k # 1
      <4>1. st[i - 1] = t[k - 1]
          BY <1>2, <3>1, <3>5
      <4>. QED BY <3>1, <3>2, <3>3, <3>4, <3>5, <4>1
    <3>6. CASE k = 1 /\ s = <<>>
      <4>1. mid = head
          BY <3>6 DEF HeadAfter
      <4>2. i = 1
          BY <3>1, <3>6
      <4>. QED BY <3>2, <3>3, <3>4, <3>6, <4>1, <4>2
    <3>7. CASE k = 1 /\ s # <<>>
      <4>1. mid.hash = Digest(s[Len(s)])
          BY <3>7, HeadAfterType
      <4>2. i # 1 /\ i - 1 = Len(s) /\ st[i - 1] = s[Len(s)]
          BY <1>2, <3>1, <3>7
      <4>. QED BY <3>2, <3>3, <3>4, <3>7, <4>1, <4>2
    <3>. QED BY <3>5, <3>6, <3>7
  <2>. QED BY <2>1, <2>2
<1>5. HeadAfter(head, st) = HeadAfter(mid, t)
  <2>1. CASE t = <<>>
    <3>1. st = s
        BY <2>1
    <3>. QED BY <2>1, <3>1 DEF HeadAfter
  <2>2. CASE t # <<>>
    <3>1. st # <<>> /\ st[Len(st)] = t[Len(t)]
        BY <1>1, <1>2, <2>2
    <3>. QED BY <2>2, <3>1 DEF HeadAfter
  <2>. QED BY <2>1, <2>2
<1>. QED BY <1>4, <1>5

-----------------------------------------------------------------------------
(* The invariant is established and preserved. *)

\* An empty database satisfies the invariant: every chain has no rows and no head.
LEMMA IntegrityInit == Init => Integrity
<1>. SUFFICES ASSUME Init PROVE Integrity
    OBVIOUS
<1>1. TypeOK
    BY IngestAssumption DEF Init, TypeOK, NoHead, HeadRows, Hashes
<1>2. Working /\ OwnChain /\ StagedOnHead
    BY DEF Init, Working, OwnChain, StagedOnHead
<1>3. HeadCurrent
    BY DEF Init, HeadCurrent, HeadAfter, NoHead
<1>4. ChainLinked /\ EventOnce
    BY DEF Init, ChainLinked, LinkedOn, EventOnce
<1>. QED BY <1>1, <1>2, <1>3, <1>4 DEF Integrity

\* Staging on a head row nobody holds.
LEMMA StageStep ==
    ASSUME Integrity, NEW r \in Requests,
           pc[r] \in {"select", "insert"}, todo[r] # <<>>,
           lock[Head(todo[r])] = Nobody, Stage(r)
    PROVE  Integrity'
<1>. DEFINE c == Head(todo[r])
            S == InChain(batch[r], c)
<1>0. TypeOK /\ Working /\ OwnChain /\ StagedOnHead /\ HeadCurrent /\ ChainLinked /\ EventOnce
    BY DEF Integrity
<1>1. c \in Chains /\ Tail(todo[r]) \in Seq(Chains) /\ heads[c] \in HeadRows
    BY <1>0 DEF TypeOK
<1>2. S \in SUBSET Events /\ \A e \in S : ChainOf[e] = c
    BY <1>0 DEF TypeOK, InChain
<1>3. PICK evs \in TsOrders(S) : staged' = [staged EXCEPT ![r][c] = RowsOn(heads[c], evs)]
    BY DEF Stage
<1>. DEFINE new == RowsOn(heads[c], evs)
<1>4. /\ evs \in [1 .. Cardinality(S) -> S] /\ evs \in Seq(Events)
      /\ Len(evs) = Cardinality(S) /\ Cardinality(S) \in Nat
      /\ \A i, j \in DOMAIN evs : evs[i] = evs[j] => i = j
    BY <1>2, TsOrdersType
<1>5. /\ new \in Seq(Rows)
      /\ DOMAIN new = 1 .. Len(evs)
      /\ LinkedOn(heads[c], new)
      /\ \A i \in 1 .. Len(evs) : new[i].ev = evs[i]
    BY <1>1, <1>4, RowsOnHead
<1>6. /\ rows' = rows /\ heads' = heads /\ batch' = batch
      /\ lock' = [lock EXCEPT ![c] = r]
      /\ todo' = [todo EXCEPT ![r] = Tail(@)]
      /\ pc' = [pc EXCEPT ![r] = "select"]
    BY DEF Stage
<1>7. \A q \in Requests, d \in Chains :
        staged'[q][d] = IF q = r /\ d = c THEN new ELSE staged[q][d]
    BY <1>0, <1>1, <1>3 DEF TypeOK
<1>8. TypeOK'
  <2>1. staged' \in [Requests -> [Chains -> Seq(Rows)]]
      BY <1>0, <1>1, <1>3, <1>5 DEF TypeOK
  <2>. QED BY <1>0, <1>1, <1>6, <2>1 DEF TypeOK
<1>9. Working'
  <2>. SUFFICES ASSUME NEW q \in Requests
                PROVE  /\ pc'[q] = "insert" => todo'[q] # <<>>
                       /\ \A d \in Chains : staged'[q][d] # <<>> => pc'[q] \in {"select", "insert"}
      BY DEF Working
  <2>. QED BY <1>0, <1>6, <1>7 DEF Working, TypeOK
<1>10. OwnChain'
  <2>1. \A d \in Chains : \A i \in DOMAIN rows'[d] : ChainOf[rows'[d][i].ev] = d
      BY <1>0, <1>6 DEF OwnChain
  <2>2. \A i \in DOMAIN new : ChainOf[new[i].ev] = c
      BY <1>2, <1>4, <1>5
  <2>3. \A i, j \in DOMAIN new : new[i].ev = new[j].ev => i = j
      BY <1>4, <1>5
  <2>4. ASSUME NEW q \in Requests, NEW d \in Chains
        PROVE  /\ \A i \in DOMAIN staged'[q][d] : ChainOf[staged'[q][d][i].ev] = d
               /\ \A i, j \in DOMAIN staged'[q][d] :
                     staged'[q][d][i].ev = staged'[q][d][j].ev => i = j
    <3>1. CASE q = r /\ d = c
        BY <1>7, <2>2, <2>3, <3>1
    <3>2. CASE ~(q = r /\ d = c)
        BY <1>0, <1>7, <3>2 DEF OwnChain
    <3>. QED BY <3>1, <3>2
  <2>. QED BY <2>1, <2>4 DEF OwnChain
<1>11. StagedOnHead'
  <2>. SUFFICES ASSUME NEW q \in Requests, NEW d \in Chains, staged'[q][d] # <<>>
                PROVE  lock'[d] = q /\ LinkedOn(heads[d], staged'[q][d])
      BY <1>6 DEF StagedOnHead, LinkedOn
  <2>1. CASE q = r /\ d = c
      BY <1>0, <1>1, <1>5, <1>6, <1>7, <2>1 DEF TypeOK
  <2>2. CASE ~(q = r /\ d = c)
    <3>1. staged'[q][d] = staged[q][d]
        BY <1>7, <2>2
    <3>2. lock[d] = q /\ LinkedOn(heads[d], staged[q][d])
        BY <1>0, <3>1 DEF StagedOnHead
    <3>3. d # c
        BY <3>2, IngestAssumption
    <3>. QED BY <1>0, <1>6, <3>1, <3>2, <3>3 DEF TypeOK
  <2>. QED BY <2>1, <2>2
<1>12. HeadCurrent' /\ ChainLinked' /\ EventOnce'
    BY <1>0, <1>6 DEF HeadCurrent, ChainLinked, EventOnce, LinkedOn
<1>. QED BY <1>8, <1>9, <1>10, <1>11, <1>12 DEF Integrity

\* A transaction that ends without effect.
LEMMA AbortStep ==
    ASSUME Integrity, NEW r \in Requests, Abort(r)
    PROVE  Integrity'
<1>0. TypeOK /\ Working /\ OwnChain /\ StagedOnHead /\ HeadCurrent /\ ChainLinked /\ EventOnce
    BY DEF Integrity
<1>1. /\ rows' = rows /\ heads' = heads /\ batch' = batch
      /\ pc' = [pc EXCEPT ![r] = "failed"]
      /\ todo' = [todo EXCEPT ![r] = <<>>]
      /\ lock' = [c \in Chains |-> IF lock[c] = r THEN Nobody ELSE lock[c]]
      /\ staged' = [staged EXCEPT ![r] = [c \in Chains |-> <<>>]]
    BY DEF Abort, Release
<1>2. \A q \in Requests, d \in Chains :
        staged'[q][d] = IF q = r THEN <<>> ELSE staged[q][d]
    BY <1>0, <1>1 DEF TypeOK
<1>3. TypeOK'
    BY <1>0, <1>1 DEF TypeOK
<1>4. Working'
    BY <1>0, <1>1, <1>2 DEF Working, TypeOK
<1>5. OwnChain'
    BY <1>0, <1>1, <1>2 DEF OwnChain
<1>6. StagedOnHead'
  <2>. SUFFICES ASSUME NEW q \in Requests, NEW d \in Chains, staged'[q][d] # <<>>
                PROVE  lock'[d] = q /\ LinkedOn(heads[d], staged'[q][d])
      BY <1>1 DEF StagedOnHead, LinkedOn
  <2>1. q # r /\ staged'[q][d] = staged[q][d]
      BY <1>2
  <2>2. lock[d] = q /\ LinkedOn(heads[d], staged[q][d])
      BY <1>0, <2>1 DEF StagedOnHead
  <2>. QED BY <1>1, <2>1, <2>2
<1>7. HeadCurrent' /\ ChainLinked' /\ EventOnce'
    BY <1>0, <1>1 DEF HeadCurrent, ChainLinked, EventOnce, LinkedOn
<1>. QED BY <1>3, <1>4, <1>5, <1>6, <1>7 DEF Integrity

\* u consists of the rows of s followed by those of t.
Joins(u, s, t) ==
    \A i \in DOMAIN u :
       \/ i \in DOMAIN s /\ u[i] = s[i]
       \/ i - Len(s) \in DOMAIN t /\ i = Len(s) + (i - Len(s)) /\ u[i] = t[i - Len(s)]

\* Joining two sequences of rows, stated index by index, is concatenation.
LEMMA ConcatRows ==
    ASSUME NEW s \in Seq(Rows), NEW t \in Seq(Rows)
    PROVE  Joins(s \o t, s, t)
    BY DEF Joins

\* A batch becomes visible.
LEMMA CommitStep ==
    ASSUME Integrity, NEW r \in Requests, Commit(r)
    PROVE  Integrity'
<1>0. TypeOK /\ Working /\ OwnChain /\ StagedOnHead /\ HeadCurrent /\ ChainLinked /\ EventOnce
    BY DEF Integrity
<1>1. /\ rows' = [c \in Chains |-> rows[c] \o staged[r][c]]
      /\ heads' = [c \in Chains |-> HeadAfter(heads[c], staged[r][c])]
      /\ batch' = batch
      /\ pc' = [pc EXCEPT ![r] = "committed"]
      /\ todo' = [todo EXCEPT ![r] = <<>>]
      /\ lock' = [c \in Chains |-> IF lock[c] = r THEN Nobody ELSE lock[c]]
      /\ staged' = [staged EXCEPT ![r] = [c \in Chains |-> <<>>]]
      /\ ~Conflict(r)
    BY DEF Commit, Release
<1>2. \A q \in Requests, d \in Chains :
        staged'[q][d] = IF q = r THEN <<>> ELSE staged[q][d]
    BY <1>0, <1>1 DEF TypeOK
<1>3. \A c \in Chains :
        /\ rows[c] \in Seq(Rows) /\ staged[r][c] \in Seq(Rows) /\ heads[c] \in HeadRows
        /\ NoHead \in HeadRows
    BY <1>0 DEF TypeOK, NoHead, HeadRows, Hashes
<1>4. \A c \in Chains :
        /\ heads[c] = HeadAfter(NoHead, rows[c])
        /\ LinkedOn(NoHead, rows[c])
        /\ LinkedOn(heads[c], staged[r][c])
  <2>. SUFFICES ASSUME NEW c \in Chains
                PROVE  LinkedOn(heads[c], staged[r][c])
      BY <1>0 DEF HeadCurrent, ChainLinked
  <2>1. CASE staged[r][c] = <<>>
      BY <2>1 DEF LinkedOn
  <2>2. CASE staged[r][c] # <<>>
      BY <1>0, <2>2 DEF StagedOnHead
  <2>. QED BY <2>1, <2>2
<1>5. TypeOK'
  <2>1. rows' \in [Chains -> Seq(Rows)]
      BY <1>1, <1>3
  <2>2. heads' \in [Chains -> HeadRows]
    <3>. SUFFICES ASSUME NEW c \in Chains PROVE HeadAfter(heads[c], staged[r][c]) \in HeadRows
        BY <1>1
    <3>. QED BY <1>3, <1>4, HeadAfterType
  <2>. QED BY <1>0, <1>1, <2>1, <2>2 DEF TypeOK
<1>6. Working'
    BY <1>0, <1>1, <1>2 DEF Working, TypeOK
<1>7. OwnChain'
  <2>2. ASSUME NEW c \in Chains, NEW i \in DOMAIN rows'[c]
        PROVE  ChainOf[rows'[c][i].ev] = c
    <3>1. Joins(rows[c] \o staged[r][c], rows[c], staged[r][c])
        BY <1>3, ConcatRows
    <3>2. Joins(rows'[c], rows[c], staged[r][c])
        BY <1>1, <3>1
    <3>3. \/ i \in DOMAIN rows[c] /\ rows'[c][i] = rows[c][i]
          \/ i - Len(rows[c]) \in DOMAIN staged[r][c] /\ rows'[c][i] = staged[r][c][i - Len(rows[c])]
        BY <2>2, <3>2 DEF Joins
    <3>. QED BY <1>0, <3>3 DEF OwnChain
  <2>3. ASSUME NEW q \in Requests, NEW d \in Chains
        PROVE  /\ \A i \in DOMAIN staged'[q][d] : ChainOf[staged'[q][d][i].ev] = d
               /\ \A i, j \in DOMAIN staged'[q][d] :
                     staged'[q][d][i].ev = staged'[q][d][j].ev => i = j
      BY <1>0, <1>2 DEF OwnChain
  <2>. QED BY <2>2, <2>3 DEF OwnChain
<1>8. StagedOnHead'
  <2>. SUFFICES ASSUME NEW q \in Requests, NEW d \in Chains, staged'[q][d] # <<>>
                PROVE  lock'[d] = q /\ LinkedOn(heads'[d], staged'[q][d])
      BY DEF StagedOnHead, LinkedOn
  <2>1. q # r /\ staged'[q][d] = staged[q][d]
      BY <1>2
  <2>2. lock[d] = q /\ LinkedOn(heads[d], staged[q][d])
      BY <1>0, <2>1 DEF StagedOnHead
  <2>3. staged[r][d] = <<>>
      BY <1>0, <2>1, <2>2 DEF StagedOnHead
  <2>4. heads'[d] = heads[d]
      BY <1>1, <2>3 DEF HeadAfter
  <2>. QED BY <1>1, <2>1, <2>2, <2>4
<1>9. HeadCurrent'
  <2>. SUFFICES ASSUME NEW c \in Chains
                PROVE  /\ heads'[c] = HeadAfter(NoHead, rows'[c])
                       /\ heads'[c].exists <=> rows'[c] # <<>>
      BY DEF HeadCurrent, HeadAfter, NoHead, Digest
  <2>1. heads'[c] = HeadAfter(NoHead, rows'[c])
      BY <1>1, <1>3, <1>4, LinkedConcat
  <2>2. heads'[c].exists <=> rows'[c] # <<>>
    <3>1. CASE staged[r][c] = <<>>
      <4>1. rows[c] \o <<>> = rows[c]
          BY <1>3
      <4>2. heads'[c] = heads[c] /\ rows'[c] = rows[c]
          BY <1>1, <3>1, <4>1 DEF HeadAfter
      <4>. QED BY <1>0, <4>2 DEF HeadCurrent
    <3>2. CASE staged[r][c] # <<>>
      <4>1. heads'[c].exists
          BY <1>1, <1>3, <1>4, <3>2, HeadAfterType
      <4>2. rows'[c] # <<>>
          BY <1>1, <1>3, <3>2
      <4>. QED BY <4>1, <4>2
    <3>. QED BY <3>1, <3>2
  <2>. QED BY <2>1, <2>2
<1>10. ChainLinked'
  <2>. SUFFICES ASSUME NEW c \in Chains PROVE LinkedOn(NoHead, rows'[c])
      BY DEF ChainLinked, LinkedOn, NoHead, Digest
  <2>. QED BY <1>1, <1>3, <1>4, LinkedConcat
<1>11. EventOnce'
  <2>1. ASSUME NEW c \in Chains, NEW i \in DOMAIN staged[r][c], NEW d \in Chains, NEW j \in DOMAIN rows[d]
        PROVE  staged[r][c][i].ev # rows[d][j].ev
      BY <1>1 DEF Conflict, Recorded, RecordedIn
  <2>2. ASSUME NEW c \in Chains, NEW i \in DOMAIN rows'[c], NEW j \in DOMAIN rows'[c],
               rows'[c][i].ev = rows'[c][j].ev
        PROVE  i = j
    <3>. DEFINE old == rows[c]
                new == staged[r][c]
    <3>1. Joins(old \o new, old, new)
        BY <1>3, ConcatRows
    <3>2. Joins(rows'[c], old, new)
        BY <1>1, <3>1
    <3>3. \A k \in {i, j} :
             \/ k \in DOMAIN old /\ rows'[c][k] = old[k]
             \/ k - Len(old) \in DOMAIN new /\ k = Len(old) + (k - Len(old)) /\ rows'[c][k] = new[k - Len(old)]
        BY <2>2, <3>2 DEF Joins
    <3>4. \A k \in DOMAIN new, l \in DOMAIN old : new[k].ev # old[l].ev
        BY <2>1
    <3>5. \A k, l \in DOMAIN new : new[k].ev = new[l].ev => k = l
        BY <1>0 DEF OwnChain
    <3>6. \A k, l \in DOMAIN old : old[k].ev = old[l].ev => k = l
        BY <1>0 DEF EventOnce
    <3>. HIDE DEF old, new
    <3>7. CASE i \in DOMAIN old /\ rows'[c][i] = old[i]
        BY <2>2, <3>3, <3>4, <3>6, <3>7
    <3>8. CASE i - Len(old) \in DOMAIN new /\ i = Len(old) + (i - Len(old)) /\ rows'[c][i] = new[i - Len(old)]
      <4>1. CASE j \in DOMAIN old /\ rows'[c][j] = old[j]
          BY <2>2, <3>4, <3>8, <4>1
      <4>2. CASE j - Len(old) \in DOMAIN new /\ j = Len(old) + (j - Len(old)) /\ rows'[c][j] = new[j - Len(old)]
        <5>1. i - Len(old) = j - Len(old)
            BY <2>2, <3>5, <3>8, <4>2
        <5>. QED BY <3>8, <4>2, <5>1
      <4>. QED BY <3>3, <4>1, <4>2
    <3>. QED BY <3>3, <3>7, <3>8
  <2>3. ASSUME NEW c \in Chains, NEW d \in Chains,
               NEW i \in DOMAIN rows'[c], NEW j \in DOMAIN rows'[d],
               rows'[c][i].ev = rows'[d][j].ev
        PROVE  c = d
    <3>1. ChainOf[rows'[c][i].ev] = c /\ ChainOf[rows'[d][j].ev] = d
        BY <1>7 DEF OwnChain
    <3>. QED BY <2>3, <3>1
  <2>. QED BY <2>2, <2>3 DEF EventOnce
<1>. QED BY <1>5, <1>6, <1>7, <1>8, <1>9, <1>10, <1>11 DEF Integrity

\* Every step of every handler preserves the invariant.
LEMMA IntegrityNext == Integrity /\ [Next]_vars => Integrity'
<1>. SUFFICES ASSUME Integrity, [Next]_vars PROVE Integrity'
    OBVIOUS
<1>0. TypeOK /\ Working
    BY DEF Integrity
<1>1. ASSUME NEW r \in Requests, NEW B \in SUBSET Events, Receive(r, B)
      PROVE  Integrity'
  <2>1. /\ rows' = rows /\ heads' = heads /\ lock' = lock /\ staged' = staged
        /\ batch' = [batch EXCEPT ![r] = B]
        /\ pc[r] = "idle" /\ \E p \in {"refused", "select"} : pc' = [pc EXCEPT ![r] = p]
      BY <1>1 DEF Receive
  <2>2. todo' \in [Requests -> Seq(Chains)]
    <3>. DEFINE f == [e \in B |-> ChainOf[e]]
                C == {ChainOf[e] : e \in B}
    <3>0. f \in Surjection(B, C)
        BY DEF Surjection
    <3>1. IsFiniteSet(C)
        BY <3>0, IngestAssumption, FS_Subset, FS_Surjection
    <3>2. Cardinality(C) \in Nat /\ C \in SUBSET Chains
        BY <3>1, FS_CardinalityType, IngestAssumption
    <3>3. \A order \in Orders(C) : order \in Seq(Chains)
        BY <3>2, OrdersType
    <3>. QED BY <1>0, <1>1, <3>3 DEF Receive, TypeOK
  <2>3. TypeOK'
      BY <1>0, <2>1, <2>2 DEF TypeOK
  <2>4. Working'
    <3>. SUFFICES ASSUME NEW q \in Requests
                  PROVE  /\ pc'[q] = "insert" => todo'[q] # <<>>
                         /\ \A d \in Chains : staged'[q][d] # <<>> => pc'[q] \in {"select", "insert"}
        BY DEF Working
    <3>1. q # r => todo'[q] = todo[q] /\ pc'[q] = pc[q]
        BY <1>0, <1>1 DEF Receive, TypeOK
    <3>2. pc'[r] # "insert" /\ \A d \in Chains : staged'[r][d] = <<>>
        BY <1>0, <2>1 DEF Working, TypeOK
    <3>. QED BY <1>0, <2>1, <3>1, <3>2 DEF Working
  <2>5. OwnChain' /\ StagedOnHead' /\ HeadCurrent' /\ ChainLinked' /\ EventOnce'
      BY <2>1 DEF Integrity, OwnChain, StagedOnHead, HeadCurrent, ChainLinked, EventOnce, LinkedOn
  <2>. QED BY <2>3, <2>4, <2>5 DEF Integrity
<1>2. ASSUME NEW r \in Requests, LockHead(r)
      PROVE  Integrity'
    BY <1>2, StageStep DEF LockHead
<1>3. ASSUME NEW r \in Requests, MissHead(r)
      PROVE  Integrity'
  <2>1. /\ rows' = rows /\ heads' = heads /\ lock' = lock /\ staged' = staged
        /\ batch' = batch /\ todo' = todo
        /\ pc[r] = "select" /\ todo[r] # <<>> /\ pc' = [pc EXCEPT ![r] = "insert"]
      BY <1>3 DEF MissHead
  <2>2. TypeOK' /\ Working'
      BY <1>0, <2>1 DEF TypeOK, Working
  <2>3. OwnChain' /\ StagedOnHead' /\ HeadCurrent' /\ ChainLinked' /\ EventOnce'
      BY <2>1 DEF Integrity, OwnChain, StagedOnHead, HeadCurrent, ChainLinked, EventOnce, LinkedOn
  <2>. QED BY <2>2, <2>3 DEF Integrity
<1>4. ASSUME NEW r \in Requests, InsertHead(r)
      PROVE  Integrity'
    BY <1>0, <1>4, StageStep DEF InsertHead, Working
<1>5. ASSUME NEW r \in Requests,
             InsertHeadConflict(r) \/ CommitConflict(r) \/ DeadlockVictim(r) \/ Crash(r)
      PROVE  Integrity'
    BY <1>5, AbortStep DEF InsertHeadConflict, CommitConflict, DeadlockVictim, Crash
<1>6. ASSUME NEW r \in Requests, Commit(r)
      PROVE  Integrity'
    BY <1>6, CommitStep
<1>7. CASE UNCHANGED vars
    BY <1>7 DEF vars, Integrity, TypeOK, Working, OwnChain, StagedOnHead, HeadCurrent,
                ChainLinked, EventOnce, LinkedOn
<1>. QED BY <1>1, <1>2, <1>3, <1>4, <1>5, <1>6, <1>7 DEF Next, Handler

-----------------------------------------------------------------------------

\* The invariant that carries the safety of ingestion holds for any number of
\* handlers, chains and events.
THEOREM IngestIntegrity == Spec => []Integrity
    BY IntegrityInit, IntegrityNext, PTL DEF Spec

\* The evidence store's variables keep their types.
THEOREM IngestTypeCorrect == Spec => []TypeOK
    BY IngestIntegrity, PTL DEF Integrity

\* The rows of every chain stay numbered without gaps and linked by hash, as the
\* verifier's walk expects, however handlers, retries and rollbacks interleave.
THEOREM IngestChainLinked == Spec => []ChainLinked
    BY IngestIntegrity, PTL DEF Integrity

\* The head row always names the last committed row of its chain.
THEOREM IngestHeadCurrent == Spec => []HeadCurrent
    BY IngestIntegrity, PTL DEF Integrity

\* A head read under the row lock is still current when it is used.
THEOREM IngestStagedOnHead == Spec => []StagedOnHead
    BY IngestIntegrity, PTL DEF Integrity

\* No retry or duplicate delivery records an event twice.
THEOREM IngestEventOnce == Spec => []EventOnce
    BY IngestIntegrity, PTL DEF Integrity

-----------------------------------------------------------------------------
(* Ingestion implements EvidenceLog. *)

\* The events of the rows of a chain: what EvidenceLog calls log[c].
EventLog(s) == [i \in DOMAIN s |-> s[i].ev]

\* The events of a chain of rows form a sequence of events of the same length.
LEMMA EventLogType ==
    ASSUME NEW s \in Seq(Rows)
    PROVE  /\ EventLog(s) \in Seq(Events)
           /\ Len(EventLog(s)) = Len(s)
           /\ \A i \in DOMAIN s : s[i].ev \in Events
<1>1. ASSUME NEW i \in 1 .. Len(s)
      PROVE  s[i].ev \in Events
  <2>1. s[i] \in Rows
      OBVIOUS
  <2>. QED BY <2>1 DEF Rows
<1>2. DOMAIN s = 1 .. Len(s) /\ Len(s) \in Nat
    OBVIOUS
<1>. QED BY <1>1, <1>2 DEF EventLog

\* Appending rows extends the log of events.
LEMMA EventLogPrefix ==
    ASSUME NEW s \in Seq(Rows), NEW t \in Seq(Rows)
    PROVE  Log!IsPrefix(EventLog(s), EventLog(s \o t))
<1>. DEFINE a == EventLog(s)
            b == EventLog(s \o t)
<1>1. /\ DOMAIN s = 1 .. Len(s) /\ DOMAIN (s \o t) = 1 .. (Len(s) + Len(t))
      /\ \A i \in 1 .. Len(s) : (s \o t)[i] = s[i]
      /\ s \o t \in Seq(Rows)
      /\ Len(s \o t) = Len(s) + Len(t)
    OBVIOUS
<1>2. a \in Seq(Events) /\ Len(a) = Len(s)
    BY EventLogType
<1>3. b \in Seq(Events) /\ Len(b) = Len(s) + Len(t)
    BY <1>1, EventLogType
<1>4. \A i \in 1 .. Len(s) : a[i] = b[i]
    BY <1>1 DEF EventLog
<1>. HIDE DEF a, b
<1>5. SubSeq(a, 1, Len(a)) = SubSeq(b, 1, Len(a))
    BY <1>2, <1>3, <1>4
<1>. QED BY <1>2, <1>3, <1>5 DEF Log!IsPrefix, a, b

\* Empty chains are empty logs.
LEMMA LogInit == Init => Log!Init
<1>. SUFFICES ASSUME Init PROVE Log!Init
    OBVIOUS
<1>1. \A c \in Chains : [i \in DOMAIN rows[c] |-> rows[c][i].ev] = <<>>
    BY DEF Init
<1>. QED BY <1>1 DEF Log!Init

\* A commit appends a batch to the logs; every other step leaves them alone.
LEMMA LogStep ==
    ASSUME Integrity, Integrity', [Next]_vars
    PROVE  \/ Log!Record
           \/ UNCHANGED [c \in Chains |-> [i \in DOMAIN rows[c] |-> rows[c][i].ev]]
<1>1. CASE rows' = rows
    BY <1>1
<1>2. CASE rows' # rows
  <2>1. PICK r \in Requests : Commit(r)
      BY <1>2 DEF Next, Handler, vars, Receive, LockHead, MissHead, InsertHead,
              InsertHeadConflict, CommitConflict, DeadlockVictim, Crash, Stage, Abort
  <2>2. rows' = [c \in Chains |-> rows[c] \o staged[r][c]]
      BY <2>1 DEF Commit
  <2>3. ASSUME NEW c \in Chains
        PROVE  /\ Log!IsPrefix(EventLog(rows[c]), EventLog(rows'[c]))
               /\ \A i \in DOMAIN rows'[c] : rows'[c][i].ev \in Events /\ ChainOf[rows'[c][i].ev] = c
               /\ \A i, j \in DOMAIN rows'[c] : rows'[c][i].ev = rows'[c][j].ev => i = j
    <3>1. rows[c] \in Seq(Rows) /\ staged[r][c] \in Seq(Rows) /\ rows'[c] \in Seq(Rows)
        BY DEF Integrity, TypeOK
    <3>2. Log!IsPrefix(EventLog(rows[c]), EventLog(rows'[c]))
        BY <2>2, <3>1, EventLogPrefix
    <3>3. /\ \A i \in DOMAIN rows'[c] : rows'[c][i].ev \in Events
          /\ \A i \in DOMAIN rows'[c] : ChainOf[rows'[c][i].ev] = c
        BY <3>1, EventLogType DEF Integrity, OwnChain
    <3>4. \A i, j \in DOMAIN rows'[c] : rows'[c][i].ev = rows'[c][j].ev => i = j
        BY DEF Integrity, EventOnce
    <3>. QED BY <3>2, <3>3, <3>4
  <2>. QED BY <2>3 DEF Log!Record, EventLog
<1>. QED BY <1>1, <1>2

\* Ingestion, with its locks, retries and rollbacks, implements the append-only
\* log of EvidenceLog: every step appends fresh events or leaves the logs alone.
THEOREM IngestImplementsLog == Spec => ImplementsLog
<1>1. Integrity /\ Integrity' /\ [Next]_vars
        => [Log!Record]_([c \in Chains |-> [i \in DOMAIN rows[c] |-> rows[c][i].ev]])
    BY LogStep
<1>. QED BY <1>1, LogInit, IngestIntegrity, PTL DEF Spec, ImplementsLog, Log!Spec

-----------------------------------------------------------------------------
(* Batches are recorded whole. *)

\* The batch of a running transaction is what it has staged and what is in the
\* chains that are left.
BatchKept ==
    \A r \in Requests : pc[r] \in {"select", "insert"} =>
        /\ \A c \in Chains : \A i \in DOMAIN staged[r][c] : staged[r][c][i].ev \in batch[r]
        /\ \A e \in batch[r] :
              \/ \E i \in DOMAIN todo[r] : todo[r][i] = ChainOf[e]
              \/ \E i \in DOMAIN staged[r][ChainOf[e]] : staged[r][ChainOf[e]][i].ev = e

\* A listing of a finite set leaves nothing out.
LEMMA OrdersCover ==
    ASSUME NEW S, IsFiniteSet(S), NEW order \in Orders(S)
    PROVE  \A x \in S : \E i \in DOMAIN order : order[i] = x
<1>. DEFINE n == Cardinality(S)
<1>1. n \in Nat
    BY FS_CardinalityType
<1>2. order \in [1 .. n -> S] /\ \A i, j \in DOMAIN order : order[i] = order[j] => i = j
    BY DEF Orders
<1>3. order \in Injection(1 .. n, S)
    BY <1>2 DEF Injection, IsInjective
<1>4. IsFiniteSet(1 .. n) /\ Cardinality(1 .. n) = n
    BY <1>1, FS_Interval
<1>5. order \in Surjection(1 .. n, S)
    BY <1>3, <1>4, FS_Injection
<1>. QED BY <1>2, <1>5 DEF Surjection

LEMMA StageKeepsBatch ==
    ASSUME Integrity, BatchKept, NEW r \in Requests,
           pc[r] \in {"select", "insert"}, todo[r] # <<>>, Stage(r)
    PROVE  BatchKept'
<1>. DEFINE c == Head(todo[r])
            S == InChain(batch[r], c)
<1>0. TypeOK
    BY DEF Integrity
<1>1. c \in Chains /\ todo[r] \in Seq(Chains) /\ batch[r] \subseteq Events /\ heads[c] \in HeadRows
    BY <1>0 DEF TypeOK
<1>2. PICK evs \in TsOrders(S) : staged' = [staged EXCEPT ![r][c] = RowsOn(heads[c], evs)]
    BY DEF Stage
<1>3. S \in SUBSET Events /\ S = {e \in batch[r] : ChainOf[e] = c} /\ IsFiniteSet(S)
    BY <1>1, IngestAssumption, FS_Subset DEF InChain
<1>4. evs \in Seq(Events) /\ \A i \in DOMAIN evs : evs[i] \in S
    BY <1>3, TsOrdersType
<1>5. \A e \in S : \E i \in DOMAIN evs : evs[i] = e
    BY <1>3, OrdersCover DEF TsOrders
<1>6. /\ DOMAIN RowsOn(heads[c], evs) = DOMAIN evs
      /\ \A i \in DOMAIN evs : RowsOn(heads[c], evs)[i].ev = evs[i]
    BY <1>4 DEF RowsOn
<1>7. \A q \in Requests, d \in Chains :
        staged'[q][d] = IF q = r /\ d = c THEN RowsOn(heads[c], evs) ELSE staged[q][d]
    BY <1>0, <1>1, <1>2 DEF TypeOK
<1>8. batch' = batch /\ todo' = [todo EXCEPT ![r] = Tail(@)] /\ pc' = [pc EXCEPT ![r] = "select"]
    BY DEF Stage
<1>9. \A x : (\E i \in DOMAIN todo[r] : todo[r][i] = x)
              => x = c \/ \E i \in DOMAIN Tail(todo[r]) : Tail(todo[r])[i] = x
  <2>. SUFFICES ASSUME NEW i \in DOMAIN todo[r], i # 1
                PROVE  \E j \in DOMAIN Tail(todo[r]) : Tail(todo[r])[j] = todo[r][i]
      BY <1>1
  <2>1. i - 1 \in DOMAIN Tail(todo[r]) /\ Tail(todo[r])[i - 1] = todo[r][i]
      BY <1>1
  <2>. QED BY <2>1
<1>. HIDE DEF c, S
<1>10. ASSUME NEW q \in Requests, pc'[q] \in {"select", "insert"}
       PROVE  /\ \A d \in Chains : \A i \in DOMAIN staged'[q][d] : staged'[q][d][i].ev \in batch[q]
              /\ \A e \in batch[q] :
                    \/ \E i \in DOMAIN todo'[q] : todo'[q][i] = ChainOf[e]
                    \/ \E i \in DOMAIN staged'[q][ChainOf[e]] : staged'[q][ChainOf[e]][i].ev = e
  <2>1. CASE q # r
    <3>1. pc[q] \in {"select", "insert"} /\ todo'[q] = todo[q]
        BY <1>0, <1>8, <1>10, <2>1 DEF TypeOK
    <3>2. \A e \in batch[q] : ChainOf[e] \in Chains
        BY <1>0, IngestAssumption DEF TypeOK
    <3>. QED BY <1>7, <2>1, <3>1, <3>2 DEF BatchKept
  <2>2. CASE q = r
    <3>1. \A d \in Chains : \A i \in DOMAIN staged'[r][d] : staged'[r][d][i].ev \in batch[r]
        BY <1>3, <1>4, <1>6, <1>7 DEF BatchKept
    <3>2. ASSUME NEW e \in batch[r]
          PROVE  \/ \E i \in DOMAIN todo'[r] : todo'[r][i] = ChainOf[e]
                 \/ \E i \in DOMAIN staged'[r][ChainOf[e]] : staged'[r][ChainOf[e]][i].ev = e
      <4>1. ChainOf[e] \in Chains /\ todo'[r] = Tail(todo[r])
          BY <1>0, <1>1, <1>8, IngestAssumption DEF TypeOK
      <4>2. CASE ChainOf[e] = c
          BY <1>1, <1>3, <1>5, <1>6, <1>7, <4>2
      <4>3. CASE ChainOf[e] # c
        <5>1. \/ \E i \in DOMAIN todo[r] : todo[r][i] = ChainOf[e]
              \/ \E i \in DOMAIN staged[r][ChainOf[e]] : staged[r][ChainOf[e]][i].ev = e
            BY DEF BatchKept
        <5>2. staged'[r][ChainOf[e]] = staged[r][ChainOf[e]]
            BY <1>7, <4>1, <4>3
        <5>. QED BY <1>9, <4>1, <4>3, <5>1, <5>2
      <4>. QED BY <4>2, <4>3
    <3>. QED BY <2>2, <3>1, <3>2
  <2>. QED BY <2>1, <2>2
<1>. QED BY <1>8, <1>10 DEF BatchKept

\* No step loses an event of a batch on the way to its commit.
LEMMA BatchNext == Integrity /\ BatchKept /\ [Next]_vars => BatchKept'
<1>. SUFFICES ASSUME Integrity, BatchKept, [Next]_vars PROVE BatchKept'
    OBVIOUS
<1>0. TypeOK /\ Working
    BY DEF Integrity
<1>1. ASSUME NEW r \in Requests, NEW B \in SUBSET Events, Receive(r, B)
      PROVE  BatchKept'
  <2>. DEFINE C == {ChainOf[e] : e \in B}
  <2>1. /\ staged' = staged /\ batch' = [batch EXCEPT ![r] = B] /\ pc[r] = "idle"
        /\ pc' = [pc EXCEPT ![r] = IF Cardinality(B) > MaxBatch THEN "refused" ELSE "select"]
      BY <1>1 DEF Receive
  <2>2. \A q \in Requests \ {r} : todo'[q] = todo[q] /\ pc'[q] = pc[q] /\ batch'[q] = batch[q]
      BY <1>0, <1>1 DEF Receive, TypeOK
  <2>3. \A d \in Chains : staged[r][d] = <<>>
      BY <1>0, <2>1 DEF Working
  <2>4. IsFiniteSet(C)
    <3>. DEFINE f == [e \in B |-> ChainOf[e]]
    <3>1. f \in Surjection(B, C)
        BY DEF Surjection
    <3>. QED BY <3>1, IngestAssumption, FS_Subset, FS_Surjection
  <2>5. ASSUME pc'[r] \in {"select", "insert"}, NEW e \in B
        PROVE  \E i \in DOMAIN todo'[r] : todo'[r][i] = ChainOf[e]
    <3>1. ~(Cardinality(B) > MaxBatch)
        BY <1>0, <2>1, <2>5 DEF TypeOK
    <3>2. PICK order \in Orders(C) : todo' = [todo EXCEPT ![r] = order]
        BY <1>1, <3>1 DEF Receive
    <3>3. \E i \in DOMAIN order : order[i] = ChainOf[e]
        BY <2>4, <3>2, OrdersCover
    <3>. QED BY <1>0, <3>2, <3>3 DEF TypeOK
  <2>6. batch'[r] = B
      BY <1>0, <2>1 DEF TypeOK
  <2>. QED BY <2>1, <2>2, <2>3, <2>5, <2>6 DEF BatchKept
<1>2. ASSUME NEW r \in Requests, LockHead(r) \/ InsertHead(r)
      PROVE  BatchKept'
    BY <1>0, <1>2, StageKeepsBatch DEF LockHead, InsertHead, Working
<1>3. ASSUME NEW r \in Requests, MissHead(r)
      PROVE  BatchKept'
  <2>1. /\ staged' = staged /\ batch' = batch /\ todo' = todo
        /\ pc[r] = "select" /\ pc' = [pc EXCEPT ![r] = "insert"]
      BY <1>3 DEF MissHead
  <2>2. \A q \in Requests : pc'[q] \in {"select", "insert"} => pc[q] \in {"select", "insert"}
      BY <1>0, <2>1 DEF TypeOK
  <2>. QED BY <2>1, <2>2 DEF BatchKept
<1>4. ASSUME NEW r \in Requests, Abort(r) \/ Commit(r)
      PROVE  BatchKept'
  <2>1. /\ batch' = batch /\ todo' = [todo EXCEPT ![r] = <<>>]
        /\ staged' = [staged EXCEPT ![r] = [c \in Chains |-> <<>>]]
        /\ \E p \in {"failed", "committed"} : pc' = [pc EXCEPT ![r] = p]
      BY <1>4 DEF Abort, Commit, Release
  <2>2. pc'[r] \notin {"select", "insert"}
      BY <1>0, <2>1 DEF TypeOK
  <2>3. \A q \in Requests \ {r} : todo'[q] = todo[q] /\ pc'[q] = pc[q] /\ staged'[q] = staged[q]
      BY <1>0, <2>1 DEF TypeOK
  <2>. QED BY <2>1, <2>2, <2>3 DEF BatchKept
<1>5. CASE UNCHANGED vars
    BY <1>5 DEF vars, BatchKept
<1>. QED BY <1>1, <1>2, <1>3, <1>4, <1>5 DEF Next, Handler, InsertHeadConflict, CommitConflict,
         DeadlockVictim, Crash

LEMMA ConcatParts ==
    ASSUME NEW s \in Seq(Rows), NEW t \in Seq(Rows)
    PROVE  /\ \A i \in DOMAIN s : i \in DOMAIN (s \o t) /\ (s \o t)[i] = s[i]
           /\ \A j \in DOMAIN t : Len(s) + j \in DOMAIN (s \o t) /\ (s \o t)[Len(s) + j] = t[j]
    OBVIOUS

\* What a commit makes visible is its batch, the whole batch and nothing else.
LEMMA CommitIsWhole ==
    ASSUME Integrity, BatchKept, NEW r \in Requests, Commit(r)
    PROVE  /\ pc[r] = "select" /\ pc'[r] = "committed"
           /\ batch[r] \cap Recorded = {}
           /\ Recorded' = Recorded \cup batch[r]
<1>0. TypeOK
    BY DEF Integrity
<1>1. /\ pc[r] = "select" /\ pc'[r] = "committed" /\ todo[r] = <<>> /\ ~Conflict(r)
      /\ rows' = [c \in Chains |-> rows[c] \o staged[r][c]]
    BY <1>0 DEF Commit, TypeOK
<1>. DEFINE New(c) == {staged[r][c][i].ev : i \in DOMAIN staged[r][c]}
<1>2. ASSUME NEW c \in Chains
      PROVE  RecordedIn(c)' = RecordedIn(c) \cup New(c)
  <2>1. rows[c] \in Seq(Rows) /\ staged[r][c] \in Seq(Rows) /\ rows'[c] = rows[c] \o staged[r][c]
      BY <1>0, <1>1 DEF TypeOK
  <2>2. ASSUME NEW i \in DOMAIN rows'[c]
        PROVE  \/ i \in DOMAIN rows[c] /\ rows'[c][i] = rows[c][i]
               \/ \E j \in DOMAIN staged[r][c] : rows'[c][i] = staged[r][c][j]
    <3>1. Joins(rows'[c], rows[c], staged[r][c])
        BY <2>1, ConcatRows
    <3>. QED BY <3>1 DEF Joins
  <2>. DEFINE s == rows[c]
              t == staged[r][c]
  <2>3. /\ \A i \in DOMAIN s : i \in DOMAIN (s \o t) /\ (s \o t)[i] = s[i]
        /\ \A j \in DOMAIN t : Len(s) + j \in DOMAIN (s \o t) /\ (s \o t)[Len(s) + j] = t[j]
    <3>. HIDE DEF s, t
    <3>1. s \in Seq(Rows) /\ t \in Seq(Rows)
        BY <2>1 DEF s, t
    <3>. QED BY <3>1, ConcatParts
  <2>4. /\ \A i \in DOMAIN s : i \in DOMAIN rows'[c] /\ rows'[c][i] = s[i]
        /\ \A j \in DOMAIN t : \E i \in DOMAIN rows'[c] : rows'[c][i] = t[j]
      BY <2>1, <2>3
  <2>. QED BY <2>2, <2>4 DEF RecordedIn
<1>3. UNION {New(c) : c \in Chains} = batch[r]
  <2>1. \A c \in Chains : New(c) \subseteq batch[r]
      BY <1>1 DEF BatchKept
  <2>2. ASSUME NEW e \in batch[r] PROVE ChainOf[e] \in Chains /\ e \in New(ChainOf[e])
    <3>1. ChainOf[e] \in Chains
        BY <1>0, IngestAssumption DEF TypeOK
    <3>2. \E i \in DOMAIN staged[r][ChainOf[e]] : staged[r][ChainOf[e]][i].ev = e
        BY <1>1 DEF BatchKept
    <3>. QED BY <3>1, <3>2
  <2>. QED BY <2>1, <2>2
<1>4. \A c \in Chains : New(c) \cap Recorded = {}
    BY <1>1 DEF Conflict
<1>. HIDE DEF New
<1>5. Recorded' = Recorded \cup UNION {New(c) : c \in Chains}
    BY <1>2 DEF Recorded
<1>. QED BY <1>1, <1>3, <1>4, <1>5

\* Whatever fails or is retried, rows become visible one whole batch at a time.
THEOREM IngestWholeBatches == Spec => WholeBatches
<1>1. Init => BatchKept
    BY DEF Init, BatchKept
<1>2. Integrity /\ BatchKept /\ [Next]_vars
        => [\E r \in Requests :
              /\ pc[r] = "select" /\ pc'[r] = "committed"
              /\ batch[r] \cap Recorded = {}
              /\ Recorded' = Recorded \cup batch[r]]_rows
  <2>. SUFFICES ASSUME Integrity, BatchKept, [Next]_vars, rows' # rows
                PROVE  \E r \in Requests :
                          /\ pc[r] = "select" /\ pc'[r] = "committed"
                          /\ batch[r] \cap Recorded = {}
                          /\ Recorded' = Recorded \cup batch[r]
      OBVIOUS
  <2>1. PICK r \in Requests : Commit(r)
      BY DEF Next, Handler, vars, Receive, LockHead, MissHead, InsertHead,
             InsertHeadConflict, CommitConflict, DeadlockVictim, Crash, Stage, Abort
  <2>. QED BY <2>1, CommitIsWhole
<1>. QED BY <1>1, <1>2, BatchNext, IngestIntegrity, PTL DEF Spec, WholeBatches
=============================================================================
