------------------------- MODULE EvidenceAudit_proofs -------------------------
(***************************************************************************)
(* Proofs about EvidenceAudit for any contents, stamps and signers, any    *)
(* length of the chain and any amount of damage: what a known hash vouches *)
(* for was written, the tool agrees with the API, and anchors leave no     *)
(* hole.                                                                   *)
(*                                                                         *)
(* Nothing is assumed of damaged rows but that they have columns.  A row   *)
(* with the hash of a written row, and sound, was hashed from the same     *)
(* content, stamp and previous hash; so the row before it has the hash of  *)
(* the written one as well, and so on down to the first.                   *)
(***************************************************************************)
EXTENDS EvidenceAudit, FiniteSetTheorems, WellFoundedInduction, TLAPS

-----------------------------------------------------------------------------
(* Numbers and tables. *)

\* A set of numbers that is not empty has a least one.
LEMMA LeastNumber ==
    ASSUME NEW S \in SUBSET Nat, S # {}
    PROVE  \E n \in S : \A m \in S : n <= m
<1>. DEFINE R == OpToRel(<, Nat)
<1>1. IsWellFoundedOn(R, Nat)
    BY NatLessThanWellFounded
<1>. HIDE DEF R
<1>2. PICK n \in S : \A m \in S : ~(<<m, n>> \in R)
    BY <1>1, WFMin
<1>3. \A m \in S : m < n => <<m, n>> \in R
    BY DEF R, OpToRel
<1>4. \A m \in S : ~(m < n) => n <= m
    OBVIOUS
<1>. QED BY <1>2, <1>3, <1>4

\* Multiplying is undone by dividing.
LEMMA DivideBack ==
    ASSUME NEW K \in Nat \ {0}, NEW t \in Nat
    PROVE  (t * K) \div K = t
OBVIOUS

\* What is left of a table.
LEMMA RestrictShape ==
    ASSUME NEW table, NEW S
    PROVE  DOMAIN Restrict(table, S) = S /\ \A n \in S : Restrict(table, S)[n] = table[n]
BY DEF Restrict

\* The time that is stored of a stamp.
LEMMA StoredIsTime ==
    ASSUME NEW f \in Stamps
    PROVE  Stored(f) \in Nat
<1>1. f \in Nat
  <2>1. Base ^ Digits \in Nat
      BY PowersAssumption, AuditAssumption
  <2>. QED BY <2>1, AuditAssumption
<1>2. Base ^ (Digits - StoredDigits) \in Nat \ {0}
  <2>1. Digits - StoredDigits \in 0 .. Digits
      BY AuditAssumption
  <2>. QED BY <2>1, PowersAssumption
<1>. QED BY <1>1, <1>2 DEF Stored

-----------------------------------------------------------------------------
(* The inductive invariant. *)

\* The columns of a row.  Hashes are nested tuples and have no set of their own.
IsRow(r) == r.content \in Contents /\ r.ts \in Nat

\* Row n as ingestion writes it.
WrittenAt(r, n, prev) ==
    \E f \in Stamps :
        /\ r.ts = Stored(f) /\ r.prev = prev
        /\ r.hash = EventHash(r.content, GatewayText(f), n, prev)

\* Ingestion wrote a linked chain, and the head names its last row.
Written ==
    /\ head.seq \in 0 .. MaxRows
    /\ DOMAIN written = 1 .. head.seq
    /\ \A n \in 1 .. head.seq :
          IsRow(written[n]) /\ WrittenAt(written[n], n, PrevHash(written, n))
    /\ head.hash = PrevHash(written, head.seq + 1)

\* Stored rows are rows, and those that were written unless there was damage.
StoredRows ==
    /\ DOMAIN rows \subseteq 1 .. MaxRows
    /\ \A n \in DOMAIN rows : IsRow(rows[n])
    /\ damage = 0 => rows = written

\* The anchors name written rows, one of them ends last, and they leave no hole.
Anchored ==
    /\ \A a \in anchors :
          /\ a.start \in Nat /\ 1 <= a.start /\ a.start <= a.end
          /\ a.end \in 1 .. head.seq /\ a.hash = written[a.end].hash
    /\ anchors # {} => \E top \in anchors : \A a \in anchors : a.end <= top.end
    /\ AnchorsCover

\* The locals of a signer.
IsSigner(q) ==
    q \in [pc : {"idle", "prev", "insert", "signed", "refused"}, seq : Nat, hash : {q.hash},
           start : Nat]

\* What a signer has read: a written row, and where the anchors ended then.
HasReadHead(q) == q.seq \in 1 .. head.seq /\ q.hash = written[q.seq].hash

HasReadPrev(q) ==
    /\ 1 <= q.start /\ q.start <= q.seq
    /\ q.start = 1 \/ \E a \in anchors : q.start <= a.end + 1

Signing ==
    /\ DOMAIN signer = Signers
    /\ \A s \in Signers :
          /\ IsSigner(signer[s])
          /\ signer[s].pc \in {"prev", "insert"} => HasReadHead(signer[s])
          /\ signer[s].pc = "insert" => HasReadPrev(signer[s])

\* What an export has read.
Exporting ==
    /\ export \in [pc : {"events", "anchors", "verify", "done"}, events : {export.events},
                   anchors : SUBSET anchors, checked : {export.checked}, ok : BOOLEAN]
    /\ export.pc = "done" /\ export.ok /\ damage = 0 =>
          \A a \in export.anchors : a.end <= export.checked

AuditInv ==
    Written /\ StoredRows /\ Anchored /\ Signing /\ Exporting /\ damage \in 0 .. MaxDamage

-----------------------------------------------------------------------------

\* The invariant holds of an empty chain.
LEMMA AuditInvInit == Init => AuditInv
<1>. SUFFICES ASSUME Init PROVE AuditInv
    OBVIOUS
<1>1. /\ written = <<>> /\ rows = <<>> /\ DOMAIN <<>> = {} /\ 1 .. 0 = {}
      /\ anchors = {} /\ head = [seq |-> 0, hash |-> Genesis] /\ damage = 0
      /\ MaxRows \in Nat /\ MaxDamage \in Nat
    BY AuditAssumption DEF Init
<1>2. Written
    BY <1>1 DEF Written, PrevHash
<1>3. StoredRows
    BY <1>1 DEF StoredRows
<1>4. Anchored
    BY <1>1 DEF Anchored, AnchorsCover
<1>5. Signing
    BY DEF Init, Signing, IsSigner, Idle
<1>6. Exporting
    BY <1>1 DEF Init, Exporting, NoExport
<1>. QED BY <1>1, <1>2, <1>3, <1>4, <1>5, <1>6 DEF AuditInv

\* A fresh row has the columns of rows.
LEMMA RowType ==
    ASSUME NEW content \in Contents, NEW f \in Stamps, NEW n, NEW prev
    PROVE  IsRow(Row(content, f, n, prev)) /\ WrittenAt(Row(content, f, n, prev), n, prev)
BY StoredIsTime DEF Row, IsRow, WrittenAt

\* Ingestion lengthens the chain and leaves what is anchored or read alone.
LEMMA IngestPreserves ==
    ASSUME AuditInv, NEW content \in Contents, NEW f \in Stamps, Ingest(content, f)
    PROVE  AuditInv'
<1>. DEFINE n == head.seq + 1
            r == Row(content, f, n, head.hash)
<1>1. /\ Written /\ StoredRows /\ Anchored /\ Signing /\ Exporting
      /\ MaxRows \in Nat /\ head.seq \in Nat /\ n \in 1 .. MaxRows
      /\ 1 .. head.seq \cup {n} = 1 .. n /\ DOMAIN written = 1 .. head.seq
      /\ head.hash = PrevHash(written, n)
    BY AuditAssumption DEF AuditInv, Written, Ingest
<1>2. IsRow(r) /\ WrittenAt(r, n, head.hash)
    BY RowType
<1>3. /\ rows' = With(rows, n, r) /\ written' = With(written, n, r)
      /\ head' = [seq |-> n, hash |-> r.hash]
      /\ UNCHANGED <<anchors, signer, export, damage>>
    BY DEF Ingest
<1>. HIDE DEF n, r
<1>4. /\ DOMAIN written' = 1 .. n /\ written'[n] = r
      /\ \A i \in 1 .. head.seq : written'[i] = written[i]
  <2>1. n \notin 1 .. head.seq
      BY <1>1 DEF n
  <2>. QED BY <1>1, <1>3, <2>1 DEF With
<1>5. Written'
  <2>1. \A i \in 1 .. n : PrevHash(written', i) = PrevHash(written, i)
      BY <1>1, <1>4 DEF PrevHash, n
  <2>2. ASSUME NEW i \in 1 .. n
        PROVE  IsRow(written'[i]) /\ WrittenAt(written'[i], i, PrevHash(written', i))
    <3>1. CASE i = n
        BY <1>1, <1>2, <1>4, <2>1, <3>1
    <3>2. CASE i # n
      <4>1. i \in 1 .. head.seq
          BY <1>1, <3>2 DEF n
      <4>. QED BY <1>1, <1>4, <2>1, <4>1 DEF Written
    <3>. QED BY <3>1, <3>2
  <2>3. head'.seq = n /\ head'.hash = PrevHash(written', n + 1) /\ n \in 0 .. MaxRows
      BY <1>1, <1>3, <1>4 DEF PrevHash
  <2>. QED BY <1>4, <2>2, <2>3 DEF Written
<1>6. StoredRows'
  <2>1. DOMAIN rows' = DOMAIN rows \cup {n}
        /\ \A m \in DOMAIN rows \cup {n} : rows'[m] = IF m = n THEN r ELSE rows[m]
      BY <1>3 DEF With
  <2>. QED BY <1>1, <1>2, <1>3, <2>1 DEF StoredRows
<1>7. head'.seq = n /\ 1 .. head.seq \subseteq 1 .. n
    BY <1>1, <1>3
<1>8. Anchored'
    BY <1>1, <1>3, <1>4, <1>7 DEF Anchored, AnchorsCover
<1>9. Signing'
    BY <1>1, <1>3, <1>4, <1>7 DEF Signing, HasReadHead, HasReadPrev
<1>10. Exporting'
    BY <1>1, <1>3 DEF Exporting
<1>. QED BY <1>3, <1>5, <1>6, <1>8, <1>9, <1>10 DEF AuditInv

\* Damage leaves rows behind, and what was written, anchored or read alone.
LEMMA DamagePreserves ==
    ASSUME AuditInv, Damage
    PROVE  AuditInv'
<1>1. /\ Written /\ StoredRows /\ Anchored /\ Signing /\ Exporting
      /\ damage \in Nat /\ MaxDamage \in Nat /\ damage < MaxDamage
    BY AuditAssumption DEF AuditInv, Damage
<1>2. /\ UNCHANGED <<written, head, anchors, signer, export>>
      /\ damage' = damage + 1 /\ damage' \in 0 .. MaxDamage /\ damage' # 0
    BY <1>1 DEF Damage
<1>3. Written' /\ Signing'
    BY <1>1, <1>2 DEF Written, WrittenAt, PrevHash, Signing, HasReadHead, HasReadPrev
<1>4. Anchored' /\ Exporting'
    BY <1>1, <1>2 DEF Anchored, AnchorsCover, Exporting
<1>5. DOMAIN rows' \subseteq 1 .. MaxRows /\ \A n \in DOMAIN rows' : IsRow(rows'[n])
  <2>1. CASE \E n \in 1 .. MaxRows : Forge(n)
    <3>1. PICK n \in 1 .. MaxRows, content \in Contents, t \in Times :
             \E prev, hash :
                rows' = With(rows, n, [content |-> content, ts |-> t, prev |-> prev, hash |-> hash])
        BY <2>1 DEF Forge
    <3>2. PICK prev, hash :
             rows' = With(rows, n, [content |-> content, ts |-> t, prev |-> prev, hash |-> hash])
        BY <3>1
    <3>. DEFINE r == [content |-> content, ts |-> t, prev |-> prev, hash |-> hash]
    <3>3. IsRow(r)
        BY DEF IsRow, Times
    <3>. HIDE DEF r
    <3>4. rows' = With(rows, n, r)
        BY <3>2 DEF r
    <3>. QED BY <1>1, <3>3, <3>4 DEF With, StoredRows
  <2>2. CASE \E n \in DOMAIN rows : Lose(n)
      BY <1>1, <2>2, RestrictShape DEF StoredRows, Lose
  <2>3. CASE \E n \in DOMAIN rows : \E m \in 1 .. MaxRows \ DOMAIN rows : Renumber(n, m)
    <3>1. PICK n \in DOMAIN rows, m \in 1 .. MaxRows :
             rows' = With(Restrict(rows, DOMAIN rows \ {n}), m, rows[n])
        BY <2>3 DEF Renumber
    <3>. DEFINE rest == Restrict(rows, DOMAIN rows \ {n})
    <3>2. DOMAIN rest = DOMAIN rows \ {n} /\ \A i \in DOMAIN rest : rest[i] = rows[i]
        BY RestrictShape
    <3>. HIDE DEF rest
    <3>3. rows' = With(rest, m, rows[n])
        BY <3>1 DEF rest
    <3>4. DOMAIN rows' = DOMAIN rest \cup {m}
          /\ \A i \in DOMAIN rest \cup {m} : rows'[i] = IF i = m THEN rows[n] ELSE rest[i]
        BY <3>3 DEF With
    <3>. QED BY <1>1, <3>2, <3>4 DEF StoredRows
  <2>. QED BY <2>1, <2>2, <2>3 DEF Damage
<1>. QED BY <1>2, <1>3, <1>4, <1>5 DEF AuditInv, StoredRows

-----------------------------------------------------------------------------
(* Anchors. *)

\* The largest element of a set of numbers that has one.
LEMMA MaxOf ==
    ASSUME NEW S, S \subseteq Nat, NEW top \in S, \A n \in S : n <= top
    PROVE  Max(S) = top
<1>1. \A n \in S : top >= n
    OBVIOUS
<1>2. \A x \in S : (\A n \in S : x >= n) => x = top
    OBVIOUS
<1>. QED BY <1>1, <1>2 DEF Max

\* The next anchor begins right after the last one.
LEMMA FirstUnanchoredIs ==
    ASSUME Anchored
    PROVE  /\ FirstUnanchored \in Nat /\ FirstUnanchored >= 1
           /\ FirstUnanchored = 1 \/ \E a \in anchors : FirstUnanchored = a.end + 1
<1>1. CASE anchors = {}
    BY <1>1 DEF FirstUnanchored
<1>2. CASE anchors # {}
  <2>. DEFINE S == {a.end : a \in anchors}
  <2>1. PICK top \in anchors : \A a \in anchors : a.end <= top.end
      BY <1>2 DEF Anchored
  <2>2. S \subseteq Nat /\ top.end \in S /\ \A n \in S : n <= top.end
      BY <2>1 DEF Anchored
  <2>. HIDE DEF S
  <2>3. Max(S) = top.end
      BY <2>2, MaxOf
  <2>4. FirstUnanchored = top.end + 1
      BY <1>2, <2>3 DEF FirstUnanchored, S
  <2>5. top.end \in Nat
      BY <2>2
  <2>. QED BY <2>1, <2>4, <2>5
<1>. QED BY <1>1, <1>2

\* Steps of a signer.
LEMMA SignerPreserves ==
    ASSUME AuditInv, NEW s \in Signers, ReadHead(s) \/ ReadPrev(s) \/ Insert(s)
    PROVE  AuditInv'
<1>1. /\ Written /\ StoredRows /\ Anchored /\ Signing /\ Exporting
      /\ head.seq \in Nat /\ head.hash = PrevHash(written, head.seq + 1)
      /\ signer[s] \in [pc : {"idle", "prev", "insert", "signed", "refused"}, seq : Nat,
                        hash : {signer[s].hash}, start : Nat]
    BY AuditAssumption DEF AuditInv, Written, Signing, IsSigner
<1>2. UNCHANGED <<rows, written, head, export, damage>>
    BY DEF ReadHead, ReadPrev, Insert
<1>3. Written' /\ StoredRows' /\ damage' \in 0 .. MaxDamage
    BY <1>1, <1>2 DEF AuditInv, Written, WrittenAt, PrevHash, StoredRows
<1>4. ASSUME NEW q, IsSigner(q), signer' = [signer EXCEPT ![s] = q], anchors' = anchors,
             q.pc \in {"prev", "insert"} => HasReadHead(q),
             q.pc = "insert" => HasReadPrev(q)
      PROVE  AuditInv'
  <2>1. Signing'
      BY <1>1, <1>2, <1>4 DEF Signing, HasReadHead, HasReadPrev
  <2>2. Anchored' /\ Exporting'
      BY <1>1, <1>2, <1>4 DEF Anchored, AnchorsCover, Exporting
  <2>. QED BY <1>2, <1>3, <2>1, <2>2 DEF AuditInv
<1>5. CASE ReadHead(s)
  <2>. DEFINE q == [Idle EXCEPT !.pc = IF head.seq = 0 THEN "refused" ELSE "prev",
                                !.seq = head.seq, !.hash = head.hash]
  <2>1. signer' = [signer EXCEPT ![s] = q] /\ anchors' = anchors
      BY <1>5 DEF ReadHead
  <2>2. /\ IsSigner(q) /\ q.seq = head.seq /\ q.hash = head.hash
        /\ q.pc = IF head.seq = 0 THEN "refused" ELSE "prev"
      BY <1>1 DEF Idle, IsSigner
  <2>. HIDE DEF q
  <2>3. q.pc \in {"prev", "insert"} => HasReadHead(q)
      BY <1>1, <2>2 DEF HasReadHead, PrevHash
  <2>. QED BY <1>4, <2>1, <2>2, <2>3
<1>6. CASE ReadPrev(s)
  <2>. DEFINE q == [signer[s] EXCEPT
                       !.pc = IF signer[s].seq < FirstUnanchored THEN "refused" ELSE "insert",
                       !.start = FirstUnanchored]
  <2>1. signer' = [signer EXCEPT ![s] = q] /\ anchors' = anchors /\ signer[s].pc = "prev"
      BY <1>6 DEF ReadPrev
  <2>2. /\ FirstUnanchored \in Nat /\ FirstUnanchored >= 1
        /\ FirstUnanchored = 1 \/ \E a \in anchors : FirstUnanchored = a.end + 1
      BY <1>1, FirstUnanchoredIs
  <2>3. /\ IsSigner(q) /\ q.seq = signer[s].seq /\ q.hash = signer[s].hash
        /\ q.pc = IF signer[s].seq < FirstUnanchored THEN "refused" ELSE "insert"
        /\ q.start = FirstUnanchored
      BY <1>1, <2>2 DEF IsSigner
  <2>. HIDE DEF q
  <2>4. HasReadHead(q)
      BY <1>1, <2>1, <2>3 DEF Signing, HasReadHead
  <2>5. q.pc = "insert" => HasReadPrev(q)
    <3>1. \A a \in anchors : a.end \in Nat
        BY <1>1 DEF Anchored
    <3>. QED BY <1>1, <2>2, <2>3, <3>1 DEF HasReadPrev
  <2>. QED BY <1>4, <2>1, <2>3, <2>4, <2>5
<1>7. CASE Insert(s)
  <2>. DEFINE q == signer[s]
              new == [start |-> q.start, end |-> q.seq, hash |-> q.hash, by |-> s]
  <2>1. /\ anchors' = anchors \cup {new} /\ q.pc = "insert"
        /\ signer' = [signer EXCEPT ![s].pc = "signed"]
      BY <1>7 DEF Insert
  <2>2. /\ new.start = q.start /\ new.end = q.seq /\ new.hash = q.hash
        /\ HasReadHead(q) /\ HasReadPrev(q) /\ q.start \in Nat /\ q.seq \in Nat
      BY <1>1, <2>1 DEF Signing
  <2>. HIDE DEF new, q
  <2>3. \A a \in anchors' :
          /\ a.start \in Nat /\ 1 <= a.start /\ a.start <= a.end
          /\ a.end \in 1 .. head.seq /\ a.hash = written[a.end].hash
      BY <1>1, <2>1, <2>2 DEF Anchored, HasReadHead, HasReadPrev
  <2>4. \E top \in anchors' : \A a \in anchors' : a.end <= top.end
    <3>1. CASE anchors = {}
        BY <2>1, <2>2, <3>1
    <3>2. CASE anchors # {}
      <4>1. PICK top \in anchors : \A a \in anchors : a.end <= top.end
          BY <1>1, <3>2 DEF Anchored
      <4>2. top.end \in Nat /\ new.end \in Nat /\ \A a \in anchors : a.end \in Nat
          BY <1>1, <2>2 DEF Anchored
      <4>3. CASE top.end >= new.end
          BY <2>1, <4>1, <4>2, <4>3
      <4>4. CASE new.end >= top.end
          BY <2>1, <4>1, <4>2, <4>4
      <4>. QED BY <4>2, <4>3, <4>4
    <3>. QED BY <3>1, <3>2
  <2>5. AnchorsCover'
    <3>. SUFFICES ASSUME NEW a \in anchors', NEW n \in 1 .. a.end
                  PROVE  \E b \in anchors' : n \in b.start .. b.end
        BY DEF AnchorsCover
    <3>1. CASE a \in anchors
        BY <1>1, <2>1, <3>1 DEF Anchored, AnchorsCover
    <3>2. CASE a = new /\ n >= new.start
        BY <2>1, <2>2, <3>2
    <3>3. CASE a = new /\ n < new.start
      <4>1. PICK b \in anchors : q.start <= b.end + 1
          BY <2>2, <3>3 DEF HasReadPrev
      <4>2. n \in 1 .. b.end
        <5>1. b.end \in Nat
            BY <1>1 DEF Anchored
        <5>2. n \in Nat /\ 1 <= n
            BY <2>2, <3>3
        <5>. QED BY <2>2, <3>3, <4>1, <5>1, <5>2
      <4>. QED BY <1>1, <2>1, <4>2 DEF Anchored, AnchorsCover
    <3>4. n >= new.start \/ n < new.start
      <4>1. a.end \in Nat
          BY <2>3
      <4>. QED BY <2>2, <4>1
    <3>. QED BY <2>1, <3>1, <3>2, <3>3, <3>4
  <2>6. Anchored'
      BY <1>2, <2>3, <2>4, <2>5 DEF Anchored
  <2>7. Signing'
    <3>. DEFINE q2 == [signer[s] EXCEPT !.pc = "signed"]
    <3>1. signer' = [signer EXCEPT ![s] = q2]
        BY <2>1
    <3>2. IsSigner(q2) /\ q2.pc = "signed"
        BY <1>1 DEF IsSigner
    <3>. HIDE DEF q2
    <3>3. \A p : HasReadPrev(p) => HasReadPrev(p)'
        BY <2>1 DEF HasReadPrev
    <3>. QED BY <1>1, <1>2, <2>1, <3>1, <3>2 DEF Signing, HasReadHead, HasReadPrev
  <2>8. Exporting'
      BY <1>1, <1>2, <2>1 DEF Exporting
  <2>. QED BY <1>3, <2>6, <2>7, <2>8 DEF AuditInv
<1>. QED BY <1>5, <1>6, <1>7

-----------------------------------------------------------------------------
(* Exports. *)

\* A verification without complaint has found every row sound and counted them all.
LEMMA VerifyCounts ==
    ASSUME NEW table
    PROVE  /\ Verify(table).ok \in BOOLEAN
           /\ Verify(table).ok <=> \A n \in DOMAIN table : Sound(table, n)
           /\ Verify(table).ok => Verify(table).checked = Cardinality(DOMAIN table)
<1>. DEFINE bad == {n \in DOMAIN table : ~Sound(table, n)}
<1>1. Verify(table) = [ok |-> bad = {},
                       checked |-> Cardinality({n \in DOMAIN table : \A b \in bad : n < b})]
    BY DEF Verify
<1>2. bad = {} => {n \in DOMAIN table : \A b \in bad : n < b} = DOMAIN table
    OBVIOUS
<1>3. bad = {} <=> \A n \in DOMAIN table : Sound(table, n)
    OBVIOUS
<1>4. Verify(table).ok = (bad = {})
      /\ Verify(table).checked = Cardinality({n \in DOMAIN table : \A b \in bad : n < b})
    BY <1>1
<1>. HIDE DEF bad
<1>. QED BY <1>2, <1>3, <1>4

\* Steps of an export.
LEMMA ExportPreserves ==
    ASSUME AuditInv, ExportEvents \/ ExportAnchors \/ ExportVerify
    PROVE  AuditInv'
<1>1. /\ Written /\ StoredRows /\ Anchored /\ Signing
      /\ export \in [pc : {"events", "anchors", "verify", "done"}, events : {export.events},
                     anchors : SUBSET anchors, checked : {export.checked}, ok : BOOLEAN]
      /\ UNCHANGED <<rows, written, head, anchors, signer, damage>>
    BY DEF AuditInv, Exporting, ExportEvents, ExportAnchors, ExportVerify
<1>2. Written' /\ StoredRows' /\ damage' \in 0 .. MaxDamage
    BY <1>1 DEF AuditInv, Written, WrittenAt, PrevHash, StoredRows
<1>3. Anchored' /\ Signing'
    BY <1>1 DEF Anchored, AnchorsCover, Signing, HasReadHead, HasReadPrev
<1>4. CASE ExportEvents
  <2>1. export' = [export EXCEPT !.pc = "anchors", !.events = DOMAIN rows]
      BY <1>4 DEF ExportEvents
  <2>2. Exporting'
      BY <1>1, <2>1 DEF Exporting
  <2>. QED BY <1>2, <1>3, <2>2 DEF AuditInv
<1>5. CASE ExportAnchors
  <2>1. export' = [export EXCEPT !.pc = "verify", !.anchors = anchors]
      BY <1>5 DEF ExportAnchors
  <2>2. anchors \in SUBSET anchors
      OBVIOUS
  <2>3. Exporting'
      BY <1>1, <2>1, <2>2 DEF Exporting
  <2>. QED BY <1>2, <1>3, <2>3 DEF AuditInv
<1>6. CASE ExportVerify
  <2>. DEFINE report == Verify(rows)
  <2>1. export' = [export EXCEPT !.pc = "done", !.ok = report.ok, !.checked = report.checked]
      BY <1>6 DEF ExportVerify
  <2>2. report.ok \in BOOLEAN /\ (report.ok => report.checked = Cardinality(DOMAIN rows))
      BY VerifyCounts
  <2>. HIDE DEF report
  <2>3. /\ export' \in [pc : {"events", "anchors", "verify", "done"}, events : {export.events},
                         anchors : SUBSET anchors, checked : {report.checked}, ok : BOOLEAN]
        /\ export'.checked = report.checked /\ export'.anchors \subseteq anchors
        /\ export'.ok = report.ok /\ export'.events = export.events
      BY <1>1, <2>1, <2>2
  <2>4. damage = 0 => Cardinality(DOMAIN rows) = head.seq
    <3>1. head.seq \in Nat /\ DOMAIN written = 1 .. head.seq
        BY <1>1 DEF Written
    <3>2. Cardinality(1 .. head.seq) = head.seq
        BY <3>1, FS_Interval
    <3>. QED BY <1>1, <3>1, <3>2 DEF StoredRows
  <2>5. \A a \in anchors : a.end <= head.seq
      BY <1>1 DEF Anchored, Written
  <2>6. Exporting'
      BY <1>1, <2>2, <2>3, <2>4, <2>5 DEF Exporting
  <2>. QED BY <1>2, <1>3, <2>6 DEF AuditInv
<1>. QED BY <1>4, <1>5, <1>6

\* Every step preserves the invariant.
LEMMA AuditInvNext == AuditInv /\ [Next]_vars => AuditInv'
<1>. SUFFICES ASSUME AuditInv, [Next]_vars PROVE AuditInv'
    OBVIOUS
<1>1. CASE UNCHANGED vars
    BY <1>1 DEF vars, AuditInv, Written, WrittenAt, PrevHash, StoredRows, Anchored, AnchorsCover,
       Signing, HasReadHead, HasReadPrev, Exporting
<1>. QED BY <1>1, IngestPreserves, DamagePreserves, SignerPreserves, ExportPreserves DEF Next

-----------------------------------------------------------------------------
(* The theorems. *)

\* The inductive invariant holds of every reachable state.
THEOREM AuditInvariant == Spec => []AuditInv
    BY AuditInvInit, AuditInvNext, PTL DEF Spec

\* Rows, anchors, signers and exports keep their types.
THEOREM AuditTypeCorrect == Spec => []TypeOK
<1>1. AuditInv => TypeOK
  <2>. SUFFICES ASSUME AuditInv PROVE TypeOK
      OBVIOUS
  <2>1. head.seq \in 0 .. MaxRows /\ MaxRows \in Nat
      BY AuditAssumption DEF AuditInv, Written
  <2>2. /\ DOMAIN rows \subseteq 1 .. MaxRows /\ DOMAIN written \subseteq 1 .. MaxRows
        /\ \A n \in DOMAIN rows : IsRow(rows[n])
        /\ \A n \in DOMAIN written : IsRow(written[n])
      BY <2>1 DEF AuditInv, Written, StoredRows
  <2>3. \A a \in anchors : [start |-> a.start, end |-> a.end] \in Windows
    <3>. SUFFICES ASSUME NEW a \in anchors PROVE [start |-> a.start, end |-> a.end] \in Windows
        OBVIOUS
    <3>1. a.start \in 1 .. MaxRows /\ a.end \in 1 .. MaxRows
        BY <2>1 DEF AuditInv, Anchored
    <3>. QED BY <3>1 DEF Windows
  <2>4. \A s \in Signers : signer[s].pc \in {"idle", "prev", "insert", "signed", "refused"}
      BY DEF AuditInv, Signing, IsSigner
  <2>5. /\ export.pc \in {"events", "anchors", "verify", "done"} /\ export.anchors \subseteq anchors
        /\ damage \in 0 .. MaxDamage
      BY DEF AuditInv, Exporting
  <2>. QED BY <2>1, <2>2, <2>3, <2>4, <2>5 DEF TypeOK, IsRow
<1>. QED BY <1>1, AuditInvariant, PTL

\* A sound row with the hash of a written row says the same, and so does the hash
\* of the row before it.
LEMMA SameHashSameRow ==
    ASSUME AuditInv, NEW n \in DOMAIN rows \cap DOMAIN written,
           Sound(rows, n), rows[n].hash = written[n].hash
    PROVE  /\ Says(rows, n) = Says(written, n)
           /\ n # 1 => n - 1 \in DOMAIN rows /\ rows[n - 1].hash = written[n - 1].hash
<1>1. PICK f \in Stamps :
         /\ written[n].ts = Stored(f)
         /\ written[n].hash = EventHash(written[n].content, GatewayText(f), n, PrevHash(written, n))
    BY DEF AuditInv, Written, WrittenAt
<1>2. /\ rows[n].content = written[n].content
      /\ IsoText(rows[n].ts) = GatewayText(f)
      /\ PrevHash(rows, n) = PrevHash(written, n)
  <2>1. EventHash(rows[n].content, IsoText(rows[n].ts), n, PrevHash(rows, n))
            = EventHash(written[n].content, GatewayText(f), n, PrevHash(written, n))
      BY <1>1 DEF Sound, RowHash
  <2>. QED BY <2>1 DEF EventHash
<1>3. rows[n].ts = written[n].ts
  <2>. DEFINE K == Base ^ (Digits - StoredDigits)
  <2>1. K \in Nat \ {0}
    <3>1. Digits - StoredDigits \in 0 .. Digits
        BY AuditAssumption
    <3>. QED BY <3>1, PowersAssumption
  <2>2. rows[n].ts * K = f
    <3>1. IsoText(rows[n].ts).frac = rows[n].ts * K
        BY DEF IsoText
    <3>2. GatewayText(f).frac = f
        BY DEF GatewayText
    <3>. QED BY <1>2, <3>1, <3>2
  <2>3. Stored(f) = f \div K
      BY DEF Stored
  <2>4. rows[n].ts \in Nat
      BY DEF AuditInv, StoredRows, IsRow
  <2>. HIDE DEF K
  <2>5. (rows[n].ts * K) \div K = rows[n].ts
      BY <2>1, <2>4, DivideBack
  <2>. QED BY <1>1, <2>2, <2>3, <2>5
<1>4. Says(rows, n) = Says(written, n)
    BY <1>2, <1>3 DEF Says
<1>5. n # 1 => n - 1 \in DOMAIN rows /\ rows[n - 1].hash = written[n - 1].hash
    BY <1>2 DEF Sound, PrevHash
<1>. QED BY <1>4, <1>5

\* In a chain that verifies, whatever was done to its rows, a hash that is known
\* vouches for all that is below it.
THEOREM AuditVerifiedIsWritten == Spec => []VerifiedIsWritten
<1>1. AuditInv => VerifiedIsWritten
  <2>. SUFFICES ASSUME AuditInv, Verify(rows).ok,
                       NEW n \in DOMAIN rows \cap DOMAIN written,
                       rows[n].hash = written[n].hash,
                       NEW i \in 1 .. n
                PROVE  i \in DOMAIN rows /\ Says(rows, i) = Says(written, i)
      BY DEF VerifiedIsWritten
  <2>. DEFINE Same(k) == k \in DOMAIN rows /\ rows[k].hash = written[k].hash
              Far == {d \in 0 .. n - 1 : ~Same(n - d)}
  <2>1. head.seq \in Nat /\ DOMAIN written = 1 .. head.seq /\ n \in 1 .. head.seq
      BY DEF AuditInv, Written
  <2>2. \A k \in DOMAIN rows : Sound(rows, k)
      BY VerifyCounts
  <2>3. ASSUME NEW k \in 1 .. n, Same(k)
        PROVE  Says(rows, k) = Says(written, k) /\ (k # 1 => Same(k - 1))
    <3>1. k \in DOMAIN rows \cap DOMAIN written
        BY <2>1, <2>3
    <3>. QED BY <2>2, <2>3, <3>1, SameHashSameRow
  <2>4. Far = {}
    <3>. SUFFICES ASSUME Far # {} PROVE FALSE
        OBVIOUS
    <3>1. Far \subseteq Nat
        BY <2>1
    <3>2. PICK d \in Far : \A e \in Far : d <= e
        BY <3>1, LeastNumber
    <3>3. d \in 0 .. n - 1 /\ ~Same(n - d)
        OBVIOUS
    <3>4. d # 0
      <4>1. Same(n)
          OBVIOUS
      <4>2. n - 0 = n
          BY <2>1
      <4>. QED BY <3>3, <4>1, <4>2
    <3>5. d - 1 \in 0 .. n - 1 /\ ~(d <= d - 1)
        BY <2>1, <3>3, <3>4
    <3>6. Same(n - (d - 1))
        BY <3>2, <3>5
    <3>7. n - (d - 1) \in 1 .. n /\ n - (d - 1) # 1 /\ (n - (d - 1)) - 1 = n - d
        BY <2>1, <3>3, <3>4
    <3>. HIDE DEF Far, Same
    <3>. QED BY <2>3, <3>3, <3>6, <3>7
  <2>5. Same(i)
    <3>1. n - i \in 0 .. n - 1 /\ n - (n - i) = i
        BY <2>1
    <3>. QED BY <2>4, <3>1
  <2>. QED BY <2>3, <2>5
<1>. QED BY <1>1, AuditInvariant, PTL

\* An untouched chain verifies if its stamps read back as they were hashed.
THEOREM AuditReadableStampsVerify == Spec => []ReadableStampsVerify
<1>1. AuditInv => ReadableStampsVerify
  <2>. SUFFICES ASSUME AuditInv, rows = written,
                       \A n \in DOMAIN rows : RowHash(n, rows[n])[2] = rows[n].hash[2],
                       NEW n \in DOMAIN rows
                PROVE  Sound(rows, n)
      BY VerifyCounts DEF ReadableStampsVerify
  <2>1. head.seq \in Nat /\ DOMAIN rows = 1 .. head.seq
      BY DEF AuditInv, Written
  <2>2. n = 1 \/ n - 1 \in DOMAIN rows
      BY <2>1
  <2>3. PICK f \in Stamps :
           /\ rows[n].prev = PrevHash(rows, n)
           /\ rows[n].hash = EventHash(rows[n].content, GatewayText(f), n, PrevHash(rows, n))
      BY <2>1 DEF AuditInv, Written, WrittenAt
  <2>4. IsoText(rows[n].ts) = GatewayText(f)
    <3>1. RowHash(n, rows[n])[2] = IsoText(rows[n].ts)
        BY DEF RowHash, EventHash
    <3>2. rows[n].hash[2] = GatewayText(f)
        BY <2>3 DEF EventHash
    <3>. QED BY <3>1, <3>2
  <2>5. RowHash(n, rows[n]) = rows[n].hash
      BY <2>3, <2>4 DEF RowHash
  <2>. QED BY <2>2, <2>3, <2>5 DEF Sound
<1>. QED BY <1>1, AuditInvariant, PTL

\* A page is the beginning of the chain.
LEMMA PageShape ==
    ASSUME NEW table, DOMAIN table \subseteq 1 .. MaxRows, NEW n \in DOMAIN Page(table)
    PROVE  /\ n \in DOMAIN table /\ Page(table)[n] = table[n]
           /\ n - 1 \in DOMAIN table => n - 1 \in DOMAIN Page(table)
<1>. DEFINE Before(k) == {m \in DOMAIN table : m < k}
<1>1. /\ DOMAIN Page(table) = {k \in DOMAIN table : Cardinality(Before(k)) < PageLimit}
      /\ \A k \in DOMAIN Page(table) : Page(table)[k] = table[k]
    BY RestrictShape DEF Page
<1>2. n \in Nat /\ MaxRows \in Nat /\ \A m \in DOMAIN table : m \in Nat
    BY <1>1, AuditAssumption
<1>3. Before(n - 1) \subseteq Before(n)
    BY <1>2
<1>4. IsFiniteSet(Before(n))
  <2>1. IsFiniteSet(1 .. MaxRows)
      BY <1>2, FS_Interval
  <2>2. Before(n) \subseteq 1 .. MaxRows
      OBVIOUS
  <2>. QED BY <2>1, <2>2, FS_Subset
<1>5. /\ Cardinality(Before(n - 1)) <= Cardinality(Before(n))
      /\ Cardinality(Before(n - 1)) \in Nat /\ Cardinality(Before(n)) \in Nat
  <2>1. IsFiniteSet(Before(n - 1))
      BY <1>3, <1>4, FS_Subset
  <2>. QED BY <1>3, <1>4, <2>1, FS_Subset, FS_CardinalityType
<1>6. PageLimit \in Nat
    BY AuditAssumption
<1>. QED BY <1>1, <1>5, <1>6

\* The tool raises no alarm about its page that the API would not raise about
\* the chain, as long as both encode the events alike.
THEOREM AuditToolAgrees == Spec => []ToolAgrees
<1>1. AuditInv => ToolAgrees
  <2>. SUFFICES ASSUME AuditInv, Verify(rows).ok,
                       \A n \in DOMAIN Page(rows) : Page(rows)[n].content \notin Escaped,
                       NEW n \in DOMAIN Page(rows)
                PROVE  Sound(Page(rows), n)
      BY DEF ToolAgrees, ToolOk
  <2>1. DOMAIN rows \subseteq 1 .. MaxRows
      BY DEF AuditInv, StoredRows
  <2>2. /\ n \in DOMAIN rows /\ Page(rows)[n] = rows[n]
        /\ n - 1 \in DOMAIN rows => n - 1 \in DOMAIN Page(rows)
      BY <2>1, PageShape
  <2>3. Sound(rows, n)
      BY <2>2, VerifyCounts
  <2>4. n # 1 => n - 1 \in DOMAIN Page(rows) /\ Page(rows)[n - 1] = rows[n - 1]
    <3>1. \A k \in DOMAIN Page(rows) : Page(rows)[k] = rows[k]
        BY <2>1, PageShape
    <3>. QED BY <2>2, <2>3, <3>1 DEF Sound
  <2>. QED BY <2>2, <2>3, <2>4 DEF Sound, PrevHash
<1>. QED BY <1>1, AuditInvariant, PTL

\* The anchors leave out no row up to the last anchored one, however many
\* signers race with each other and with ingestion.
THEOREM AuditAnchorsCover == Spec => []AnchorsCover
    BY AuditInvariant, PTL DEF AuditInv, Anchored

\* Every anchor signs the hash of the row it ends with.
THEOREM AuditAnchorNamesRow == Spec => []AnchorNamesRow
<1>1. AuditInv => AnchorNamesRow
    BY DEF AuditInv, Anchored, AnchorNamesRow
<1>. QED BY <1>1, AuditInvariant, PTL

\* An export of a chain without damage shows no anchor beyond the rows it has checked.
THEOREM AuditExportCoversAnchors == Spec => []ExportCoversAnchors
<1>1. AuditInv => ExportCoversAnchors
    BY DEF AuditInv, Exporting, ExportCoversAnchors
<1>. QED BY <1>1, AuditInvariant, PTL
=============================================================================
